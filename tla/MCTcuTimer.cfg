\* The timer, its pauses and the deadlines: three points, two epochs.
SPECIFICATION Spec
CONSTANTS
  Ports = {1}
  Qubits = {}
  TimingCapacity = 2
  EventCapacity = 1
  FiringWidth = 1
  StagingCapacity = 1
  SyncCapacity = 1
  EventChoices <- NoEventChoices
  SyncChoices <- NoSyncChoices
  StartDelay = 1
  MaxInterval = 2
  MaxLabel = 3
  MaxEdge = 8
  MaxResult = 0
  MaxEpoch = 2
INVARIANTS
  TcuInv
  FiringEdgeAhead
  WaitZeroNeverLate
  StarvedTimerStandsAfterLastPoint
  DrainsWithTheTimeline
PROPERTIES
  ImplementsTimeline
CHECK_DEADLOCK FALSE
