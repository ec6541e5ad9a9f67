\* The timing queue and the port queues at their limits, with conditions.
SPECIFICATION Spec
CONSTANTS
  Ports = {1, 2}
  Qubits = {1}
  TimingCapacity = 2
  EventCapacity = 1
  FiringWidth = 1
  StagingCapacity = 2
  SyncCapacity = 1
  EventChoices <- TwoPortChoices
  SyncChoices <- OneSyncChoices
  StartDelay = 1
  MaxInterval = 1
  MaxLabel = 3
  MaxEdge = 5
  MaxResult = 1
  MaxEpoch = 1
INVARIANTS
  PortQueuesMatchManifests
CHECK_DEADLOCK FALSE
