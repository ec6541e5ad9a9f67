\* Measurements and both feedback paths: a CPU slower than the TCU and out of
\* phase, with a result capacity of two.
SPECIFICATION Spec
CONSTANTS
  Ports = {1, 2}
  EventCapacity = 2
  FiringWidth = 1
  StagingCapacity = 2
  Qubits = {1}
  TimingCapacity = 3
  SyncCapacity = 1
  RegisterQubits = {1}
  ResultCapacity = 2
  FastFeedback = TRUE
  CpuClock <- SlowCpu
  TcuClock <- TwoTickTcu
  CommandLatency = 1
  ReplyLatency = 1
  CpuResultLatency = 1
  FastResultLatency = 1
  Mapping <- CodewordMap
  Instructions <- FeedbackInstructions
  StartTick = 21
  SyncDelay = 2
  PeerDelays = {0}
  ReadoutDelays = {1, 4}
  Watchdog = 90
  MaxInstructions = 5
  MaxEpoch = 1
INVARIANTS
  FetchReturnsLatest
  FeedbackPathsAgree
PROPERTIES
  Terminates
