\* Time points, synchronizations and the handshake: a CPU faster than the TCU,
\* an early or a late partner, and a reset.
SPECIFICATION Spec
CONSTANTS
  Ports = {1, 2}
  EventCapacity = 1
  FiringWidth = 1
  StagingCapacity = 2
  Qubits = {1}
  TimingCapacity = 2
  SyncCapacity = 1
  RegisterQubits = {1}
  ResultCapacity = 1
  FastFeedback = FALSE
  CpuClock <- FastCpu
  TcuClock <- TwoTickTcu
  CommandLatency = 1
  ReplyLatency = 1
  CpuResultLatency = 1
  FastResultLatency = 1
  Mapping <- CodewordMap
  Instructions <- TimingInstructions
  StartTick = 5
  SyncDelay = 4
  PeerDelays = {0, 8}
  ReadoutDelays = {1}
  Watchdog = 70
  MaxInstructions = 4
  MaxEpoch = 2
INVARIANTS
  NoProtocolFault
  HandshakeAgrees
  DuesFollowProgram
PROPERTIES
  WaitIsBarrier
  Terminates
