\* Two result slots, two request slots and slow links between two cores.
SPECIFICATION Spec
CONSTANTS
  WordBits = 1
  DecoderIds = {1, 2}
  CoreCount = 2
  DecoderConfig <- TwoDecoders
  Decode <- Ones
  RequestCapacity = 2
  ResultCapacity = 2
  LinkLatency = 1
  BytesPerTick = 1
  PacketOverhead = 2
  CpuPeriod = 3
  Menu <- CoreMenus
  LastAccess = 24
  MaxEpoch = 2
INVARIANTS
  CorrectionsAreOwnWork
  ResultSlotsMatchJobs
  StallNeedsConsumer
  SkippedTicksAreIdle
