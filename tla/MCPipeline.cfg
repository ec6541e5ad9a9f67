\* All programs of three instructions between an addition and an exit.
SPECIFICATION Spec
CONSTANTS
  Registers = {0, 1, 2}
  Modulus = 3
  Addresses = {0, 1}
  Entry = 1
  ExitCall <- ExitRegister
  Replies = {0, 2}
  CpuClock <- EveryOtherTick
  MemoryLatency = 2
  Programs <- ShortPrograms
  MaxBlocked = 1
  MaxEpoch = 2
  Watchdog = 120
INVARIANTS
  PortsStayInStep
  FaultsArePrecise
  EndsBeforeWatchdog
PROPERTY
  ImplementsIsa
