\* One reset on edges and one between them; the watchdog lies between edges.
SPECIFICATION Spec
CONSTANTS
  Cores = {1, 2}
  CpuClock <- CpuClocks
  TcuClock <- SharedTcu
  Resets = {6, 11}
  Watchdog = 23
  MaxDelay = 3
  MaxWork = 4
INVARIANTS
  WorkInItsTick
  ResetsOnceAndAlone
PROPERTY
  BarrierEndsTick
