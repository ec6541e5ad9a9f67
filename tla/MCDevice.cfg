\* Launches at four TCU edges by two cores, with batches of three operations.
SPECIFICATION Spec
CONSTANTS
  CoreCount = 2
  Batches <- CoreBatches
  TwoQubitGates <- CzGate
  TcuPeriod = 2
  Failures = {1, 2}
  LastLaunch = 7
  MaxBatch = 3
  MaxEpoch = 2
INVARIANTS
  AcceptedWorkNeverFails
  ActiveActionsCompatible
  EvolutionIsGapless
  DrivesMatchPulses
  BatchingKeepsOrder
  ResultsDeliveredOnce
