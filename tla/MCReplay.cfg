CONSTANTS
  Bodies <- MCBodies
  Drifts <- MCDrifts
  Start = 10
  Period = 40
  Lag = 3
  MaxRepetitions = 5
SPECIFICATION Spec
INVARIANTS
  ReplaysFullRun
