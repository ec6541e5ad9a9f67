SPECIFICATION Spec
CONSTANTS
  CommandLines <- MCOutcomeLines
  Programs <- MCPrograms
  Backends = {"cirq"}
  BaseProfiles <- MCBaseProfiles
  MeasurementIds <- MCMeasurementIds
INVARIANTS
  OmittedOutcomesReturnZero
