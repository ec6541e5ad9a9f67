SPECIFICATION Spec
CONSTANTS
  CommandLines <- MCCommandLines
  Programs <- MCPrograms
  Backends = {"cirq"}
  BaseProfiles <- MCBaseProfiles
  MeasurementIds <- MCMeasurementIds
INVARIANTS
  ConfiguredCodewordsPlay
  DumpReadsBack
