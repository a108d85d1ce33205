SPECIFICATION Spec
CONSTANTS
  Configs <- MCTwoConfigs
  HardMax = 6
  FwPL1 = 6
  FwPL2 = 5
  Unit = 1
  Burst = 1
  CutStep = 2
  RecoverStep = 1
  ThermalStep = 1
  RecoverInterval = 2
  StaleTimeout = 2
  ThermalInterval = 2
  CutMinInterval = 2
  EmergencyHold = 3
  ReassertAfter = 6
  BackoffFirst = 1
  BackoffMax = 4
  Gaps = {1}
  Temps = {"none"}
  Outcomes <- MCFewOutcomes
PROPERTY FallbackNotAboveInForce
