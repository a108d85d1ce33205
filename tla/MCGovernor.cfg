SPECIFICATION Spec
CONSTANTS
  Configs <- MCConfigs
  HardMax = 6
  FwPL1 = 6
  FwPL2 = 5
  Unit = 2
  Burst = 1
  CutStep = 2
  RecoverStep = 1
  ThermalStep = 1
  RecoverInterval = 2
  StaleTimeout = 2
  ThermalInterval = 2
  CutMinInterval = 2
  EmergencyHold = 3
  ReassertAfter = 4
  BackoffFirst = 1
  BackoffMax = 2
  Gaps = {1}
  Temps = {"hot", "cool"}
  Outcomes <- MCOutcomes
INVARIANT InForceAsCommanded
INVARIANT EmergencyAnswered
PROPERTY RaiseNeedsCalm
INVARIANT ReassertedInTime
INVARIANT UnderEffectiveCeiling
