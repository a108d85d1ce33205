SPECIFICATION Spec
CONSTANTS
  Parts = {"gpu", "settings", "fans", "log", "smc"}
  c1 = c1  c2 = c2  b1 = b1  b2 = b2  v1 = v1  v2 = v2  left = left  right = right
  CrashAllowed = FALSE
  Clients = {c1}  Background = {b1}  Values = {v1}
  Retries = 1  MaxSettingsOps = 2  Signals = FALSE  Edits = FALSE
  Fans = {right}  HwMin <- MCFanMin  KnownMin <- MCFanMin  FanMax <- MCFanMax
  Slack = 1  FanConfigs <- BothModes  PowerHyst = 2  RetryAfter = 3
  Temps <- FewTemps  Powers <- NoPower  MaxFanOps = 2  MaxFailures = 1
  QueueMax = 1  MaxFiles = 2  Records = 2  Hours = 2  MaxLogFaults = 1  MaxStops = 1
  Boots = 3  MaxBootCrashes = 2
  Firmware = 4  HardMax = 3  Static = 2  ShellDefault = 2
  MaxStepAge = 3  PingEvery = 2  WatchdogSec = 5  StaleTimeout = 2  StartTimeout = 6
  MaxServiceCrashes = 1  MaxBoots = 1  MaxServiceFaults = 2  Silence = 10
  Count = 3  Layouts <- TwoOrders  RescanAge = 4  MaxOther = 0  MaxReboots = 4
  SlowEvery = 2  Periods = {1, 2}  MeanSpan = 1  AcpwSpan = 3  WindowKeep = 4  TempFresh = 2
  EnergyRange = 3  Uses = {1}  Blind = 1  Ticks = 4
PROPERTIES
  ChangeEnds RequestsSettle FansSettle RecordsSettle 
