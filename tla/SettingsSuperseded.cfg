SPECIFICATION Spec
CONSTANTS
  Parts = {"settings"}
  c1 = c1  c2 = c2  b1 = b1  b2 = b2  v1 = v1  v2 = v2  left = left  right = right
  CrashAllowed = TRUE
  Clients = {c1}  Background = {b1}  Values = {v1, v2}
  Retries = 1  MaxSettingsOps = 1  Signals = FALSE  Edits = FALSE
  Fans = {left, right}  HwMin <- MCFanMin  KnownMin <- MCFanMin  FanMax <- MCFanMax
  Slack = 1  FanConfigs <- BothModes  PowerHyst = 2  RetryAfter = 3
  Temps <- MCTemps  Powers <- MCPowers  MaxFanOps = 1  MaxFailures = 1
  QueueMax = 2  MaxFiles = 2  Records = 3  Hours = 3  MaxLogFaults = 1  MaxStops = 1
  Boots = 3  MaxBootCrashes = 2
  Firmware = 4  HardMax = 3  Static = 2  ShellDefault = 2
  MaxStepAge = 3  PingEvery = 2  WatchdogSec = 5  StaleTimeout = 2  StartTimeout = 6
  MaxServiceCrashes = 1  MaxBoots = 1  MaxServiceFaults = 2  Silence = 10
  Count = 3  Layouts <- TwoOrders  RescanAge = 4  MaxOther = 1  MaxReboots = 3
  SlowEvery = 2  Periods = {1, 2}  MeanSpan = 1  AcpwSpan = 3  WindowKeep = 4  TempFresh = 2
  EnergyRange = 3  Uses = {1}  Blind = 1  Ticks = 4
PROPERTY RetrySuperseded
