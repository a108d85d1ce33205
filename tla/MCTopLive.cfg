SPECIFICATION Spec
CONSTANTS
  Parts = {"stream", "settings", "gpu", "log", "incidents", "trend"}
  Clients = {c1}  SlowEvery = 2  Backlog = 1  Wire = 1  MaxVisitors = 0  MaxFaults = 2
  Inputs = {k1}  Selects = {gpu, k2}  Gpu = gpu  SettingsValues = {v0, off}  Default = v0
  SettingsOff = off  MaxSettingsElsewhere = 1  MaxWrites = 1  MaxSettingsLost = 1
  Modes = {auto, low, off}  Off = off  None = None  MaxPicks = 3  MaxElsewhere = 0  MaxLost = 1
  Types = {cut, write}  MaxEvents = 4  Ring = 3  Fetch = 2  MaxFails = 1
  Ids = {i1, i2, i3}  NoIncident = NoIncident  Error = Error  MaxDetailCalls = 3  MaxLists = 2
  Span = 1  Seed = 2  HistoryLen = 2  TrendValues = {1}  MaxTime = 2  MaxJumps = 1
  MaxRestarts = 1  MaxKeys = 0  MaxTrendCalls = 1
PROPERTIES
  ConnectionSettles 
