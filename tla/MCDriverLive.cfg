SPECIFICATION FairSpec
CONSTANTS
  c1 = c1
  c2 = c2
  CPUs <- TwoCPUs
  Apple <- AppleMC
  Asked <- AskedOne
  FloorMW = 1
  MaximumMW = 9
  BootstrapMW = 5
  WatchdogPolls = 2
  NativeHWP = FALSE
  MaxFaults = 2
PROPERTIES
  HeartbeatOrRestore
  TamperingAnswered
  GuardComesBack
  FailSafeComesBack
  ProtectionSpec
