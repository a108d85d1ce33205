SPECIFICATION Spec
CONSTANTS
  c1 = c1
  c2 = c2
  CPUs <- TwoCPUs
  Apple <- AppleMC
  Asked <- AskedMC
  FloorMW = 1
  MaximumMW = 9
  BootstrapMW = 5
  WatchdogPolls = 3
  NativeHWP = FALSE
  MaxFaults = 3
SYMMETRY CPUSwaps
INVARIANTS
  BootstrapProtected
  ReleasedUnderLimits
  GuardOffOnlyReleased
  PassiveMeansSafe
