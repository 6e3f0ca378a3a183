CONSTANTS
  c1 = c1
  c2 = c2
  probe1 = probe1
  Callers <- MCCallers
  Prober = probe1
  Slots = 2
  CrashRetryDelay = 2
  RateLimitDelay <- MCRateLimitDelay
  SuccessInterval = 5
  FailureInterval = 2
  FirstCheckDelay = 1
  Second = 2
  MaxFailures = 2
  MaxTime = 6
  MaxFaults = 1
  MaxCrashes = 1
SYMMETRY Alike
SPECIFICATION Spec
INVARIANTS
  CrashGuardOnDisk
  GuardShort
  QuietGateOpen
PROPERTIES
  
  ProbesPaced
