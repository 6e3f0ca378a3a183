CONSTANTS
  Runners <- MCOneRunner
  HostAdmission = TRUE
  FaultKinds = {"github", "coordinator", "worker", "docker"}
  MaxFaults = 2
  MaxCrashes = 1
  MaxStops = 1
  Targets = {1}
  Requests = {"retire"}
  Upgrades = {TRUE, FALSE}
SPECIFICATION FairSpec
PROPERTIES
  FenceLifted
  
  
  
