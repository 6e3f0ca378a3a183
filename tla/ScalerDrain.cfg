CONSTANTS
  Runners <- MCRunners
  HostAdmission = FALSE
  FaultKinds = {"github", "docker"}
  MaxFaults = 1
  MaxCrashes = 0
  MaxStops = 1
  Targets = {0, 2}
  Requests = {"maximum", "retire"}
  Upgrades = {TRUE}
SPECIFICATION Spec
INVARIANTS
  ScaleDownKeepsTarget
PROPERTIES
  DeregisteredBeforeStop
