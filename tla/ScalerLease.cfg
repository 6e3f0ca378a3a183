CONSTANTS
  Runners <- MCRunners
  HostAdmission = TRUE
  FaultKinds = {"docker"}
  MaxFaults = 1
  MaxCrashes = 1
  MaxStops = 0
  Targets = {1}
  Requests = {}
  Upgrades = {FALSE}
SPECIFICATION Spec
INVARIANT
  AdoptedHoldsLease
