CONSTANTS
  Runners <- MCRunners
  HostAdmission = TRUE
  FaultKinds <- MCFaultKinds
  MaxFaults = 1
  MaxCrashes = 1
  MaxStops = 0
  Targets = {1}
  Requests = {}
  Upgrades = {TRUE, FALSE}
SPECIFICATION Spec
INVARIANTS
  TypeOK
  RegistrationAccounted
  RegistrationsWithinTarget
  LeaseAccounted
  AdoptedHoldsLease
