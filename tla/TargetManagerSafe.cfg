SPECIFICATION Spec
CONSTANTS
  Keys <- MCKeys
  MaxGeneration = 3
  TargetSets <- MCSecond
  Maxima = {1}
  MaxWrites = 3
  HostAdmission = TRUE
  FaultKinds = {"github", "disk"}
  MaxFaults = 1
  MaxCrashes = 1
  MaxStops = 0
INVARIANTS
  RetirementNeverForgotten
  FenceLiftedAccounted
PROPERTIES
  AcknowledgedIsApplied
  
  GenerationsAdvance
