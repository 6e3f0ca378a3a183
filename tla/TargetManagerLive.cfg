SPECIFICATION FairSpec
CONSTANTS
  Keys <- MCOneKey
  MaxGeneration = 2
  TargetSets <- MCAll
  Maxima = {1}
  MaxWrites = 2
  HostAdmission = TRUE
  FaultKinds = {"github", "disk", "listener"}
  MaxFaults = 1
  MaxCrashes = 0
  MaxStops = 1
PROPERTIES
  DesiredAcknowledged
  
  
  ListenerRestored
