SPECIFICATION FairSpec
CONSTANTS
  Profiles = {1, 2}
  Slots = {s1}
  Names = {}
  Publications <- FairPublications
  LeaseTTL = 2
  DemandTTL = 1
  MaxTombstones = 1
  MaxPending = 1
  MaxGeneration = 1
  MaxSequence = 3
  MaxEpoch = 0
PROPERTIES  StoppedManagerForgotten
