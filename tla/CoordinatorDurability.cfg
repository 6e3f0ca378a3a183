SPECIFICATION Spec
CONSTANTS
  Profiles = {1, 2}
  Slots = {s1}
  Names = {n1}
  Publications <- DurabilityPublications
  LeaseTTL = 1
  DemandTTL = 1
  MaxTombstones = 1
  MaxPending = 0
  MaxGeneration = 2
  MaxSequence = 2
  MaxEpoch = 2
INVARIANTS DocumentValid ActiveDurable
PROPERTIES NeverBackward ActiveEndsByRelease KeepsContract
