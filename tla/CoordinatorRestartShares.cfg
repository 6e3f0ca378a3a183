SPECIFICATION Spec
CONSTANTS
  Profiles = {1, 2}
  Slots = {s1, s2}
  Names = {}
  Publications <- FairPublications
  LeaseTTL = 1
  DemandTTL = 1
  MaxTombstones = 1
  MaxPending = 1
  MaxGeneration = 1
  MaxSequence = 2
  MaxEpoch = 0
SYMMETRY SlotSymmetry
INVARIANT SharesSplitPool
