SPECIFICATION UninterruptedSpec
CONSTANTS
  Profiles = {1, 2, 3}
  Slots = {s1}
  Names = {}
  Publications <- SharePublications
  LeaseTTL = 1
  DemandTTL = 1
  MaxTombstones = 1
  MaxPending = 1
  MaxGeneration = 1
  MaxSequence = 2
  MaxEpoch = 0
INVARIANTS  StatusShowsGrantable 
PROPERTIES GrantsFitBudget GrantsKeepReservations
