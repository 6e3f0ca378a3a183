SPECIFICATION Spec
CONSTANTS
  Targets = {1, 2}
  Ceiling = 3
  Wants = {0, 1, 3}
  MaxRecovered = 2
  MaxLeftover = 1
INVARIANTS InFlightSettled SharesSplitCeiling
PROPERTY CeilingKept
