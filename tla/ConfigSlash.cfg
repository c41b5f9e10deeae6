SPECIFICATION Spec
CONSTANTS
    Slices <- Combinations
    MaxSaves = 0
INVARIANTS
    NormalizedForBothUses
CHECK_DEADLOCK FALSE
