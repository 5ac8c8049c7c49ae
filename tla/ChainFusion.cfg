SPECIFICATION FusionSpec
CONSTANTS
    Small = 2
    Half = 8
    Bits = 4
    Regs = {1, 2}
    Types <- MCTypes
    Literals <- MCLiterals
    Shifts = {0, 1, 3}
    MaxOps = 2
    MaxValue = 34
    Width = 6
    MaxShift = 7
    MaxFusedBsr = 3
INVARIANTS
    IntegersExact
    FusedAgrees
CHECK_DEADLOCK FALSE
