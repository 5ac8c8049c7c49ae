SPECIFICATION FusionSpec
CONSTANTS
    Small = 2
    Half = 8
    Bits = 4
    Regs = {1, 2}
    Types <- MCTypes
    Literals <- MCLiterals
    Shifts = {4}
    MaxOps = 1
    MaxValue = 34
    Width = 6
    MaxShift = 7
    MaxFusedBsr = 4
INVARIANTS
    FusedAgrees
CHECK_DEADLOCK FALSE
