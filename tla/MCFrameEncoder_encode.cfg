SPECIFICATION Spec
CONSTANTS
    DmaBuffer = {d1, d2, d3, d4}
    GOP = 2
    MaxCalls = 3
SYMMETRY Symmetry
CHECK_DEADLOCK FALSE
INVARIANTS
    TypeOK
    LeaksExplained
    PushedFresh
    InitAllOrNothing
