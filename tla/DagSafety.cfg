SPECIFICATION SafeSpec
CONSTANTS
    MaxNodes = 3
    RingSlots = 4
    Main = main
    Workers = {w1, w2}
SYMMETRY PoolSymmetry
INVARIANTS
    TokenInOnePlace
    EnqueueNeverWaits
PROPERTIES
    DagRunSpec
