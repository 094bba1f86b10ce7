CONSTANTS
    Ref = {r1, r2, r3, r4}
    NoRef = NoRef
    MaxUncompressed = 1
    DefaultBufSize = 2
    BufGrowStep = 4
    MaxBufSize = 4
    ThresholdDefault = 2
    ThresholdStep = 1
    ThresholdMax = 3
    MaxCalls = 2
SPECIFICATION Spec
SYMMETRY RefSymmetry
INVARIANTS TypeOK BufferSound FreeListExact FingersStop RootsFound
PROPERTY ImplementsRootSet
CHECK_DEADLOCK FALSE
