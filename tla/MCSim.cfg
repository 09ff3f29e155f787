\* Three frames of two 2-cell blocks, up to three frame entries, three writes or allocations.
CONSTANTS
    z = z
    a = a
    NoSnap = NoSnap
    Zero = z
    Data = {z, a}
    Block = 2
    NBlocks = 2
    NFrame = 3
    StaticBase = 2
    Sizes = {1, 2}
    Aligns = {1}
    FidLimit = 5
    WorkLimit = 3
SPECIFICATION Spec
VIEW WithoutRet
INVARIANTS
    TypeOK
    SavepointBounds
    FrameIdsGrow
PROPERTIES
    FailedCallIsHarmless
    ImplementsBranching
