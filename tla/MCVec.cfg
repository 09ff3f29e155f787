\* Two bands, two frames, capacity 2 growing to 4, four operations on the vector.
CONSTANTS
    NBands = 2
    Value = {x, y}
    x = x
    y = y
    Garbage = Garbage
    NoSnap = NoSnap
    NULL = NULL
    InitCap = 2
    MaxUsed = 3
    MaxBatch = 2
    WorkLimit = 4
    NFrame = 2
SPECIFICATION Spec
SYMMETRY Values
INVARIANTS
    BandsLive
    VectorsAreValues
