\* Chunks of 4, 8, 16 units, three frames.
CONSTANTS
    InitSize = 4
    Start = 3
    Requests <- MCRequests
    MaxChunks = 4
    MaxAllocs = 4
    MaxUsers = 2
    NFrame = 3
    NoSnap = NoSnap
    NULL = NULL
SPECIFICATION Spec
INVARIANTS
    AllocsDisjoint
    ArenasAhead
    NewChunkSuffices
PROPERTY
    OuterArenasKept
