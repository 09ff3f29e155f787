\* Two-node graphs under chains of up to five continuations, four frames.
CONSTANTS
    NoSnap = NoSnap
    Node <- MCNode
    Programs <- MCPrograms
    TagOf <- MCTagOf
    EdgesOf <- MCEdgesOf
    Root <- MCRoot
    Returns <- MCReturns
    Period = 3
    NItems = 2
    NFrame = 4
    StackCap = 48
SPECIFICATION FairSpec
INVARIANTS
    ActiveStacksDisjoint
    NeverUnderflow
    OnlyLimitErrors
    LeavesAreOutcomes
PROPERTIES
    ImplementsContinuations
    Termination
