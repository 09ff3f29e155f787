\* All graphs of MCSolver, with a driver that always continues.
SPECIFICATION FairSpec
CONSTANTS
    Graphs <- MCGraphs
    Given <- MCGiven
    VarOf <- MCVarOf
    MaxCost = 1000
    Inf = 1001
    MaxStk = 4
    MaxCand = 6
    MaxRoots = 2
    None = None
INVARIANTS
    CostsAreLowBounds
    ChainsOptimal
    CallsReady
    GuardsSawValues
    ErrorsAreHonest
    AnsweredInOrder
    ValuesFromChain
PROPERTY RootsAnswered
