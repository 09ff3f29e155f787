\* Two instances of one model return the same variable directly.
SPECIFICATION Spec
CONSTANTS
    Graphs <- TwoInstances
    Given <- MCGiven
    VarOf <- MCVarOf
    MaxCost = 1000
    Inf = 1001
    MaxStk = 4
    MaxCand = 6
    MaxRoots = 2
    None = None
INVARIANT DirectModelsAlwaysChosen
