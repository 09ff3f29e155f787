\* A root that failed before as the variable of a shadow.
SPECIFICATION Spec
CONSTANTS
    Graphs <- ShadowThenRoot
    Given <- MCGiven
    VarOf <- MCVarOf
    MaxCost = 1000
    Inf = 1001
    MaxStk = 4
    MaxCand = 6
    MaxRoots = 2
    None = None
INVARIANT ComputesWithChain
