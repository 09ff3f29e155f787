\* Three variables, three models, finite costs well below Inf.
CONSTANTS
    Graphs <- MCGraphs
    Inf = 1000
SPECIFICATION Spec
INVARIANTS
    HeapOrdered
    BoundsExact
    SelectedReachable
    PruningKeepsOptimum
