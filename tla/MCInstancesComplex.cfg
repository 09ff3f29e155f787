\* Computed variables are walked through a subset of several intervals.
CONSTANTS
    W = 8
    InstBits = 5
    Shapes = {0, 17}
    MapOf <- MCMapOf
    GivenEdges <- MCGivenEdges
    ComputedEdges <- MCComplexEdges
    ModelInst = {1, 4, 16}
    Passing <- MCPassing
    Failing = {4}
    Ranges <- MCRanges
    Overlap = FALSE
    Ident = Ident
    Space = Space
    Undef = Undef
    NULL = NULL
SPECIFICATION Spec
INVARIANT
    CollectedHaveValues
\* A failed call ends the solver.
CHECK_DEADLOCK FALSE
