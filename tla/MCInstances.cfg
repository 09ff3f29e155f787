\* Computed variables are walked through intervals only.
CONSTANTS
    W = 8
    InstBits = 5
    Shapes = {0, 17}
    MapOf <- MCMapOf
    GivenEdges <- MCGivenEdges
    ComputedEdges <- MCComputedEdges
    ModelInst = {1, 4, 16}
    Passing <- MCPassing
    Failing = {4}
    Ranges <- MCRanges
    Overlap = FALSE
    Ident = Ident
    Space = Space
    Undef = Undef
    NULL = NULL
SPECIFICATION Spec
INVARIANTS
    CollectedHaveValues
    GuardsHonest
    GuardVerdict
    MissingExact
PROPERTY
    RequestsEnd
\* A failed call ends the solver.
CHECK_DEADLOCK FALSE
