\* Groups and maps whose sums straddle G_MAXUMAP without meeting it.
CONSTANTS
    Groups = {0, 2}
    VarInputs <- MCVarInputs
    ParamMaps <- MCParamMaps
    ReturnMaps <- MCReturnMaps
    CheckMaps <- MCCheckMaps
    Penalties = {1, 2}
    G_MAXUMAP = 3
    G_MAXIDX = 3
    G_MAXEDGE = 2
    G_MAXFWDE = 2
    G_MAXMODE = 2
    MaxVars = 2
    MaxShadows = 1
    MaxModels = 2
    MaxEdges = 4
    Ident = Ident
    Space = Space
    FHK_NGRP = FHK_NGRP
    NULL = NULL
SPECIFICATION Spec
INVARIANTS
    ArraysFit
    GraphIsDefinition
    SolverOrder
    MapsResolve
CHECK_DEADLOCK FALSE
