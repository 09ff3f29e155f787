---------------------------- MODULE MCInstances ----------------------------
(* Seventeen instances in words of eight bits: three words of missing      *)
(* values, five of guards.  Ranges start and end inside, at the edges of   *)
(* and across words.  Instance 4 has no chain.                             *)
EXTENDS Instances

Values(i, k) == [inst |-> i, n |-> k]
MCRanges == {Values(0, 3), Values(3, 14), Values(0, 8), Values(7, 2), Values(8, 8),
             Values(16, 1), Values(0, 17)}
MCMapOf == [none |-> {}, part |-> 2 .. 9, gaps |-> {1, 6, 7, 16}]
Edge(w, m) == [what |-> w, map |-> m]
MCGivenEdges ==
    {Edge("param", Ident), Edge("param", Space), Edge("param", "gaps"), Edge("check", "none"),
     Edge("check", Ident), Edge("check", "part")}
MCComputedEdges ==
    {Edge("param", Ident), Edge("param", "part"), Edge("check", Space), Edge("check", Ident)}
MCComplexEdges == {Edge("param", "gaps")}
MCPassing == {0 .. 16, (0 .. 16) \ {9}, {1, 2, 3, 8}}
============================================================================
