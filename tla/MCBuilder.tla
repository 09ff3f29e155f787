----------------------------- MODULE MCBuilder -----------------------------
(* Two variables and up to two models with four edges.  The parameter map  *)
(* is constant one way and not the other, the return map is nonconstant    *)
(* both ways and shares an index with it, the map of checks is constant.   *)
EXTENDS Builder

MCVarInputs == {[group |-> 0, cdiff |-> 1], [group |-> 2, cdiff |-> 0]}
MCParamMaps == {Space, [map |-> 0, inverse |-> -1]}
MCReturnMaps == {Ident, [map |-> -1, inverse |-> -2]}
MCCheckMaps == {[map |-> 2, inverse |-> 0]}
============================================================================
