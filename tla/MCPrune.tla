------------------------------ MODULE MCPrune ------------------------------
(* Pruning of graphs with three variables and three models: chains,        *)
(* cycles, free models, models that return two variables, user maps, and   *)
(* shadows with finite and infinite penalties.                             *)
EXTENDS Prune, SequencesExt

X(x) == [x |-> x, user |-> FALSE]
U(x) == [x |-> x, user |-> TRUE]
Check(penalty) == <<[x |-> 0, penalty |-> penalty]>>

First ==
    [k : {0, 1}, c : {1}, params : {<<>>, <<X(0)>>, <<X(2)>>, <<U(2)>>},
     shadows : {<<>>, Check(3), Check(Inf)}, returns : {<<X(1)>>, <<X(1), U(2)>>}]
Second ==
    [k : {0, 1}, c : {1}, params : {<<X(0)>>, <<X(1)>>, <<U(1)>>},
     shadows : {<<>>, Check(Inf)}, returns : {<<X(2)>>, <<U(2)>>}]
Third ==
    [k : {2, 4}, c : {2}, params : {<<>>, <<X(0), X(1)>>, <<X(1), U(1)>>},
     shadows : {<<>>}, returns : {<<X(2)>>, <<U(1), X(2)>>}]

(* The edge lists as g_build_edges makes them, model by model.             *)
EdgesTo(x, edges) ==
    LET js(i) == SelectSeq([j \in DOMAIN edges[i] |-> j], LAMBDA j : edges[i][j].x = x)
        Of(i) == [n \in DOMAIN js(i) |-> <<-i, js(i)[n]>>]
    IN Of(1) \o Of(2) \o Of(3)
Lists(edges) == 0 :> EdgesTo(0, edges) @@ 1 :> EdgesTo(1, edges) @@ 2 :> EdgesTo(2, edges)

Graph(models, given, skip, select) ==
    [nv |-> 3, nm |-> 3, model |-> models, given |-> given, skip |-> skip, select |-> {select},
     models |-> Lists(<<models[1].returns, models[2].returns, models[3].returns>>),
     fwds |-> Lists(<<models[1].params, models[2].params, models[3].params>>)]

(* Three orders of the models, with their given, skipped and root          *)
(* variables.                                                              *)
Uses ==
    {[order |-> <<1, 2, 3>>, given |-> {0}, skip |-> {}, root |-> 2]}
    \cup {[order |-> <<3, 2, 1>>, given |-> {}, skip |-> {}, root |-> x] : x \in {1, 2}}
    \cup {[order |-> <<3, 2, 1>>, given |-> {}, skip |-> {0, 1}, root |-> 2]}
    \cup {[order |-> <<2, 1, 3>>, given |-> {0}, skip |-> S, root |-> 2] : S \in {{0}, {1}}}

MCGraphs ==
    {Graph([i \in 1 .. 3 |-> m[u.order[i]]], u.given, u.skip, u.root) :
        m \in {m \in First \X Second \X Third : m[1].k = m[2].k}, u \in Uses}
=============================================================================
