------------------------------- MODULE Prune -------------------------------
(***************************************************************************)
(* Pruning of computational graphs (fhk/prune.c).                          *)
(*                                                                         *)
(* A variable is given or computed by one of its models; a model costs     *)
(* k + c * S, where S is the cost of its parameters plus the penalties of  *)
(* the shadows (checks) that fail.  Before a graph is used for given roots *)
(* the pruner computes for every node a low (GRAY) and a high (BLACK) cost *)
(* bound, in increasing order of cost with a binary heap, and selects the  *)
(* nodes that a solver can ever need.                                      *)
(*                                                                         *)
(* Nodes are numbered as in the code: variables 0 .. nv-1, the i-th model  *)
(* is -i.  Of an edge's map the pruner only looks at whether it is a user  *)
(* map, which may be empty.  Costs are integers; Inf stands for INFINITY,  *)
(* the penalty of a check that the frontend is not told one for (def.lua), *)
(* and what a sum that exceeds it comes to.                                *)
(*                                                                         *)
(* SmallestLeft, SelectGray and SelectAnyShadow are deliberately wrong     *)
(* variants of the definition that follows them; no action uses them.      *)
(***************************************************************************)
EXTENDS Integers, Sequences, FiniteSets, FiniteSetsExt, Functions

CONSTANTS
    Graphs,     \* graphs with the flags the frontend sets, see IsGraph
    Inf         \* larger than every finite cost

(* The edge lists of a variable name each edge to it once: as <<mi, j>>,   *)
(* the j-th return edge (models) or parameter edge (fwds) of model mi.     *)
ListsEdges(list, x, edges) ==
    /\ list \in Seq((DOMAIN edges) \X Nat) /\ IsInjective(list)
    /\ \A e \in Range(list) : e[2] \in DOMAIN edges[e[1]]
    /\ \A mi \in DOMAIN edges : \A j \in DOMAIN edges[mi] :
          <<mi, j>> \in Range(list) <=> edges[mi][j].x = x

VarsOf(g) == 0 .. g.nv - 1
ModelsIn(g) == -g.nm .. -1

(* An edge to variable x; user: through a user map.                        *)
IsGraph(g) ==
    LET Var == VarsOf(g)
        Edge == [x : Var, user : BOOLEAN]
        Check == [x : Var, penalty : Nat]
    IN
    /\ g.nv \in Nat /\ g.nm \in Nat
    /\ DOMAIN g.model = 1 .. g.nm
    /\ g.given \subseteq Var /\ g.skip \subseteq Var /\ g.select \subseteq Var
    /\ \A i \in 1 .. g.nm :
          LET m == g.model[i] IN
          /\ m.k \in Nat /\ m.c \in Nat /\ m.c >= 1      \* checked by fhk_def_add_model
          /\ m.params \in Seq(Edge) /\ m.returns \in Seq(Edge) /\ m.shadows \in Seq(Check)
    /\ DOMAIN g.models = Var /\ DOMAIN g.fwds = Var
    /\ \A x \in Var :
          /\ ListsEdges(g.models[x], x, [mi \in ModelsIn(g) |-> g.model[-mi].returns])
          /\ ListsEdges(g.fwds[x], x, [mi \in ModelsIn(g) |-> g.model[-mi].params])
ASSUME GraphsAssumption == Inf \in Nat \ {0} /\ \A g \in Graphs : IsGraph(g)

(* step applied n times, and the sums of the first elements of c.          *)
Iterated(step, base, n) ==
    LET It[i \in 0 .. n] == IF i = 0 THEN base ELSE step[It[i - 1]]
    IN It[n]
Sums(c) ==
    LET Acc[i \in 0 .. Len(c)] == IF i = 0 THEN 0 ELSE Acc[i - 1] + c[i]
    IN Acc
Total(c) == Sums(c)[Len(c)]

-----------------------------------------------------------------------------
(* What costs mean.  A scenario says which user maps are nonempty and      *)
(* which shadows fail: the things that only a solver finds out.            *)

(* Nobody computes what is given, nor computes or uses what is skipped.    *)
Usable(g) == {mi \in ModelsIn(g) :
                 LET m == g.model[-mi] IN
                 /\ \A e \in Range(m.returns) : e.x \notin g.given \cup g.skip
                 /\ \A e \in Range(m.params) : e.x \notin g.skip}

(* Items that a scenario decides about: edges <<model, kind, position>>.   *)
Items(g) == UNION {
    LET m == g.model[-mi] IN
    {<<mi, "param", j>> : j \in {j \in DOMAIN m.params : m.params[j].user}}
    \cup {<<mi, "return", j>> : j \in {j \in DOMAIN m.returns : m.returns[j].user}}
    \cup {<<mi, "shadow", j>> : j \in DOMAIN m.shadows} : mi \in ModelsIn(g)}

(* The best and the worst that bounds have to reckon with.                 *)
Best(g) == {i \in Items(g) : i[2] = "return"}
Worst(g) == {i \in Items(g) : i[2] \in {"param", "shadow"}}

Cap(n) == IF n > Inf THEN Inf ELSE n

Takes(g, mi, j, on) == ~g.model[-mi].params[j].user \/ <<mi, "param", j>> \in on
Fails(g, mi, j, on) == g.model[-mi].shadows[j].x \in g.skip \/ <<mi, "shadow", j>> \in on

ModelCost(g, mi, on, cost) ==
    LET m == g.model[-mi]
        S == Total([j \in DOMAIN m.params |-> IF Takes(g, mi, j, on) THEN cost[m.params[j].x] ELSE 0])
             + Total([j \in DOMAIN m.shadows |-> IF Fails(g, mi, j, on) THEN m.shadows[j].penalty ELSE 0])
    IN Cap(m.k + m.c * S)

Returns(g, mi, x, on) ==
    \E j \in DOMAIN g.model[-mi].returns :
       LET e == g.model[-mi].returns[j] IN
       e.x = x /\ (~e.user \/ <<mi, "return", j>> \in on)

(* The cheapest way to compute each variable with models M in scenario on: *)
(* the least costs reached by chains of growing length.                    *)
Relax(g, M, on, cost) ==
    [x \in VarsOf(g) |->
        Min({cost[x]} \cup {ModelCost(g, mi, on, cost) : mi \in {mi \in M : Returns(g, mi, x, on)}})]
LeastCost(g, M, on) ==
    Iterated([cost \in [VarsOf(g) -> 0 .. Inf] |-> Relax(g, M, on, cost)],
             [x \in VarsOf(g) |-> IF x \in g.given THEN 0 ELSE Inf], g.nv)

-----------------------------------------------------------------------------
VARIABLES
    G,          \* P->G
    P,          \* [flags, bound, miss, heap]: struct fhk_prune
    phase,      \* the function fhk_prune_run is about to call
    status      \* what fhk_prune_run returns

vars == <<G, P, phase, status>>

Vars == VarsOf(G)
Models == ModelsIn(G)
Nodes == -G.nm .. G.nv - 1
Model(mi) == G.model[-mi]
Colors == {"GRAY", "BLACK"}

Flag(p, S, f) == [p EXCEPT !.flags = [n \in Nodes |-> IF n \in S THEN @[n] \cup {f} ELSE @[n]]]
Has(f) == {n \in Nodes : f \in P.flags[n]}
ModelsOf(S) == {e[1] : e \in UNION {Range(G.models[x]) : x \in S}}
UsersOf(S) == {e[1] : e \in UNION {Range(G.fwds[x]) : x \in S}}

(* A user map may be empty, so a low bound does not wait for a parameter   *)
(* behind it, and a high bound does not rely on a return through it.       *)
Waits(mi, j, color) == color = "BLACK" \/ ~Model(mi).params[j].user
Yields(mi, j, color) == color = "GRAY" \/ ~Model(mi).returns[j].user

-----------------------------------------------------------------------------
(* The heap: nodes compare as 64-bit numbers, cost first, then color, then *)
(* index.                                                                  *)
ColorNum(c) == IF c = "GRAY" THEN 0 ELSE 1
Less(a, b) ==
    \/ a.cost < b.cost
    \/ a.cost = b.cost /\ ColorNum(a.color) < ColorNum(b.color)
    \/ a.cost = b.cost /\ a.color = b.color /\ a.xi < b.xi

Swap(h, i, j) == [h EXCEPT ![i] = h[j], ![j] = h[i]]

(* The node moves up as long as its parent is not less.                    *)
HeapInsert(heap, node) ==
    LET n == Len(heap) + 1
        Up(s) == IF s.pos = 1 \/ Less(s.h[s.pos \div 2], node) THEN s
                 ELSE [h |-> Swap(s.h, s.pos, s.pos \div 2), pos |-> s.pos \div 2]
        Rise[i \in 0 .. n] ==
            IF i = 0 THEN [h |-> Append(heap, node), pos |-> n] ELSE Up(Rise[i - 1])
    IN Rise[n].h

(* Where the least of a node and its two children is.                      *)
SmallestLeft(h, pos) ==
    IF 2 * pos \in DOMAIN h /\ Less(h[2 * pos], h[pos]) THEN 2 * pos ELSE pos
Smallest(h, pos) ==
    LET l == IF 2 * pos \in DOMAIN h /\ Less(h[2 * pos], h[pos]) THEN 2 * pos ELSE pos
    IN IF 2 * pos + 1 \in DOMAIN h /\ Less(h[2 * pos + 1], h[l]) THEN 2 * pos + 1 ELSE l

(* The last node takes the place of the first and moves down.              *)
HeapRemove(heap) ==
    LET n == Len(heap) - 1
        Down(s) == LET least == Smallest(s.h, s.pos)
                   IN [h |-> Swap(s.h, s.pos, least), pos |-> least]
        Sink[i \in 0 .. n] ==
            IF i = 0 THEN [h |-> SubSeq([heap EXCEPT ![1] = heap[n + 1]], 1, n), pos |-> 1]
            ELSE Down(Sink[i - 1])
    IN IF n = 0 THEN <<>> ELSE Sink[n].h

-----------------------------------------------------------------------------
Init ==
    /\ G \in Graphs
    /\ P = [flags |-> [n \in Nodes |-> {f \in {"GIVEN", "SKIP", "SELECT"} :
                                           \/ f = "GIVEN" /\ n \in G.given
                                           \/ f = "SKIP" /\ n \in G.skip
                                           \/ f = "SELECT" /\ n \in G.select}],
            bound |-> [n \in Nodes |-> [c \in Colors |-> 0]],
            miss |-> [n \in Models |-> [c \in Colors |-> 0]],
            heap |-> <<>>]
    /\ phase = "mark_given"
    /\ status = "OK"

Phase(p, q) == phase = p /\ phase' = q /\ UNCHANGED G

(* prune_mark_given: nobody computes a given variable.                     *)
MarkGiven ==
    /\ Phase("mark_given", "mark_skips")
    /\ P' = Flag(P, ModelsOf(Vars \cap Has("GIVEN")), "SKIP")
    /\ UNCHANGED status

(* prune_mark_skips: nor computes or uses a skipped one.                   *)
MarkSkips ==
    /\ Phase("mark_skips", "init_mstate")
    /\ LET S == Vars \cap Has("SKIP") IN P' = Flag(P, ModelsOf(S) \cup UsersOf(S), "SKIP")
    /\ UNCHANGED status

(* prune_init_mstate.                                                      *)
InitMstate ==
    /\ Phase("init_mstate", "insert_given")
    /\ P' = [P EXCEPT !.miss = [mi \in Models |-> [c \in Colors |->
                Cardinality({j \in DOMAIN Model(mi).params : Waits(mi, j, c)})]]]
    /\ UNCHANGED status

(* prune_insert_var.                                                       *)
InsertVar(p, xi, cost, color) ==
    [p EXCEPT !.heap = HeapInsert(@, [cost |-> cost, color |-> color, xi |-> xi])]

(* prune_insert_given: a variable that is both given and skipped is an     *)
(* error.                                                                  *)
InsertGiven ==
    /\ phase = "insert_given"
    /\ IF Vars \cap Has("GIVEN") \cap Has("SKIP") = {}
       THEN LET Both(p, x) == InsertVar(InsertVar(p, x, 0, "GRAY"), x, 0, "BLACK")
                Loop[i \in 0 .. G.nv] ==
                    IF i = 0 THEN P
                    ELSE IF i - 1 \in Has("GIVEN") THEN Both(Loop[i - 1], i - 1) ELSE Loop[i - 1]
            IN /\ phase' = "insert_constmods" /\ UNCHANGED status
               /\ P' = Loop[G.nv]
       ELSE /\ phase' = "done" /\ status' = "ECHAIN" /\ UNCHANGED P
    /\ UNCHANGED G

(* prune_bound_model: all parameters that it waits for have their bound.   *)
BoundModel(p, mi, color) ==
    LET m == Model(mi)
        Counts(j) == color = "BLACK" \/ "SKIP" \in p.flags[m.shadows[j].x]
        S == p.bound[mi][color]
             + Total([j \in DOMAIN m.shadows |-> IF Counts(j) THEN m.shadows[j].penalty ELSE 0])
        cost == Cap(m.k + m.c * S)
        Loop[j \in 0 .. Len(m.returns)] ==
            IF j = 0 THEN [Flag(p, {mi}, color) EXCEPT !.bound[mi][color] = cost]
            ELSE IF Yields(mi, j, color) THEN InsertVar(Loop[j - 1], m.returns[j].x, cost, color)
            ELSE Loop[j - 1]
    IN IF "SKIP" \in p.flags[mi] THEN p ELSE Loop[Len(m.returns)]

(* prune_insert_constmods: models that wait for nothing.                   *)
InsertConstmods ==
    /\ Phase("insert_constmods", "propagate")
    /\ LET Ready(p, mi, color) == IF P.miss[mi][color] = 0 THEN BoundModel(p, mi, color) ELSE p
           Loop[i \in 0 .. G.nm] ==
               IF i = 0 THEN P ELSE Ready(Ready(Loop[i - 1], -i, "GRAY"), -i, "BLACK")
       IN P' = Loop[G.nm]
    /\ UNCHANGED status

(* A bound of a variable reaches a model that has it as a parameter.       *)
BoundParam(p, mi, cost, color) ==
    LET q == [p EXCEPT !.bound[mi][color] = @ + cost, !.miss[mi][color] = @ - 1]
    IN IF q.miss[mi][color] = 0 THEN BoundModel(q, mi, color) ELSE q

(* prune_bound_var: the first bound taken from the heap is the bound.      *)
BoundVarAgain(p, xi, cost, color) ==
    LET fwds == G.fwds[xi]
        Loop[i \in 0 .. Len(fwds)] ==
            IF i = 0 THEN [Flag(p, {xi}, color) EXCEPT !.bound[xi][color] = cost]
            ELSE IF Waits(fwds[i][1], fwds[i][2], color)
            THEN BoundParam(Loop[i - 1], fwds[i][1], cost, color)
            ELSE Loop[i - 1]
    IN Loop[Len(fwds)]
BoundVar(p, xi, cost, color) ==
    LET fwds == G.fwds[xi]
        Loop[i \in 0 .. Len(fwds)] ==
            IF i = 0 THEN [Flag(p, {xi}, color) EXCEPT !.bound[xi][color] = cost]
            ELSE IF Waits(fwds[i][1], fwds[i][2], color)
            THEN BoundParam(Loop[i - 1], fwds[i][1], cost, color)
            ELSE Loop[i - 1]
    IN IF color \in p.flags[xi] THEN p ELSE Loop[Len(fwds)]

(* One round of prune_propagate.                                           *)
Propagate ==
    /\ phase = "propagate"
    /\ P.heap # <<>>
    /\ LET next == P.heap[1]
       IN P' = BoundVar([P EXCEPT !.heap = HeapRemove(@)], next.xi, next.cost, next.color)
    /\ UNCHANGED <<G, phase, status>>

PropagateEnd ==
    /\ Phase("propagate", "mark_unreachable")
    /\ P.heap = <<>>
    /\ UNCHANGED <<P, status>>

(* prune_mark_unreachable.                                                 *)
MarkUnreachable ==
    /\ Phase("mark_unreachable", "mark_selects")
    /\ LET q == [P EXCEPT !.bound = [n \in Nodes |-> [c \in Colors |->
                    IF c \in P.flags[n] THEN @[n][c] ELSE Inf]]]
       IN P' = Flag(q, {n \in Nodes : q.bound[n]["GRAY"] = Inf}, "SKIP")
    /\ UNCHANGED status

(* What prune_select goes on to from a variable: models that may be        *)
(* cheaper than its high bound, and until one has been met that guarantees *)
(* the bound (needbeta), one that does.                                    *)
SelectGray(x) ==
    LET beta == P.bound[x]["BLACK"] IN {mi \in ModelsOf({x}) : P.bound[mi]["GRAY"] < beta}
SelectModels(x) ==
    LET beta == P.bound[x]["BLACK"]
        edges == G.models[x]
        Pick(acc, mi) ==
            LET b == P.bound[mi] IN
            IF b["GRAY"] < beta \/ (acc.needbeta /\ b["BLACK"] = beta)
            THEN [needbeta |-> acc.needbeta /\ b["BLACK"] > beta, set |-> acc.set \cup {mi}]
            ELSE acc
        Loop[i \in 0 .. Len(edges)] ==
            IF i = 0 THEN [needbeta |-> beta < Inf, set |-> {}] ELSE Pick(Loop[i - 1], edges[i][1])
    IN Loop[Len(edges)].set

(* And from a model: its parameters and the variables of its shadows.      *)
SelectAnyShadow(mi) == {e.x : e \in Range(Model(mi).params) \cup Range(Model(mi).shadows)}
SelectVars(mi) ==
    {e.x : e \in Range(Model(mi).params)}
    \cup {x \in {e.x : e \in Range(Model(mi).shadows)} : x \notin Has("SKIP")}

(* The recursive calls of prune_select together visit what is reachable.   *)
Selected(S) ==
    LET Step(T) == T \cup UNION {IF n \in Vars THEN SelectModels(n) ELSE SelectVars(n) : n \in T}
        Reach[i \in 0 .. G.nv + G.nm] == IF i = 0 THEN S ELSE Step(Reach[i - 1])
    IN Reach[G.nv + G.nm]

(* prune_mark_selects: select from every root in turn, and keep what       *)
(* selected models return.  It stops at a skipped node that is a root, or  *)
(* that roots before it have selected.                                     *)
MarkSelects ==
    /\ Phase("mark_selects", "done")
    /\ LET roots == Has("SELECT")
           Before(n) == Selected({r \in roots : r < n})
           stops == {n \in Has("SKIP") : n \in roots \cup Before(n)}
           T == IF stops = {} THEN Selected(roots) ELSE Before(Min(stops))
           R == {e.x : e \in UNION {Range(Model(mi).returns) : mi \in T \cap Models}}
       IN IF stops = {}
          THEN P' = Flag(P, T \cup R, "SELECT") /\ UNCHANGED status
          ELSE P' = Flag(P, T, "SELECT") /\ status' = "ECHAIN"

Finished == phase = "done" /\ UNCHANGED vars

Next ==
    \/ MarkGiven \/ MarkSkips \/ InitMstate \/ InsertGiven \/ InsertConstmods
    \/ Propagate \/ PropagateEnd \/ MarkUnreachable \/ MarkSelects
    \/ Finished

Spec == Init /\ [][Next]_vars

-----------------------------------------------------------------------------
(* The heap stays a heap: heap_insert and heap_remove keep every node      *)
(* above its children.                                                     *)
HeapOrdered == \A i \in 2 .. Len(P.heap) : ~Less(P.heap[i], P.heap[i \div 2])

Bounded == phase = "mark_selects" \/ (phase = "done" /\ status = "OK")

Scenario(c) == IF c = "GRAY" THEN Best(G) ELSE Worst(G)

(* prune_propagate takes the first bound of a variable that leaves the     *)
(* heap as final.  Both bounds are then exact: the cost of the cheapest    *)
(* chain if everything uncertain goes well, and if everything goes badly.  *)
BoundsExact ==
    Bounded =>
        \A c \in Colors :
           LET least == LeastCost(G, Usable(G), Scenario(c))
           IN /\ \A x \in Vars : P.bound[x][c] = least[x]
              /\ \A mi \in Usable(G) : P.bound[mi][c] = ModelCost(G, mi, Scenario(c), least)

(* prune_select asserts that it selects only nodes that can be computed.   *)
(* The low bound does not wait for parameters behind user maps, so that is *)
(* not so of those: a selected node is reachable, a parameter behind a     *)
(* user map of a selected model, or a root, and then it is an error.  And  *)
(* other than for a variable both given and skipped, FHKE_CHAIN is         *)
(* returned only if such a node was selected.                              *)
SelectedReachable ==
    phase = "done" =>
        LET lost == Has("SELECT") \cap Has("SKIP") IN
        /\ \A n \in lost : \/ status = "ECHAIN" /\ n \in G.select
                           \/ \E mi \in Models \cap Has("SELECT") :
                                 \E e \in Range(Model(mi).params) : e.x = n /\ e.user
        /\ status = "ECHAIN" => lost \cup (G.given \cap G.skip) # {}

(* A model that does not surely return x but whose high bound is at most   *)
(* that of x.                                                              *)
Misleads(mi, x) ==
    /\ ~Returns(G, mi, x, {}) /\ Returns(G, mi, x, Best(G))
    /\ P.bound[mi]["BLACK"] <= P.bound[x]["BLACK"] /\ P.bound[mi]["BLACK"] < Inf

OptimumKept ==
    LET kept == Usable(G) \cap Has("SELECT") IN
    \A on \in SUBSET Items(G) : \A x \in G.select :
        LeastCost(G, kept, on)[x] = LeastCost(G, Usable(G), on)[x]

(* No chain can compute a root, or the marks contradict each other.        *)
Hopeless ==
    \/ G.given \cap G.skip # {}
    \/ \E x \in G.select : LeastCost(G, Usable(G), Best(G))[x] = Inf

(* A parameter that cannot be computed was selected before the loop of     *)
(* prune_mark_selects reached it.                                          *)
MetTooLate ==
    \E n \in (Has("SELECT") \cap Has("SKIP")) \ G.select : \E x \in G.select : x < n

(* Pruning is invisible to a solver: whichever shadows fail and user maps  *)
(* are empty, a root costs in the selected graph what it costs in the      *)
(* whole graph, and there is no selected graph only if some root has no    *)
(* chain at all.  There are three exceptions.  A model that may not return *)
(* a variable can be mistaken for one that guarantees its high bound.  Of  *)
(* models that guarantee it prune_select takes the first in the edge list, *)
(* not the one that the bound came from: where models are free (k = 0)     *)
(* those can need each other in a cycle that starts from nothing.  And a   *)
(* parameter behind a user map that cannot be computed makes the pruner    *)
(* return FHKE_CHAIN, whatever else there is, if its index is above that   *)
(* of a root (and trips the assertion of prune_select in a debug build).   *)
PruningKeepsOptimum ==
    phase = "done" =>
        \/ status = "OK" /\ OptimumKept
        \/ status = "OK" /\ \E x \in Vars, mi \in Models : Misleads(mi, x)
        \/ status = "OK" /\ \E mi \in Models : Model(mi).k = 0
        \/ status = "ECHAIN" /\ (Hopeless \/ MetTooLate)
=============================================================================
