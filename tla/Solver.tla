------------------------------- MODULE Solver -------------------------------
(***************************************************************************)
(* The fhk solver (fhk/solve.c).                                           *)
(*                                                                         *)
(* A solver is a coroutine.  It takes roots from a queue, selects for each *)
(* the cheapest chain of models by branch and bound on a stack of its own  *)
(* (S_select_chain), computes the values along the chains                  *)
(* (S_compute_value), and yields to its driver whenever it needs a given   *)
(* value or a model call.  Between a yield and its resumption the driver   *)
(* may queue more roots and set given values.                              *)
(*                                                                         *)
(* Variables, models and shadows are instances here: a graph comes with    *)
(* its maps applied, an edge as the sequence of instances that its subset  *)
(* lists.  Costs are integers, so that bounds on S are rounded down, which *)
(* compares the same.  A cost of -1 is SP_MARK.                            *)
(*                                                                         *)
(* BestAlone, KnownBoundInf, CandidateBoundStale, ScanAhead, AlwaysCalls,  *)
(* WaitingDropped, CollectAll and RetBufOnlyUser are deliberately wrong    *)
(* variants of the definition that follows them; no action uses them.      *)
(***************************************************************************)
EXTENDS Integers, Sequences, FiniteSetsExt, SequencesExt

CONSTANTS
    Graphs,     \* graphs, see IsGraph
    Given,      \* given variable instances
    VarOf,      \* the variable of each of them
    MaxCost,    \* MAX_COST
    Inf,        \* INFINITY
    MaxStk,     \* MAX_STK
    MaxCand,    \* MAX_CANDSTK
    MaxRoots,   \* bound on the roots that the driver queues
    None        \* no chain, no value, no shadow

-----------------------------------------------------------------------------
(* Graphs, and what their chains cost.                                     *)

Larger(a, b) == IF a > b THEN a ELSE b
Smaller(a, b) == IF a < b THEN a ELSE b
Cap(n) == Smaller(n, Inf)

(* models[x]: one sequence of candidate instances for each model edge.     *)
(* A model has computed parameters (a sequence for each edge), given       *)
(* parameters, shadow edges and return edges.  A shadow guards x, computed *)
(* or given; ok says whether x's value will pass; next is the following    *)
(* instance of the same shadow.  A user map may list any instances, a      *)
(* space map lists all of a variable, and ident exactly one.               *)
IsGraph(g) ==
    LET Vs == DOMAIN g.models
        Ms == DOMAIN g.mod
        Ws == DOMAIN g.shadow
    IN /\ Vs \cap Given = {} /\ g.given \subseteq Given /\ IsFiniteSet(Vs) /\ IsFiniteSet(Ws)
       /\ None \notin Ms /\ None \notin [ei : Nat, m : Ms]
       /\ \A x \in Vs : /\ g.models[x] \in Seq(Seq(Ms)) \ {<<>>}
                        /\ \A e \in Range(g.models[x]) : \A m \in Range(e) :
                              \E r \in Range(g.mod[m].returns) : x \in Range(r.over)
       /\ \A m \in Ms :
             /\ g.mod[m].k \in Nat /\ g.mod[m].c \in Nat \ {0}
             /\ g.mod[m].cmin \in Nat /\ g.mod[m].cmin >= g.mod[m].k
             /\ g.mod[m].params \in Seq(Seq(Vs))
             /\ g.mod[m].given \in Seq(g.given)
             /\ g.mod[m].shadows \in Seq([penalty : Nat, over : Seq(Ws)])
             /\ g.mod[m].returns \in
                   Seq([over : Seq(Vs), map : {"ident", "space", "user"}]) \ {<<>>}
       /\ \A w \in Ws : /\ g.shadow[w].x \in Vs \cup g.given /\ g.shadow[w].ok \in BOOLEAN
                        /\ g.shadow[w].next \in Ws \cup {None}
       /\ g.roots \subseteq (Seq(Vs) \cup Seq(g.given)) \ {<<>>}

(* costf and its inverse.                                                  *)
Costf(g, m, S) == Cap(g.mod[m].k + g.mod[m].c * S)
CostfInvS(g, m, cost) == (cost - g.mod[m].k) \div g.mod[m].c

(* step applied n times, and the sums of the first elements of c.          *)
Iterated(step, base, n) ==
    LET It[i \in 0 .. n] == IF i = 0 THEN base ELSE step[It[i - 1]]
    IN It[n]
Sums(c) ==
    LET Acc[i \in 0 .. Len(c)] == IF i = 0 THEN 0 ELSE Acc[i - 1] + c[i]
    IN Acc
Total(c) == Sums(c)[Len(c)]

(* Enough rounds for chains that visit every variable.                     *)
Longest(g) == Cardinality(DOMAIN g.models) + 1

ModelsOf(g, x) == UNION {Range(e) : e \in Range(g.models[x])}

(* A guard passes if its variable has a value and the value is right.  A   *)
(* penalty of Inf, which is what the frontend gives a check that states    *)
(* none (def.lua), makes the guard a condition of the model.               *)
PassesWith(g, w, C) == g.shadow[w].ok /\ g.shadow[w].x \in Given \cup C
Affordable(g, e, C) == e.penalty < Inf \/ \A w \in Range(e.over) : PassesWith(g, w, C)

(* Variables that some chain computes at a finite cost.                    *)
MoreComputable(g, C) ==
    {x \in DOMAIN g.models :
        \E m \in ModelsOf(g, x) :
           /\ \A p \in Range(g.mod[m].params) : Range(p) \subseteq C
           /\ \A e \in Range(g.mod[m].shadows) : Affordable(g, e, C)}
Computable(g) ==
    Iterated([C \in SUBSET DOMAIN g.models |-> MoreComputable(g, C)], {}, Longest(g))

Passes(g, w) == PassesWith(g, w, Computable(g))

(* The cost of a model if variables cost vc: a penalty for each shadow     *)
(* edge on which some instance does not pass, and for each parameter edge  *)
(* the largest cost on it.                                                 *)
ShadowCost(g, e) == IF \A w \in Range(e.over) : Passes(g, w) THEN 0 ELSE e.penalty
ShadowCosts(g, m) ==
    [i \in DOMAIN g.mod[m].shadows |-> ShadowCost(g, g.mod[m].shadows[i])]
EdgeCost(e, vc) == Max({0} \cup {vc[y] : y \in Range(e)})
ParamCosts(g, m, vc) == [i \in DOMAIN g.mod[m].params |-> EdgeCost(g.mod[m].params[i], vc)]
ModelCost(g, m, vc) ==
    Costf(g, m, Cap(Total(ShadowCosts(g, m)) + Total(ParamCosts(g, m, vc))))

(* The least cost of every variable over all its chains.                   *)
Relax(g, vc) ==
    [x \in DOMAIN g.models |-> Min({Inf} \cup {ModelCost(g, m, vc) : m \in ModelsOf(g, x)})]
TrueCosts(g) ==
    Iterated([vc \in [DOMAIN g.models -> 0 .. Inf] |-> Relax(g, vc)],
             [x \in DOMAIN g.models |-> Inf], Longest(g))

(* Variables that x depends on, itself only if it is on a cycle.           *)
Needed(g, m) ==
    ((UNION {Range(p) : p \in Range(g.mod[m].params)})
     \cup {g.shadow[w].x : w \in UNION {Range(e.over) : e \in Range(g.mod[m].shadows)}}) \ Given
Direct(g, x) == UNION {Needed(g, m) : m \in ModelsOf(g, x)}
Depends(g, x) ==
    Iterated([D \in SUBSET DOMAIN g.models |-> D \cup UNION {Direct(g, y) : y \in D}],
             Direct(g, x), Longest(g))

(* cmin is the fixed cost or a bound that pruning found.                   *)
ASSUME SolverAssumption ==
    /\ MaxCost \in Nat /\ Inf \in Nat /\ MaxCost < Inf /\ MaxStk \in Nat \ {0}
    /\ MaxCand \in Nat /\ MaxRoots \in Nat /\ DOMAIN VarOf = Given
    /\ \A g \in Graphs : /\ IsGraph(g)
                         /\ LET vc == TrueCosts(g)
                            IN \A m \in DOMAIN g.mod : g.mod[m].cmin <= ModelCost(g, m, vc)

(* MAX_COST is FLT_MAX, the largest finite cost: what can be computed      *)
(* without an infinite penalty costs no more, as long as no sum of finite  *)
(* costs overflows.                                                        *)
ASSUME RangeAssumption ==
    \A g \in Graphs : LET vc == TrueCosts(g) IN \A x \in Computable(g) : vc[x] <= MaxCost

-----------------------------------------------------------------------------
VARIABLES
    G,          \* the graph
    truth,      \* its TrueCosts, for the properties only
    sp,         \* s_vstate: [cost, chain, value] of variable instances
    mp,         \* s_mstate: [cost, chain, value] of model instances
    sw,         \* s_sstate: "none", "pass" or "fail"
    X,          \* x_state, the work stack; X[1] is the base
    pc,         \* what the solver is about to do
    arg,        \* X_i (with X_inst) and X_beta on entry, X_cost on exit
    V,          \* activations of S_compute_value
    r_buf,      \* the root queue
    cur,        \* S_solve's locals: [num, i, j]
    have,       \* given values that were set (complement of s_vmstate)
    val,        \* s_value: the model instance whose result is in a variable
    called,     \* model instances that have been called
    asked,      \* all roots the driver queued
    answered,   \* roots whose values were delivered
    status      \* what the last yield reported

graph_vars == <<G, truth>>
vars == <<graph_vars, sp, mp, sw, X, pc, arg, V, r_buf, cur, have, val, called, asked, answered, status>>

Var == DOMAIN G.models
Mod == DOMAIN G.mod

(* Candidates of x: [ei, m], in the order of the candidate loop.           *)
Cands(x) == FlattenSeq([ei \in DOMAIN G.models[x] |->
                [j \in DOMAIN G.models[x][ei] |-> [ei |-> ei, m |-> G.models[x][ei][j]]]])
(* Candidate stack entries: one for each edge whose subset is not empty.   *)
NCand(x) == Cardinality({ei \in DOMAIN G.models[x] : G.models[x][ei] # <<>>})

Init ==
    /\ G \in Graphs
    /\ truth = TrueCosts(G)
    /\ sp = [x \in Var |-> [cost |-> 0, chain |-> None, value |-> FALSE]]
    /\ mp = [m \in Mod |-> [cost |-> G.mod[m].cmin, chain |-> FALSE, value |-> FALSE]]
    /\ sw = [w \in DOMAIN G.shadow |-> "none"]
    /\ X = <<[where |-> "done", ncand |-> 0]>>
    /\ pc = "start"
    /\ arg = [x |-> None, beta |-> 0, cost |-> 0]
    /\ V = <<>>
    /\ r_buf = <<>>
    /\ cur = [num |-> 0, i |-> 1, j |-> 1]
    /\ have = {}
    /\ val = [x \in Var |-> None]
    /\ called = {}
    /\ asked = <<>>
    /\ answered = <<>>
    /\ status = [code |-> "OK", of |-> None, touch |-> FALSE]

search_vars == <<X, arg, mp, sw>>
value_vars == <<V, val, called>>
root_vars == <<r_buf, cur, asked, answered>>

(* J_exit, E_exit: the coroutine only ever yields the error from now on.   *)
Error(code, of) == pc' = "error" /\ status' = [code |-> code, of |-> of, touch |-> FALSE]

(* J_vref: ask for a given value.  touch: no value of the variable is set. *)
SetOf(v) == {y \in have : VarOf[y] = v}
Vref(y) ==
    /\ pc' = "yield"
    /\ status' = [code |-> "VREF", of |-> y, touch |-> SetOf(VarOf[y]) = {}]

Top == X[Len(X)]
Pop == SubSeq(X, 1, Len(X) - 1)
SetTop(f) == [X EXCEPT ![Len(X)] = f]

-----------------------------------------------------------------------------
(* S_select_chain.                                                         *)

(* x_solve: enter the search for arg.x up to arg.beta.                     *)
CandStk == FoldLeft(LAMBDA n, f : n + f.ncand, 0, X)
XSolve ==
    /\ pc = "solve"
    /\ LET x == arg.x IN
          IF Len(X) >= MaxStk \/ (sp[x].cost >= 0 /\ CandStk + Len(G.models[x]) >= MaxCand)
          THEN Error("DEPTH", x) /\ UNCHANGED <<X, sp, arg>>
          ELSE IF sp[x].cost < 0
          THEN Error("NYI", x) /\ UNCHANGED <<X, sp, arg>>
          ELSE /\ X' = Append(X, [x |-> x, beta |-> arg.beta, ncand |-> NCand(x), where |-> "none",
                                  m |-> None, ei |-> 0, mbeta |-> 0, costS |-> 0, betaS |-> 0,
                                  edge |-> 1, pos |-> 1, ssmax |-> 0])
               /\ sp' = [sp EXCEPT ![x].cost = -1]
               /\ arg' = [arg EXCEPT !.cost = Inf]
               /\ pc' = IF NCand(x) > 0 THEN "candidate" ELSE "failed"
               /\ UNCHANGED status
    /\ UNCHANGED <<graph_vars, mp, sw, value_vars, root_vars, have>>

(* candidate: the instance with the least low bound, and the bound m_beta  *)
(* above which another candidate has to be considered.                     *)
BestAlone(x, beta) ==
    LET cs == Cands(x)
        Scan[n \in 0 .. Len(cs)] ==
            IF n = 0 THEN [cand |-> None, beta |-> beta, cost |-> Inf]
            ELSE IF mp[cs[n].m].cost < Scan[n - 1].cost
            THEN [cand |-> cs[n], beta |-> beta, cost |-> mp[cs[n].m].cost]
            ELSE Scan[n - 1]
    IN Scan[Len(cs)]
Better(b, c, cost) ==
    [cand |-> IF cost < b.cost THEN c ELSE b.cand,
     beta |-> Smaller(b.beta, Larger(b.cost, cost)),
     cost |-> Smaller(b.cost, cost)]
Best(x, beta) ==
    LET cs == Cands(x)
        Scan[n \in 0 .. Len(cs)] ==
            IF n = 0 THEN [cand |-> None, beta |-> beta, cost |-> Inf]
            ELSE Better(Scan[n - 1], cs[n], mp[cs[n].m].cost)
    IN Scan[Len(cs)]

Candidate ==
    /\ pc = "candidate"
    /\ LET best == Best(Top.x, Top.beta) IN
       IF best.cost > Top.beta
       THEN pc' = "failed" /\ arg' = [arg EXCEPT !.cost = best.cost] /\ UNCHANGED <<X, sp>>
       ELSE LET m == best.cand.m IN
            /\ X' = SetTop([Top EXCEPT !.m = m, !.ei = best.cand.ei, !.mbeta = best.beta,
                                       !.betaS = CostfInvS(G, m, best.beta), !.costS = 0,
                                       !.edge = 1, !.pos = 1])
            /\ IF mp[m].chain       \* solved for another variable it returns
               THEN /\ pc' = "chosen"
                    /\ arg' = [arg EXCEPT !.cost = best.cost]
                    /\ sp' = [sp EXCEPT ![Top.x].chain = best.cand]
               ELSE pc' = "shadow" /\ UNCHANGED <<arg, sp>>
    /\ UNCHANGED <<graph_vars, mp, sw, value_vars, root_vars, have, status>>

(* shadow_penalty, on the current edge of frame f at the top of stack s.   *)
Penalize(s, f) ==
    LET S == f.costS + G.mod[f.m].shadows[f.edge].penalty IN
    /\ X' = [s EXCEPT ![Len(s)] = [f EXCEPT !.costS = S, !.edge = @ + 1, !.pos = 1]]
    /\ pc' = IF S > f.betaS THEN "bound" ELSE "shadow"

Shadows == G.mod[Top.m].shadows
W == Shadows[Top.edge].over[Top.pos]

(* One round of the shadow loops: the next edge, or the next instance of   *)
(* the current one.                                                        *)
ShadowsDone ==
    /\ pc = "shadow"
    /\ Top.edge > Len(Shadows)
    /\ X' = SetTop([Top EXCEPT !.edge = Len(G.mod[Top.m].params), !.pos = 1, !.ssmax = 0])
    /\ pc' = "param"
    /\ UNCHANGED <<graph_vars, sp, mp, sw, arg, value_vars, root_vars, have, status>>
ShadowEdgePassed ==
    /\ pc = "shadow"
    /\ Top.edge <= Len(Shadows) /\ Top.pos > Len(Shadows[Top.edge].over)
    /\ X' = SetTop([Top EXCEPT !.edge = @ + 1, !.pos = 1])
    /\ UNCHANGED <<graph_vars, sp, mp, sw, arg, pc, value_vars, root_vars, have, status>>
Shadow ==
    /\ pc = "shadow"
    /\ Top.edge <= Len(Shadows) /\ Top.pos <= Len(Shadows[Top.edge].over)
    /\ LET x == G.shadow[W].x IN
       CASE sw[W] = "pass" ->
               X' = SetTop([Top EXCEPT !.pos = @ + 1]) /\ UNCHANGED <<pc, arg, status>>
         [] sw[W] = "fail" ->
               Penalize(X, Top) /\ UNCHANGED <<arg, status>>
         [] sw[W] = "none" /\ x \in Given ->
               /\ IF x \in have THEN pc' = "check" /\ UNCHANGED status ELSE Vref(x)
               /\ UNCHANGED <<X, arg>>
         [] sw[W] = "none" /\ x \in Var /\ sp[x].chain = None ->
               /\ pc' = "solve"
               /\ X' = SetTop([Top EXCEPT !.where = "shadow"])
               /\ arg' = [arg EXCEPT !.x = x, !.beta = MaxCost]
               /\ UNCHANGED status
         [] OTHER ->
               /\ pc' = IF sp[x].value THEN "check" ELSE "value"
               /\ arg' = [arg EXCEPT !.x = x]
               /\ UNCHANGED <<X, status>>
    /\ UNCHANGED <<graph_vars, sp, mp, sw, value_vars, root_vars, have>>

(* scanv_computed, scanv_given: the instance and the following ones of the *)
(* shadow as far as they have values.                                      *)
HasValue(x) == IF x \in Given THEN x \in have ELSE sp[x].value
Following(ws) == {G.shadow[v].next : v \in ws} \ {None}
ScanAhead(w) ==
    LET Scan[n \in 0 .. Cardinality(DOMAIN G.shadow)] ==
            IF n = 0 THEN {w} ELSE Scan[n - 1] \cup Following(Scan[n - 1])
    IN Scan[Cardinality(DOMAIN G.shadow)]
Scanned(w) ==
    LET Scan[n \in 0 .. Cardinality(DOMAIN G.shadow)] ==
            IF n = 0 THEN {w}
            ELSE Scan[n - 1] \cup {u \in Following(Scan[n - 1]) : HasValue(G.shadow[u].x)}
    IN Scan[Cardinality(DOMAIN G.shadow)]

(* S_checkscan: evaluate the guard on all of them.                         *)
Check ==
    /\ pc = "check"
    /\ sw' = [w \in DOMAIN sw |->
                IF w \notin Scanned(W) THEN sw[w]
                ELSE IF sw[w] = "pass" \/ G.shadow[w].ok THEN "pass" ELSE "fail"]
    /\ IF sw'[W] = "pass"
       THEN X' = SetTop([Top EXCEPT !.pos = @ + 1]) /\ pc' = "shadow"
       ELSE Penalize(X, Top)
    /\ UNCHANGED <<graph_vars, sp, mp, arg, value_vars, root_vars, have, status>>

Params == G.mod[Top.m].params

(* One round of the parameter loops, from the last edge to the first.  An  *)
(* edge costs as much as the dearest instance of its subset.               *)
Param ==
    /\ pc = "param"
    /\ Top.edge > 0 /\ Top.pos <= Len(Params[Top.edge])
    /\ LET y == Params[Top.edge][Top.pos] IN
       IF Top.costS + sp[y].cost > Top.betaS
       THEN X' = SetTop([Top EXCEPT !.costS = Cap(@ + sp[y].cost)]) /\ pc' = "bound" /\ UNCHANGED arg
       ELSE IF sp[y].chain # None
       THEN /\ X' = SetTop([Top EXCEPT !.ssmax = Larger(@, sp[y].cost), !.pos = @ + 1])
            /\ UNCHANGED <<pc, arg>>
       ELSE /\ X' = SetTop([Top EXCEPT !.where = "param"])
            /\ arg' = [arg EXCEPT !.x = y, !.beta = Top.betaS - Top.costS]
            /\ pc' = "solve"
    /\ UNCHANGED <<graph_vars, sp, mp, sw, value_vars, root_vars, have, status>>
ParamEdgeDone ==
    /\ pc = "param"
    /\ Top.edge > 0 /\ Top.pos > Len(Params[Top.edge])
    /\ X' = SetTop([Top EXCEPT !.costS = @ + Top.ssmax, !.edge = @ - 1, !.pos = 1, !.ssmax = 0])
    /\ UNCHANGED <<graph_vars, sp, mp, sw, arg, pc, value_vars, root_vars, have, status>>

(* No parameter is left: the cost is exact and the chain is solved.        *)
ChainSolved ==
    /\ pc = "param"
    /\ Top.edge = 0
    /\ LET cost == Costf(G, Top.m, Top.costS) IN
       /\ mp' = [mp EXCEPT ![Top.m] = [cost |-> cost, chain |-> TRUE, value |-> FALSE]]
       /\ sp' = [sp EXCEPT ![Top.x].chain = [ei |-> Top.ei, m |-> Top.m]]
       /\ arg' = [arg EXCEPT !.cost = cost]
    /\ pc' = "chosen"
    /\ UNCHANGED <<graph_vars, sw, X, value_vars, root_vars, have, status>>

Below == X[Len(X) - 1]

(* x_chosen: arg.cost is the exact cost of the variable.                   *)
XChosen ==
    /\ pc = "chosen"
    /\ sp' = [sp EXCEPT ![Top.x].cost = arg.cost]
    /\ CASE Below.where = "param" ->
              /\ X' = [Pop EXCEPT ![Len(Pop)] = [Below EXCEPT !.ssmax = Larger(@, arg.cost),
                                                              !.pos = @ + 1]]
              /\ pc' = "param"
              /\ UNCHANGED arg
         [] Below.where = "shadow" ->
              X' = Pop /\ pc' = "value" /\ arg' = [arg EXCEPT !.x = Top.x]
         [] Below.where = "done" -> X' = Pop /\ pc' = "chains" /\ UNCHANGED arg
    /\ UNCHANGED <<graph_vars, mp, sw, value_vars, root_vars, have, status>>

(* x_failed: no chain up to beta, and what is known of the cost instead.   *)
KnownBoundInf == Inf
KnownBound == arg.cost

XFailed ==
    /\ pc = "failed"
    /\ sp' = [sp EXCEPT ![Top.x].cost = KnownBound]
    /\ CASE Below.where = "param" ->
              /\ X' = Pop
              /\ mp' = [mp EXCEPT ![Below.m].cost = Costf(G, Below.m, Cap(Below.costS + arg.cost))]
              /\ pc' = "candidate"
              /\ UNCHANGED <<sw, status>>
         [] Below.where = "shadow" ->
              /\ sw' = [sw EXCEPT ![G.mod[Below.m].shadows[Below.edge].over[Below.pos]] = "fail"]
              /\ Penalize(Pop, Below)
              /\ UNCHANGED <<mp, status>>
         [] Below.where = "done" -> X' = Pop /\ Error("CHAIN", Top.x) /\ UNCHANGED <<mp, sw>>
    /\ UNCHANGED <<graph_vars, arg, value_vars, root_vars, have>>

(* x_bound: the candidate costs more than its bound; remember how much.    *)
CandidateBoundStale == mp[Top.m].cost
CandidateBound == Costf(G, Top.m, Top.costS)

XBound ==
    /\ pc = "bound"
    /\ mp' = [mp EXCEPT ![Top.m].cost = CandidateBound]
    /\ IF CandidateBound <= Top.mbeta THEN Error("NYI", Top.x)
       ELSE pc' = "candidate" /\ UNCHANGED status
    /\ UNCHANGED <<graph_vars, sp, sw, X, arg, value_vars, root_vars, have>>

SelectChain ==
    \/ XSolve \/ Candidate \/ ShadowsDone \/ ShadowEdgePassed \/ Shadow \/ Check
    \/ Param \/ ParamEdgeDone \/ ChainSolved \/ XChosen \/ XFailed \/ XBound

-----------------------------------------------------------------------------
(* S_compute_value.                                                        *)

(* g_mretbuf: whether a model returns into a buffer of its own, rather     *)
(* than directly into the variables.                                       *)
RetBufOnlyUser(m) ==
    LET returns == G.mod[m].returns IN
    /\ ~(Len(returns) = 1 /\ returns[1].map = "ident")
    /\ \E e \in Range(returns) : e.map = "user"
RetBuf(m) ==
    LET returns == G.mod[m].returns IN
    /\ ~(Len(returns) = 1 /\ returns[1].map = "ident")
    /\ \E e \in Range(returns) : e.map = "user" \/ \E x \in Range(e.over) : Len(G.models[x]) # 1
Returned(m) == UNION {Range(e.over) : e \in Range(G.mod[m].returns)}

(* A model is called once, for the first variable computed with it.        *)
AlwaysCalls(m) == TRUE
NeedsCall(m) == ~mp[m].value

(* Entry, for arg.x.  Without a chain the debug build stops here; the      *)
(* release build would go on with an arbitrary model.                      *)
ComputeValue ==
    /\ pc = "value"
    /\ IF sp[arg.x].chain = None
       THEN Error("ASSERT", arg.x) /\ UNCHANGED <<sp, mp, V>>
       ELSE LET m == sp[arg.x].chain.m IN
            /\ sp' = [sp EXCEPT ![arg.x].value = TRUE]
            /\ mp' = [mp EXCEPT ![m].value = TRUE]
            /\ V' = Append(V, [x |-> arg.x, m |-> m, edge |-> 1, pos |-> 1])
            /\ pc' = IF NeedsCall(m) THEN "args" ELSE "unpack"
            /\ UNCHANGED status
    /\ UNCHANGED <<graph_vars, X, sw, arg, val, called, root_vars, have>>

Act == V[Len(V)]

(* S_get_computed_si: compute the parameters that have no value, in order. *)
Args ==
    /\ pc = "args"
    /\ Act.edge <= Len(G.mod[Act.m].params)
    /\ LET e == G.mod[Act.m].params[Act.edge] IN
       /\ V' = [V EXCEPT ![Len(V)] = IF Act.pos < Len(e) THEN [Act EXCEPT !.pos = @ + 1]
                                     ELSE [Act EXCEPT !.edge = @ + 1, !.pos = 1]]
       /\ IF e # <<>> /\ ~sp[e[Act.pos]].value
          THEN pc' = "value" /\ arg' = [arg EXCEPT !.x = e[Act.pos]]
          ELSE UNCHANGED <<pc, arg>>
    /\ UNCHANGED <<graph_vars, X, sp, mp, sw, val, called, root_vars, have, status>>

(* S_get_given, J_modcall: ask for missing given values, then for a call.  *)
Modcall ==
    /\ pc = "args"
    /\ Act.edge > Len(G.mod[Act.m].params)
    /\ LET g == G.mod[Act.m].given
           missing == {j \in DOMAIN g : g[j] \notin have} IN
       IF missing # {} THEN Vref(g[Min(missing)])
       ELSE pc' = "yield" /\ status' = [code |-> "MODCALL", of |-> Act.m, touch |-> FALSE]
    /\ UNCHANGED <<graph_vars, search_vars, sp, value_vars, root_vars, have>>

(* The value is taken from the model's buffer; back to the caller.         *)
Unpack ==
    /\ pc = "unpack"
    /\ val' = IF RetBuf(Act.m) THEN [val EXCEPT ![Act.x] = Act.m] ELSE val
    /\ V' = SubSeq(V, 1, Len(V) - 1)
    /\ pc' = IF Len(V) > 1 THEN "args" ELSE IF Len(X) > 1 THEN "check" ELSE "values"
    /\ UNCHANGED <<graph_vars, search_vars, sp, called, root_vars, have, status>>

Compute == ComputeValue \/ Args \/ Modcall \/ Unpack

-----------------------------------------------------------------------------
(* S_solve: the roots that are queued when a round starts are treated      *)
(* together, in four passes.                                               *)

Root == r_buf[cur.i]
First == [cur EXCEPT !.i = 1, !.j = 1]
NextInst == IF cur.j < Len(Root) THEN [cur EXCEPT !.j = @ + 1] ELSE [cur EXCEPT !.i = @ + 1, !.j = 1]
PassOver == cur.i > cur.num

Start ==
    /\ pc = "start"
    /\ IF r_buf = <<>>
       THEN /\ pc' = "yield" /\ status' = [code |-> "OK", of |-> None, touch |-> FALSE]
            /\ UNCHANGED cur
       ELSE pc' = "givens" /\ cur' = [num |-> Len(r_buf), i |-> 1, j |-> 1] /\ UNCHANGED status
    /\ UNCHANGED <<graph_vars, search_vars, sp, value_vars, r_buf, asked, answered, have>>

Givens ==
    /\ pc = "givens"
    /\ IF PassOver THEN pc' = "chains" /\ cur' = First /\ UNCHANGED status
       ELSE IF Root[cur.j] \in Given \ have THEN Vref(Root[cur.j]) /\ UNCHANGED cur
       ELSE cur' = NextInst /\ UNCHANGED <<pc, status>>
    /\ UNCHANGED <<graph_vars, search_vars, sp, value_vars, r_buf, asked, answered, have>>

(* SP_DONE: a chain, or known to have none.                                *)
SpDone(x) == sp[x].chain # None \/ sp[x].cost >= MaxCost

Chains ==
    /\ pc = "chains"
    /\ IF PassOver THEN pc' = "values" /\ cur' = First /\ UNCHANGED arg
       ELSE IF Root[cur.j] \in Given \/ SpDone(Root[cur.j]) THEN cur' = NextInst /\ UNCHANGED <<pc, arg>>
       ELSE /\ pc' = "solve"
            /\ arg' = [arg EXCEPT !.x = Root[cur.j], !.beta = MaxCost]
            /\ UNCHANGED cur
    /\ UNCHANGED <<graph_vars, X, sp, mp, sw, value_vars, r_buf, asked, answered, have, status>>

Values ==
    /\ pc = "values"
    /\ IF PassOver THEN pc' = "collect" /\ UNCHANGED <<cur, arg>>
       ELSE IF HasValue(Root[cur.j]) THEN cur' = NextInst /\ UNCHANGED <<pc, arg>>
       ELSE /\ pc' = "value"
            /\ arg' = [arg EXCEPT !.x = Root[cur.j]]
            /\ UNCHANGED cur
    /\ UNCHANGED <<graph_vars, X, sp, mp, sw, value_vars, r_buf, asked, answered, have, status>>

(* Deliver the values of the round; what was queued meanwhile stays.       *)
WaitingDropped == <<>>
Waiting == SubSeq(r_buf, cur.num + 1, Len(r_buf))

CollectAll ==
    /\ pc = "collect"
    /\ answered' = answered \o r_buf
    /\ r_buf' = <<>>
    /\ pc' = "start"
    /\ UNCHANGED <<graph_vars, search_vars, sp, value_vars, cur, asked, have, status>>
Collect ==
    /\ pc = "collect"
    /\ answered' = answered \o SubSeq(r_buf, 1, cur.num)
    /\ r_buf' = Waiting
    /\ pc' = "start"
    /\ UNCHANGED <<graph_vars, search_vars, sp, value_vars, cur, asked, have, status>>

Solve == Start \/ Givens \/ Chains \/ Values \/ Collect
Solver == SelectChain \/ Compute \/ Solve

-----------------------------------------------------------------------------
(* The driver, while the solver is suspended.                              *)

Suspended == pc = "yield"

(* fhkS_setroot.                                                           *)
SetRoot(r) ==
    /\ Suspended
    /\ Len(asked) < MaxRoots
    /\ asked' = Append(asked, r)
    /\ r_buf' = Append(r_buf, r)
    /\ UNCHANGED <<graph_vars, search_vars, sp, pc, value_vars, cur, have, answered, status>>

(* fhkS_setvaluei, of one instance: setting a value twice is an error.     *)
SetValue(y) ==
    /\ Suspended
    /\ IF y \in have THEN Error("INVAL", y) /\ UNCHANGED have
       ELSE have' = have \cup {y} /\ UNCHANGED <<pc, status>>
    /\ UNCHANGED <<graph_vars, search_vars, sp, value_vars, root_vars>>

(* fhk_continue: what the solver does right after each yield.  A direct    *)
(* model has written all that it returns.                                  *)
Continue ==
    /\ Suspended
    /\ CASE status.code = "OK" -> pc' = "start" /\ UNCHANGED <<called, val, status>>
         [] status.code = "MODCALL" ->
              /\ called' = called \cup {status.of}
              /\ val' = [x \in Var |-> IF ~RetBuf(status.of) /\ x \in Returned(status.of)
                                       THEN status.of ELSE val[x]]
              /\ pc' = "unpack"
              /\ UNCHANGED status
         [] status.code = "VREF" ->
              /\ IF status.of \in have \/ (status.touch /\ SetOf(VarOf[status.of]) # {})
                 THEN /\ pc' = IF V # <<>> THEN "args" ELSE IF Len(X) > 1 THEN "shadow" ELSE "givens"
                      /\ UNCHANGED status
                 ELSE Error("NVALUE", status.of)
              /\ UNCHANGED <<called, val>>
    /\ UNCHANGED <<graph_vars, search_vars, sp, V, root_vars, have>>

(* An error is yielded again and again.                                    *)
ContinueError == pc = "error" /\ UNCHANGED vars

Next ==
    \/ Solver
    \/ \E r \in G.roots : SetRoot(r)
    \/ \E y \in G.given : SetValue(y)
    \/ Continue
    \/ ContinueError

Spec == Init /\ [][Next]_vars

(* The driver always continues the solver, and a continued solver runs to  *)
(* its next yield.                                                         *)
FairSpec == Spec /\ WF_vars(Solver) /\ WF_vars(Continue)

-----------------------------------------------------------------------------
(* Properties.                                                             *)

(* The solver's own main invariant ("it is ALWAYS true that truecost >=    *)
(* sp->cost, for both variables and models"): no pruning of the search, in *)
(* no state of it, ever records more than the least cost over all chains.  *)
CostsAreLowBounds ==
    /\ \A x \in Var : sp[x].cost <= truth[x]
    /\ \A m \in Mod : mp[m].cost <= ModelCost(G, m, truth)

(* A selected chain is a cheapest one: the recorded cost is the least over *)
(* all chains, and the model behind it has been solved at the same cost.   *)
ChainsOptimal ==
    \A x \in Var : sp[x].chain # None /\ sp[x].cost >= 0 =>
        /\ sp[x].cost = truth[x]
        /\ mp[sp[x].chain.m].chain /\ mp[sp[x].chain.m].cost = sp[x].cost

(* When the driver is asked to call a model, it has not been called for    *)
(* another of its variables before, and all its parameters have values.    *)
CallsReady ==
    Suspended /\ status.code = "MODCALL" =>
        LET m == G.mod[status.of] IN
        /\ status.of \notin called
        /\ \A e \in Range(m.params) : \A y \in Range(e) : val[y] # None
        /\ Range(m.given) \subseteq have

(* A shadow is marked as passed or failed only after its guard was applied *)
(* to a value that exists, or after its variable turned out to have no     *)
(* chain of finite cost; the marks that S_checkscan sets ahead included.   *)
GuardsSawValues ==
    \A w \in DOMAIN sw :
        /\ sw[w] # "none" /\ HasValue(G.shadow[w].x) => (sw[w] = "pass") = G.shadow[w].ok
        /\ sw[w] # "none" /\ ~HasValue(G.shadow[w].x) =>
              sw[w] = "fail" /\ G.shadow[w].x \in Var \ Computable(G)

(* The solver gives up on a root only if no chain computes it at a finite  *)
(* cost, and finds a cycle only where variables depend on each other.      *)
ErrorsAreHonest ==
    /\ status.code = "CHAIN" => status.of \notin Computable(G)
    /\ status.code = "NYI" => status.of \in Depends(G, status.of)

(* Roots are answered in the order in which they were queued, none is      *)
(* lost, also when it was queued during a yield in the middle of a round,  *)
(* and every value of an answered root exists.                             *)
AnsweredInOrder ==
    /\ asked = answered \o r_buf
    /\ \A r \in Range(answered) : \A x \in Range(r) :
          IF x \in Given THEN x \in have ELSE val[x] # None

(* What is stored for a variable is the result of the model that its chain *)
(* names, never of another model that also returns it.                     *)
ValuesFromChain ==
    \A x \in Var : sp[x].value /\ (\A i \in DOMAIN V : V[i].x # x) => val[x] = sp[x].chain.m

(* Every queued root is answered or ends in an error: the search through   *)
(* bounds, failures and other candidates terminates.                       *)
RootsAnswered ==
    \A n \in 1 .. MaxRoots : Len(asked) >= n ~> (Len(answered) >= n \/ pc = "error")

(* "xi must be uncomputed with a chain" (S_compute_value).                 *)
ComputesWithChain == pc = "value" => sp[arg.x].chain # None

(* "if the model being selected implies it will be always chosen for each  *)
(* return edge, we can ... write directly to var memory" (g_mretbuf).      *)
DirectModelsAlwaysChosen ==
    \A m \in Mod : ~RetBuf(m) /\ (\E x \in Returned(m) : sp[x].chain # None /\ sp[x].chain.m = m) =>
        \A x \in Returned(m) : sp[x].chain # None => sp[x].chain.m = m
=============================================================================
