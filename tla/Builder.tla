------------------------------ MODULE Builder ------------------------------
(***************************************************************************)
(* Building computational graphs (fhk/build.c).                            *)
(*                                                                         *)
(* A definition collects variables, shadows, models and edges.  Building   *)
(* lays it out in one block of memory whose size was computed beforehand:  *)
(* the edge arrays are placed so that those the solver walks together are  *)
(* near each other, external maps become internal ones, and parameters and *)
(* shadows are ordered for the solver.                                     *)
(*                                                                         *)
(* Nodes are added in the order of transform.lua's build: variables,       *)
(* shadows, then each model followed by its edges.  Edges only name nodes  *)
(* that were added before, so the tests on handles never fail.  Indices    *)
(* start at 1 here; addresses and sizes are bytes.  Out of memory is left  *)
(* out, and so are the costs k, c, cmin, which are only copied.            *)
(*                                                                         *)
(* SizeOnce, CheckAssocFirst, GivenIntoComputed and InverseForward are     *)
(* deliberately wrong variants of the definition that follows them; no     *)
(* action uses them.                                                       *)
(***************************************************************************)
EXTENDS Integers, Sequences, SequencesExt, TLC

CONSTANTS
    Groups,     \* groups of models
    VarInputs,  \* variables: [group, cdiff] records
    ParamMaps, ReturnMaps, CheckMaps,   \* maps: Ident, Space and [map, inverse]
    Penalties,  \* penalties of checks
    G_MAXUMAP,  \* largest map, 127 in the code
    G_MAXIDX,   \* most models, and most variables and shadows
    G_MAXEDGE,  \* most edges of each kind that a model has
    G_MAXFWDE, G_MAXMODE,   \* most parameter and return edges of a variable
    MaxVars, MaxShadows, MaxModels,     \* bounds on the nodes
    MaxEdges,   \* bound on the edges of the definition
    Ident, Space, FHK_NGRP, NULL    \* FHKMAP_IDENT, FHKMAP_SPACE, no group, no pointer

IsUser(map) == map \notin {Ident, Space}
MAP_IDENT == -(G_MAXUMAP + 1)
G_MINUMAP == -G_MAXUMAP
Imaps == G_MINUMAP .. -1

ASSUME BuilderAssumption ==
    /\ G_MAXUMAP \in Nat /\ G_MAXIDX \in Nat /\ G_MAXEDGE \in Nat
    /\ G_MAXFWDE \in Nat /\ G_MAXMODE \in Nat
    /\ Groups \subseteq Nat /\ FHK_NGRP \notin Groups
    /\ \A v \in VarInputs : v.group \in Groups /\ v.cdiff \in Nat
    /\ \A map \in ParamMaps \cup ReturnMaps \cup CheckMaps : IsUser(map) =>
          {map.map, map.inverse} \subseteq G_MINUMAP .. G_MAXUMAP

VARIABLES
    D,      \* struct fhk_def
    G       \* the built graph, NULL until then

vars == <<D, G>>

Init ==
    /\ D = [vars |-> <<>>, shadows |-> <<>>, models |-> <<>>,
            maxg |-> -1, minimap |-> 0, maxkmap |-> -1,
            assoc |-> [i \in Imaps |-> FHK_NGRP]]
    /\ G = NULL

Larger(a, b) == IF a > b THEN a ELSE b
Smaller(a, b) == IF a < b THEN a ELSE b

-----------------------------------------------------------------------------
(* The definition.  A call that fails returns FHKE_INVAL.                  *)

NEdges == FoldLeft(LAMBDA n, m : n + Len(m.params) + Len(m.returns) + Len(m.shadows),
                   0, D.models)

AddVar(group, cdiff) ==
    /\ D.shadows = <<>> /\ D.models = <<>> /\ Len(D.vars) < MaxVars
    /\ Len(D.vars) + Len(D.shadows) # G_MAXIDX
    /\ group + D.maxkmap <= G_MAXUMAP
    /\ D' = [D EXCEPT !.vars = Append(@, [group |-> group, cdiff |-> cdiff, n_fwd |-> 0, n_mod |-> 0]),
                      !.maxg = Larger(@, group)]

AddShadow(xi) ==
    /\ D.models = <<>> /\ Len(D.shadows) < MaxShadows
    /\ Len(D.vars) + Len(D.shadows) # G_MAXIDX
    /\ D' = [D EXCEPT !.shadows = Append(@, xi)]

AddModel(group) ==
    /\ Len(D.models) < MaxModels
    /\ Len(D.models) # G_MAXIDX
    /\ group + D.maxkmap <= G_MAXUMAP
    /\ D' = [D EXCEPT !.models = Append(@, [group |-> group, params |-> <<>>, returns |-> <<>>,
                                            shadows |-> <<>>]),
                      !.maxg = Larger(@, group)]

(* d_checkmap: the definition after the check, and whether the map is      *)
(* accepted.  Associations stay when a later test fails.                   *)
Associate(r, i, group) ==
    IF ~r.ok \/ i >= 0 THEN r
    ELSE IF r.D.assoc[i] = FHK_NGRP THEN [r EXCEPT !.D.assoc[i] = group]
    ELSE [r EXCEPT !.ok = r.D.assoc[i] = group]
CheckAssocFirst(map, from, to) ==
    IF ~IsUser(map) THEN [D |-> D, ok |-> TRUE]
    ELSE LET r == Associate([D |-> D, ok |-> TRUE], map.map, from)
             maxkmap == Larger(D.maxkmap, Larger(map.map, map.inverse))
         IN IF ~r.ok \/ D.maxg + maxkmap > G_MAXUMAP THEN [r EXCEPT !.ok = FALSE]
            ELSE [r EXCEPT !.D.maxkmap = maxkmap,
                           !.D.minimap = Smaller(@, Smaller(map.map, map.inverse))]
CheckMap(map, from, to) ==
    IF ~IsUser(map) THEN [D |-> D, ok |-> TRUE]
    ELSE LET r == Associate(Associate([D |-> D, ok |-> TRUE], map.map, from), map.inverse, to)
             maxkmap == Larger(D.maxkmap, Larger(map.map, map.inverse))
             minimap == Smaller(D.minimap, Smaller(map.map, map.inverse))
         IN IF ~r.ok \/ D.maxg + maxkmap > G_MAXUMAP \/ minimap < G_MINUMAP
            THEN [r EXCEPT !.ok = FALSE]
            ELSE [r EXCEPT !.D.maxkmap = maxkmap, !.D.minimap = minimap]

(* The edges of the model that was added last, in the frontend's order.    *)
mi == Len(D.models)
Model == D.models[mi]

AddParam(xi, map) ==
    /\ mi > 0 /\ NEdges < MaxEdges /\ Model.returns = <<>> /\ Model.shadows = <<>>
    /\ Len(Model.params) # G_MAXEDGE /\ D.vars[xi].n_fwd # G_MAXFWDE
    /\ LET r == CheckMap(map, Model.group, D.vars[xi].group)
       IN D' = IF ~r.ok THEN r.D
               ELSE [r.D EXCEPT !.vars[xi].n_fwd = @ + 1,
                                !.models[mi].params = Append(@, [idx |-> xi, map |-> map])]

AddReturn(xi, map) ==
    /\ mi > 0 /\ NEdges < MaxEdges /\ Model.shadows = <<>>
    /\ Len(Model.returns) # G_MAXEDGE /\ D.vars[xi].n_mod # G_MAXMODE
    /\ LET r == CheckMap(map, Model.group, D.vars[xi].group)
       IN D' = IF ~r.ok THEN r.D
               ELSE [r.D EXCEPT !.vars[xi].n_mod = @ + 1,
                                !.models[mi].returns = Append(@, [idx |-> xi, map |-> map])]

AddCheck(wi, map, penalty) ==
    /\ mi > 0 /\ NEdges < MaxEdges
    /\ Len(Model.shadows) # G_MAXEDGE
    /\ LET r == CheckMap(map, Model.group, D.vars[D.shadows[wi]].group)
       IN D' = IF ~r.ok THEN r.D
               ELSE [r.D EXCEPT !.models[mi].shadows =
                        Append(@, [idx |-> wi, map |-> map, penalty |-> penalty])]

-----------------------------------------------------------------------------
(* Sizes: fhk_edge 4 bytes, fhk_shedge 8 bytes at addresses divisible by   *)
(* 4, fhk_grp one byte; the nodes take a multiple of 8.                    *)
SzEdge == 4
SzShedge == 8
AlShedge == 4
SzNodes == 24 + 48 * Len(D.models) + 24 * (Len(D.vars) + Len(D.shadows))
Align(p, a) == p + ((-p) % a)

Total(edges) == FoldLeft(LAMBDA n, m : n + Len(m[edges]), 0, D.models)
SizeOnce ==
    SzNodes + SzShedge * Total("shadows")
    + SzEdge * (Total("params") + 2 * Total("returns")) - D.minimap
GraphSize ==
    SzNodes + SzShedge * Total("shadows")
    + SzEdge * 2 * (Total("params") + Total("returns")) - D.minimap

(* The temporary v->m edges: the models of a variable's return and         *)
(* parameter edges, in the order of the definition.                        *)
EdgesTo(xi, edges) ==
    FlattenSeq([i \in DOMAIN D.models |->
        [j \in 1 .. Len(SelectSeq(D.models[i][edges], LAMBDA e : e.idx = xi)) |-> i]])

(* Placing edge arrays: s holds the free address p and the pointers.  The  *)
(* shadows of a model lie before its parameters, which point past them.    *)
PlaceBw(s, i) ==
    IF s.params[i] # NULL THEN s
    ELSE LET ns == Len(D.models[i].shadows)
             start == (IF ns > 0 THEN Align(s.p, AlShedge) ELSE s.p) + ns * SzShedge
         IN [s EXCEPT !.params[i] = start, !.p = start + Len(D.models[i].params) * SzEdge]
PlaceReturns(s, i) ==
    IF s.returns[i] # NULL THEN s
    ELSE [s EXCEPT !.returns[i] = s.p, !.p = @ + Len(D.models[i].returns) * SzEdge]
PlaceModels(s, xi) ==
    FoldLeft(PlaceBw, [s EXCEPT !.models[xi] = s.p, !.p = @ + D.vars[xi].n_mod * SzEdge],
             EdgesTo(xi, "returns"))
PlaceFwds(s, xi) ==
    FoldLeft(PlaceReturns, [s EXCEPT !.fwds[xi] = s.p, !.p = @ + D.vars[xi].n_fwd * SzEdge],
             EdgesTo(xi, "params"))
PlaceRest(s, i) == PlaceReturns(PlaceBw(s, i), i)
Layout ==
    LET xs == [i \in DOMAIN D.vars |-> i]
        ms == [i \in DOMAIN D.models |-> i]
        none == [p |-> SzNodes, models |-> [x \in DOMAIN D.vars |-> NULL],
                 fwds |-> [x \in DOMAIN D.vars |-> NULL],
                 params |-> [i \in DOMAIN D.models |-> NULL],
                 returns |-> [i \in DOMAIN D.models |-> NULL]]
    IN FoldLeft(PlaceRest, FoldLeft(PlaceFwds, FoldLeft(PlaceModels, none, xs), xs), ms)

(* External to internal maps, stored in a signed byte.  Constant user maps *)
(* follow the space maps, of which there is one for each group.            *)
ng == D.maxg + 1
Int8(n) == ((n + G_MAXUMAP + 1) % (2 * (G_MAXUMAP + 1))) - (G_MAXUMAP + 1)
Umap(map) == IF map >= 0 THEN Int8(map + ng) ELSE map
ExtMap(xi, map) ==
    IF map = Ident THEN MAP_IDENT
    ELSE IF map = Space THEN Int8(D.vars[xi].group) ELSE Umap(map.map)
InverseForward(i, map) ==
    IF map = Ident THEN MAP_IDENT
    ELSE IF map = Space THEN Int8(D.models[i].group) ELSE Umap(map.map)
ExtMapI(i, map) ==
    IF map = Ident THEN MAP_IDENT
    ELSE IF map = Space THEN Int8(D.models[i].group) ELSE Umap(map.inverse)

(* Writing the edges: s holds the memory and the counters n_fwd and n_mod, *)
(* cp and gp are the next computed and given parameter of the model.       *)
Put(s, at, cell) == [s EXCEPT !.mem = (at :> cell) @@ @]
Computed(xi) == D.vars[xi].n_mod > 0
CParams(i) == Len(SelectSeq(D.models[i].params, LAMBDA e : Computed(e.idx)))

WriteShadow(L, s, i, j) ==
    LET e == D.models[i].shadows[j]
    IN Put(s, L.params[i] - SzShedge * j,
           [idx |-> Len(D.vars) + e.idx, map |-> ExtMap(D.shadows[e.idx], e.map),
            penalty |-> e.penalty, computed |-> Computed(D.shadows[e.idx])])
GivenIntoComputed(L, s, i, j) ==
    LET e == D.models[i].params[j]
        t == Put(s, L.params[i] + SzEdge * (j - 1),
                 [idx |-> e.idx, map |-> ExtMap(e.idx, e.map), ex |-> j])
        u == Put(t, L.fwds[e.idx] + SzEdge * s.n_fwd[e.idx],
                 [idx |-> i, map |-> ExtMapI(i, e.map)])
    IN [u EXCEPT !.n_fwd[e.idx] = @ + 1]
WriteParam(L, s, i, j) ==
    LET e == D.models[i].params[j]
        computed == Computed(e.idx)
        t == Put(s, L.params[i] + SzEdge * (IF computed THEN s.cp ELSE s.gp),
                 [idx |-> e.idx, map |-> ExtMap(e.idx, e.map), ex |-> j])
        u == Put(t, L.fwds[e.idx] + SzEdge * s.n_fwd[e.idx],
                 [idx |-> i, map |-> ExtMapI(i, e.map)])
    IN [u EXCEPT !.n_fwd[e.idx] = @ + 1,
                 !.cp = IF computed THEN @ + 1 ELSE @, !.gp = IF computed THEN @ ELSE @ + 1]
WriteReturn(L, s, i, j) ==
    LET e == D.models[i].returns[j]
        t == Put(s, L.returns[i] + SzEdge * (j - 1),
                 [idx |-> e.idx, map |-> ExtMap(e.idx, e.map), ex |-> j])
        u == Put(t, L.models[e.idx] + SzEdge * s.n_mod[e.idx],
                 [idx |-> i, map |-> ExtMapI(i, e.map), ex |-> j])
    IN [u EXCEPT !.n_mod[e.idx] = @ + 1]
WriteModel(L, s, i) ==
    LET m == D.models[i]
        start == [s EXCEPT !.cp = 0, !.gp = CParams(i)]
        a == FoldLeft(LAMBDA t, j : WriteShadow(L, t, i, j), start, [j \in DOMAIN m.shadows |-> j])
        b == FoldLeft(LAMBDA t, j : WriteParam(L, t, i, j), a, [j \in DOMAIN m.params |-> j])
    IN FoldLeft(LAMBDA t, j : WriteReturn(L, t, i, j), b, [j \in DOMAIN m.returns |-> j])
Edges(L) ==
    LET none == [x \in DOMAIN D.vars |-> 0]
    IN FoldLeft(LAMBDA s, i : WriteModel(L, s, i),
                [mem |-> <<>>, n_fwd |-> none, n_mod |-> none, cp |-> 0, gp |-> 0],
                [i \in DOMAIN D.models |-> i])

(* g_copy_umaps: the entry of map i is at umap_assoc + i.                  *)
CopyUmaps(mem, p) ==
    [a \in p .. p - D.minimap - 1 |-> D.assoc[a - p + D.minimap]] @@ mem

(* g_reorder_edges: an exchange sort of n cells from address a on.         *)
Pairs(n) == FlattenSeq([j \in 1 .. n |-> [k \in 1 .. n - j |-> <<j - 1, j - 1 + k>>]])
SwapParams(mem, a, jk) ==
    LET p == a + SzEdge * jk[1]
        q == a + SzEdge * jk[2]
    IN IF D.vars[mem[p].idx].cdiff > D.vars[mem[q].idx].cdiff
       THEN [mem EXCEPT ![p] = mem[q], ![q] = mem[p]] ELSE mem
SwapShadows(mem, a, jk) ==
    LET p == a + SzShedge * jk[1]
        q == a + SzShedge * jk[2]
    IN IF mem[p].penalty < mem[q].penalty
       THEN [mem EXCEPT ![p] = mem[q], ![q] = mem[p]] ELSE mem
Reorder(L, mem, i) ==
    LET ns == Len(D.models[i].shadows)
        sorted == FoldLeft(LAMBDA t, jk : SwapParams(t, L.params[i], jk), mem, Pairs(CParams(i)))
    IN FoldLeft(LAMBDA t, jk : SwapShadows(t, L.params[i] - SzShedge * ns, jk), sorted, Pairs(ns))

(* g_mretbuf: whether a model returns into a buffer of its own.            *)
RetBuf(L, mem, i) ==
    LET n == Len(D.models[i].returns)
        ret(j) == mem[L.returns[i] + SzEdge * (j - 1)]
        user(map) == map # MAP_IDENT /\ (map < 0 \/ map >= ng)
    IN /\ ~(n = 1 /\ ret(1).map = MAP_IDENT)
       /\ \E j \in 1 .. n : D.vars[ret(j).idx].n_mod # 1 \/ user(ret(j).map)

(* fhk_build_graph.                                                        *)
BuildGraph ==
    LET L == Layout
        written == Edges(L)
        mem == FoldLeft(LAMBDA t, i : Reorder(L, t, i), CopyUmaps(written.mem, L.p),
                        [i \in DOMAIN D.models |-> i])
    IN [at |-> L, mem |-> mem, umap_assoc |-> L.p - D.minimap, end |-> L.p - D.minimap,
        n_fwd |-> written.n_fwd, n_mod |-> written.n_mod,
        p_cparam |-> [i \in DOMAIN D.models |-> CParams(i)],
        ng |-> ng, nimap |-> -D.minimap, nkmap |-> ng + D.maxkmap + 1,
        noretbuf |-> {i \in DOMAIN D.models : ~RetBuf(L, mem, i)}]

Build == D.models # <<>> /\ G' = BuildGraph /\ UNCHANGED D

Next ==
    /\ G = NULL
    /\ \/ /\ UNCHANGED G
          /\ \/ \E v \in VarInputs : AddVar(v.group, v.cdiff)
             \/ \E xi \in DOMAIN D.vars : AddShadow(xi)
             \/ \E g \in Groups : AddModel(g)
             \/ \E xi \in DOMAIN D.vars, map \in ParamMaps : AddParam(xi, map)
             \/ \E xi \in DOMAIN D.vars, map \in ReturnMaps : AddReturn(xi, map)
             \/ \E wi \in DOMAIN D.shadows, map \in CheckMaps, c \in Penalties :
                    AddCheck(wi, map, c)
       \/ Build

Spec == Init /\ [][Next]_vars

-----------------------------------------------------------------------------
Built == G # NULL
Cell(a, size, j) == G.mem[a + size * j]
Param(i, j) == Cell(G.at.params[i], SzEdge, j - 1)
Return(i, j) == Cell(G.at.returns[i], SzEdge, j - 1)
Shadow(i, j) == Cell(G.at.params[i], SzShedge, -j)
ModelOf(x, j) == Cell(G.at.models[x], SzEdge, j - 1)
FwdOf(x, j) == Cell(G.at.fwds[x], SzEdge, j - 1)

(* The arrays of the graph, as address intervals.                          *)
Arrays ==
    {[of |-> <<"models", x>>, lo |-> G.at.models[x], hi |-> G.at.models[x] + SzEdge * G.n_mod[x]]
        : x \in DOMAIN D.vars}
    \cup {[of |-> <<"fwds", x>>, lo |-> G.at.fwds[x], hi |-> G.at.fwds[x] + SzEdge * G.n_fwd[x]]
        : x \in DOMAIN D.vars}
    \cup {[of |-> <<"bw", i>>, lo |-> G.at.params[i] - SzShedge * Len(D.models[i].shadows),
           hi |-> G.at.params[i] + SzEdge * Len(D.models[i].params)] : i \in DOMAIN D.models}
    \cup {[of |-> <<"returns", i>>, lo |-> G.at.returns[i],
           hi |-> G.at.returns[i] + SzEdge * Len(D.models[i].returns)] : i \in DOMAIN D.models}
    \cup {[of |-> <<"umaps", 0>>, lo |-> G.umap_assoc - G.nimap, hi |-> G.umap_assoc]}

(* The edge arrays and the map table do not overlap although several loops *)
(* place them, lie behind the nodes, and end exactly where fhk_graph_size  *)
(* said: the assertion at the end of fhk_build_graph.                      *)
ArraysFit ==
    Built =>
        /\ G.end = GraphSize
        /\ \A a \in Arrays : a.lo >= SzNodes /\ a.hi <= GraphSize
        /\ \A a, b \in Arrays : a # b => a.hi <= b.lo \/ b.hi <= a.lo
        /\ \A i \in DOMAIN D.models :
              D.models[i].shadows # <<>> => G.at.params[i] % AlShedge = 0

(* Whatever was written after it and wherever it was sorted to, each edge  *)
(* of the definition is found in the graph once, from both of its ends,    *)
(* with its position in the definition and mutually inverse maps.          *)
GraphIsDefinition ==
    Built =>
        /\ \A i \in DOMAIN D.models :
              LET m == D.models[i] IN
              /\ \A j \in DOMAIN m.params : \E k \in DOMAIN m.params :
                    Param(i, k) = [idx |-> m.params[j].idx, ex |-> j,
                                   map |-> ExtMap(m.params[j].idx, m.params[j].map)]
              /\ \A j \in DOMAIN m.returns :
                    /\ Return(i, j).idx = m.returns[j].idx
                    /\ Return(i, j).map = ExtMap(m.returns[j].idx, m.returns[j].map)
                    /\ \E k \in 1 .. G.n_mod[m.returns[j].idx] :
                          LET e == ModelOf(m.returns[j].idx, k)
                          IN e.idx = i /\ e.ex = j
                             /\ e.map = IF IsUser(m.returns[j].map) THEN Umap(m.returns[j].map.inverse)
                                        ELSE ExtMapI(i, m.returns[j].map)
              /\ \A j \in DOMAIN m.shadows : \E k \in DOMAIN m.shadows :
                    /\ Shadow(i, k).idx = Len(D.vars) + m.shadows[j].idx
                    /\ Shadow(i, k).penalty = m.shadows[j].penalty
                    /\ Shadow(i, k).map = ExtMap(D.shadows[m.shadows[j].idx], m.shadows[j].map)
        /\ \A x \in DOMAIN D.vars :
              /\ G.n_mod[x] = D.vars[x].n_mod /\ G.n_fwd[x] = D.vars[x].n_fwd
              /\ \A k \in 1 .. G.n_fwd[x] : LET i == FwdOf(x, k).idx IN
                    \E j \in DOMAIN D.models[i].params :
                       /\ D.models[i].params[j].idx = x
                       /\ FwdOf(x, k).map = ExtMapI(i, D.models[i].params[j].map)

(* What S_select_chain and S_compute_value rely on: the first p_cparam     *)
(* parameters are the computed ones, the last of them has the largest cost *)
(* difference, the first shadow the largest penalty, and an edge to a      *)
(* shadow says whether its variable is computed, by any model.             *)
SolverOrder ==
    Built => \A i \in DOMAIN D.models :
        LET m == D.models[i] IN
        /\ \A j \in DOMAIN m.params : (j <= G.p_cparam[i]) = (G.n_mod[Param(i, j).idx] > 0)
        /\ \A j, k \in 1 .. G.p_cparam[i] :
              j < k => D.vars[Param(i, j).idx].cdiff <= D.vars[Param(i, k).idx].cdiff
        /\ \A j, k \in DOMAIN m.shadows :
              j < k => Shadow(i, j).penalty <= Shadow(i, k).penalty
        /\ \A j \in DOMAIN m.shadows : Shadow(i, j).computed =
              (G.n_mod[D.shadows[Shadow(i, j).idx - Len(D.vars)]] > 0)

(* A user map of an edge is still a user map in the graph, with a slot of  *)
(* its own in s_mapstate, and a nonconstant one belongs to the group that  *)
(* the edge starts from, also for maps that nodes and edges added later    *)
(* shift or share.                                                         *)
UserSlot(internal, external, source) ==
    /\ internal # MAP_IDENT
    /\ internal \in -G.nimap .. G.nkmap - 1 /\ internal \notin 0 .. G.ng - 1
    /\ (IF internal >= 0 THEN internal - G.ng ELSE internal) = external
    /\ internal < 0 => G.mem[G.umap_assoc + internal] = source
MapsResolve ==
    Built => \A i \in DOMAIN D.models :
        /\ \A j \in DOMAIN D.models[i].params :
              LET e == Param(i, j)
                  map == D.models[i].params[e.ex].map
              IN IsUser(map) => UserSlot(e.map, map.map, D.models[i].group)
        /\ \A j \in DOMAIN D.models[i].returns :
              LET e == Return(i, j)
                  map == D.models[i].returns[j].map
                  back == CHOOSE b \in {ModelOf(e.idx, k) : k \in 1 .. G.n_mod[e.idx]} :
                             b.idx = i /\ b.ex = j
              IN IsUser(map) => /\ UserSlot(e.map, map.map, D.models[i].group)
                                /\ UserSlot(back.map, map.inverse, D.vars[e.idx].group)
============================================================================
