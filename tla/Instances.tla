----------------------------- MODULE Instances -----------------------------
(***************************************************************************)
(* Instances of a variable in the fhk solver (fhk/solve.c): packed subsets *)
(* and their iterators, bitmaps, and the requests for shapes, maps and     *)
(* values that the solver suspends itself for.                             *)
(*                                                                         *)
(* A model walks an edge to one variable, either to collect it as a        *)
(* parameter or to check a guard on it.  A given variable has a bitmap of  *)
(* missing instances that the driver clears as it sets values, alone or    *)
(* many at a time; a computed one has values where the solver put them.    *)
(* The guard has two bits for every instance, evaluated and passed.        *)
(*                                                                         *)
(* Words have W bits and an int W/2, as 64 and 32 in the code.  The value  *)
(* itself is not kept, only whether the memory holds it and whether it     *)
(* passes the guard.                                                       *)
(*                                                                         *)
(* ClearOneWord, PackShort, TouchOnly, ScanToShape and ResumeTrusting are  *)
(* deliberately wrong variants of the definition that follows them; no     *)
(* action uses them.                                                       *)
(***************************************************************************)
EXTENDS Integers, Sequences, FiniteSetsExt, SequencesExt

CONSTANTS
    W,              \* bits of a bitmap word, a multiple of 4
    InstBits,       \* G_INSTBITS
    Shapes,         \* sizes of the variable's group
    MapOf,          \* subsets that user maps give for instances of the model
    GivenEdges, ComputedEdges,  \* edges that models walk: [what, map]
    ModelInst,      \* instances of the model that walk the identity map
    Passing,        \* sets of instances whose value passes the guard
    Failing,        \* instances that have no chain, if computed
    Ranges,         \* [inst, n]: values that the driver sets in one call
    Overlap,        \* whether they may cover values that are already set
    Ident, Space,   \* the built-in maps; others are in DOMAIN MapOf
    Undef, NULL     \* SS_UNDEF, no bitmap

MaxInst == Max(Shapes)
ASSUME InstancesAssumption ==
    /\ W \in Nat \ {0} /\ W % 4 = 0 /\ InstBits \in Nat /\ Overlap \in BOOLEAN
    /\ Shapes \subseteq 0 .. 2 ^ InstBits - 2
    /\ \A m \in DOMAIN MapOf : MapOf[m] \subseteq 0 .. MaxInst - 1
    /\ \A e \in GivenEdges \cup ComputedEdges :
          e.what \in {"param", "check"} /\ e.map \in DOMAIN MapOf \cup {Ident, Space}
    /\ Failing \cup ModelInst \subseteq 0 .. MaxInst - 1
    /\ \A r \in Ranges : r.inst \in Nat /\ r.n \in Nat

VARIABLES
    computed,   \* whether the variable is computed (V_COMPUTED, W_COMPUTED)
    passing,    \* instances whose value passes the guard
    space,      \* s_mapstate[group].kmap: the shape, or Undef
    imap,       \* s_mapstate[map].imap: a subset or Undef for each of them
    vm,         \* s_vmstate: bitmap of missing values, NULL before the first
    val,        \* instances for which s_value holds a value
    sw,         \* s_sstate: the guard's bitmap
    req,        \* the edge being walked, and how far
    pc,         \* what the solver is about to do
    ask         \* what the last yield asked for

vars == <<computed, passing, space, imap, vm, val, sw, req, pc, ask>>

-----------------------------------------------------------------------------
(* Bitmaps: functions from word numbers to words.  Only the words that     *)
(* functions read are modelled; bm_alloc allocates more.                   *)

Bit(w, b) == (w \div 2 ^ b) % 2
Word(n) == n % 2 ^ W
BmAlloc(num, init) == [k \in 0 .. num \div W |-> init]
AllOnes == 2 ^ W - 1
BmIsSet(bm, i) == Bit(bm[i \div W], i % W) = 1

(* bm_cleari: adding 1 at the first bit of a run of ones clears it and     *)
(* carries into the bit behind, which the subtraction cancels if it is in  *)
(* the same word.                                                          *)
ClearOneWord(bm, inst, num) ==
    LET start == inst % W
        end == start + num
    IN [bm EXCEPT ![inst \div W] =
           Word(@ + 2 ^ start - IF end < W THEN 2 ^ end ELSE 0)]
BmClear(bm, inst, num) ==
    LET k0 == inst \div W
        start == inst % W
        left(k) == num - (W - start) - (k - k0 - 1) * W
    IN [k \in DOMAIN bm |->
           IF k = k0 THEN Word(bm[k] + 2 ^ start
                               - IF start + num < W THEN 2 ^ (start + num) ELSE 0)
           ELSE IF k > k0 /\ left(k) > 0
           THEN Word(bm[k] + 1 - IF left(k) < W THEN 2 ^ left(k) ELSE 0)
           ELSE bm[k]]

(* bm_findi: the first set bit from pos on, in the words up to that of     *)
(* end; NULL unless it is before end.                                      *)
BmFind(bm, pos, end) ==
    LET found == {i \in pos .. W * (end \div W) + W - 1 : BmIsSet(bm, i)}
    IN IF found = {} \/ Min(found) >= end THEN NULL ELSE Min(found)

(* Guard bits: 2i passed, 2i + 1 evaluated.                                *)
SW_BMIDX(i) == (2 * i) \div W
SW_BMOFF(i) == (2 * i) % W
SwPass(i) == Bit(sw[SW_BMIDX(i)], SW_BMOFF(i)) = 1
SwEval(i) == Bit(sw[SW_BMIDX(i)], SW_BMOFF(i) + 1) = 1
Or(w, bits) == FoldSet(LAMBDA b, x : IF Bit(x, b) = 1 THEN x ELSE x + 2 ^ b, w, bits)

(* S_checkscan: the guards of the instances from i to end, when those in   *)
(* have have a value.                                                      *)
CheckScan(i, end, have) ==
    [k \in DOMAIN sw |->
        LET scanned == {j \in i .. end - 1 : SW_BMIDX(j) = k}
        IN Or(sw[k], {SW_BMOFF(j) + 1 : j \in scanned}
                     \cup {SW_BMOFF(j) : j \in scanned \cap passing \cap have})]

(* SW_EVAL << SW_BMOFF(inst) in int arithmetic: the shift count is taken   *)
(* modulo the width, and a result with the sign bit is extended.           *)
EvalFailed(i) ==
    LET half == W \div 2
        b == 1 + (SW_BMOFF(i) % half)
    IN [sw EXCEPT ![SW_BMIDX(i)] = Or(@, IF b = half - 1 THEN b .. W - 1 ELSE {b})]

-----------------------------------------------------------------------------
(* Subsets.  An interval is [first, n]; a subset that is not an interval   *)
(* is a sorted array of them.                                              *)

Subset(map, at) ==
    IF map = Ident THEN {at} ELSE IF map = Space THEN 0 .. space - 1 ELSE imap[map]
Intervals(ss) ==
    LET firsts == {i \in ss : i - 1 \notin ss}
        last(i) == Min({j \in ss : j >= i /\ j + 1 \notin ss})
    IN [k \in 1 .. Cardinality(firsts) |->
           LET i == CHOOSE i \in firsts : Cardinality({j \in firsts : j < i}) = k - 1
           IN [first |-> i, n |-> last(i) - i + 1]]

(* A packed iterator: the instance, minus the number of remaining ones in  *)
(* InstBits bits, and the mark, the bit above, that a carry out of them    *)
(* flips.  An interval of several instances has the mark set, so that it   *)
(* is clear at the end; a complex iterator (SI_CFIRST) starts without it.  *)
PackShort(ivs) ==
    [inst |-> ivs[1].first, mark |-> IF Len(ivs) = 1 /\ ivs[1].n > 2 THEN 1 ELSE 0,
     rem |-> IF ivs[1].n = 1 THEN 0 ELSE (2 - ivs[1].n) % 2 ^ InstBits]
Pack(ivs) ==
    [inst |-> ivs[1].first, rem |-> (1 - ivs[1].n) % 2 ^ InstBits,
     mark |-> IF Len(ivs) = 1 /\ ivs[1].n > 1 THEN 1 ELSE 0]
SiMore(it) == it.rem # 0
SiNext(it) ==
    [inst |-> it.inst + 1, rem |-> (it.rem + 1) % 2 ^ InstBits,
     mark |-> IF (it.rem + 1) % 2 ^ InstBits = 0 THEN 1 - it.mark ELSE it.mark]

-----------------------------------------------------------------------------
Idle == [what |-> "none", map |-> Ident, at |-> 0, ivs |-> <<>>, it |-> NULL, pass |-> FALSE]

Init ==
    /\ computed \in BOOLEAN
    /\ passing \in Passing
    /\ space = Undef
    /\ imap = [m \in DOMAIN MapOf |-> Undef]
    /\ vm = NULL
    /\ val = {}
    /\ sw = NULL
    /\ req = Idle
    /\ pc = "idle"
    /\ ask = NULL

given == <<computed, passing, space, imap, vm>>     \* what only the driver sets

Yield(code, inst) ==
    /\ pc' = "yield"
    /\ ask' = [code |-> code, inst |-> inst, touch |-> vm = NULL, back |-> pc]

(* A candidate or call walks one of its edges.                             *)
Walk(e) ==
    /\ pc = "idle"
    /\ \E at \in IF e.map = Ident THEN ModelInst ELSE {0} :
          /\ e.map = Ident => space # Undef /\ at < space
          /\ req' = [Idle EXCEPT !.what = e.what, !.map = e.map, !.at = at]
    /\ pc' = IF computed \/ e.what = "check" THEN "shape" ELSE "map"
    /\ UNCHANGED <<given, val, sw, ask>>

(* S_vexpandsp, S_vexpandss: arrays of a computed variable or of a guard.  *)
ExpandShape ==
    /\ pc = "shape"
    /\ IF space = Undef THEN Yield("SHAPE", 0) /\ UNCHANGED sw
       ELSE /\ pc' = "map"
            /\ sw' = IF req.what = "check" /\ sw = NULL THEN BmAlloc(2 * space, 0) ELSE sw
            /\ UNCHANGED ask
    /\ UNCHANGED <<given, val, req>>

(* S_expandumap, and the iterator over the subset.                         *)
ExpandMap ==
    /\ pc = "map"
    /\ IF req.map = Space /\ space = Undef THEN Yield("SHAPE", 0) /\ UNCHANGED req
       ELSE IF req.map \in DOMAIN MapOf /\ imap[req.map] = Undef
       THEN Yield("MAPCALL", req.map) /\ UNCHANGED req
       ELSE LET ivs == Intervals(Subset(req.map, req.at)) IN
            /\ pc' = IF ivs = <<>> THEN "done"
                     ELSE IF req.what = "check" THEN "check"
                     ELSE IF computed THEN "select" ELSE "given"
            /\ req' = IF ivs = <<>> THEN [req EXCEPT !.pass = TRUE]
                      ELSE [req EXCEPT !.ivs = ivs, !.it = Pack(ivs)]
            /\ UNCHANGED ask
    /\ UNCHANGED <<given, val, sw>>

(* S_get_given, S_get_given_si3: ask for every missing value of each       *)
(* interval in turn.                                                       *)
TouchOnly ==
    /\ pc = "given"
    /\ IF vm = NULL THEN Yield("VREF", req.ivs[1].first) /\ UNCHANGED req
       ELSE pc' = "done" /\ req' = [req EXCEPT !.pass = TRUE] /\ UNCHANGED ask
    /\ UNCHANGED <<given, val, sw>>
GetGiven ==
    /\ pc = "given"
    /\ LET iv == req.ivs[1]
           end == iv.first + iv.n
           i == IF vm = NULL THEN iv.first ELSE BmFind(vm, iv.first, end)
       IN IF i # NULL
          THEN /\ Yield("VREF", i)
               /\ req' = [req EXCEPT !.ivs[1] = [first |-> i, n |-> end - i]]
          ELSE /\ pc' = IF Len(req.ivs) > 1 THEN "given" ELSE "done"
               /\ req' = [req EXCEPT !.ivs = Tail(@), !.pass = Len(req.ivs) = 1]
               /\ UNCHANGED ask
    /\ UNCHANGED <<given, val, sw>>

(* si_cnexti takes the number of the next interval from the bits of the    *)
(* map instead of the hint, and reads far outside the array.               *)
SiCNext == pc' = "wild" /\ UNCHANGED req

(* SI_NEXT, going on to next behind the last instance.                     *)
Advance(next) ==
    /\ UNCHANGED ask
    /\ IF SiMore(req.it) THEN pc' = pc /\ req' = [req EXCEPT !.it = SiNext(@)]
       ELSE IF req.it.mark = 1 THEN SiCNext
       ELSE /\ pc' = next
            /\ req' = [req EXCEPT !.it = Pack(req.ivs), !.pass = next = "done"]

(* A computed parameter: S_select_chain for all instances, and then        *)
(* S_get_computed_si.                                                      *)
SelectParam ==
    /\ pc = "select"
    /\ IF req.it.inst \in Failing THEN pc' = "idle" /\ req' = Idle /\ UNCHANGED ask
       ELSE Advance("compute")
    /\ UNCHANGED <<given, val, sw>>
ComputeParam ==
    /\ pc = "compute"
    /\ val' = val \cup {req.it.inst}
    /\ Advance("done")
    /\ UNCHANGED <<given, sw>>

(* scanv_computed, scanv_given: the first instance from i on without a     *)
(* value, when the instances in have have one.                             *)
ScanToShape(i, have) == space
ScanTo(i, have) ==
    IF computed THEN Min({j \in i .. space - 1 : j \notin have} \cup {space})
    ELSE LET j == BmFind(vm, i, space) IN IF j = NULL THEN space ELSE j

(* The shadow loop of S_select_chain, for one instance.                    *)
Penalty == pc' = "done" /\ UNCHANGED <<req, ask>>
CheckGuard ==
    /\ pc = "check"
    /\ LET i == req.it.inst IN
       IF SwPass(i) THEN Advance("done") /\ UNCHANGED <<sw, val>>
       ELSE IF SwEval(i) THEN Penalty /\ UNCHANGED <<sw, val>>
       ELSE IF ~computed /\ (vm = NULL \/ BmIsSet(vm, i))
       THEN Yield("VREF", i) /\ UNCHANGED <<sw, val, req>>
       ELSE IF computed /\ i \in Failing
       THEN Penalty /\ sw' = EvalFailed(i) /\ UNCHANGED val
       ELSE /\ val' = IF computed THEN val \cup {i} ELSE val
            /\ sw' = CheckScan(i, ScanTo(i + 1, val'), val')
            /\ IF i \in passing THEN Advance("done") ELSE Penalty
    /\ UNCHANGED given

Finish ==
    /\ pc = "done"
    /\ pc' = "idle" /\ req' = Idle
    /\ UNCHANGED <<given, val, sw, ask>>

-----------------------------------------------------------------------------
(* The driver, while the solver is suspended.  A failed call (E_exit) ends *)
(* the solver.                                                             *)

Suspended == pc \in {"idle", "yield"}
solver == <<sw, req, ask>>
Fail == pc' = "error" /\ UNCHANGED <<given, val, solver>>

SetShape(n) ==
    /\ Suspended
    /\ IF space # Undef THEN Fail
       ELSE space' = n /\ UNCHANGED <<computed, passing, imap, vm, val, pc, solver>>

(* fhkS_setvaluei: all values at once, or a range that is copied.          *)
SetValue(inst, n) ==
    /\ Suspended /\ n > 0
    /\ (~Overlap /\ vm # NULL) => ((inst .. inst + n - 1) \cap val \subseteq {inst})
    /\ IF computed \/ space = Undef THEN Fail
       ELSE IF inst + n > space \/ (vm # NULL /\ (n - inst = space \/ ~BmIsSet(vm, inst)))
       THEN Fail
       ELSE /\ vm' = IF n - inst = space THEN BmAlloc(space, 0)
                     ELSE BmClear(IF vm = NULL THEN BmAlloc(space, AllOnes) ELSE vm, inst, n)
            /\ val' = val \cup (inst .. inst + n - 1)
            /\ UNCHANGED <<computed, passing, space, imap, pc, solver>>

(* fhkS_setmap, with a subset of the variable's group.                     *)
SetMap(m) ==
    /\ Suspended
    /\ IF imap[m] # Undef THEN Fail
       ELSE /\ space # Undef /\ MapOf[m] \subseteq 0 .. space - 1
            /\ imap' = [imap EXCEPT ![m] = MapOf[m]]
            /\ UNCHANGED <<computed, passing, space, vm, val, pc, solver>>

(* fhk_continue: the solver looks for the answer where it asked for it,    *)
(* JE_nmap or JE_nvalue if there is none.                                  *)
Answered ==
    CASE ask.code = "SHAPE" -> space # Undef
      [] ask.code = "MAPCALL" -> imap[ask.inst] # Undef
      [] ask.code = "VREF" -> vm # NULL
ResumeTrusting ==
    /\ pc = "yield"
    /\ pc' = IF Answered THEN ask.back ELSE "error"
    /\ ask' = NULL
    /\ UNCHANGED <<given, val, sw, req>>
Resume ==
    /\ pc = "yield"
    /\ pc' = IF ~Answered \/ (ask.code = "VREF" /\ ~ask.touch /\ BmIsSet(vm, ask.inst))
             THEN "error" ELSE ask.back
    /\ ask' = NULL
    /\ UNCHANGED <<given, val, sw, req>>

Solve ==
    \/ ExpandShape \/ ExpandMap \/ GetGiven \/ SelectParam
    \/ ComputeParam \/ CheckGuard \/ Finish

Next ==
    \/ \E e \in IF computed THEN ComputedEdges ELSE GivenEdges : Walk(e)
    \/ Solve
    \/ \E n \in Shapes : SetShape(n)
    \/ \E r \in Ranges : SetValue(r.inst, r.n)
    \/ \E m \in DOMAIN MapOf : SetMap(m)
    \/ Resume

(* The solver runs when it is not suspended, and the driver loop always    *)
(* continues it (fhkD_continue).                                           *)
Spec == Init /\ [][Next]_vars /\ WF_vars(Solve) /\ WF_vars(Resume)

-----------------------------------------------------------------------------
(* A model is only called with values: when all instances of a parameter   *)
(* have been walked, in whatever pieces and order the driver delivered     *)
(* them, each of the subset has one ("every instance of xi in the mapping  *)
(* must have a value!", S_mapE_collect).                                   *)
CollectedHaveValues ==
    pc = "done" /\ req.what = "param" /\ req.pass => Subset(req.map, req.at) \subseteq val

(* Bits of a guard are right for every instance, also for those that were  *)
(* scanned ahead or share a word with one that failed: evaluated only with *)
(* a value or without a chain, passed exactly if the value passes.         *)
GuardsHonest ==
    sw # NULL => \A i \in 0 .. space - 1 :
        /\ SwEval(i) => i \in val \/ (computed /\ i \in Failing)
        /\ SwPass(i) = (SwEval(i) /\ i \in val \cap passing)

(* A model avoids the penalty if and only if the whole subset passes.      *)
GuardVerdict ==
    pc = "done" /\ req.what = "check" =>
        (req.pass <=> Subset(req.map, req.at) \subseteq val \cap passing)

(* Ranges of values that end anywhere in a word clear their own bits in    *)
(* the bitmap of missing values, and no others.                            *)
MissingExact == vm # NULL => \A i \in 0 .. space - 1 : BmIsSet(vm, i) = (i \notin val)

(* No request is repeated forever: a walked edge is finished, dropped or   *)
(* ends in an error, also if the driver answers other requests or none.    *)
RequestsEnd == (pc # "idle") ~> (pc \in {"idle", "error"})
=============================================================================
