-------------------------------- MODULE Vec --------------------------------
(***************************************************************************)
(* Struct-of-arrays vectors (vec.c, soa.lua) in a branching simulation.    *)
(*                                                                         *)
(* The header of a vector lives in the vstack, so savepoints copy it and   *)
(* loading brings it back; its bands live in frame memory, which nothing   *)
(* copies.  Operations that move elements therefore put the new band into  *)
(* the current frame and leave the old one to the savepoints that still    *)
(* refer to it, while appending within the capacity writes into the shared *)
(* band.  One vector is modelled; the simulator is seen at the level of    *)
(* Branching.                                                              *)
(*                                                                         *)
(* EnsureCapacityLate and DeleteInPlace are deliberately wrong variants of *)
(* the definition that follows them; no action uses them, they show which  *)
(* mistakes the properties detect.                                         *)
(***************************************************************************)
EXTENDS Integers, Sequences, Functions, Doubling

CONSTANTS
    NBands,     \* info->n_bands
    Value,      \* what programs store in a band
    Garbage,    \* contents of memory that was not written
    InitCap,    \* initial n_alloc, 32 in the code
    MaxUsed,    \* bound on n_used
    MaxBatch,   \* bound on the elements that one call adds or deletes
    WorkLimit,  \* bound on the operations of the program
    NFrame,     \* nframe of sim_create
    NoSnap,     \* "this frame has no snapshot"
    NULL        \* the null pointer

ASSUME NumbersAssumption ==
    /\ NBands \in Nat /\ InitCap \in Nat \ {0} /\ MaxUsed \in Nat /\ MaxBatch \in Nat
    /\ WorkLimit \in Nat /\ NFrame \in Nat \ {0}

Band == 1 .. NBands
Frames == 0 .. NFrame - 1
Datum == Value \cup {Garbage}

(* A band pointer: the frame it was allocated in and its place there.      *)
Pointer == Frames \X (Nat \ {0})

(* struct vec, with one ghost field: val is what the program last stored   *)
(* in each element, as if the vector were a plain value of the state.      *)
Header == [n_alloc : Nat, n_used : Nat, bands : [Band -> Pointer \cup {NULL}],
           val : [Band -> Seq(Datum)]]

VARIABLES
    current,    \* the header, in the vstack
    heap,       \* heap[k]: the bands allocated in frame k
    depth, snap, branches,  \* frames and savepoints, see Branching
    work

vars == <<current, heap, depth, snap, branches, work>>

Sim == INSTANCE Branching WITH State <- Header

Emptied == [n_alloc |-> 0, n_used |-> 0, bands |-> [b \in Band |-> NULL],
            val |-> [b \in Band |-> <<>>]]

(* simL_vec_create in the vstack of a fresh simulation.                    *)
Init ==
    /\ current = Emptied
    /\ heap = [k \in Frames |-> <<>>]
    /\ depth = 0
    /\ snap = [k \in Frames |-> NoSnap]
    /\ branches = [k \in Frames |-> FALSE]
    /\ work = 0

Mem(p) == heap[p[1]][p[2]]
Unwritten(n) == [i \in 1 .. n |-> Garbage]

Work == work < WorkLimit /\ work' = work + 1

(* An operation of the program: no frame or savepoint changes.             *)
Op == Work /\ UNCHANGED <<depth, snap, branches>>

-----------------------------------------------------------------------------
(* Bands.                                                                  *)

(* simF_vec_create_band for every band that exists, in band order: where   *)
(* they go, and the current frame's memory once they are filled.  A place  *)
(* is only a name: a band that does not exist takes one, and no memory.    *)
FreshBands(v) ==
    [b \in Band |-> IF v.bands[b] = NULL THEN NULL ELSE <<depth, Len(heap[depth]) + b>>]
WithBands(contents) == [heap EXCEPT ![depth] = @ \o contents]

(* newband: a band of n_alloc unwritten elements replaces the old one.     *)
NewBand(b) ==
    /\ heap' = [heap EXCEPT ![depth] = Append(@, Unwritten(current.n_alloc))]
    /\ current' = [current EXCEPT !.bands[b] = <<depth, Len(heap[depth]) + 1>>,
                                  !.val[b] = Unwritten(current.n_used)]
    /\ Op

(* The program stores x in element i of band b.  Memory that a savepoint   *)
(* still refers to is not written: callers replace the band first.         *)
Shared(b, i) ==
    \E k \in 0 .. depth : /\ snap[k] # NoSnap
                          /\ snap[k].bands[b] = current.bands[b]
                          /\ i <= snap[k].n_used
Store(b, i, x) ==
    /\ current.bands[b] # NULL
    /\ i <= current.n_used
    /\ ~Shared(b, i)
    /\ LET p == current.bands[b] IN heap' = [heap EXCEPT ![p[1]][p[2]][i] = x]
    /\ current' = [current EXCEPT !.val[b][i] = x]
    /\ Op

-----------------------------------------------------------------------------
(* simF_vec_alloc.                                                         *)

(* na starts at the old capacity, or InitCap, and doubles until it fits.   *)
Capacity(v, n) == DoubledTo(IF v.n_alloc = 0 THEN InitCap ELSE v.n_alloc, v.n_used + n)

(* F_ensure_capacity: the header first gets the new capacity, then every   *)
(* band is reallocated in the current frame and its used part copied.      *)
Moved(v, n_alloc) ==
    [b \in Band |-> IF v.bands[b] = NULL THEN <<>>
                    ELSE [i \in 1 .. n_alloc |-> IF i <= v.n_used THEN Mem(v.bands[b])[i] ELSE Garbage]]
EnsureCapacityLate(n) ==
    IF current.n_used + n <= current.n_alloc
    THEN [vec |-> current, heap |-> heap]
    ELSE [vec |-> [current EXCEPT !.n_alloc = Capacity(current, n), !.bands = FreshBands(current)],
          heap |-> WithBands(Moved(current, current.n_alloc))]
EnsureCapacity(n) ==
    IF current.n_used + n <= current.n_alloc
    THEN [vec |-> current, heap |-> heap]
    ELSE [vec |-> [current EXCEPT !.n_alloc = Capacity(current, n), !.bands = FreshBands(current)],
          heap |-> WithBands(Moved(current, Capacity(current, n)))]

Alloc(n) ==
    /\ current.n_used + n <= MaxUsed
    /\ LET e == EnsureCapacity(n) IN
       /\ heap' = e.heap
       /\ current' = [e.vec EXCEPT !.n_used = @ + n,
                                   !.val = [b \in Band |-> @[b] \o Unwritten(n)]]
    /\ Op

-----------------------------------------------------------------------------
(* simF_vec_delete.                                                        *)

(* calc_intervals_s: what lies between the sorted indices to skip (from 0, *)
(* possibly repeated), as intervals to copy.                               *)
Gap(acc, d) ==
    IF d > acc.next
    THEN [next |-> d + 1, cpos |-> acc.cpos + (d - acc.next),
          cpy |-> Append(acc.cpy, [dst |-> acc.cpos, src |-> acc.next, num |-> d - acc.next])]
    ELSE [acc EXCEPT !.next = d + 1]
Scan(skip) ==
    LET scan[i \in 0 .. Len(skip)] ==
           IF i = 0 THEN [next |-> 0, cpos |-> 0, cpy |-> <<>>] ELSE Gap(scan[i - 1], skip[i])
    IN scan
CalcIntervals(skip, tail) ==
    LET acc == Scan(skip)[Len(skip)]
    IN IF acc.next < tail THEN Gap(acc, tail) ELSE acc

(* copy_intervals, from a band into an unwritten one.                      *)
CopyIntervals(cpy, src, n) ==
    [i \in 1 .. n |->
        IF \E j \in DOMAIN cpy : cpy[j].dst < i /\ i <= cpy[j].dst + cpy[j].num
        THEN LET c == CHOOSE c \in Range(cpy) : c.dst < i /\ i <= c.dst + c.num
             IN src[i - c.dst + c.src]
        ELSE Garbage]

(* qsort: idx in ascending order.                                         *)
Sortings(idx) ==
    LET D == DOMAIN idx IN
    {[i \in D |-> idx[p[i]]] :
        p \in {p \in Bijection(D, D) : \A i, j \in D : i < j => idx[p[i]] <= idx[p[j]]}}

(* What deleting means: the elements whose index is not listed stay.  The  *)
(* ghost: what is kept of the first i elements.                            *)
Kept(s, idx) ==
    LET kept[i \in 0 .. Len(s)] ==
           IF i = 0 THEN <<>>
           ELSE IF i - 1 \in Range(idx) THEN kept[i - 1] ELSE Append(kept[i - 1], s[i])
    IN kept
Deleted(s, idx) == Kept(s, idx)[Len(s)]

DeleteInPlace(idx) ==
    \E skip \in Sortings(idx) :
       LET v == current
           cut == CalcIntervals(skip, v.n_used)
       IN /\ heap' = [k \in Frames |-> [j \in DOMAIN heap[k] |->
                         IF \E b \in Band : v.bands[b] = <<k, j>>
                         THEN CopyIntervals(cut.cpy, heap[k][j], v.n_alloc) ELSE heap[k][j]]]
          /\ current' = [v EXCEPT !.n_used = cut.cpos,
                                  !.val = [b \in Band |-> Deleted(v.val[b], idx)]]
          /\ Op
Delete(idx) ==
    \E skip \in Sortings(idx) :
       LET v == current
           cut == CalcIntervals(skip, v.n_used)
           copied == [b \in Band |-> IF v.bands[b] = NULL THEN <<>>
                                     ELSE CopyIntervals(cut.cpy, Mem(v.bands[b]), v.n_alloc)]
       IN /\ heap' = WithBands(copied)
          /\ current' = [v EXCEPT !.bands = FreshBands(v), !.n_used = cut.cpos,
                                  !.val = [b \in Band |-> Deleted(v.val[b], idx)]]
          /\ Op

Clear ==
    /\ current' = Emptied
    /\ Op
    /\ UNCHANGED heap

ClearBand(b) ==
    /\ current' = [current EXCEPT !.bands[b] = NULL, !.val[b] = Unwritten(current.n_used)]
    /\ Op
    /\ UNCHANGED heap

-----------------------------------------------------------------------------
(* The simulation.  Entering a frame resets its memory.                    *)

Enters(k) == heap' = [heap EXCEPT ![k] = <<>>] /\ UNCHANGED work
Stays == UNCHANGED <<heap, work>>

SimStep ==
    \/ Sim!Save /\ Stays
    \/ Sim!MarkBranch /\ snap'[depth] # NoSnap /\ Stays
    \/ Sim!Descend /\ Enters(depth + 1)
    \/ \E k \in Frames : Sim!Load(k) /\ Stays
    \/ \E k \in Frames : Sim!StartBranch(k) /\ Enters(k + 1)

Indices == 0 .. current.n_used - 1

Next ==
    \/ \E b \in Band : NewBand(b) \/ ClearBand(b)
    \/ \E b \in Band, i \in 1 .. current.n_used, x \in Value : Store(b, i, x)
    \/ \E n \in 1 .. MaxBatch : Alloc(n)
    \/ \E m \in 1 .. MaxBatch : \E idx \in [1 .. m -> Indices] : Delete(idx)
    \/ Clear
    \/ SimStep

Spec == Init /\ [][Next]_vars

-----------------------------------------------------------------------------
(* Band pointers of vector v, as visible in frame k, lead to bands of k or *)
(* an outer frame that were not reset since and have room for n_alloc.     *)
Live(v, k) ==
    /\ v.n_used <= v.n_alloc
    /\ \A b \in Band : v.bands[b] # NULL =>
          LET p == v.bands[b] IN
          /\ p[1] <= k
          /\ p[2] <= Len(heap[p[1]])
          /\ Len(Mem(p)) >= v.n_alloc

(* Neither the vector nor any copy of its header in a live savepoint holds *)
(* a dangling or an undersized band.                                       *)
BandsLive ==
    /\ Live(current, depth)
    /\ \A k \in 0 .. depth : snap[k] # NoSnap => Live(snap[k], k)

(* The bands of v hold what was stored in them.                            *)
Holds(v) ==
    \A b \in Band : v.bands[b] # NULL =>
       /\ Len(v.val[b]) = v.n_used
       /\ \A i \in 1 .. v.n_used : v.val[b][i] # Garbage => Mem(v.bands[b])[i] = v.val[b][i]

(* A vector behaves like a value of the branching state: growing,          *)
(* appending and deleting in one branch, in shared or in fresh memory,     *)
(* changes the vector of no other branch.                                  *)
VectorsAreValues ==
    /\ Holds(current)
    /\ \A k \in 0 .. depth : snap[k] # NoSnap => Holds(snap[k])
=============================================================================
