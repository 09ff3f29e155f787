----------------------------- MODULE Branching -----------------------------
(***************************************************************************)
(* What the branching core promises its callers, without any memory        *)
(* layout: a current program state (the contents of the vstack) and a      *)
(* stack of frames, each of which may hold one immutable snapshot of that  *)
(* state.  Loading a frame brings its snapshot back, whatever happened in  *)
(* deeper frames, and forgets every deeper frame.                          *)
(*                                                                         *)
(* Sim implements this specification (Sim!Abs), with the snapshots kept as *)
(* block copies in bump-allocated frame memory.                            *)
(***************************************************************************)
EXTENDS Naturals

CONSTANTS
    State,      \* the possible contents of the vstack
    NoSnap,     \* "this frame has no snapshot"
    NFrame      \* number of frames of the stack

VARIABLES
    current,    \* the visible program state
    depth,      \* index of the current frame
    snap,       \* snap[k]: the snapshot of frame k, or NoSnap
    branches    \* branches[k]: frame k is a branch point

bvars == <<current, depth, snap, branches>>

Frames == 0 .. NFrame - 1

BranchingInit ==
    /\ current \in State
    /\ depth = 0
    /\ snap = [k \in Frames |-> NoSnap]
    /\ branches = [k \in Frames |-> FALSE]

(* Frames deeper than k are gone: neither snapshot nor branch point.       *)
Forget(f, k, none) == [i \in Frames |-> IF i > k THEN none ELSE f[i]]

(* The simulated program changes its state.                                *)
Compute ==
    /\ current' \in State
    /\ UNCHANGED <<depth, snap, branches>>

(* A snapshot is taken once per frame and never replaced.                  *)
Save ==
    /\ snap[depth] = NoSnap
    /\ snap' = [snap EXCEPT ![depth] = current]
    /\ UNCHANGED <<current, depth, branches>>

(* The frame becomes a branch point; the snapshot may already be there or  *)
(* may fail to be taken.                                                   *)
MarkBranch ==
    /\ ~branches[depth]
    /\ branches' = [branches EXCEPT ![depth] = TRUE]
    /\ \/ UNCHANGED snap
       \/ snap[depth] = NoSnap /\ snap' = [snap EXCEPT ![depth] = current]
    /\ UNCHANGED <<current, depth>>

(* Return to frame k, leaving the current state as it is.                  *)
Drop(k) ==
    /\ k <= depth
    /\ depth' = k
    /\ snap' = Forget(snap, k, NoSnap)
    /\ branches' = Forget(branches, k, FALSE)
    /\ UNCHANGED current

(* Return to frame k and to the state it was saved with.                   *)
Load(k) ==
    /\ k <= depth
    /\ snap[k] # NoSnap
    /\ current' = snap[k]
    /\ depth' = k
    /\ snap' = Forget(snap, k, NoSnap)
    /\ branches' = Forget(branches, k, FALSE)

(* Descend into a fresh frame.                                             *)
Descend ==
    /\ depth + 1 < NFrame
    /\ depth' = depth + 1
    /\ UNCHANGED <<current, snap, branches>>

(* Start another branch of branch point k from the state k was saved with. *)
StartBranch(k) ==
    /\ k < depth
    /\ branches[k]
    /\ snap[k] # NoSnap
    /\ k + 1 < NFrame
    /\ current' = snap[k]
    /\ depth' = k + 1
    /\ snap' = Forget(snap, k, NoSnap)
    /\ branches' = Forget(branches, k, FALSE)

BranchingNext ==
    \/ Compute
    \/ Save
    \/ MarkBranch
    \/ Descend
    \/ \E k \in Frames : Drop(k) \/ Load(k) \/ StartBranch(k)

BranchingSpec == BranchingInit /\ [][BranchingNext]_bvars
=============================================================================
