------------------------------ MODULE Memoize ------------------------------
(***************************************************************************)
(* Memoization across branches (memoize.lua).                              *)
(*                                                                         *)
(* The cache is a Lua table that nothing restores; what branches is its    *)
(* index mp, a uint8_t in the vstack.  A call looks at one entry only, the *)
(* one at mp.  A miss advances mp and overwrites the entry there, so that  *)
(* going back to a savepoint also goes back to the entry that was current  *)
(* when it was taken.                                                      *)
(*                                                                         *)
(* MissInPlace and MissKeepsArgs are deliberately wrong variants of the    *)
(* definition that follows them; no action uses them, they show which      *)
(* mistakes the properties detect.                                         *)
(***************************************************************************)
EXTENDS Integers, Sequences

CONSTANTS
    Arg,        \* argument lists of the memoized function
    MpMod,      \* number of values of mp: 256, mp is a uint8_t
    MissLimit,  \* bound on evaluations of the function
    NFrame,     \* nframe of sim_create
    NoSnap,     \* "this frame has no snapshot"
    None        \* an unset entry

ASSUME NumbersAssumption ==
    MpMod \in Nat \ {0} /\ MissLimit \in Nat /\ NFrame \in Nat \ {0} /\ NFrame <= MpMod

(* An evaluation is known by its number, which stands for what it returns. *)
Entry == [arg : Arg, eval : Nat]

VARIABLES
    current,    \* [mp, made]: the index, and as a ghost the evaluations made
                \* on the way to the current state
    depth, snap, branches,   \* frames and savepoints, see Branching
    cache,      \* _cache
    evals,      \* number of evaluations so far
    answer      \* what the last call returned, or None

vars == <<current, depth, snap, branches, cache, evals, answer>>

State == [mp : 0 .. MpMod - 1, made : Seq(Entry)]

Sim == INSTANCE Branching

Init ==
    /\ current = [mp |-> 0, made |-> <<>>]
    /\ depth = 0
    /\ snap = [k \in Sim!Frames |-> NoSnap]
    /\ branches = [k \in Sim!Frames |-> FALSE]
    /\ cache = [i \in 0 .. MpMod - 1 |-> None]
    /\ evals = 0
    /\ answer = None

Larger(a, b) == IF a > b THEN a ELSE b

IsHit(a) == cache[current.mp] # None /\ cache[current.mp].arg = a

Hit(a) ==
    /\ IsHit(a)
    /\ answer' = cache[current.mp]
    /\ UNCHANGED <<current, depth, snap, branches, cache, evals>>

(* _mp[0] = max(_mp[0]+1, _sim:fp()), stored in eight bits.                *)
MissInPlace(a) ==
    LET e == [arg |-> a, eval |-> evals + 1]
        i == Larger(current.mp, depth) % MpMod
    IN /\ ~IsHit(a)
       /\ evals < MissLimit
       /\ evals' = evals + 1
       /\ cache' = [cache EXCEPT ![i] = e]
       /\ current' = [mp |-> i, made |-> Append(current.made, e)]
       /\ answer' = e
       /\ UNCHANGED <<depth, snap, branches>>
MissKeepsArgs(a) ==
    LET e == [arg |-> a, eval |-> evals + 1]
        i == Larger(current.mp + 1, depth) % MpMod
    IN /\ ~IsHit(a)
       /\ evals < MissLimit
       /\ evals' = evals + 1
       /\ cache' = [cache EXCEPT ![i] = IF @ = None THEN e ELSE [@ EXCEPT !.eval = evals + 1]]
       /\ current' = [mp |-> i, made |-> Append(current.made, e)]
       /\ answer' = e
       /\ UNCHANGED <<depth, snap, branches>>
Miss(a) ==
    LET e == [arg |-> a, eval |-> evals + 1]
        i == Larger(current.mp + 1, depth) % MpMod
    IN /\ ~IsHit(a)
       /\ evals < MissLimit
       /\ evals' = evals + 1
       /\ cache' = [cache EXCEPT ![i] = e]
       /\ current' = [mp |-> i, made |-> Append(current.made, e)]
       /\ answer' = e
       /\ UNCHANGED <<depth, snap, branches>>

(* The simulation around the calls.                                        *)
SimStep ==
    /\ \/ Sim!Save
       \/ Sim!MarkBranch /\ snap'[depth] # NoSnap
       \/ Sim!Descend
       \/ \E k \in Sim!Frames : Sim!Load(k) \/ Sim!StartBranch(k)
    /\ UNCHANGED <<cache, evals>>
    /\ answer' = None

Next == (\E a \in Arg : Hit(a) \/ Miss(a)) \/ SimStep

Spec == Init /\ [][Next]_vars

-----------------------------------------------------------------------------
LastMade(s) == IF s.made = <<>> THEN None ELSE s.made[Len(s.made)]

(* The entry at mp is the last evaluation made on the way to the current   *)
(* state, and the same holds for every savepoint one can go back to: a     *)
(* value saved on an old frame is remembered after any number of           *)
(* evaluations in deeper frames and sibling branches.                      *)
SavedValuesRemembered ==
    /\ cache[current.mp] = LastMade(current)
    /\ \A k \in 0 .. depth : snap[k] # NoSnap => cache[snap[k].mp] = LastMade(snap[k])

(* A call never returns what was evaluated in an exited frame or in        *)
(* another branch.                                                         *)
NoStaleAnswers ==
    answer # None => \E i \in DOMAIN current.made : current.made[i] = answer
=============================================================================
