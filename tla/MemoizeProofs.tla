--------------------------- MODULE MemoizeProofs ---------------------------
(***************************************************************************)
(* Proofs about Memoize, for every set of arguments, width of the index    *)
(* and number of frames: as long as the index does not wrap, savepoints    *)
(* find their values again and no answer is stale.                         *)
(***************************************************************************)
EXTENDS Memoize, TLAPS

(* A miss for which the eight bits of mp are too few.                      *)
Wraps == \E a \in Arg : Miss(a) /\ Larger(current.mp + 1, depth) >= MpMod

TypeInv ==
    /\ current \in State
    /\ depth \in Sim!Frames
    /\ snap \in [Sim!Frames -> State \cup {NoSnap}]
    /\ cache \in [0 .. MpMod - 1 -> Entry \cup {None}]
    /\ evals \in Nat

(* Indices only grow towards deeper frames, so that a miss, which takes an *)
(* index above the current one, leaves the entries of savepoints alone.    *)
IndicesGrow ==
    /\ \A k \in Sim!Frames : k > depth => snap[k] = NoSnap
    /\ \A k \in 0 .. depth : snap[k] # NoSnap => snap[k].mp <= current.mp
    /\ \A j, k \in 0 .. depth :
          j <= k /\ snap[j] # NoSnap /\ snap[k] # NoSnap => snap[j].mp <= snap[k].mp

IInv == TypeInv /\ IndicesGrow /\ SavedValuesRemembered /\ NoStaleAnswers

-----------------------------------------------------------------------------

LEMMA FramesBelow ==
    ASSUME NEW d \in Sim!Frames
    PROVE  \A k \in 0 .. d : k \in Sim!Frames
BY NumbersAssumption DEF Sim!Frames

LEMMA InitIInv == Init => IInv
<1> SUFFICES ASSUME Init PROVE IInv
  OBVIOUS
<1> USE NumbersAssumption DEF Init
<1>1. TypeInv
  BY DEF TypeInv, State, Sim!Frames
<1>2. IndicesGrow
  BY DEF IndicesGrow, Sim!Frames
<1>3. SavedValuesRemembered
  BY DEF SavedValuesRemembered, LastMade, Sim!Frames
<1>4. QED
  BY <1>1, <1>2, <1>3 DEF IInv, NoStaleAnswers

(* A hit returns the last evaluation on the way to the current state.      *)
LEMMA HitStep ==
    ASSUME IInv, NEW a \in Arg, Hit(a)
    PROVE  IInv'
<1>1. answer' = LastMade(current) /\ answer' # None
  BY DEF IInv, Hit, IsHit, SavedValuesRemembered
<1>2. current.made \in Seq(Entry) /\ current.made # <<>> /\ answer' = current.made[Len(current.made)]
  BY <1>1 DEF LastMade, IInv, TypeInv, State
<1>3. Len(current.made) \in DOMAIN current.made
  BY <1>2
<1>4. NoStaleAnswers'
  BY <1>2, <1>3 DEF NoStaleAnswers, Hit
<1>5. QED
  BY <1>4 DEF Hit, IInv, TypeInv, IndicesGrow, SavedValuesRemembered

(* A miss that does not wrap writes above every index that can be loaded.  *)
LEMMA MissStep ==
    ASSUME IInv, NEW a \in Arg, Miss(a), ~Wraps
    PROVE  IInv'
<1> DEFINE e == [arg |-> a, eval |-> evals + 1]
           i == Larger(current.mp + 1, depth)
<1> USE NumbersAssumption
<1>1. /\ current.mp \in 0 .. MpMod - 1 /\ current.made \in Seq(Entry)
      /\ depth \in 0 .. NFrame - 1 /\ e \in Entry
  BY DEF IInv, TypeInv, State, Sim!Frames, Entry
<1>2. i \in 0 .. MpMod - 1 /\ i > current.mp
  BY <1>1 DEF Wraps, Larger
<1>3. i % MpMod = i
  BY <1>2
<1>4. /\ cache' = [cache EXCEPT ![i] = e]
      /\ current' = [mp |-> i, made |-> Append(current.made, e)]
      /\ answer' = e /\ evals' = evals + 1
      /\ depth' = depth /\ snap' = snap
  BY <1>3 DEF Miss
<1> HIDE DEF e, i
<1>5. TypeInv'
  BY <1>1, <1>2, <1>4 DEF IInv, TypeInv, State
<1>6. \A k \in 0 .. depth : snap[k] # NoSnap => snap[k].mp \in 0 .. current.mp
  BY FramesBelow DEF IInv, TypeInv, IndicesGrow, State
<1>7. IndicesGrow'
  BY <1>1, <1>2, <1>4, <1>6 DEF IInv, IndicesGrow
<1>8. LastMade(current') = e
  BY <1>1, <1>4 DEF LastMade
<1>9. SavedValuesRemembered'
  <2>1. cache'[current'.mp] = LastMade(current')
    BY <1>2, <1>4, <1>8 DEF IInv, TypeInv
  <2>2. ASSUME NEW k \in 0 .. depth, snap[k] # NoSnap
        PROVE  cache'[snap[k].mp] = LastMade(snap[k])
    <3>1. snap[k].mp # i
      BY <1>1, <1>2, <1>6, <2>2
    <3>2. cache'[snap[k].mp] = cache[snap[k].mp]
      BY <3>1, <1>4, <1>2, <1>1, <1>6, <2>2 DEF IInv, TypeInv
    <3>3. QED
      BY <3>2, <2>2 DEF IInv, SavedValuesRemembered
  <2>3. QED
    BY <2>1, <2>2, <1>4 DEF SavedValuesRemembered
<1>10. NoStaleAnswers'
  <2>1. current'.made = Append(current.made, e)
    BY <1>4
  <2>2. Len(current.made) + 1 \in DOMAIN current'.made
    BY <1>1, <2>1
  <2>3. current'.made[Len(current.made) + 1] = e
    BY <1>1, <2>1
  <2>4. QED
    BY <1>4, <2>2, <2>3 DEF NoStaleAnswers
<1>11. QED
  BY <1>5, <1>7, <1>9, <1>10 DEF IInv

(* Saving takes the index where it is; going back takes it to the one of a *)
(* savepoint that is above the savepoints that are left.                   *)
LEMMA SimStepStep ==
    ASSUME IInv, SimStep
    PROVE  IInv'
<1> USE NumbersAssumption
<1>1. cache' = cache /\ evals' = evals /\ answer' = None
  BY DEF SimStep
<1>2. NoStaleAnswers'
  BY <1>1 DEF NoStaleAnswers
<1>3. depth \in 0 .. NFrame - 1 /\ current.mp \in 0 .. MpMod - 1
  BY DEF IInv, TypeInv, Sim!Frames, State
<1>4. \A k \in 0 .. depth : snap[k] # NoSnap => snap[k] \in State /\ snap[k].mp \in 0 .. MpMod - 1
  BY FramesBelow DEF IInv, TypeInv, State
<1>5. ASSUME snap[depth] = NoSnap, snap' = [snap EXCEPT ![depth] = current],
             UNCHANGED <<current, depth>>
      PROVE  IInv'
  <2>1. TypeInv'
    BY <1>1, <1>5 DEF IInv, TypeInv
  <2>2. \A k \in 0 .. depth : snap'[k] = IF k = depth THEN current ELSE snap[k]
    BY <1>5, <1>3, FramesBelow DEF IInv, TypeInv
  <2>3. \A k \in Sim!Frames : k > depth => snap'[k] = NoSnap
    BY <1>5, <1>3 DEF IInv, TypeInv, IndicesGrow
  <2>4. IndicesGrow'
    BY <1>3, <1>4, <1>5, <2>2, <2>3 DEF IInv, IndicesGrow
  <2>5. SavedValuesRemembered'
    BY <1>1, <1>5, <2>2 DEF IInv, SavedValuesRemembered
  <2>6. QED
    BY <1>2, <2>1, <2>4, <2>5 DEF IInv
<1>6. CASE Sim!Save
  BY <1>5, <1>6 DEF Sim!Save
<1>7. CASE Sim!MarkBranch /\ snap'[depth] # NoSnap
  <2>1. CASE UNCHANGED snap
    BY <1>1, <1>2, <1>7, <2>1 DEF Sim!MarkBranch, IInv, TypeInv, IndicesGrow, SavedValuesRemembered
  <2>2. QED
    BY <1>5, <1>7, <2>1 DEF Sim!MarkBranch
<1>8. CASE Sim!Descend
  <2>1. depth' = depth + 1 /\ depth' \in Sim!Frames /\ snap' = snap /\ current' = current
    BY <1>3, <1>8 DEF Sim!Descend, Sim!Frames
  <2>2. snap[depth + 1] = NoSnap
    BY <1>3, <2>1 DEF IInv, IndicesGrow
  <2>3. TypeInv'
    BY <1>1, <2>1 DEF IInv, TypeInv
  <2>4. \A k \in 0 .. depth' : k \in 0 .. depth \/ k = depth + 1
    BY <1>3, <2>1
  <2>5. IndicesGrow'
    BY <1>3, <2>1, <2>2, <2>4 DEF IInv, IndicesGrow, Sim!Frames
  <2>6. SavedValuesRemembered'
    BY <1>1, <2>1, <2>2, <2>4 DEF IInv, SavedValuesRemembered
  <2>7. QED
    BY <1>2, <2>3, <2>5, <2>6 DEF IInv
<1>9. ASSUME NEW k \in Sim!Frames, k <= depth, snap[k] # NoSnap, current' = snap[k],
             snap' = Sim!Forget(snap, k, NoSnap), depth' \in Sim!Frames,
             depth' = k \/ depth' = k + 1
      PROVE  IInv'
  <2>1. k \in 0 .. depth
    BY <1>3, <1>9 DEF Sim!Frames
  <2>2. \A j \in Sim!Frames : snap'[j] = IF j > k THEN NoSnap ELSE snap[j]
    BY <1>9 DEF Sim!Forget
  <2>3. TypeInv'
    <3>1. snap' \in [Sim!Frames -> State \cup {NoSnap}]
      BY <1>9 DEF Sim!Forget, IInv, TypeInv
    <3>2. QED
      BY <1>1, <1>4, <1>9, <2>1, <3>1 DEF IInv, TypeInv
  <2>4. \A j \in 0 .. depth' : j \in Sim!Frames
    BY <1>9, FramesBelow
  <2>5. \A j \in 0 .. depth' : snap'[j] # NoSnap => j \in 0 .. k /\ j \in 0 .. depth /\ snap'[j] = snap[j]
    BY <1>3, <1>9, <2>1, <2>2, <2>4 DEF Sim!Frames
  <2>6. IndicesGrow'
    BY <1>9, <2>1, <2>2, <2>5, <1>4, <1>3 DEF IInv, IndicesGrow, Sim!Frames
  <2>7. SavedValuesRemembered'
    BY <1>1, <1>9, <2>1, <2>5 DEF IInv, SavedValuesRemembered
  <2>8. QED
    BY <1>2, <2>3, <2>6, <2>7 DEF IInv
<1>10. ASSUME NEW k \in Sim!Frames, Sim!Load(k)
       PROVE  IInv'
  BY <1>9, <1>10 DEF Sim!Load
<1>11. ASSUME NEW k \in Sim!Frames, Sim!StartBranch(k)
       PROVE  IInv'
  <2>1. k + 1 \in Sim!Frames /\ k <= depth
    BY <1>3, <1>11 DEF Sim!StartBranch, Sim!Frames
  <2>2. QED
    BY <1>9, <1>11, <2>1 DEF Sim!StartBranch
<1>12. QED
  BY <1>6, <1>7, <1>8, <1>10, <1>11 DEF SimStep

LEMMA NextIInv ==
    ASSUME IInv, [Next]_vars, [~Wraps]_vars
    PROVE  IInv'
<1>1. CASE UNCHANGED vars
  BY <1>1 DEF vars, IInv, TypeInv, IndicesGrow, SavedValuesRemembered, NoStaleAnswers
<1>2. CASE Next /\ ~Wraps
  BY <1>2, HitStep, MissStep, SimStepStep DEF Next
<1>3. QED
  BY <1>1, <1>2

(* memoize.lua remembers: until the index wraps, every value evaluated     *)
(* before a savepoint is there again when the savepoint is loaded, however *)
(* many evaluations were made in deeper frames and in sibling branches.    *)
THEOREM RememberedUntilWrap == Spec /\ [][~Wraps]_vars => []SavedValuesRemembered
<1>1. IInv => SavedValuesRemembered
  BY DEF IInv
<1>2. QED
  BY InitIInv, NextIInv, <1>1, PTL DEF Spec

(* And until then no call returns what was evaluated in an exited frame or *)
(* in another branch.                                                      *)
THEOREM FreshUntilWrap == Spec /\ [][~Wraps]_vars => []NoStaleAnswers
<1>1. IInv => NoStaleAnswers
  BY DEF IInv
<1>2. QED
  BY InitIInv, NextIInv, <1>1, PTL DEF Spec

-----------------------------------------------------------------------------
(* The index is raised once for each evaluation and to at most the depth   *)
(* of the simulation, so that it cannot wrap while both together are less  *)
(* than the number of its values.                                          *)

Counted ==
    /\ IInv
    /\ evals <= MissLimit
    /\ current.mp <= evals + NFrame - 1
    /\ \A k \in 0 .. depth : snap[k] # NoSnap => snap[k].mp <= evals + NFrame - 1

LEMMA CountedStep ==
    ASSUME MissLimit + NFrame <= MpMod, Counted, [Next]_vars
    PROVE  Counted' /\ [~Wraps]_vars
<1> USE NumbersAssumption
<1>1. /\ current.mp \in 0 .. MpMod - 1 /\ evals \in Nat /\ depth \in 0 .. NFrame - 1
      /\ \A k \in 0 .. depth : snap[k] # NoSnap => snap[k].mp \in 0 .. MpMod - 1
  BY FramesBelow DEF Counted, IInv, TypeInv, State, Sim!Frames
<1>2. ~Wraps
  <2> SUFFICES ASSUME NEW a \in Arg, Miss(a)
               PROVE  Larger(current.mp + 1, depth) < MpMod
    BY <1>1 DEF Wraps, Larger
  <2>1. evals < MissLimit
    BY DEF Miss
  <2>2. QED
    BY <1>1, <2>1 DEF Counted, Larger
<1>3. IInv'
  BY <1>2, NextIInv DEF Counted
<1>4. /\ current'.mp \in 0 .. MpMod - 1 /\ evals' \in Nat /\ depth' \in 0 .. NFrame - 1
      /\ \A k \in 0 .. depth' : snap'[k] # NoSnap => snap'[k].mp \in 0 .. current'.mp
  BY <1>3, FramesBelow DEF IInv, TypeInv, IndicesGrow, State, Sim!Frames
<1>5. evals' <= MissLimit /\ current'.mp <= evals' + NFrame - 1
  <2>1. ASSUME NEW a \in Arg, Hit(a)
        PROVE  evals' <= MissLimit /\ current'.mp <= evals' + NFrame - 1
    BY <2>1 DEF Hit, Counted
  <2>2. ASSUME NEW a \in Arg, Miss(a)
        PROVE  evals' <= MissLimit /\ current'.mp <= evals' + NFrame - 1
    <3>1. Larger(current.mp + 1, depth) \in 0 .. MpMod - 1
      BY <1>1, <1>2, <2>2 DEF Wraps, Larger
    <3>2. current'.mp = Larger(current.mp + 1, depth)
      <4>1. Larger(current.mp + 1, depth) % MpMod = Larger(current.mp + 1, depth)
        BY <3>1
      <4>2. QED
        BY <2>2, <4>1 DEF Miss
    <3>3. evals' = evals + 1 /\ evals < MissLimit
      BY <2>2 DEF Miss
    <3>4. QED
      BY <1>1, <3>2, <3>3 DEF Counted, Larger
  <2>3. CASE SimStep
    <3>1. evals' = evals
      BY <2>3 DEF SimStep
    <3>2. current' = current \/ \E k \in 0 .. depth : snap[k] # NoSnap /\ current' = snap[k]
      <4>1. CASE Sim!Save \/ Sim!MarkBranch \/ Sim!Descend
        BY <4>1 DEF Sim!Save, Sim!MarkBranch, Sim!Descend
      <4>2. ASSUME NEW k \in Sim!Frames, Sim!Load(k) \/ Sim!StartBranch(k)
            PROVE  k \in 0 .. depth /\ snap[k] # NoSnap /\ current' = snap[k]
        <5>1. (k <= depth \/ k < depth) /\ snap[k] # NoSnap /\ current' = snap[k]
          BY <4>2, Zenon DEF Sim!Load, Sim!StartBranch
        <5>2. QED
          BY <1>1, <5>1 DEF Sim!Frames
      <4>3. QED
        BY <2>3, <4>1, <4>2 DEF SimStep
    <3>3. QED
      BY <3>1, <3>2 DEF Counted
  <2>4. CASE UNCHANGED vars
    BY <2>4 DEF vars, Counted
  <2>5. QED
    BY <2>1, <2>2, <2>3, <2>4 DEF Next
<1>6. QED
  BY <1>1, <1>2, <1>3, <1>4, <1>5 DEF Counted

LEMMA InitCounted == Init => Counted
<1> SUFFICES ASSUME Init PROVE Counted
  OBVIOUS
<1>1. IInv
  BY InitIInv
<1>2. QED
  BY <1>1, NumbersAssumption DEF Init, Counted, Sim!Frames

(* A bound that programs can count: with fewer than MpMod evaluations and  *)
(* frames together, everything is remembered and nothing stale returned.   *)
THEOREM RememberedBelowBound ==
    ASSUME MissLimit + NFrame <= MpMod
    PROVE  Spec => [](SavedValuesRemembered /\ NoStaleAnswers)
<1>1. Counted /\ [Next]_vars => Counted'
  BY CountedStep
<1>2. Counted => SavedValuesRemembered /\ NoStaleAnswers
  BY DEF Counted, IInv
<1>3. QED
  BY InitCounted, <1>1, <1>2, PTL DEF Spec
=============================================================================
