--------------------------- MODULE ControlProofs ---------------------------
(***************************************************************************)
(* Proofs about Control, for every control flow graph, number of frames    *)
(* and size of the call stack: the invariants of the one mutable stack     *)
(* with savepoints, and that Control implements Continuations, the threads *)
(* that the graph means.                                                   *)
(***************************************************************************)
EXTENDS Control, WellFoundedInduction, SequenceTheorems, TLAPS

-----------------------------------------------------------------------------
(* The least-number principle, for proofs by a least counterexample where  *)
(* an induction would be needed.                                           *)

(* A set of numbers has an element below which, in any well-founded        *)
(* relation that agrees with <, there is none.                             *)
LEMMA LeastByRelation ==
    ASSUME NEW R, IsWellFoundedOn(R, Nat), \A x, y \in Nat : <<y, x>> \in R <=> y < x,
           NEW T, T \subseteq Nat, T # {}
    PROVE  \E x \in T : \A y \in T : x <= y
<1>1. PICK x \in T : \A y \in T : ~(<<y, x>> \in R)
  BY WFMin
<1>2. x \in Nat /\ \A y \in T : y \in Nat /\ ~(y < x)
  BY <1>1, Zenon
<1>3. \A y \in T : x <= y
  BY <1>2
<1>4. QED
  BY <1>3

(* Every nonempty set of natural numbers has a least element.              *)
LEMMA LeastNatural ==
    ASSUME NEW T, T \subseteq Nat, T # {}
    PROVE  \E x \in T : \A y \in T : x <= y
<1>1. \A x, y \in Nat : <<y, x>> \in OpToRel(<, Nat) <=> y < x
  BY DEF OpToRel
<1>2. QED
  BY <1>1, NatLessThanWellFounded, LeastByRelation

-----------------------------------------------------------------------------
(* The chain of an "all" node is a sequence of nodes.                      *)

LEMMA ChainType ==
    ASSUME NEW p \in Programs, NEW n \in Node
    PROVE  Chain(p, n) \in Seq(Node)
<1> DEFINE E == EdgesOf(p, n)
           L == Len(E)
           Next1(q, i) == IF TagOf(p, E[i]) = "nothing" THEN q ELSE Append(q, E[i])
           Good(f, m) == /\ f \in [0 .. m -> Seq(Node)] /\ f[0] = <<>>
                         /\ \A i \in 1 .. m : f[i] = Next1(f[i - 1], i)
           K == Kept(p, n)
<1>1. E \in Seq(Node) /\ L \in Nat /\ \A i \in 1 .. L : E[i] \in Node
  BY ProgramsAssumption
<1>2. \A i \in 1 .. L, q \in Seq(Node) : Next1(q, i) \in Seq(Node)
  BY <1>1
<1>3. K = CHOOSE f : f = [i \in 0 .. L |-> IF i = 0 THEN <<>>
                                           ELSE IF TagOf(p, E[i]) = "nothing" THEN f[i - 1]
                                           ELSE Append(f[i - 1], E[i])]
  BY DEF Kept
<1>4. Chain(p, n) = K[L]
  BY DEF Chain
<1> HIDE DEF E, L, K
<1>5. \E f : Good(f, L)
  <2> DEFINE Exists(m) == \E f : Good(f, m)
             T == {m \in Nat : m <= L /\ ~Exists(m)}
  <2> HIDE DEF Exists
  <2> SUFFICES ASSUME T # {} PROVE FALSE
    <3>1. Exists(L)
      BY <1>1
    <3>2. QED
      BY <3>1 DEF Exists
  <2> USE DEF Exists
  <2>1. PICK x \in T : \A y \in T : x <= y
    BY LeastNatural
  <2>2. x # 0
    <3>1. Good([i \in 0 .. 0 |-> <<>>], 0)
      OBVIOUS
    <3>2. QED
      BY <3>1
  <2>3. x \in Nat /\ x <= L /\ x - 1 \in Nat /\ x - 1 <= L /\ ~(x <= x - 1)
    BY <1>1, <2>1, <2>2
  <2>4. x - 1 \notin T
    BY <2>1, <2>3
  <2>5. PICK f : Good(f, x - 1)
    BY <2>3, <2>4
  <2> DEFINE g == [i \in 0 .. x |-> IF i = x THEN Next1(f[x - 1], x) ELSE f[i]]
  <2>6. Good(g, x)
    <3>1. x \in 1 .. L /\ f[x - 1] \in Seq(Node)
      BY <2>2, <2>3, <2>5
    <3>2. Next1(f[x - 1], x) \in Seq(Node)
      BY <1>2, <3>1
    <3> HIDE DEF Next1
    <3>3. g \in [0 .. x -> Seq(Node)]
      BY <2>3, <2>5, <3>2
    <3>4. g[0] = <<>>
      BY <2>2, <2>3, <2>5
    <3>5. ASSUME NEW i \in 1 .. x PROVE g[i] = Next1(g[i - 1], i)
      <4>1. g[i - 1] = f[i - 1]
        BY <2>3
      <4>2. CASE i = x
        BY <4>1, <4>2, <2>3
      <4>3. CASE i # x
        BY <4>1, <4>3, <2>3, <2>5, SMTT(30)
      <4>4. QED
        BY <4>2, <4>3
    <3>6. QED
      BY <3>3, <3>4, <3>5
  <2>7. QED
    BY <2>1, <2>6
<1>6. K = [i \in 0 .. L |-> IF i = 0 THEN <<>>
                            ELSE IF TagOf(p, E[i]) = "nothing" THEN K[i - 1]
                            ELSE Append(K[i - 1], E[i])]
  <2>1. PICK f : Good(f, L)
    BY <1>5
  <2>2. f = [i \in 0 .. L |-> IF i = 0 THEN <<>>
                              ELSE IF TagOf(p, E[i]) = "nothing" THEN f[i - 1]
                              ELSE Append(f[i - 1], E[i])]
    <3>1. f \in [0 .. L -> Seq(Node)]
      BY <2>1
    <3>2. \A i \in 0 .. L : f[i] = IF i = 0 THEN <<>>
                                  ELSE IF TagOf(p, E[i]) = "nothing" THEN f[i - 1]
                                  ELSE Append(f[i - 1], E[i])
      <4>1. f[0] = <<>> /\ \A i \in 1 .. L : f[i] = Next1(f[i - 1], i)
        BY <2>1
      <4>2. \A i \in 0 .. L : i # 0 => i \in 1 .. L
        BY <1>1
      <4> HIDE DEF Good
      <4>3. QED
        BY <4>1, <4>2
    <3> HIDE DEF Good
    <3>3. QED
      BY <3>1, <3>2
  <2>3. QED
    BY <1>3, <2>2, Zenon
<1>7. \A m \in 0 .. L : K[m] \in Seq(Node)
  <2> DEFINE T == {m \in Nat : m <= L /\ K[m] \notin Seq(Node)}
  <2> SUFFICES ASSUME T # {} PROVE FALSE
    BY <1>1
  <2>1. PICK x \in T : \A y \in T : x <= y
    BY LeastNatural
  <2>2. x # 0 /\ x \in 0 .. L
    BY <1>1, <1>6, <2>1
  <2>3. x - 1 \in Nat /\ x - 1 <= L /\ ~(x <= x - 1) /\ x \in 1 .. L
    BY <1>1, <2>2
  <2>4. K[x - 1] \in Seq(Node)
    BY <2>1, <2>3
  <2>5. K[x] = Next1(K[x - 1], x)
    BY <1>6, <2>2
  <2>6. K[x] \in Seq(Node)
    BY <1>2, <2>3, <2>4, <2>5
  <2>7. QED
    BY <2>1, <2>6
<1>8. QED
  BY <1>1, <1>4, <1>7

-----------------------------------------------------------------------------
(* Functions and activations.                                              *)

(* What a thread can be about to run.                                      *)
Code == Compiled \cup {Exit}

Act == [node : Node, next : Nat, phase : {"enter", "read", "load"}, fp : Nat,
        bottom : Nat, top : Nat, continue : Fn]

LEMMA Kinds ==
    /\ \A f \in Compiled : f \notin {Nil, False, Exit, Underflow, Return, Done}
    /\ Exit \notin {Nil, False, Underflow, Return, Done}
    /\ Return # Done /\ Code \subseteq Fn
BY DEF Compiled, Nil, False, Exit, Underflow, Return, Done, Code, Fn

(* Only compiled functions match a pattern of the compiler.                *)
LEMMA Patterns ==
    ASSUME NEW p \in Programs, NEW f
    PROVE  /\ \/ DoesNothing(p, f) \/ Forwards(p, f) \/ Calls(p, f)
              \/ RunsPrimitive(p, f) \/ Branches(p, f) \/ Tag(p, f) = "input"
              => f \in Compiled
           /\ DoesExit(p, f) => f \in Code
           /\ f \in Compiled => Tag(p, f) = TagOf(p, f[1])
<1>1. f \notin Compiled => Tag(p, f) = "builtin"
  BY DEF Tag
<1>2. f \in Compiled => Tag(p, f) = TagOf(p, f[1])
  BY DEF Tag
<1>3. QED
  BY <1>1, <1>2 DEF DoesNothing, Forwards, Calls, Chained, RunsPrimitive, Branches, DoesExit,
                    IsAll, Code

(* Where compiled functions jump to.                                       *)
LEMMA Targets ==
    ASSUME NEW p \in Programs, NEW f \in Compiled
    PROVE  /\ f[1] \in Node /\ f[2] \in Nat \ {0} /\ Rest(f) \in Compiled
           /\ Forwards(p, f) => Target(p, f) \in Compiled
           /\ Chained(p, f) => Chain(p, f[1])[f[2]] \in Node
           /\ RunsPrimitive(p, f) => PrimitiveOf(p, f) \in Node
<1>1. f[1] \in Node /\ f[2] \in Nat \ {0}
  BY DEF Compiled
<1>2. Rest(f) \in Compiled
  BY <1>1 DEF Rest, Compiled
<1>3. Chain(p, f[1]) \in Seq(Node) /\ EdgesOf(p, f[1]) \in Seq(Node)
  BY <1>1, ChainType, ProgramsAssumption
<1>4. \A n \in Node : FnOf(n) \in Compiled
  BY DEF FnOf, Compiled
<1>5. Chained(p, f) => Chain(p, f[1])[f[2]] \in Node
  BY <1>1, <1>3 DEF Chained
<1>6. Forwards(p, f) => Target(p, f) \in Compiled
  <2>1. CASE Tag(p, f) = "any"
    BY <1>3, <1>4, <2>1 DEF Forwards, Target, IsAll
  <2>2. CASE Tag(p, f) # "any"
    BY <1>1, <1>3, <1>4, <2>2 DEF Forwards, Target, IsAll
  <2>3. QED
    BY <2>1, <2>2
<1>7. QED
  BY <1>1, <1>2, <1>5, <1>6 DEF RunsPrimitive, PrimitiveOf

LEMMA Results ==
    ASSUME NEW p \in Programs, NEW n \in Node, NEW s \in State
    PROVE  /\ Result(p, n, s) \in {Nil, False} \cup Compiled
           /\ Ran(n, s) \in State
           /\ \A i \in Nat : ReadItem(n, i, s) \in State
<1>1. Len(s) \in Nat /\ Period \in Nat \ {0}
  BY NumbersAssumption DEF State
<1>2. Len(s) % Period \in 0 .. Period - 1
  BY <1>1
<1>3. <<n, 0>> \in Node \X Nat /\ \A i \in Nat : <<n, i>> \in Node \X Nat
  OBVIOUS
<1>4. QED
  BY <1>2, <1>3, ProgramsAssumption DEF Result, State, Ran, ReadItem

(* Sequences of activations.                                               *)
LEMMA Pushed ==
    ASSUME NEW ns \in Seq(Act), NEW b \in Act
    PROVE  /\ Append(ns, b) \in Seq(Act) /\ Len(Append(ns, b)) = Len(ns) + 1
           /\ Append(ns, b)[Len(ns) + 1] = b
           /\ \A j \in 1 .. Len(ns) : Append(ns, b)[j] = ns[j]
OBVIOUS

LEMMA Popped ==
    ASSUME NEW ns \in Seq(Act), ns # <<>>, NEW ms, ms = SubSeq(ns, 1, Len(ns) - 1)
    PROVE  /\ ms \in Seq(Act) /\ Len(ms) = Len(ns) - 1
           /\ \A j \in 1 .. Len(ms) : ms[j] = ns[j]
<1> DEFINE m == Len(ns) - 1
<1>1. m \in Nat /\ \A j \in 1 .. m : j \in 1 .. Len(ns)
  OBVIOUS
<1>2. ms = SubSeq(ns, 1, m)
  OBVIOUS
<1> HIDE DEF m
<1>3. ms = [j \in 1 .. m |-> ns[j]]
  BY <1>1, <1>2
<1>4. Len(ms) = m /\ \A j \in 1 .. m : ms[j] \in Act /\ ms[j] = ns[j]
  BY <1>1, <1>3
<1>5. QED
  BY <1>1, <1>3, <1>4 DEF m

LEMMA Replaced ==
    ASSUME NEW ns \in Seq(Act), ns # <<>>, NEW b \in Act, NEW ms,
           ms = [ns EXCEPT ![Len(ns)] = b]
    PROVE  /\ ms \in Seq(Act) /\ Len(ms) = Len(ns) /\ Len(ns) \in 1 .. Len(ns)
           /\ ms[Len(ns)] = b
           /\ \A j \in 1 .. Len(ns) : j # Len(ns) => ms[j] = ns[j]
OBVIOUS

LEMMA Advanced ==
    ASSUME NEW a \in Act, NEW n \in Nat, NEW ph \in {"enter", "read", "load"}
    PROVE  /\ [a EXCEPT !.next = n] =
                 [node |-> a.node, next |-> n, phase |-> a.phase, fp |-> a.fp,
                  bottom |-> a.bottom, top |-> a.top, continue |-> a.continue]
           /\ [a EXCEPT !.next = n, !.phase = ph] =
                 [node |-> a.node, next |-> n, phase |-> ph, fp |-> a.fp,
                  bottom |-> a.bottom, top |-> a.top, continue |-> a.continue]
           /\ [a EXCEPT !.next = n] \in Act /\ [a EXCEPT !.next = n, !.phase = ph] \in Act
<1> DEFINE D == {"node", "next", "phase", "fp", "bottom", "top", "continue"}
           u == [a EXCEPT !.next = n, !.phase = ph]
           v == [a EXCEPT !.next = n]
<1>1. a = [node |-> a.node, next |-> a.next, phase |-> a.phase, fp |-> a.fp,
           bottom |-> a.bottom, top |-> a.top, continue |-> a.continue] /\ DOMAIN a = D
  BY DEF Act
<1>2. v = [node |-> a.node, next |-> n, phase |-> a.phase, fp |-> a.fp,
           bottom |-> a.bottom, top |-> a.top, continue |-> a.continue]
  BY <1>1
<1>3. u = [node |-> a.node, next |-> n, phase |-> ph, fp |-> a.fp,
           bottom |-> a.bottom, top |-> a.top, continue |-> a.continue]
  <2>1. DOMAIN u = D
    BY <1>1
  <2>2. /\ u.node = a.node /\ u.next = n /\ u.phase = ph /\ u.fp = a.fp
        /\ u.bottom = a.bottom /\ u.top = a.top /\ u.continue = a.continue
    BY <1>1
  <2>3. u = [i \in D |-> u[i]]
    BY <2>1
  <2> HIDE DEF u
  <2>4. QED
    BY <2>1, <2>2, <2>3
<1>4. QED
  BY <1>2, <1>3 DEF Act

-----------------------------------------------------------------------------
(* The inductive invariant.  It says of every activation, and not only of  *)
(* the last one, what it will find when control comes back to it.          *)

TypeInv ==
    /\ prog \in Programs
    /\ stack \in [Slots -> Fn] /\ bottom \in Nat /\ top \in Nat
    /\ pc \in Code \cup {Return, Done}
    /\ native \in Seq(Act)
    /\ current \in State
    /\ depth \in Sim!Frames
    /\ snap \in [Sim!Frames -> State \cup {NoSnap}]
    /\ branches \in [Sim!Frames -> BOOLEAN]

(* The part of the stack that function f was called with: the exit of the  *)
(* path at the bottom, and compiled functions above it.  Only the exit     *)
(* itself is ever called with nothing left.                                *)
Sound(stk, f, b, t) ==
    /\ b \in Nat /\ t \in Nat /\ b >= 4 /\ b <= t + 1 /\ t <= StackCap
    /\ f # Exit => b <= t
    /\ \A i \in b .. t : stk[i] \in (IF i = b THEN {Exit} ELSE Compiled)

StackInv ==
    /\ bottom >= 4
    /\ Running => /\ Sound(stack, pc, bottom, top)
                  /\ \A j \in 1 .. Len(native) : native[j].top < bottom
    /\ \A j \in 1 .. Len(native) : Sound(stack, native[j].continue, native[j].bottom, native[j].top)
    /\ \A i, j \in 1 .. Len(native) : i < j => native[i].top < native[j].bottom

IsAny(a) == TagOf(prog, a.node) = "any"

(* The alternatives or entries an activation still has.                    *)
Sane(a) ==
    \/ IsAny(a) /\ a.next \in 1 .. Len(EdgesOf(prog, a.node)) /\ a.continue = Nil
    \/ /\ TagOf(prog, a.node) = "input" /\ a.next \in 1 .. NItems + 1 /\ a.continue \in Code
       /\ a.phase = "read" => a.next <= NItems

Fresh(k) == snap[k] = NoSnap /\ branches[k] = FALSE

(* Every activation has its own frame with a savepoint, below the frame    *)
(* that runs; where nothing has run since, the savepoint is current.       *)
Awaits(j) ==
    LET a == native[j] IN
    /\ Sane(a)
    /\ a.fp \in 0 .. depth /\ snap[a.fp] # NoSnap
    /\ IsAny(a) => branches[a.fp] = TRUE
    /\ Running => a.fp < depth
    /\ IsAny(a) /\ a.fp = depth => current = snap[a.fp]
    /\ ~IsAny(a) /\ a.phase # "load" =>
          pc = Return /\ j = Len(native) /\ current = snap[a.fp]
    /\ ~IsAny(a) /\ a.phase = "enter" => a.fp = depth
    /\ ~IsAny(a) /\ a.phase = "read" => a.fp < depth /\ Fresh(depth)

FrameInv ==
    /\ Running => Fresh(depth)
    /\ \A k \in Sim!Frames : k > depth => Fresh(k)
    /\ \A j \in 1 .. Len(native) : Awaits(j)
    /\ \A i, j \in 1 .. Len(native) : i < j => native[i].fp < native[j].fp

ErrorInv ==
    /\ OnlyLimitErrors
    /\ err # "OK" => pc = Done
    /\ pc = Done => native = <<>>

IInv == TypeInv /\ StackInv /\ FrameInv /\ ErrorInv

LEMMA InitIInv == Init => IInv
<1> SUFFICES ASSUME Init PROVE IInv
  OBVIOUS
<1>1. prog \in Programs /\ pc \in Compiled /\ native = <<>> /\ Len(native) = 0
  BY ProgramsAssumption DEF Init, FnOf, Compiled
<1>2. Running /\ pc # Exit
  BY <1>1, Kinds DEF Running
<1>3. TypeInv
  <2>1. stack \in [Slots -> Fn]
    BY DEF Init, Fn
  <2>2. 0 \in Sim!Frames
    BY NFrameAssumption DEF Sim!Frames
  <2>3. native \in Seq(Act) /\ current \in State
    BY DEF Init, State
  <2>4. QED
    BY <1>1, <2>1, <2>2, <2>3 DEF Init, TypeInv, Code
<1>4. StackInv
  <2>1. Sound(stack, pc, 4, 4)
    BY StackCapAssumption DEF Init, Sound, Slots
  <2>2. QED
    BY <1>1, <1>2, <2>1 DEF Init, StackInv
<1>5. FrameInv
  <2>1. \A k \in Sim!Frames : Fresh(k)
    BY DEF Init, Fresh
  <2>2. QED
    BY <1>1, <1>3, <2>1 DEF TypeInv, FrameInv
<1>6. ErrorInv
  BY <1>1, Kinds DEF Init, ErrorInv, OnlyLimitErrors
<1>7. QED
  BY <1>3, <1>4, <1>5, <1>6 DEF IInv

(* The part of the stack a function was called with stays as it is when    *)
(* only slots above it are written.                                        *)
LEMMA SoundKept ==
    ASSUME NEW stk, NEW stk2, NEW f, NEW b, NEW t, Sound(stk, f, b, t),
           \A i \in b .. t : stk2[i] = stk[i]
    PROVE  Sound(stk2, f, b, t)
BY DEF Sound

(* An activation that waits for what it called, and what keeps it waiting. *)
LEMMA Suspended ==
    ASSUME IInv, NEW j \in 1 .. Len(native), Running \/ j # Len(native)
    PROVE  /\ native[j] \in Act /\ native[j].fp \in Sim!Frames /\ native[j].fp < depth
           /\ ~IsAny(native[j]) => native[j].phase = "load"
<1>1. Awaits(j) /\ native \in Seq(Act) /\ depth \in Nat /\ depth \in Sim!Frames
  BY DEF IInv, FrameInv, TypeInv, Sim!Frames
<1>2. native[j] \in Act /\ native[j].fp \in Sim!Frames
  BY <1>1, NFrameAssumption DEF Awaits, Sim!Frames
<1>3. ~IsAny(native[j]) => native[j].phase = "load"
  BY <1>1, Kinds DEF Awaits, Running
<1>4. native[j].fp < depth
  <2>1. CASE Running
    BY <1>1, <2>1 DEF Awaits
  <2>2. CASE j # Len(native)
    <3>1. Len(native) \in 1 .. Len(native) /\ j < Len(native)
      BY <1>1, <2>2
    <3>2. native[j].fp < native[Len(native)].fp /\ Awaits(Len(native))
      BY <3>1 DEF IInv, FrameInv
    <3>3. QED
      BY <1>1, <1>2, <3>2 DEF Awaits, Sim!Frames
  <2>3. QED
    BY <2>1, <2>2
<1>5. QED
  BY <1>2, <1>3, <1>4

LEMMA AwaitsKept ==
    ASSUME IInv, NEW j \in 1 .. Len(native), native'[j] = native[j], prog' = prog,
           ~IsAny(native[j]) => native[j].phase = "load",
           depth' \in Sim!Frames, native[j].fp < depth',
           snap'[native[j].fp] = snap[native[j].fp],
           branches'[native[j].fp] = branches[native[j].fp]
    PROVE  Awaits(j)'
<1>1. Awaits(j) /\ depth \in Nat /\ depth' \in Nat
  BY DEF IInv, FrameInv, TypeInv, Sim!Frames
<1>2. native[j].fp \in 0 .. depth' /\ native[j].fp # depth'
  BY <1>1 DEF Awaits
<1>3. QED
  BY <1>1, <1>2 DEF Awaits, Sane, IsAny

(* A step of the running function that only moves along its own part of    *)
(* the stack.                                                              *)
LEMMA RunStep ==
    ASSUME IInv, Running, pc' \in Code, stack' \in [Slots -> Fn], top' \in Nat,
           Sound(stack', pc', bottom, top'), \A i \in 0 .. bottom - 1 : stack'[i] = stack[i],
           current' \in State, UNCHANGED <<prog, bottom, native, depth, snap, branches, err>>
    PROVE  IInv'
<1>1. Running'
  BY Kinds DEF Running, Code
<1>2. TypeInv'
  BY DEF IInv, TypeInv
<1>3. StackInv'
  <2>1. ASSUME NEW j \in 1 .. Len(native)
        PROVE  Sound(stack', native[j].continue, native[j].bottom, native[j].top)
    <3>1. Sound(stack, native[j].continue, native[j].bottom, native[j].top)
      BY DEF IInv, StackInv
    <3>2. \A i \in native[j].bottom .. native[j].top : i \in 0 .. bottom - 1
      BY <3>1 DEF IInv, StackInv, TypeInv, Sound
    <3>3. QED
      BY <3>1, <3>2, SoundKept
  <2>2. QED
    BY <1>1, <2>1 DEF IInv, StackInv
<1>4. FrameInv'
  <2>1. ASSUME NEW j \in 1 .. Len(native) PROVE Awaits(j)'
    <3>1. native[j].fp < depth' /\ (~IsAny(native[j]) => native[j].phase = "load")
      BY Suspended
    <3>2. QED
      BY <3>1, AwaitsKept DEF IInv, TypeInv
  <2>2. QED
    BY <1>1, <2>1 DEF IInv, FrameInv, Fresh
<1>5. ErrorInv'
  BY <1>1, Kinds DEF IInv, ErrorInv, OnlyLimitErrors, Running
<1>6. QED
  BY <1>2, <1>3, <1>4, <1>5 DEF IInv

(* The end of a path.                                                      *)
LEMMA EndStep ==
    ASSUME IInv, Running, pc' = Return, current' \in State,
           UNCHANGED <<prog, stack, bottom, top, native, depth, snap, branches, err>>
    PROVE  IInv'
<1>1. ~Running' /\ pc # Done
  BY Kinds DEF Running
<1>2. TypeInv'
  BY DEF IInv, TypeInv
<1>3. StackInv'
  BY <1>1 DEF IInv, StackInv
<1>4. FrameInv'
  <2>1. ASSUME NEW j \in 1 .. Len(native) PROVE Awaits(j)'
    <3>1. native[j].fp < depth' /\ (~IsAny(native[j]) => native[j].phase = "load")
      BY Suspended
    <3>2. QED
      BY <3>1, AwaitsKept DEF IInv, TypeInv
  <2>2. QED
    BY <1>1, <2>1 DEF IInv, FrameInv, Fresh
<1>5. ErrorInv'
  BY <1>1, Kinds DEF IInv, ErrorInv, OnlyLimitErrors, Running
<1>6. QED
  BY <1>2, <1>3, <1>4, <1>5 DEF IInv

(* An error that stops the execution.                                      *)
LEMMA RaiseStep ==
    ASSUME IInv, NEW code \in {"EFRAME", "EALLOC"}, code = "EFRAME" => depth = NFrame - 1,
           Raise(code), branches' \in [Sim!Frames -> BOOLEAN],
           \A k \in Sim!Frames : k > depth => branches'[k] = branches[k]
    PROVE  IInv'
<1>1. /\ err' = code /\ pc' = Done /\ native' = <<>> /\ Len(native') = 0 /\ ~Running'
      /\ UNCHANGED <<prog, stack, bottom, top, current, depth, snap>>
  BY DEF Raise, stackvars, Running
<1>2. TypeInv'
  BY <1>1 DEF IInv, TypeInv
<1>3. StackInv'
  BY <1>1 DEF IInv, StackInv
<1>4. FrameInv'
  BY <1>1 DEF IInv, FrameInv, Fresh
<1>5. ErrorInv'
  BY <1>1 DEF ErrorInv, OnlyLimitErrors
<1>6. QED
  BY <1>2, <1>3, <1>4, <1>5 DEF IInv

(* A choice is suspended: its frame is saved.                              *)
LEMMA PushStep ==
    ASSUME IInv, Running, pc' = Return, NEW a \in Act, native' = Append(native, a),
           UNCHANGED <<prog, stack, bottom, top, current, depth, err>>,
           snap' = [snap EXCEPT ![depth] = current],
           branches' \in [Sim!Frames -> BOOLEAN],
           \A k \in Sim!Frames : k # depth => branches'[k] = branches[k],
           IsAny(a) => branches'[depth] = TRUE,
           a.fp = depth, a.phase = "enter", Sane(a), a.bottom = bottom,
           Sound(stack, a.continue, a.bottom, a.top)
    PROVE  IInv'
<1>n. PICK n \in Nat : n = Len(native)
  BY DEF IInv, TypeInv
<1>1. ~Running' /\ pc # Done /\ pc # Return
  BY Kinds DEF Running
<1>2. native \in Seq(Act) /\ n \in Nat /\ depth \in Nat /\ depth \in Sim!Frames
  BY DEF IInv, TypeInv, Sim!Frames
<1>3. /\ native' \in Seq(Act) /\ Len(native') = n + 1 /\ native'[n + 1] = a
      /\ \A j \in 1 .. n : native'[j] = native[j]
  BY <1>2, <1>n, Pushed
<1>4. \A j \in 1 .. n + 1 : j \in 1 .. n \/ j = n + 1
  BY <1>2
<1>5. TypeInv'
  BY <1>3 DEF IInv, TypeInv
<1>6. StackInv'
  <2>1. \A j \in 1 .. n : native[j].top < bottom /\ ~(n + 1 < j)
    BY <1>2, <1>n DEF IInv, StackInv
  <2>2. \A j \in 1 .. n + 1 :
           Sound(stack', native'[j].continue, native'[j].bottom, native'[j].top)
    BY <1>n, <1>3, <1>4 DEF IInv, StackInv
  <2>3. \A i, j \in 1 .. n : i < j => native'[i].top < native'[j].bottom
    BY <1>n, <1>3 DEF IInv, StackInv
  <2>4. \A i, j \in 1 .. n + 1 : i < j => native'[i].top < native'[j].bottom
    <3>1. ~(n + 1 < n + 1)
      BY <1>n
    <3>2. QED
      BY <1>3, <1>4, <2>1, <2>3, <3>1
  <2>5. QED
    BY <1>1, <1>3, <2>2, <2>4 DEF IInv, StackInv
<1>7. /\ snap'[depth] = current /\ current # NoSnap
      /\ \A k \in Sim!Frames : k # depth => snap'[k] = snap[k]
  BY <1>2, NoSnapAssumption DEF IInv, TypeInv
<1>8. FrameInv'
  <2>1. ASSUME NEW k \in Sim!Frames, k > depth' PROVE Fresh(k)'
    <3>1. k # depth /\ Fresh(k)
      BY <1>2, <2>1 DEF IInv, FrameInv, Sim!Frames
    <3>2. QED
      BY <1>7, <3>1 DEF Fresh
  <2>2. ASSUME NEW j \in 1 .. n PROVE Awaits(j)' /\ native'[j].fp < depth
    <3>1. j \in 1 .. Len(native) /\ native'[j] = native[j]
      BY <1>3, <1>n
    <3>2. /\ native[j].fp \in Sim!Frames /\ native[j].fp < depth
          /\ ~IsAny(native[j]) => native[j].phase = "load"
      BY <3>1, Suspended
    <3>3. native[j].fp # depth
      BY <1>2, <3>2 DEF Sim!Frames
    <3>4. snap'[native[j].fp] = snap[native[j].fp] /\ branches'[native[j].fp] = branches[native[j].fp]
      BY <1>7, <3>2, <3>3
    <3>5. Awaits(j)'
      BY <1>2, <3>1, <3>2, <3>4, AwaitsKept
    <3>6. QED
      BY <3>1, <3>2, <3>5
  <2>3. Awaits(n + 1)'
    BY <1>1, <1>2, <1>3, <1>7, Kinds DEF Awaits, Sane, IsAny
  <2>4. \A i, j \in 1 .. n + 1 : i < j => native'[i].fp < native'[j].fp
    <3>1. \A i, j \in 1 .. n : i < j => native'[i].fp < native'[j].fp
      BY <1>3, <1>n DEF IInv, FrameInv
    <3>2. \A j \in 1 .. n : ~(n + 1 < j) /\ ~(n + 1 < n + 1)
      BY <1>2
    <3>3. QED
      BY <1>3, <1>4, <2>2, <3>1, <3>2
  <2>5. QED
    BY <1>1, <1>3, <1>4, <2>1, <2>2, <2>3, <2>4 DEF FrameInv
<1>9. ErrorInv'
  BY <1>1, Kinds DEF IInv, ErrorInv, OnlyLimitErrors, Running
<1>10. QED
  BY <1>5, <1>6, <1>8, <1>9 DEF IInv

(* copystack: the copy is like the original and lies above it, whichever   *)
(* of the two ways it is made.                                             *)
LEMMA CopySound ==
    ASSUME stack \in [Slots -> Fn], NEW f, NEW b, NEW t, Sound(stack, f, b, t),
           NEW c, c = Copystack(b, t), c.top <= StackCap
    PROVE  /\ c.stack \in [Slots -> Fn] /\ c.bottom \in Nat /\ c.top \in Nat
           /\ Sound(c.stack, f, c.bottom, c.top) /\ t < c.bottom
           /\ \A i \in 0 .. t : c.stack[i] = stack[i]
           /\ c.top - c.bottom = t - b
           /\ \A i \in b .. t : c.stack[i + (c.bottom - b)] = stack[i]
<1>1. /\ b \in Nat /\ t \in Nat /\ b >= 4 /\ b <= t + 1 /\ t <= StackCap
      /\ StackCap \in Nat /\ (f # Exit => b <= t)
      /\ \A i \in b .. t : stack[i] \in (IF i = b THEN {Exit} ELSE Compiled)
  BY StackCapAssumption DEF Sound
<1>2. CASE t - b < 4
  <2> DEFINE stk == [i \in Slots |-> IF i \in t + 1 .. t + 4 THEN stack[i - 4] ELSE stack[i]]
  <2>1. c = [stack |-> stk, bottom |-> b + 4, top |-> t + 4]
    BY <1>2 DEF Copystack, CopyShort
  <2>2. t + 4 <= StackCap /\ c.stack = stk /\ c.bottom = b + 4 /\ c.top = t + 4
    BY <2>1
  <2>3. stk \in [Slots -> Fn]
    BY <1>1 DEF Slots
  <2>4. \A i \in 0 .. t : stk[i] = stack[i]
    BY <1>1 DEF Slots
  <2>5. \A i \in b .. t : stk[i + 4] = stack[i]
    BY <1>1, <1>2, <2>2 DEF Slots
  <2> HIDE DEF stk
  <2>6. Sound(stk, f, b + 4, t + 4)
    <3>1. ASSUME NEW i \in b + 4 .. t + 4
          PROVE  stk[i] \in (IF i = b + 4 THEN {Exit} ELSE Compiled)
      <4>1. i - 4 \in b .. t /\ (i - 4) + 4 = i /\ (i = b + 4 <=> i - 4 = b)
        BY <1>1
      <4>2. stk[i] = stack[i - 4]
        BY <2>5, <4>1
      <4>3. QED
        BY <1>1, <4>1, <4>2
    <3>2. QED
      BY <1>1, <2>2, <3>1 DEF Sound
  <2>7. c.bottom - b = 4 /\ c.top - c.bottom = t - b /\ t < c.bottom
    BY <1>1, <1>2, <2>2
  <2>8. QED
    BY <1>1, <2>2, <2>3, <2>4, <2>5, <2>6, <2>7
<1>3. CASE ~(t - b < 4)
  <2> DEFINE j == t + 1 + (t - b)
             stk == [i \in Slots |-> IF i \in t + 1 .. j THEN stack[i - (t + 1) + b] ELSE stack[i]]
  <2>1. c = [stack |-> stk, bottom |-> t + 1, top |-> j]
    BY <1>3 DEF Copystack, CopyLong
  <2>2. j <= StackCap /\ c.stack = stk /\ c.bottom = t + 1 /\ c.top = j
    BY <2>1
  <2>3. stk \in [Slots -> Fn]
    BY <1>1, <1>3 DEF Slots
  <2>4. \A i \in 0 .. t : stk[i] = stack[i]
    BY <1>1 DEF Slots
  <2>5. \A i \in b .. t : stk[i + (t + 1 - b)] = stack[i]
    BY <1>1, <1>3, <2>2 DEF Slots
  <2> HIDE DEF stk
  <2>6. Sound(stk, f, t + 1, j)
    <3>1. ASSUME NEW i \in t + 1 .. j
          PROVE  stk[i] \in (IF i = t + 1 THEN {Exit} ELSE Compiled)
      <4> DEFINE h == i - (t + 1 - b)
      <4>1. h \in b .. t /\ h + (t + 1 - b) = i /\ (i = t + 1 <=> h = b)
        BY <1>1
      <4>2. stk[i] = stack[h]
        BY <2>5, <4>1
      <4> HIDE DEF h
      <4>3. QED
        BY <1>1, <4>1, <4>2
    <3>2. QED
      BY <1>1, <1>3, <2>2, <3>1 DEF Sound
  <2>7. c.top - c.bottom = t - b /\ t < c.bottom /\ c.bottom \in Nat /\ c.top \in Nat
    BY <1>1, <1>3, <2>2
  <2>8. QED
    BY <1>1, <2>2, <2>3, <2>4, <2>5, <2>6, <2>7
<1>4. QED
  BY <1>2, <1>3

(* Two versions of an activation that keeps its place.                     *)
SamePlace(a, b) ==
    a.fp = b.fp /\ a.bottom = b.bottom /\ a.top = b.top /\ a.continue = b.continue

(* Frame k is saved and nothing below it is touched; the frames from d on  *)
(* are fresh.                                                              *)
FramesKept(k, d) ==
    /\ snap' \in [Sim!Frames -> State \cup {NoSnap}]
    /\ branches' \in [Sim!Frames -> BOOLEAN]
    /\ \A i \in 0 .. k : snap'[i] = snap[i] /\ branches'[i] = branches[i]
    /\ \A i \in Sim!Frames : i >= d => snap'[i] = NoSnap /\ branches'[i] = FALSE

(* Facts about the last activation.                                        *)
LEMMA Last ==
    ASSUME IInv, native # <<>>
    PROVE  /\ native \in Seq(Act) /\ Len(native) \in 1 .. Len(native) /\ Len(native) \in Nat
           /\ Activation \in Act /\ Activation = native[Len(native)]
           /\ Awaits(Len(native)) /\ Activation.fp \in Sim!Frames /\ Activation.fp \in 0 .. depth
           /\ Activation.node \in Node
           /\ Sound(stack, Activation.continue, Activation.bottom, Activation.top)
           /\ depth \in Nat /\ depth \in Sim!Frames
           /\ \A j \in 1 .. Len(native) :
                 j # Len(native) => /\ native[j].fp < Activation.fp /\ native[j].fp \in Nat
                                    /\ native[j].top < Activation.bottom
                                    /\ native[j].top \in Nat
<1>1. native \in Seq(Act) /\ depth \in Nat /\ depth \in Sim!Frames
  BY DEF IInv, TypeInv, Sim!Frames
<1>2. Len(native) \in 1 .. Len(native) /\ Len(native) \in Nat
  BY <1>1
<1>3. Activation = native[Len(native)] /\ Activation \in Act
  BY <1>1, <1>2 DEF Activation
<1>4. /\ Awaits(Len(native))
      /\ Sound(stack, Activation.continue, Activation.bottom, Activation.top)
  BY <1>2, <1>3 DEF IInv, FrameInv, StackInv
<1>5. Activation.fp \in 0 .. depth /\ Activation.fp \in Sim!Frames /\ Activation.node \in Node
  BY <1>1, <1>3, <1>4, NFrameAssumption DEF Awaits, Sim!Frames, Act
<1>6. ASSUME NEW j \in 1 .. Len(native), j # Len(native)
      PROVE  /\ native[j].fp < Activation.fp /\ native[j].fp \in Nat
             /\ native[j].top < Activation.bottom /\ native[j].top \in Nat
  <2>1. j < Len(native) /\ native[j] \in Act
    BY <1>1, <1>6
  <2>2. native[j].fp \in Nat /\ native[j].top \in Nat
    BY <2>1 DEF Act
  <2>3. QED
    BY <1>2, <1>3, <2>1, <2>2 DEF IInv, FrameInv, StackInv
<1>7. QED
  BY <1>1, <1>2, <1>3, <1>4, <1>5, <1>6

(* The last activation calls an alternative: with a copy of the stack if   *)
(* it has more of them, and giving way to it otherwise.                    *)
LEMMA ResumeStep ==
    ASSUME IInv, pc = Return, native # <<>>, UNCHANGED <<prog, err>>,
           pc' \in Code, stack' \in [Slots -> Fn], bottom' \in Nat, top' \in Nat,
           Sound(stack', pc', bottom', top'),
           NEW m \in Nat, native' \in Seq(Act), m = Len(native'), m <= Len(native),
           \A j \in 1 .. m : j # Len(native) => native'[j] = native[j],
           m = Len(native) => /\ SamePlace(native'[m], Activation) /\ Sane(native[m])'
                              /\ ~IsAny(native[m])' => native'[m].phase = "load"
                              /\ IsAny(native[m])' => branches[Activation.fp] = TRUE,
           \A j \in 1 .. m : native[j].top < bottom',
           \A j \in 1 .. m : \A i \in 0 .. native[j].top : stack'[i] = stack[i],
           current' \in State, depth' \in Sim!Frames, Activation.fp < depth',
           FramesKept(Activation.fp, depth')
    PROVE  IInv'
<1> DEFINE k == Activation.fp
<1>1. Running' /\ err = "OK"
  BY Kinds DEF Running, Code, IInv, ErrorInv
<1>2. TypeInv'
  BY DEF IInv, TypeInv, FramesKept
<1>3. \A j \in 1 .. m : SamePlace(native'[j], native[j]) /\ j \in 1 .. Len(native)
  BY Last DEF SamePlace
<1>4. StackInv'
  <2>1. ASSUME NEW j \in 1 .. m
        PROVE  Sound(stack', native'[j].continue, native'[j].bottom, native'[j].top)
    <3>1. Sound(stack, native[j].continue, native[j].bottom, native[j].top)
      BY <1>3 DEF IInv, StackInv
    <3>2. \A i \in native[j].bottom .. native[j].top : stack'[i] = stack[i]
      BY <3>1 DEF Sound
    <3>3. QED
      BY <1>3, <3>1, <3>2, SoundKept DEF SamePlace
  <2>2. \A i, j \in 1 .. m : i < j => native'[i].top < native'[j].bottom
    BY <1>3 DEF IInv, StackInv, SamePlace
  <2>3. bottom' >= 4 /\ \A j \in 1 .. m : native'[j].top < bottom'
    BY <1>3 DEF Sound, SamePlace
  <2>4. QED
    BY <1>1, <2>1, <2>2, <2>3 DEF StackInv
<1>5. k \in 0 .. depth /\ k \in Nat /\ depth' \in Nat /\ snap[k] # NoSnap
  BY Last DEF Awaits, Sim!Frames
<1>6. ASSUME NEW j \in 1 .. m, j # Len(native) PROVE Awaits(j)'
  <2>1. native[j].fp < k /\ native[j].fp \in Nat /\ native'[j] = native[j] /\ j \in 1 .. Len(native)
    BY <1>3, <1>6, Last
  <2>2. native[j].fp \in 0 .. k /\ native[j].fp < depth'
    BY <1>5, <2>1
  <2>3. snap'[native[j].fp] = snap[native[j].fp] /\ branches'[native[j].fp] = branches[native[j].fp]
    BY <2>2 DEF FramesKept
  <2>4. ~IsAny(native[j]) => native[j].phase = "load"
    BY <1>6, <2>1, Suspended
  <2>5. QED
    BY <2>1, <2>2, <2>3, <2>4, AwaitsKept
<1>7. ASSUME m = Len(native) PROVE Awaits(m)'
  <2>1. native'[m].fp = k /\ Sane(native[m])'
    BY <1>7 DEF SamePlace
  <2>2. k \in 0 .. depth' /\ k # depth' /\ snap'[k] # NoSnap /\ branches'[k] = branches[k]
    BY <1>5 DEF FramesKept
  <2>3. QED
    BY <1>1, <1>7, <2>1, <2>2 DEF Awaits, IsAny
<1>8. FrameInv'
  <2>1. Fresh(depth)' /\ \A i \in Sim!Frames : i > depth' => Fresh(i)'
    BY <1>5 DEF FramesKept, Fresh, Sim!Frames
  <2>2. \A i, j \in 1 .. m : i < j => native'[i].fp < native'[j].fp
    BY <1>3 DEF IInv, FrameInv, SamePlace
  <2>3. \A j \in 1 .. m : Awaits(j)'
    BY <1>6, <1>7
  <2>4. QED
    BY <1>1, <2>1, <2>2, <2>3 DEF FrameInv
<1>9. ErrorInv'
  BY <1>1, Kinds DEF IInv, ErrorInv, OnlyLimitErrors, Running
<1>10. QED
  BY <1>2, <1>4, <1>8, <1>9 DEF IInv

LEMMA FrameNumbers ==
    ASSUME NEW d \in Sim!Frames
    PROVE  d \in Nat /\ \A i \in Sim!Frames : (i > d <=> i >= d + 1) /\ (i >= d + 1 => i >= d)
BY NFrameAssumption DEF Sim!Frames

(* A step of the input loop between two entries.                           *)
LEMMA LoopStep ==
    ASSUME IInv, pc = Return, native # <<>>, UNCHANGED <<prog, err, pc, stack, bottom, top>>,
           NEW n \in Nat, n = Len(native), NEW b \in Act, native' = [native EXCEPT ![n] = b],
           SamePlace(b, Activation), Awaits(n)',
           current' \in State, depth' \in Sim!Frames, Activation.fp <= depth',
           FramesKept(Activation.fp, depth' + 1)
    PROVE  IInv'
<1> DEFINE k == Activation.fp
<1>1. ~Running' /\ err = "OK"
  BY Kinds DEF Running, IInv, ErrorInv
<1>2. /\ native' \in Seq(Act) /\ Len(native') = n /\ n \in 1 .. n /\ native'[n] = b
      /\ \A j \in 1 .. n : j # n => native'[j] = native[j]
  <2>1. native \in Seq(Act)
    BY DEF IInv, TypeInv
  <2>2. QED
    BY <2>1, Replaced
<1>3. TypeInv'
  BY <1>2 DEF IInv, TypeInv, FramesKept
<1>4. \A j \in 1 .. n : SamePlace(native'[j], native[j])
  BY <1>2, Last DEF SamePlace
<1>5. StackInv'
  BY <1>1, <1>2, <1>4 DEF IInv, StackInv, SamePlace
<1>6. k \in 0 .. depth /\ k \in Nat /\ depth' \in Nat
  BY Last DEF Sim!Frames
<1>7. ASSUME NEW j \in 1 .. n, j # n PROVE Awaits(j)'
  <2>1. native[j].fp < k /\ native[j].fp \in Nat /\ native'[j] = native[j] /\ j \in 1 .. Len(native)
    BY <1>2, <1>7, Last
  <2>2. native[j].fp \in 0 .. k /\ native[j].fp < depth'
    BY <1>6, <2>1
  <2>3. snap'[native[j].fp] = snap[native[j].fp] /\ branches'[native[j].fp] = branches[native[j].fp]
    BY <2>2 DEF FramesKept
  <2>4. ~IsAny(native[j]) => native[j].phase = "load"
    BY <1>7, <2>1, Suspended
  <2>5. QED
    BY <2>1, <2>2, <2>3, <2>4, AwaitsKept
<1>8. FrameInv'
  <2>1. \A i \in Sim!Frames : i > depth' => Fresh(i)'
    <3>1. \A i \in Sim!Frames : i > depth' => i >= depth' + 1
      BY FrameNumbers
    <3>2. QED
      BY <3>1 DEF FramesKept, Fresh
  <2>2. \A i, j \in 1 .. n : i < j => native'[i].fp < native'[j].fp
    BY <1>4 DEF IInv, FrameInv, SamePlace
  <2>3. \A j \in 1 .. n : Awaits(j)'
    BY <1>7
  <2>4. QED
    BY <1>1, <1>2, <2>1, <2>2, <2>3 DEF FrameInv
<1>9. ErrorInv'
  BY <1>1, Kinds DEF IInv, ErrorInv, OnlyLimitErrors
<1>10. QED
  BY <1>3, <1>5, <1>8, <1>9 DEF IInv

(* The simulator: entering a frame above the current one, and going back.  *)
LEMMA Descended ==
    ASSUME IInv, Sim!Descend
    PROVE  /\ depth' = depth + 1 /\ depth' \in Sim!Frames
           /\ UNCHANGED <<current, snap, branches>> /\ current' \in State
           /\ FramesKept(depth, depth')
<1>1. depth \in Nat /\ depth \in Sim!Frames
  BY DEF IInv, TypeInv, Sim!Frames
<1>2. /\ depth' = depth + 1 /\ depth + 1 < NFrame
      /\ UNCHANGED <<current, snap, branches>>
  BY DEF Sim!Descend
<1>3. depth' \in Sim!Frames
  BY <1>1, <1>2, NFrameAssumption DEF Sim!Frames
<1>4. \A i \in Sim!Frames : i >= depth' => snap'[i] = NoSnap /\ branches'[i] = FALSE
  <2>1. \A i \in Sim!Frames : i >= depth' => i > depth
    BY <1>1, <1>2 DEF Sim!Frames
  <2>2. QED
    BY <1>2, <2>1 DEF IInv, FrameInv, Fresh
<1>5. QED
  BY <1>2, <1>3, <1>4 DEF FramesKept, IInv, TypeInv

LEMMA Forgotten ==
    ASSUME IInv, NEW k \in Sim!Frames, snap' = Sim!Forget(snap, k, NoSnap),
           branches' = Sim!Forget(branches, k, FALSE)
    PROVE  FramesKept(k, k + 1)
<1>1. k \in Nat /\ \A i \in 0 .. k : i \in Sim!Frames /\ ~(i > k)
  BY NFrameAssumption DEF Sim!Frames
<1>2. \A i \in Sim!Frames : i >= k + 1 => i > k
  BY <1>1 DEF Sim!Frames
<1>3. /\ snap' \in [Sim!Frames -> State \cup {NoSnap}]
      /\ \A i \in 0 .. k : snap'[i] = snap[i]
      /\ \A i \in Sim!Frames : i >= k + 1 => snap'[i] = NoSnap
  BY <1>1, <1>2 DEF Sim!Forget, IInv, TypeInv
<1>4. /\ branches' \in [Sim!Frames -> BOOLEAN]
      /\ \A i \in 0 .. k : branches'[i] = branches[i]
      /\ \A i \in Sim!Frames : i >= k + 1 => branches'[i] = FALSE
  BY <1>1, <1>2, Zenon DEF Sim!Forget, IInv, TypeInv
<1>5. QED
  BY <1>3, <1>4 DEF FramesKept

(* sim_enter_branch: the alternative starts in a fresh frame above the     *)
(* choice, in the state that was saved for it.                             *)
LEMMA EnteredBranch ==
    ASSUME IInv, Resumes("any"), EnterBranch(Activation.fp)
    PROVE  /\ depth' = Activation.fp + 1 /\ depth' \in Sim!Frames /\ Activation.fp < depth'
           /\ current' = snap[Activation.fp] /\ current' \in State
           /\ FramesKept(Activation.fp, depth')
<1> DEFINE k == Activation.fp
<1>1. /\ native # <<>> /\ k \in Sim!Frames /\ k \in Nat /\ snap[k] # NoSnap /\ snap[k] \in State
      /\ k = depth => current = snap[k]
  <2>1. native # <<>> /\ TagOf(prog, Activation.node) = "any"
    BY DEF Resumes
  <2>2. /\ k \in Sim!Frames /\ k \in Nat /\ Awaits(Len(native))
        /\ Activation = native[Len(native)] /\ IsAny(Activation)
    BY <2>1, Last, FrameNumbers DEF IsAny
  <2>3. snap[k] # NoSnap /\ (k = depth => current = snap[k])
    BY <2>2 DEF Awaits
  <2>4. QED
    BY <2>1, <2>2, <2>3 DEF IInv, TypeInv
<1>2. CASE k = depth
  BY <1>1, <1>2, Descended DEF EnterBranch
<1>3. CASE k # depth
  <2>1. Sim!StartBranch(k)
    BY <1>3 DEF EnterBranch
  <2>2. /\ k + 1 < NFrame /\ current' = snap[k] /\ depth' = k + 1
        /\ snap' = Sim!Forget(snap, k, NoSnap) /\ branches' = Sim!Forget(branches, k, FALSE)
    BY <2>1 DEF Sim!StartBranch
  <2>3. depth' \in Sim!Frames /\ k < depth'
    BY <1>1, <2>2, NFrameAssumption DEF Sim!Frames
  <2>4. QED
    BY <1>1, <2>2, <2>3, Forgotten
<1>4. QED
  BY <1>2, <1>3

LEMMA AnyBranchStep ==
    ASSUME IInv, AnyBranch
    PROVE  IInv'
<1>n. PICK n \in Nat : n = Len(native)
  BY DEF IInv, TypeInv
<1>a. PICK a \in Act : a = Activation
  BY Last DEF AnyBranch, Resumes
<1> DEFINE edges == EdgesOf(prog, a.node)
           f == FnOf(edges[a.next])
<1>1. /\ pc = Return /\ native # <<>> /\ TagOf(prog, a.node) = "any"
      /\ UNCHANGED <<prog, err>> /\ n \in 1 .. n /\ a = native[n] /\ native \in Seq(Act)
  BY <1>n, <1>a, Last DEF AnyBranch, Resumes
<1>2. /\ depth' \in Sim!Frames /\ a.fp < depth' /\ current' \in State
      /\ FramesKept(a.fp, depth')
  BY <1>a, EnteredBranch DEF AnyBranch
<1>3. /\ Awaits(n) /\ Sane(a) /\ IsAny(a) /\ branches[a.fp] = TRUE
      /\ a.next \in 1 .. Len(edges) /\ a.continue = Nil
  BY <1>1, <1>n, <1>a, Last DEF Awaits, Sane, IsAny
<1>4. edges \in Seq(Node) /\ edges[a.next] \in Node
  <2>1. a.node \in Node
    BY DEF Act
  <2>2. edges \in Seq(Node)
    BY <2>1, ProgramsAssumption DEF IInv, TypeInv
  <2>3. QED
    BY <1>3, <2>2
<1>5. f \in Compiled /\ f \in Code /\ f # Exit
  BY <1>4, Kinds DEF FnOf, Compiled, Code
<1>6. Sound(stack, f, a.bottom, a.top)
  BY <1>1, <1>3, <1>5, <1>a, Last, Kinds DEF Sound
<1>7. /\ a.bottom \in Nat /\ a.top \in Nat /\ a.bottom <= a.top + 1
      /\ \A j \in 1 .. n : j # n =>
            native[j].top < a.bottom /\ native[j].top <= a.top /\ native[j].top \in Nat
  BY <1>1, <1>6, <1>n, <1>a, Last DEF Sound
<1> HIDE DEF f, edges
<1>8. CASE /\ a.next < Len(edges)
           /\ native' = [native EXCEPT ![Len(native)].next = @ + 1]
           /\ CallWithCopy(f, a.bottom, a.top)
  <2> DEFINE c == Copystack(a.bottom, a.top)
             b == [a EXCEPT !.next = a.next + 1]
  <2>1. c.top <= StackCap /\ stack' = c.stack /\ bottom' = c.bottom /\ top' = c.top /\ pc' = f
    BY <1>8 DEF CallWithCopy
  <2>2. /\ stack' \in [Slots -> Fn] /\ bottom' \in Nat /\ top' \in Nat
        /\ Sound(stack', f, bottom', top') /\ a.top < bottom'
        /\ \A i \in 0 .. a.top : stack'[i] = stack[i]
    BY <1>6, <2>1, CopySound DEF IInv, TypeInv
  <2> HIDE DEF c
  <2>3. /\ b \in Act /\ SamePlace(b, a) /\ b.node = a.node /\ b.next = a.next + 1
        /\ b.phase = a.phase /\ b.continue = a.continue
    <3>1. a.next + 1 \in Nat /\ a.phase \in {"enter", "read", "load"}
      BY DEF Act
    <3>2. b \in Act /\ b = [node |-> a.node, next |-> a.next + 1, phase |-> a.phase, fp |-> a.fp,
                bottom |-> a.bottom, top |-> a.top, continue |-> a.continue]
      BY <3>1, Advanced
    <3> HIDE DEF b
    <3>3. QED
      BY <3>2 DEF SamePlace
  <2>4. native' = [native EXCEPT ![n] = b]
    BY <1>1, <1>8, <1>n
  <2> HIDE DEF b
  <2>5. /\ native' \in Seq(Act) /\ Len(native') = n /\ native'[n] = b
        /\ \A j \in 1 .. n : j # n => native'[j] = native[j]
    BY <1>1, <1>n, <2>3, <2>4, Replaced
  <2>6. Sane(native[n])' /\ IsAny(native[n])'
    BY <1>1, <1>3, <1>4, <1>8, <2>3, <2>5 DEF Sane, IsAny, edges
  <2>7. \A j \in 1 .. n : native[j].top \in Nat /\ native[j].top <= a.top
    BY <1>1, <1>7
  <2>8. \A j \in 1 .. n : native[j].top < bottom' /\ \A i \in 0 .. native[j].top : stack'[i] = stack[i]
    BY <1>7, <2>2, <2>7
  <2>9. SamePlace(native'[n], Activation) /\ branches[Activation.fp] = TRUE
    BY <1>3, <1>a, <2>3, <2>5
  <2>10. /\ n <= Len(native) /\ n = Len(native') /\ Activation.fp < depth'
         /\ FramesKept(Activation.fp, depth') /\ Sound(stack', pc', bottom', top') /\ pc' \in Code
         /\ \A j \in 1 .. n : j # Len(native) => native'[j] = native[j]
    BY <1>2, <1>5, <1>n, <1>a, <2>1, <2>2, <2>5
  <2>11. QED
    BY <1>1, <1>2, <2>2, <2>5, <2>6, <2>8, <2>9, <2>10, ResumeStep
<1>9. CASE /\ a.next = Len(edges)
           /\ native' = PopNative
           /\ pc' = f
           /\ bottom' = a.bottom /\ top' = a.top /\ UNCHANGED stack
  <2>1. /\ native' \in Seq(Act) /\ Len(native') = n - 1 /\ n - 1 \in Nat
        /\ \A j \in 1 .. n - 1 : native'[j] = native[j]
    BY <1>1, <1>9, <1>n, Popped DEF PopNative
  <2>2. \A j \in 1 .. n - 1 : j \in 1 .. n /\ j # n /\ native[j].top < bottom'
    BY <1>7, <1>9
  <2>3. stack' \in [Slots -> Fn] /\ Sound(stack', pc', bottom', top')
    BY <1>6, <1>9 DEF IInv, TypeInv
  <2>4. n - 1 <= Len(native) /\ n - 1 # Len(native)
    BY <1>n
  <2>5. QED
    BY <1>1, <1>2, <1>5, <1>7, <1>9, <1>a, <2>1, <2>2, <2>3, <2>4, ResumeStep
<1>10. QED
  BY <1>8, <1>9, <1>a DEF AnyBranch, f, edges

-----------------------------------------------------------------------------
(* One lemma for each group of actions.                                    *)

(* Facts about a running function that is compiled.                        *)
LEMMA InFunction ==
    ASSUME IInv, pc \in Compiled
    PROVE  /\ Running /\ pc # Exit /\ prog \in Programs /\ Sound(stack, pc, bottom, top)
           /\ Fresh(depth) /\ stack \in [Slots -> Fn] /\ bottom \in Nat /\ top \in Nat
           /\ bottom <= top /\ top \in Slots /\ 4 <= bottom /\ depth \in Sim!Frames
<1>1. Running /\ pc # Exit
  BY Kinds DEF Running
<1>2. Sound(stack, pc, bottom, top) /\ Fresh(depth)
  BY <1>1 DEF IInv, StackInv, FrameInv
<1>3. bottom <= top /\ top \in Slots /\ 4 <= bottom
  BY <1>1, <1>2, StackCapAssumption DEF Sound, Slots
<1>4. QED
  BY <1>1, <1>2, <1>3 DEF IInv, TypeInv

(* return stack[top](stack, bottom, top-1)                                 *)
LEMMA ReturnSound ==
    ASSUME IInv, pc \in Compiled, ReturnToTop
    PROVE  /\ pc' \in Code /\ stack' = stack /\ bottom' = bottom /\ top' \in Nat
           /\ top' = top - 1 /\ pc' = stack[top] /\ Sound(stack', pc', bottom, top')
<1>1. /\ bottom \in Nat /\ top \in Nat /\ bottom <= top /\ 4 <= bottom
      /\ Sound(stack, pc, bottom, top)
  BY InFunction
<1>2. pc' = stack[top] /\ top' = top - 1 /\ stack' = stack /\ bottom' = bottom
  BY DEF ReturnToTop
<1>3. stack[top] \in (IF top = bottom THEN {Exit} ELSE Compiled)
  BY <1>1 DEF Sound
<1>4. Sound(stack, stack[top], bottom, top - 1)
  <2>1. stack[top] # Exit => bottom <= top - 1
    BY <1>1, <1>3
  <2>2. top - 1 \in Nat /\ bottom <= (top - 1) + 1 /\ top - 1 <= StackCap
    BY <1>1, StackCapAssumption DEF Sound
  <2>3. \A i \in bottom .. top - 1 : i \in bottom .. top
    BY <1>1
  <2>4. QED
    BY <1>1, <2>1, <2>2, <2>3 DEF Sound
<1>5. QED
  BY <1>1, <1>2, <1>3, <1>4 DEF Code

(* stack[top+1] = g; return f(stack, bottom, top+1)                        *)
LEMMA CallSound ==
    ASSUME IInv, pc \in Compiled, NEW f \in Compiled, NEW g \in Compiled, CallThen(f, g)
    PROVE  /\ pc' = f /\ pc' \in Code /\ stack' \in [Slots -> Fn] /\ bottom' = bottom
           /\ top' = top + 1 /\ top' \in Nat /\ stack'[top + 1] = g
           /\ \A i \in 0 .. top : stack'[i] = stack[i]
           /\ Sound(stack', pc', bottom, top')
<1>1. /\ bottom \in Nat /\ top \in Nat /\ bottom <= top /\ 4 <= bottom
      /\ Sound(stack, pc, bottom, top) /\ stack \in [Slots -> Fn]
  BY InFunction
<1>2. /\ top < StackCap /\ stack' = [stack EXCEPT ![top + 1] = g] /\ top' = top + 1
      /\ pc' = f /\ bottom' = bottom
  BY DEF CallThen
<1>3. top + 1 \in Slots /\ (\A i \in 0 .. top : i \in Slots /\ i # top + 1) /\ g \in Fn
  BY <1>1, <1>2, StackCapAssumption, Kinds DEF Slots, Code
<1>4. /\ stack' \in [Slots -> Fn] /\ stack'[top + 1] = g
      /\ \A i \in 0 .. top : stack'[i] = stack[i]
  BY <1>1, <1>2, <1>3
<1>5. Sound(stack', f, bottom, top + 1)
  <2>1. ASSUME NEW i \in bottom .. top + 1
        PROVE  stack'[i] \in (IF i = bottom THEN {Exit} ELSE Compiled)
    <3>1. CASE i = top + 1
      BY <1>1, <1>4, <3>1
    <3>2. CASE i # top + 1
      BY <1>1, <1>4, <3>2 DEF Sound
    <3>3. QED
      BY <3>1, <3>2
  <2>2. QED
    BY <1>1, <1>2, <2>1, StackCapAssumption DEF Sound
<1>6. QED
  BY <1>1, <1>2, <1>4, <1>5 DEF Code

(* Jumps, calls and returns of functions without choices.                  *)
LEMMA PlainStep ==
    ASSUME IInv, Nothing \/ Forward \/ ChainCall
    PROVE  IInv'
<1>1. pc \in Compiled /\ prog \in Programs /\ current \in State
  BY Patterns DEF IInv, TypeInv, Nothing, Forward, ChainCall
<1>2. UNCHANGED <<prog, native, current, depth, snap, branches, err>>
  BY DEF Nothing, Forward, ChainCall, simvars
<1>3. /\ Running /\ stack \in [Slots -> Fn] /\ bottom \in Nat /\ top \in Nat
      /\ Sound(stack, pc, bottom, top) /\ bottom <= top
  BY <1>1, InFunction
<1>4. CASE Nothing
  <2>1. ReturnToTop
    BY <1>4 DEF Nothing
  <2>2. QED
    BY <1>1, <1>2, <1>3, <2>1, ReturnSound, RunStep
<1>5. CASE Forward
  <2>1. pc' = Target(prog, pc) /\ UNCHANGED <<stack, bottom, top>>
    BY <1>5 DEF Forward, TailCall, stackvars
  <2>2. pc' \in Compiled /\ pc' \in Code
    BY <1>1, <1>5, <2>1, Targets DEF Forward, Code
  <2>3. Sound(stack', pc', bottom, top')
    BY <1>1, <1>3, <2>1, InFunction DEF Sound
  <2>4. QED
    BY <1>1, <1>2, <1>3, <2>1, <2>2, <2>3, RunStep
<1>6. CASE ChainCall
  <2> DEFINE f == FnOf(Chain(prog, pc[1])[pc[2]])
  <2>1. CallThen(f, Rest(pc)) /\ Calls(prog, pc)
    BY <1>6 DEF ChainCall
  <2>2. f \in Compiled /\ Rest(pc) \in Compiled
    BY <1>1, <2>1, Targets DEF Calls, FnOf, Compiled
  <2> HIDE DEF f
  <2>3. /\ pc' \in Code /\ stack' \in [Slots -> Fn] /\ bottom' = bottom /\ top' \in Nat
        /\ \A i \in 0 .. top : stack'[i] = stack[i]
        /\ Sound(stack', pc', bottom, top')
    BY <1>1, <2>1, <2>2, CallSound
  <2>4. \A i \in 0 .. bottom - 1 : stack'[i] = stack[i]
    BY <1>3, <2>3
  <2>5. QED
    BY <1>1, <1>2, <1>3, <2>3, <2>4, RunStep
<1>7. QED
  BY <1>4, <1>5, <1>6

LEMMA ExitStep ==
    ASSUME IInv, ExitPath
    PROVE  IInv'
<1>1. pc \in Code /\ current \in State
  BY Patterns DEF IInv, TypeInv, ExitPath
<1>2. Running
  BY <1>1, Kinds DEF Running, Code
<1>3. QED
  BY <1>1, <1>2, EndStep DEF ExitPath, stackvars, simvars

LEMMA PrimitiveStep ==
    ASSUME IInv, Primitive
    PROVE  IInv'
<1> DEFINE n == PrimitiveOf(prog, pc)
           r == Result(prog, n, current)
           chained == Chained(prog, pc)
<1>1. pc \in Compiled /\ prog \in Programs /\ current \in State
  BY Patterns DEF IInv, TypeInv, Primitive
<1>2. n \in Node /\ r \in {Nil, False} \cup Compiled /\ current' = Ran(n, current) /\ current' \in State
  BY <1>1, Targets, Results DEF Primitive
<1>3. /\ \/ r = False /\ pc' = Return /\ UNCHANGED stackvars
         \/ r = Nil /\ ~chained /\ ReturnToTop
         \/ r = Nil /\ chained /\ TailCall(Rest(pc))
         \/ r \notin {Nil, False} /\ ~chained /\ TailCall(r)
         \/ r \notin {Nil, False} /\ chained /\ CallThen(r, Rest(pc))
      /\ UNCHANGED <<prog, native, depth, snap, branches, err>>
  BY DEF Primitive
<1> HIDE DEF n, r, chained
<1>4. /\ Running /\ stack \in [Slots -> Fn] /\ bottom \in Nat /\ top \in Nat
      /\ Sound(stack, pc, bottom, top) /\ bottom <= top /\ Rest(pc) \in Compiled
  BY <1>1, InFunction, Targets
<1>5. CASE r = False /\ pc' = Return /\ UNCHANGED stackvars
  BY <1>2, <1>3, <1>4, <1>5, EndStep DEF stackvars
<1>6. CASE ReturnToTop
  BY <1>1, <1>2, <1>3, <1>4, <1>6, ReturnSound, RunStep
<1>7. ASSUME NEW f \in Compiled, TailCall(f)
      PROVE  IInv'
  <2>1. pc' = f /\ UNCHANGED <<stack, bottom, top>> /\ pc' \in Code
    BY <1>7 DEF TailCall, stackvars, Code
  <2>2. Sound(stack', pc', bottom, top')
    BY <1>4, <1>7, <2>1 DEF Sound
  <2>3. QED
    BY <1>2, <1>3, <1>4, <2>1, <2>2, RunStep
<1>8. CASE r \in Compiled /\ CallThen(r, Rest(pc))
  <2>1. /\ pc' \in Code /\ stack' \in [Slots -> Fn] /\ bottom' = bottom /\ top' \in Nat
        /\ \A i \in 0 .. top : stack'[i] = stack[i]
        /\ Sound(stack', pc', bottom, top')
    BY <1>1, <1>4, <1>8, CallSound
  <2>2. \A i \in 0 .. bottom - 1 : stack'[i] = stack[i]
    BY <1>4, <2>1
  <2>3. QED
    BY <1>2, <1>3, <1>4, <2>1, <2>2, RunStep
<1>9. QED
  BY <1>2, <1>3, <1>4, <1>5, <1>6, <1>7, <1>8

(* A new choice.                                                           *)
LEMMA AnyStartStep ==
    ASSUME IInv, AnyStart
    PROVE  IInv'
<1> DEFINE a == [node |-> pc[1], next |-> 1, phase |-> "enter", fp |-> depth,
                 bottom |-> bottom, top |-> top, continue |-> Nil]
<1>1. pc \in Compiled /\ prog \in Programs /\ TagOf(prog, pc[1]) = "any"
      /\ Len(EdgesOf(prog, pc[1])) > 1
  BY Patterns DEF IInv, TypeInv, AnyStart, Branches
<1>2. /\ Running /\ pc # Exit /\ Sound(stack, pc, bottom, top) /\ depth \in Sim!Frames
      /\ bottom \in Nat /\ top \in Nat /\ Fresh(depth)
  BY <1>1, InFunction
<1>3. /\ branches' = [branches EXCEPT ![depth] = TRUE]
      /\ UNCHANGED snap \/ snap' = [snap EXCEPT ![depth] = current]
      /\ UNCHANGED <<current, depth>> /\ snap'[depth] # NoSnap
  BY DEF AnyStart, Sim!MarkBranch
<1>4. snap' = [snap EXCEPT ![depth] = current]
  BY <1>2, <1>3 DEF Fresh
<1>5. /\ branches' \in [Sim!Frames -> BOOLEAN] /\ branches'[depth] = TRUE
      /\ \A k \in Sim!Frames : k # depth => branches'[k] = branches[k]
  BY <1>2, <1>3, Zenon DEF IInv, TypeInv
<1>6. pc' = Return /\ native' = Append(native, a) /\ UNCHANGED <<prog, stack, bottom, top, err>>
  BY DEF AnyStart, stackvars
<1>7. /\ a \in Act /\ a.fp = depth /\ a.phase = "enter" /\ a.bottom = bottom /\ a.top = top
      /\ a.node = pc[1] /\ a.next = 1 /\ a.continue = Nil
  BY <1>1, <1>2, FrameNumbers DEF Act, Compiled, Fn
<1> HIDE DEF a
<1>8. EdgesOf(prog, pc[1]) \in Seq(Node)
  BY <1>1, ProgramsAssumption DEF Compiled
<1>9. Sane(a) /\ Sound(stack, a.continue, a.bottom, a.top)
  BY <1>1, <1>2, <1>7, <1>8, Kinds DEF Sane, IsAny, Sound
<1>10. PICK b \in Act : b = a
  BY <1>7
<1>11. QED
  BY <1>2, <1>3, <1>4, <1>5, <1>6, <1>7, <1>9, <1>10, PushStep

LEMMA InputStartStep ==
    ASSUME IInv, InputStart
    PROVE  IInv'
<1> DEFINE a == [node |-> pc[1], next |-> 1, phase |-> "enter", fp |-> depth,
                 bottom |-> bottom, top |-> top - 1, continue |-> stack[top]]
<1>1. pc \in Compiled /\ prog \in Programs /\ TagOf(prog, pc[1]) = "input"
  BY Patterns DEF IInv, TypeInv, InputStart
<1>2. /\ Running /\ pc # Exit /\ Sound(stack, pc, bottom, top) /\ depth \in Sim!Frames
      /\ bottom \in Nat /\ top \in Nat /\ Fresh(depth) /\ bottom <= top /\ 4 <= bottom
  BY <1>1, InFunction
<1>3. /\ snap' = [snap EXCEPT ![depth] = current] /\ UNCHANGED <<current, depth, branches>>
  BY DEF InputStart, Sim!Save
<1>4. pc' = Return /\ native' = Append(native, a) /\ UNCHANGED <<prog, stack, bottom, top, err>>
  BY DEF InputStart, stackvars
<1>5. stack[top] \in Code /\ Sound(stack, stack[top], bottom, top - 1) /\ top - 1 \in Nat
  <2>1. stack[top] \in (IF top = bottom THEN {Exit} ELSE Compiled)
    BY <1>2 DEF Sound
  <2>2. stack[top] # Exit => bottom <= top - 1
    BY <1>2, <2>1
  <2>3. top - 1 \in Nat /\ bottom <= (top - 1) + 1 /\ top - 1 <= StackCap
    BY <1>2, StackCapAssumption DEF Sound
  <2>4. \A i \in bottom .. top - 1 : i \in bottom .. top
    BY <1>2
  <2>5. Sound(stack, stack[top], bottom, top - 1)
    BY <1>2, <2>2, <2>3, <2>4 DEF Sound
  <2>6. QED
    BY <2>1, <2>3, <2>5 DEF Code
<1>6. /\ a \in Act /\ a.fp = depth /\ a.phase = "enter" /\ a.bottom = bottom /\ a.top = top - 1
      /\ a.node = pc[1] /\ a.next = 1 /\ a.continue = stack[top]
  BY <1>1, <1>2, <1>5, FrameNumbers, Kinds DEF Act, Compiled
<1> HIDE DEF a
<1>7. Sane(a) /\ ~IsAny(a) /\ Sound(stack, a.continue, a.bottom, a.top)
  BY <1>1, <1>5, <1>6, NumbersAssumption DEF Sane, IsAny
<1>8. PICK b \in Act : b = a
  BY <1>6
<1>9. branches' \in [Sim!Frames -> BOOLEAN]
  BY <1>3 DEF IInv, TypeInv
<1>10. QED
  BY <1>2, <1>3, <1>4, <1>6, <1>7, <1>8, <1>9, PushStep

(* Errors.  A running function is in a fresh frame and an activation keeps *)
(* its savepoint and branch point, so that only limits are left.           *)
LEMMA FailStep ==
    ASSUME IInv, AnyFails \/ InputFails \/ AnyBranchFails \/ InputEnterFails
    PROVE  IInv'
<1>1. CASE AnyFails \/ InputFails
  <2>1. pc \in Compiled
    BY <1>1, Patterns DEF IInv, TypeInv, AnyFails, InputFails
  <2>2. Fresh(depth) /\ depth \in Sim!Frames
    BY <2>1, InFunction
  <2>3. LimitOr(SaveCode) = "EALLOC" /\ LimitOr(BranchCode) = "EALLOC"
    BY <2>2 DEF Fresh, SaveCode, BranchCode, LimitOr
  <2>4. Raise("EALLOC") /\ (branches' = [branches EXCEPT ![depth] = TRUE] \/ branches' = branches)
    BY <1>1, <2>3 DEF AnyFails, InputFails
  <2>5. branches' \in [Sim!Frames -> BOOLEAN]
    BY <2>2, <2>4, Zenon DEF IInv, TypeInv
  <2>6. \A k \in Sim!Frames : k # depth => branches'[k] = branches[k]
    BY <2>2, <2>4, Zenon DEF IInv, TypeInv
  <2>7. \A k \in Sim!Frames : k > depth => k # depth
    BY <2>2 DEF Sim!Frames
  <2>8. QED
    BY <2>4, <2>5, <2>6, <2>7, RaiseStep
<1>2. CASE AnyBranchFails
  <2> DEFINE k == Activation.fp
  <2>1. /\ native # <<>> /\ TagOf(prog, Activation.node) = "any" /\ EnterBranchCode(k) # "OK"
        /\ UNCHANGED branches /\ Raise(EnterBranchCode(k))
    BY <1>2 DEF AnyBranchFails, Resumes
  <2>2. /\ k \in 0 .. depth /\ snap[k] # NoSnap /\ branches[k] = TRUE
        /\ depth \in Sim!Frames
    BY <2>1, Last DEF Awaits, IsAny
  <2> HIDE DEF k
  <2>3. k + 1 >= NFrame /\ EnterBranchCode(k) = "EFRAME"
    <3>1. ~(k > depth)
      BY <2>2, FrameNumbers
    <3>2. QED
      BY <2>1, <2>2, <3>1 DEF EnterBranchCode
  <2>4. depth = NFrame - 1
    BY <2>2, <2>3, NFrameAssumption DEF Sim!Frames
  <2>5. Raise("EFRAME") /\ branches' = branches
    BY <2>1, <2>3
  <2>6. QED
    BY <2>4, <2>5, RaiseStep DEF IInv, TypeInv
<1>3. CASE InputEnterFails
  <2>1. depth + 1 >= NFrame /\ UNCHANGED branches /\ Raise("EFRAME") /\ depth \in Sim!Frames
    BY <1>3 DEF InputEnterFails, IInv, TypeInv
  <2>2. depth = NFrame - 1
    BY <2>1, NFrameAssumption DEF Sim!Frames
  <2>3. QED
    BY <2>1, <2>2, RaiseStep DEF IInv, TypeInv
<1>4. QED
  BY <1>1, <1>2, <1>3

(* The input loop.                                                         *)
LEMMA InLoopFacts ==
    ASSUME IInv, NEW ph, InLoop(ph)
    PROVE  /\ pc = Return /\ native # <<>> /\ Activation.phase = ph
           /\ TagOf(prog, Activation.node) = "input" /\ ~IsAny(Activation)
           /\ Activation.next \in 1 .. NItems + 1 /\ Activation.next \in Nat
           /\ Activation.continue \in Code /\ prog \in Programs
           /\ snap[Activation.fp] # NoSnap /\ snap[Activation.fp] \in State
           /\ ph = "read" => /\ Activation.next <= NItems /\ Activation.fp < depth
                             /\ Fresh(depth) /\ current = snap[Activation.fp]
           /\ ph = "enter" => depth = Activation.fp /\ current = snap[Activation.fp]
<1>1. /\ pc = Return /\ native # <<>> /\ Activation.phase = ph
      /\ TagOf(prog, Activation.node) = "input"
  BY DEF InLoop, Resumes
<1>2. ~IsAny(Activation)
  BY <1>1 DEF IsAny
<1>3. Awaits(Len(native)) /\ Activation = native[Len(native)] /\ Activation.fp \in Sim!Frames
  BY <1>1, Last
<1>4. Sane(Activation) /\ snap[Activation.fp] # NoSnap
  BY <1>3 DEF Awaits
<1>5. snap[Activation.fp] \in State
  BY <1>3, <1>4 DEF IInv, TypeInv
<1>6. /\ Activation.next \in 1 .. NItems + 1 /\ Activation.continue \in Code
      /\ ph = "read" => Activation.next <= NItems
  BY <1>1, <1>2, <1>4 DEF Sane
<1>7. /\ ph = "read" => Activation.fp < depth /\ Fresh(depth) /\ current = snap[Activation.fp]
      /\ ph = "enter" => depth = Activation.fp /\ current = snap[Activation.fp]
  BY <1>1, <1>2, <1>3 DEF Awaits
<1>8. QED
  BY <1>1, <1>2, <1>4, <1>5, <1>6, <1>7, NumbersAssumption DEF IInv, TypeInv

LEMMA InputEnterStep ==
    ASSUME IInv, InputEnter
    PROVE  IInv'
<1>n. PICK n \in Nat : n = Len(native)
  BY DEF IInv, TypeInv
<1>1. /\ InLoop("enter") /\ Sim!Descend /\ Iteration(Activation.next, "read")
      /\ Activation.next <= NItems /\ UNCHANGED <<prog, stack, bottom, top, pc, err>>
  BY DEF InputEnter, stackvars
<1>2. PICK a \in Act : a = Activation /\ n \in 1 .. n /\ native \in Seq(Act)
  BY <1>1, <1>n, InLoopFacts, Last
<1>3. /\ pc = Return /\ native # <<>> /\ TagOf(prog, a.node) = "input" /\ a.next \in 1 .. NItems + 1
      /\ a.next \in Nat /\ a.continue \in Code /\ snap[a.fp] # NoSnap
      /\ depth = a.fp /\ current = snap[a.fp]
  BY <1>1, <1>2, InLoopFacts
<1> DEFINE b == [a EXCEPT !.next = a.next, !.phase = "read"]
<1>4. b \in Act /\ b = [node |-> a.node, next |-> a.next, phase |-> "read", fp |-> a.fp,
                        bottom |-> a.bottom, top |-> a.top, continue |-> a.continue]
  BY <1>3, Advanced
<1>5. native' = [native EXCEPT ![n] = b]
  BY <1>1, <1>2, <1>n DEF Iteration, Activation
<1> HIDE DEF b
<1>6. native'[n] = b /\ n = Len(native')
  BY <1>2, <1>3, <1>4, <1>5, <1>n, Replaced
<1>7. /\ depth' = depth + 1 /\ depth' \in Sim!Frames
      /\ UNCHANGED <<current, snap, branches>> /\ current' \in State
      /\ FramesKept(depth, depth')
  BY <1>1, Descended
<1>8. depth \in Nat /\ depth' \in Nat
  BY <1>7, FrameNumbers DEF IInv, TypeInv
<1>9. Awaits(n)'
  <2>1. a.fp \in 0 .. depth' /\ a.fp < depth' /\ a.fp # depth'
    BY <1>3, <1>7, <1>8
  <2>2. Fresh(depth)'
    BY <1>7, <1>8 DEF FramesKept, Fresh
  <2>3. Sane(native[n])' /\ ~IsAny(native[n])'
    BY <1>1, <1>2, <1>3, <1>4, <1>6 DEF Sane, IsAny
  <2>4. ~Running'
    BY <1>1, <1>3 DEF Running
  <2>5. /\ native'[n].fp = a.fp /\ native'[n].phase = "read" /\ pc' = Return
        /\ snap'[a.fp] # NoSnap /\ current' = snap'[a.fp]
    BY <1>1, <1>3, <1>4, <1>6, <1>7
  <2>6. QED
    BY <1>6, <2>1, <2>2, <2>3, <2>4, <2>5 DEF Awaits
<1>10. FramesKept(a.fp, depth' + 1) /\ a.fp <= depth' /\ SamePlace(b, Activation)
  <2>1. \A i \in Sim!Frames : i >= depth' + 1 => i >= depth'
    BY <1>7, FrameNumbers
  <2>2. QED
    BY <1>2, <1>3, <1>4, <1>7, <1>8, <2>1 DEF FramesKept, SamePlace
<1>11. QED
  BY <1>1, <1>2, <1>3, <1>4, <1>5, <1>7, <1>9, <1>10, <1>n, LoopStep

LEMMA InputReadStep ==
    ASSUME IInv, InputRead
    PROVE  IInv'
<1>n. PICK n \in Nat : n = Len(native)
  BY DEF IInv, TypeInv
<1>1. /\ InLoop("read") /\ current' = ReadItem(Activation.node, Activation.next, current)
      /\ CallWithCopy(Activation.continue, Activation.bottom, Activation.top)
      /\ Iteration(Activation.next + 1, "load")
      /\ UNCHANGED <<prog, depth, snap, branches, err>>
  BY DEF InputRead
<1>2. PICK a \in Act : a = Activation /\ n \in 1 .. n /\ native \in Seq(Act) /\ a = native[n]
  BY <1>1, <1>n, InLoopFacts, Last
<1>3. /\ pc = Return /\ native # <<>> /\ TagOf(prog, a.node) = "input" /\ a.next \in 1 .. NItems + 1
      /\ a.next \in Nat /\ a.next <= NItems /\ a.continue \in Code /\ prog \in Programs
      /\ a.fp < depth /\ Fresh(depth)
  BY <1>1, <1>2, InLoopFacts
<1>4. /\ Sound(stack, a.continue, a.bottom, a.top) /\ a.fp \in 0 .. depth /\ depth \in Sim!Frames
      /\ a.node \in Node /\ current \in State
      /\ \A j \in 1 .. n : j # n => native[j].top < a.bottom /\ native[j].top \in Nat
  BY <1>2, <1>3, <1>n, Last DEF IInv, TypeInv
<1>5. a.bottom \in Nat /\ a.top \in Nat /\ a.bottom <= a.top + 1
  BY <1>4 DEF Sound
<1> DEFINE b == [a EXCEPT !.next = a.next + 1, !.phase = "load"]
           c == Copystack(a.bottom, a.top)
<1>6. b \in Act /\ b = [node |-> a.node, next |-> a.next + 1, phase |-> "load", fp |-> a.fp,
                        bottom |-> a.bottom, top |-> a.top, continue |-> a.continue]
  <2>1. a.next + 1 \in Nat
    BY <1>3
  <2>2. QED
    BY <2>1, Advanced
<1>7. native' = [native EXCEPT ![n] = b]
  BY <1>1, <1>2, <1>n DEF Iteration, Activation
<1> HIDE DEF b
<1>8. /\ native' \in Seq(Act) /\ Len(native') = n /\ native'[n] = b
      /\ \A j \in 1 .. n : j # n => native'[j] = native[j]
  BY <1>2, <1>3, <1>6, <1>7, <1>n, Replaced
<1>9. /\ c.top <= StackCap /\ stack' = c.stack /\ bottom' = c.bottom /\ top' = c.top
      /\ pc' = a.continue
  BY <1>1, <1>2 DEF CallWithCopy
<1>10. /\ stack' \in [Slots -> Fn] /\ bottom' \in Nat /\ top' \in Nat
       /\ Sound(stack', a.continue, bottom', top') /\ a.top < bottom'
       /\ \A i \in 0 .. a.top : stack'[i] = stack[i]
  BY <1>4, <1>9, CopySound DEF IInv, TypeInv
<1> HIDE DEF c
<1>11. current' \in State
  BY <1>1, <1>2, <1>3, <1>4, Results
<1>12. \A j \in 1 .. n : native[j].top \in Nat /\ native[j].top <= a.top
  BY <1>2, <1>4, <1>5
<1>13. \A j \in 1 .. n : native[j].top < bottom' /\ \A i \in 0 .. native[j].top : stack'[i] = stack[i]
  BY <1>5, <1>10, <1>12
<1>14. Sane(native[n])' /\ ~IsAny(native[n])' /\ native'[n].phase = "load"
  BY <1>1, <1>3, <1>6, <1>8, NumbersAssumption DEF Sane, IsAny
<1>15. FramesKept(a.fp, depth')
  <2>1. \A i \in Sim!Frames : i >= depth => i = depth \/ i > depth
    BY <1>4, NFrameAssumption DEF Sim!Frames
  <2>2. \A i \in Sim!Frames : i >= depth => Fresh(i)
    BY <1>3, <2>1 DEF IInv, FrameInv
  <2>3. QED
    BY <1>1, <2>2 DEF FramesKept, Fresh, IInv, TypeInv
<1>16. /\ n <= Len(native) /\ n = Len(native') /\ Activation.fp < depth'
       /\ FramesKept(Activation.fp, depth') /\ Sound(stack', pc', bottom', top') /\ pc' \in Code
       /\ SamePlace(native'[n], Activation) /\ depth' \in Sim!Frames
       /\ \A j \in 1 .. n : j # Len(native) => native'[j] = native[j]
  BY <1>1, <1>2, <1>3, <1>4, <1>6, <1>8, <1>9, <1>10, <1>15, <1>n DEF SamePlace
<1>17. QED
  BY <1>1, <1>3, <1>8, <1>10, <1>11, <1>13, <1>14, <1>16, ResumeStep

LEMMA InputLoadStep ==
    ASSUME IInv, InputLoad
    PROVE  IInv'
<1>n. PICK n \in Nat : n = Len(native)
  BY DEF IInv, TypeInv
<1>1. /\ InLoop("load") /\ Sim!Load(Activation.fp) /\ Iteration(Activation.next, "enter")
      /\ UNCHANGED <<prog, stack, bottom, top, pc, err>>
  BY DEF InputLoad, stackvars
<1>2. PICK a \in Act : a = Activation /\ n \in 1 .. n /\ native \in Seq(Act)
  BY <1>1, <1>n, InLoopFacts, Last
<1>3. /\ pc = Return /\ native # <<>> /\ TagOf(prog, a.node) = "input" /\ a.next \in 1 .. NItems + 1
      /\ a.next \in Nat /\ a.continue \in Code /\ snap[a.fp] # NoSnap /\ snap[a.fp] \in State
      /\ a.fp \in Sim!Frames
  BY <1>1, <1>2, InLoopFacts, Last
<1> DEFINE b == [a EXCEPT !.next = a.next, !.phase = "enter"]
<1>4. b \in Act /\ b = [node |-> a.node, next |-> a.next, phase |-> "enter", fp |-> a.fp,
                        bottom |-> a.bottom, top |-> a.top, continue |-> a.continue]
  BY <1>3, Advanced
<1>5. native' = [native EXCEPT ![n] = b]
  BY <1>1, <1>2, <1>n DEF Iteration, Activation
<1> HIDE DEF b
<1>6. native'[n] = b /\ n = Len(native')
  BY <1>2, <1>3, <1>4, <1>5, <1>n, Replaced
<1>7. /\ depth' = a.fp /\ current' = snap[a.fp]
      /\ snap' = Sim!Forget(snap, a.fp, NoSnap) /\ branches' = Sim!Forget(branches, a.fp, FALSE)
  BY <1>1, <1>2 DEF Sim!Load
<1>8. FramesKept(a.fp, a.fp + 1) /\ a.fp \in Nat /\ a.fp \in 0 .. a.fp
  <2>1. a.fp \in Nat
    BY <1>3, FrameNumbers
  <2>2. FramesKept(a.fp, a.fp + 1)
    BY <1>3, <1>7, Forgotten
  <2>3. QED
    BY <2>1, <2>2
<1>9. Awaits(n)'
  <2>1. snap'[a.fp] = snap[a.fp]
    BY <1>8 DEF FramesKept
  <2>2. Sane(native[n])' /\ ~IsAny(native[n])'
    BY <1>1, <1>3, <1>4, <1>6 DEF Sane, IsAny
  <2>3. ~Running'
    BY <1>1, <1>3 DEF Running
  <2>4. /\ native'[n].fp = a.fp /\ native'[n].phase = "enter" /\ pc' = Return
        /\ snap'[a.fp] # NoSnap /\ current' = snap'[a.fp] /\ a.fp \in 0 .. depth'
    BY <1>1, <1>3, <1>4, <1>6, <1>7, <1>8, <2>1
  <2>5. QED
    BY <1>6, <1>7, <2>2, <2>3, <2>4 DEF Awaits
<1>10. FramesKept(a.fp, depth' + 1) /\ a.fp <= depth' /\ SamePlace(b, Activation)
  BY <1>2, <1>4, <1>7, <1>8 DEF SamePlace
<1>11. QED
  BY <1>1, <1>2, <1>3, <1>4, <1>5, <1>7, <1>9, <1>10, <1>n, LoopStep

LEMMA InputEndStep ==
    ASSUME IInv, InputEnd
    PROVE  IInv'
<1>n. PICK n \in Nat : n = Len(native)
  BY DEF IInv, TypeInv
<1>1. /\ InLoop("enter") /\ native' = PopNative
      /\ UNCHANGED <<prog, stack, bottom, top, pc, current, depth, snap, branches, err>>
  BY DEF InputEnd, stackvars, simvars
<1>2. pc = Return /\ native # <<>> /\ native \in Seq(Act) /\ n \in 1 .. n
  BY <1>1, <1>n, InLoopFacts, Last
<1>3. /\ native' \in Seq(Act) /\ Len(native') = n - 1 /\ n - 1 \in Nat
      /\ \A j \in 1 .. n - 1 : native'[j] = native[j] /\ j \in 1 .. n /\ j # n
  BY <1>1, <1>2, <1>n, Popped DEF PopNative
<1>4. ~Running' /\ ~Running
  BY <1>1, <1>2 DEF Running
<1>5. TypeInv'
  BY <1>1, <1>3 DEF IInv, TypeInv
<1>6. StackInv'
  <2>1. \A j \in 1 .. n - 1 :
           Sound(stack, native'[j].continue, native'[j].bottom, native'[j].top)
    BY <1>3, <1>n DEF IInv, StackInv
  <2>2. \A i, j \in 1 .. n - 1 : i < j => native'[i].top < native'[j].bottom
    BY <1>3, <1>n DEF IInv, StackInv
  <2>3. QED
    BY <1>1, <1>3, <1>4, <2>1, <2>2 DEF IInv, StackInv
<1>7. ASSUME NEW j \in 1 .. n - 1 PROVE Awaits(j)'
  <2>1. j \in 1 .. Len(native) /\ j # Len(native) /\ native'[j] = native[j]
    BY <1>3, <1>7, <1>n
  <2>2. /\ native[j].fp < depth' /\ (~IsAny(native[j]) => native[j].phase = "load")
        /\ depth' \in Sim!Frames
    BY <1>1, <2>1, Suspended DEF IInv, TypeInv
  <2>3. QED
    BY <1>1, <2>1, <2>2, AwaitsKept
<1>8. FrameInv'
  <2>1. \A i, j \in 1 .. n - 1 : i < j => native'[i].fp < native'[j].fp
    BY <1>3, <1>n DEF IInv, FrameInv
  <2>2. QED
    BY <1>1, <1>3, <1>4, <1>7, <2>1 DEF IInv, FrameInv, Fresh
<1>9. ErrorInv'
  BY <1>1, <1>2, Kinds DEF IInv, ErrorInv, OnlyLimitErrors
<1>10. QED
  BY <1>5, <1>6, <1>8, <1>9 DEF IInv

LEMMA ReturnsStep ==
    ASSUME IInv, ExecReturns
    PROVE  IInv'
<1>1. /\ pc = Return /\ native = <<>> /\ pc' = Done /\ ~Running /\ ~Running' /\ Len(native) = 0
      /\ UNCHANGED <<prog, stack, bottom, top, native, current, depth, snap, branches, err>>
  BY DEF ExecReturns, stackvars, simvars, Running
<1>2. TypeInv' /\ StackInv'
  BY <1>1 DEF IInv, TypeInv, StackInv
<1>3. FrameInv'
  BY <1>1 DEF IInv, FrameInv, Fresh
<1>4. ErrorInv'
  BY <1>1, Kinds DEF IInv, ErrorInv, OnlyLimitErrors
<1>5. QED
  BY <1>2, <1>3, <1>4 DEF IInv

LEMMA NextIInv ==
    ASSUME IInv, [Next]_vars
    PROVE  IInv'
<1>1. CASE UNCHANGED vars
  BY <1>1 DEF vars, IInv, TypeInv, StackInv, FrameInv, ErrorInv, Running, Awaits, Sane, IsAny,
              Fresh, OnlyLimitErrors
<1>2. CASE Next
  BY <1>1, <1>2, PlainStep, ExitStep, PrimitiveStep, AnyStartStep, AnyBranchStep, FailStep,
     InputStartStep, InputEnterStep, InputReadStep, InputLoadStep, InputEndStep, ReturnsStep
     DEF Next, Stopped
<1>3. QED
  BY <1>1, <1>2

LEMMA Invariance == Spec => []IInv
BY InitIInv, NextIInv, PTL DEF Spec

(* emit.lua on one call stack: for every control flow graph, whatever runs *)
(* runs above the part of the stack that suspended choices use again.      *)
THEOREM DisjointAlways == Spec => []ActiveStacksDisjoint
<1>1. IInv => ActiveStacksDisjoint
  <2> SUFFICES ASSUME IInv PROVE ActiveStacksDisjoint
    OBVIOUS
  <2>1. bottom >= 4 /\ (Running => bottom <= top + 1)
    BY DEF IInv, StackInv, Sound
  <2>2. ASSUME NEW j \in 1 .. Len(native)
        PROVE  /\ native[j].bottom >= 4 /\ native[j].bottom <= native[j].top + 1
               /\ j < Len(native) \/ Running =>
                     native[j].top < IF j = Len(native) THEN bottom ELSE native[j + 1].bottom
    <3>1. native[j].bottom >= 4 /\ native[j].bottom <= native[j].top + 1
      BY DEF IInv, StackInv, Sound
    <3>2. CASE j < Len(native)
      <4>1. j + 1 \in 1 .. Len(native) /\ j < j + 1 /\ j # Len(native)
        BY <3>2 DEF IInv, TypeInv
      <4>2. QED
        BY <3>1, <4>1 DEF IInv, StackInv
    <3>3. CASE ~(j < Len(native))
      <4>1. j = Len(native)
        BY <3>3 DEF IInv, TypeInv
      <4>2. QED
        BY <3>1, <3>3, <4>1 DEF IInv, StackInv
    <3>4. QED
      BY <3>2, <3>3
  <2>3. QED
    BY <2>1, <2>2 DEF ActiveStacksDisjoint
<1>2. QED
  BY Invariance, <1>1, PTL

(* No jump goes through an unset slot or a guard of newstack: every return *)
(* finds what was pushed for it, down to the exit of the path.             *)
THEOREM UnderflowNever == Spec => []NeverUnderflow
<1>1. IInv => NeverUnderflow
  BY Kinds DEF IInv, TypeInv, NeverUnderflow, Code, Nil, Underflow, Return, Done
<1>2. QED
  BY Invariance, <1>1, PTL

(* Compiled code keeps the branch protocol of sim.c: an execution fails    *)
(* only when frames or frame memory run out.                               *)
THEOREM OnlyLimits == Spec => []OnlyLimitErrors
<1>1. IInv => OnlyLimitErrors
  BY DEF IInv, ErrorInv
<1>2. QED
  BY Invariance, <1>1, PTL

-----------------------------------------------------------------------------
(* Control implements Continuations.  First, sequences that are given by   *)
(* their elements.                                                         *)

List(p, n) == p = [j \in 1 .. n |-> p[j]]

LEMMA ListIsSeq ==
    ASSUME NEW n \in Nat, NEW p, List(p, n)
    PROVE  /\ p \in Seq({p[j] : j \in 1 .. n}) /\ Len(p) = n /\ DOMAIN p = 1 .. n
           /\ p = <<>> <=> n = 0
<1> DEFINE S == {p[j] : j \in 1 .. n}
<1>1. \A j \in 1 .. n : p[j] \in S
  OBVIOUS
<1>2. DOMAIN p = 1 .. n /\ p = [j \in 1 .. n |-> p[j]]
  BY DEF List
<1> HIDE DEF S
<1>3. p \in [1 .. n -> S]
  BY <1>1, <1>2
<1>4. p \in Seq(S)
  BY <1>3
<1>5. Len(p) = n
  BY <1>2, <1>4
<1>6. p = <<>> <=> n = 0
  BY <1>4, <1>5
<1>7. QED
  BY <1>2, <1>4, <1>5, <1>6 DEF S

LEMMA ListsEqual ==
    ASSUME NEW n, NEW p, NEW q, List(p, n), List(q, n), \A j \in 1 .. n : p[j] = q[j]
    PROVE  p = q
BY DEF List

LEMMA SeqIsList ==
    ASSUME NEW S, NEW s \in Seq(S)
    PROVE  List(s, Len(s)) /\ Len(s) \in Nat
BY DEF List

LEMMA AppendIs ==
    ASSUME NEW n \in Nat, NEW p, NEW q, NEW x, List(p, n), List(q, n + 1),
           \A j \in 1 .. n : q[j] = p[j], q[n + 1] = x
    PROVE  q = Append(p, x)
<1> DEFINE S == {p[j] : j \in 1 .. n} \cup {x}
<1>1. p \in Seq(S) /\ Len(p) = n /\ x \in S
  <2>1. p \in Seq({p[j] : j \in 1 .. n}) /\ Len(p) = n
    BY ListIsSeq
  <2>2. QED
    BY <2>1
<1> HIDE DEF S
<1>2. /\ Append(p, x) \in Seq(S) /\ Len(Append(p, x)) = n + 1
      /\ \A j \in 1 .. n : Append(p, x)[j] = p[j]
      /\ Append(p, x)[n + 1] = x
  BY <1>1
<1>3. List(Append(p, x), n + 1)
  BY <1>2, SeqIsList
<1>4. \A j \in 1 .. n + 1 : j \in 1 .. n \/ j = n + 1
  OBVIOUS
<1>5. \A j \in 1 .. n + 1 : q[j] = Append(p, x)[j]
  BY <1>2, <1>4
<1>6. QED
  BY <1>3, <1>5, ListsEqual

LEMMA FrontIs ==
    ASSUME NEW n \in Nat \ {0}, NEW p, NEW q, List(p, n), List(q, n - 1),
           \A j \in 1 .. n - 1 : q[j] = p[j]
    PROVE  q = SubSeq(p, 1, Len(p) - 1)
<1> DEFINE S == {p[j] : j \in 1 .. n}
           m == n - 1
<1>1. p \in Seq(S) /\ Len(p) = n /\ m \in Nat /\ \A j \in 1 .. m : p[j] \in S
  BY ListIsSeq
<1> HIDE DEF S
<1>2. /\ SubSeq(p, 1, m) \in Seq(S) /\ Len(SubSeq(p, 1, m)) = m
      /\ \A j \in 1 .. m : SubSeq(p, 1, m)[j] = p[j]
  <2>1. /\ SubSeq(p, 1, m) \in Seq(S) /\ Len(SubSeq(p, 1, m)) = IF 1 <= m THEN m - 1 + 1 ELSE 0
        /\ \A j \in 1 .. m - 1 + 1 : SubSeq(p, 1, m)[j] = p[1 + j - 1]
    BY <1>1, SubSeqProperties
  <2>2. m - 1 + 1 = m /\ \A j \in 1 .. m : 1 + j - 1 = j
    BY <1>1
  <2>3. (IF 1 <= m THEN m - 1 + 1 ELSE 0) = m
    BY <1>1
  <2>4. QED
    BY <2>1, <2>2, <2>3
<1>3. List(SubSeq(p, 1, m), m)
  BY <1>2, SeqIsList
<1> HIDE DEF m
<1>4. q = SubSeq(p, 1, m)
  BY <1>2, <1>3, ListsEqual DEF m
<1>5. QED
  BY <1>1, <1>4 DEF m

LEMMA TailIs ==
    ASSUME NEW n \in Nat \ {0}, NEW p, NEW q, List(p, n), List(q, n - 1),
           \A j \in 1 .. n - 1 : q[j] = p[j + 1]
    PROVE  q = Tail(p) /\ Head(p) = p[1]
<1> DEFINE S == {p[j] : j \in 1 .. n}
<1>1. p \in Seq(S) /\ Len(p) = n /\ p # <<>>
  BY ListIsSeq
<1> HIDE DEF S
<1>2. /\ Tail(p) \in Seq(S) /\ Len(Tail(p)) = n - 1 /\ Head(p) = p[1]
      /\ \A j \in 1 .. n - 1 : Tail(p)[j] = p[j + 1]
  BY <1>1, HeadTailProperties
<1>3. List(Tail(p), n - 1)
  BY <1>2, SeqIsList
<1>4. q = Tail(p)
  BY <1>2, <1>3, ListsEqual
<1>5. QED
  BY <1>2, <1>4

LEMMA ConsIs ==
    ASSUME NEW n \in Nat, NEW p, NEW q, NEW x, List(p, n), List(q, n + 1),
           q[1] = x, \A j \in 1 .. n : q[j + 1] = p[j]
    PROVE  q = <<x>> \o p
<1> DEFINE S == {p[j] : j \in 1 .. n} \cup {x}
<1>1. p \in Seq(S) /\ Len(p) = n /\ <<x>> \in Seq(S) /\ Len(<<x>>) = 1 /\ <<x>>[1] = x
  <2>1. p \in Seq({p[j] : j \in 1 .. n}) /\ Len(p) = n
    BY ListIsSeq
  <2>2. QED
    BY <2>1
<1> HIDE DEF S
<1>2. /\ <<x>> \o p \in Seq(S) /\ Len(<<x>> \o p) = n + 1
      /\ \A j \in 1 .. n + 1 : (<<x>> \o p)[j] = IF j <= 1 THEN <<x>>[j] ELSE p[j - 1]
  BY <1>1, ConcatProperties
<1>3. List(<<x>> \o p, n + 1)
  BY <1>2, SeqIsList
<1>4. \A j \in 1 .. n + 1 : q[j] = (<<x>> \o p)[j]
  <2> SUFFICES ASSUME NEW j \in 1 .. n + 1 PROVE q[j] = (<<x>> \o p)[j]
    OBVIOUS
  <2>1. CASE j = 1
    BY <1>1, <1>2, <2>1
  <2>2. CASE j # 1
    <3>1. j - 1 \in 1 .. n /\ (j - 1) + 1 = j /\ ~(j <= 1)
      BY <2>2
    <3>2. q[j] = p[j - 1]
      BY <3>1
    <3>3. QED
      BY <1>2, <3>1, <3>2
  <2>3. QED
    BY <2>1, <2>2
<1>5. QED
  BY <1>3, <1>4, ListsEqual

-----------------------------------------------------------------------------
(* The graph is the same on both levels.                                   *)

LEMMA SameChain ==
    ASSUME NEW p, NEW n
    PROVE  Meaning!Chain(p, n) = Chain(p, n)
BY DEF Meaning!Chain, Meaning!Kept, Chain, Kept

LEMMA SameTag ==
    ASSUME NEW p, NEW f
    PROVE  /\ Meaning!Tag(p, f) = Tag(p, f)
           /\ Meaning!FnOf(f) = FnOf(f) /\ Meaning!Rest(f) = Rest(f)
           /\ Meaning!Nil = Nil /\ Meaning!False = False /\ Meaning!Exit = Exit
BY DEF Meaning!Tag, Tag, Meaning!Compiled, Compiled, Meaning!FnOf, FnOf, Meaning!Rest, Rest,
       Meaning!Nil, Nil, Meaning!False, False, Meaning!Exit, Exit

LEMMA SamePatterns ==
    ASSUME NEW p, NEW f
    PROVE  /\ Meaning!DoesNothing(p, f) <=> DoesNothing(p, f)
           /\ Meaning!DoesExit(p, f) <=> DoesExit(p, f)
           /\ Meaning!Forwards(p, f) <=> Forwards(p, f)
           /\ Meaning!Target(p, f) = Target(p, f)
           /\ Meaning!Chained(p, f) <=> Chained(p, f)
           /\ Meaning!Calls(p, f) <=> Calls(p, f)
           /\ Meaning!RunsPrimitive(p, f) <=> RunsPrimitive(p, f)
           /\ Meaning!PrimitiveOf(p, f) = PrimitiveOf(p, f)
           /\ Meaning!Branches(p, f) <=> Branches(p, f)
<1>1. /\ Meaning!Tag(p, f) = Tag(p, f) /\ Meaning!Chain(p, f[1]) = Chain(p, f[1])
      /\ Meaning!Exit = Exit /\ \A n : Meaning!FnOf(n) = FnOf(n)
  BY SameTag, SameChain
<1>2. Meaning!IsAll(p, f) <=> IsAll(p, f)
  BY <1>1 DEF Meaning!IsAll, IsAll
<1>3. Meaning!Chained(p, f) <=> Chained(p, f)
  BY <1>1, <1>2 DEF Meaning!Chained, Chained
<1>4. QED
  BY <1>1, <1>2, <1>3 DEF Meaning!DoesNothing, DoesNothing, Meaning!DoesExit, DoesExit,
     Meaning!Forwards, Forwards, Meaning!Target, Target, Meaning!Calls, Calls,
     Meaning!RunsPrimitive, RunsPrimitive, Meaning!PrimitiveOf, PrimitiveOf,
     Meaning!Branches, Branches

LEMMA SameResults ==
    ASSUME NEW p, NEW n, NEW s
    PROVE  /\ Meaning!Result(p, n, s) = Result(p, n, s) /\ Meaning!Ran(n, s) = Ran(n, s)
           /\ \A i : Meaning!ReadItem(n, i, s) = ReadItem(n, i, s)
BY DEF Meaning!Result, Result, Meaning!Ran, Ran, Meaning!ReadItem, ReadItem

-----------------------------------------------------------------------------
(* What the mapping reads off the call stack.                              *)

LEMMA SameThread ==
    ASSUME NEW f, NEW k, NEW s
    PROVE  /\ Meaning!Thread(f, k, s) = MThread(f, k, s)
           /\ MThread(f, k, s).code = f /\ MThread(f, k, s).cont = k
           /\ MThread(f, k, s).state = s
BY DEF Meaning!Thread, MThread

(* The continuation as a list.                                             *)
LEMMA ContIsList ==
    ASSUME NEW b \in Nat, NEW t \in Nat, b <= t + 1
    PROVE  /\ t - b + 1 \in Nat /\ List(Cont(b, t), t - b + 1)
           /\ \A i \in 1 .. t - b + 1 : Cont(b, t)[i] = stack[t - i + 1]
BY DEF List, Cont

(* Taking the continuation off the top of the stack.                       *)
LEMMA ContPops ==
    ASSUME NEW b \in Nat, NEW t \in Nat, b <= t
    PROVE  Head(Cont(b, t)) = stack[t] /\ Tail(Cont(b, t)) = Cont(b, t - 1)
<1> DEFINE n == t - b + 1
<1>1. n \in Nat \ {0} /\ t - 1 - b + 1 = n - 1 /\ b <= t + 1
  OBVIOUS
<1>2. List(Cont(b, t), n) /\ Cont(b, t)[1] = stack[t]
  <2>1. 1 \in 1 .. n /\ t - 1 + 1 = t
    BY <1>1
  <2>2. QED
    BY <1>1, <2>1, ContIsList
<1>3. List(Cont(b, t - 1), n - 1)
  BY <1>1 DEF List, Cont
<1>4. \A j \in 1 .. n - 1 : Cont(b, t - 1)[j] = Cont(b, t)[j + 1]
  <2> SUFFICES ASSUME NEW j \in 1 .. n - 1 PROVE Cont(b, t - 1)[j] = Cont(b, t)[j + 1]
    OBVIOUS
  <2>1. j + 1 \in 1 .. t - b + 1 /\ j \in 1 .. t - 1 - b + 1
        /\ t - (j + 1) + 1 = t - 1 - j + 1
    BY <1>1
  <2>2. QED
    BY <2>1 DEF Cont
<1> HIDE DEF n
<1>5. Cont(b, t - 1) = Tail(Cont(b, t)) /\ Head(Cont(b, t)) = Cont(b, t)[1]
  BY <1>1, <1>2, <1>3, <1>4, TailIs
<1>6. QED
  BY <1>2, <1>5

(* Pushing a continuation.                                                 *)
LEMMA ContPushes ==
    ASSUME NEW b \in Nat, NEW t \in Nat, b <= t + 1, NEW g, stack'[t + 1] = g,
           \A i \in b .. t : stack'[i] = stack[i]
    PROVE  Cont(b, t + 1)' = <<g>> \o Cont(b, t)
<1> DEFINE n == t - b + 1
<1>1. n \in Nat /\ List(Cont(b, t), n) /\ \A i \in 1 .. n : Cont(b, t)[i] = stack[t - i + 1]
  BY ContIsList
<1>2. /\ t + 1 - b + 1 = n + 1 /\ 1 \in 1 .. n + 1 /\ t + 1 - 1 + 1 = t + 1
      /\ \A j \in 1 .. n : j + 1 \in 1 .. n + 1 /\ t + 1 - (j + 1) + 1 = t - j + 1
                           /\ t - j + 1 \in b .. t
  OBVIOUS
<1> DEFINE q == [i \in 1 .. n + 1 |-> stack'[t + 1 - i + 1]]
<1>3. Cont(b, t + 1)' = q
  BY <1>2 DEF Cont
<1>4. List(q, n + 1) /\ q[1] = g
  BY <1>2 DEF List
<1>5. \A j \in 1 .. n : q[j + 1] = Cont(b, t)[j]
  BY <1>1, <1>2
<1> HIDE DEF q, n
<1>6. QED
  BY <1>1, <1>3, <1>4, <1>5, ConsIs

LEMMA ContKept ==
    ASSUME NEW b \in Nat, NEW t \in Nat, \A i \in b .. t : stack'[i] = stack[i]
    PROVE  Cont(b, t)' = Cont(b, t)
<1>1. \A i \in 1 .. t - b + 1 : t - i + 1 \in b .. t
  OBVIOUS
<1>2. QED
  BY <1>1 DEF Cont

(* The copy of a part of the stack is the same continuation.               *)
LEMMA ContCopied ==
    ASSUME NEW b \in Nat, NEW t \in Nat, NEW c \in Nat, NEW d \in Nat, d - c = t - b,
           \A i \in b .. t : stack'[i + (c - b)] = stack[i]
    PROVE  Cont(c, d)' = Cont(b, t)
<1>1. d - c + 1 = t - b + 1
  OBVIOUS
<1>2. \A i \in 1 .. t - b + 1 : t - i + 1 \in b .. t /\ d - i + 1 = (t - i + 1) + (c - b)
  OBVIOUS
<1>3. \A i \in 1 .. t - b + 1 : stack'[d - i + 1] = stack[t - i + 1]
  BY <1>2
<1>4. QED
  BY <1>1, <1>3 DEF Cont

(* What an activation stands for.                                          *)
Alike(a, b) == a.node = b.node /\ a.next = b.next /\ SamePlace(a, b)

LEMMA RemainingMoves ==
    ASSUME NEW a, NEW b \in Act, Alike(a, b), prog' = prog, snap'[b.fp] = snap[b.fp],
           \A i \in b.bottom .. b.top : stack'[i] = stack[i]
    PROVE  Remaining(a)' = Remaining(b)
<1>1. b.bottom \in Nat /\ b.top \in Nat
  BY DEF Act
<1>2. Cont(a.bottom, a.top)' = Cont(b.bottom, b.top)
  BY <1>1, ContKept DEF Alike, SamePlace
<1>3. snap'[a.fp] = snap[b.fp] /\ a.continue = b.continue /\ a.node = b.node /\ a.next = b.next
  BY DEF Alike, SamePlace
<1>4. QED
  BY <1>2, <1>3 DEF Remaining

LEMMA PendingIs ==
    ASSUME IInv
    PROVE  /\ List(PendingThreads, Len(native)) /\ Len(native) \in Nat
           /\ \A j \in 1 .. Len(native) : PendingThreads[j] = Remaining(native[j])
BY DEF List, PendingThreads, IInv, TypeInv

(* Activations 1 .. m stand for what they stood for.                       *)
LEMMA PendingMoves ==
    ASSUME IInv, prog' = prog, NEW j \in 1 .. Len(native), j \in 1 .. Len(native'),
           Alike(native'[j], native[j]), snap'[native[j].fp] = snap[native[j].fp],
           \A i \in native[j].bottom .. native[j].top : stack'[i] = stack[i]
    PROVE  PendingThreads'[j] = PendingThreads[j]
<1>1. PICK b \in Act : b = native[j]
  BY DEF IInv, TypeInv
<1>2. PICK a : a = native'[j]
  OBVIOUS
<1>3. Remaining(a)' = Remaining(b)
  BY <1>1, <1>2, RemainingMoves
<1>4. PendingThreads'[j] = Remaining(a)'
  BY <1>2 DEF PendingThreads
<1>5. PendingThreads[j] = Remaining(b)
  BY <1>1, PendingIs
<1>6. QED
  BY <1>3, <1>4, <1>5

LEMMA PendingKept ==
    ASSUME IInv, prog' = prog, Len(native') = Len(native),
           \A j \in 1 .. Len(native) :
              /\ Alike(native'[j], native[j]) /\ snap'[native[j].fp] = snap[native[j].fp]
              /\ \A i \in native[j].bottom .. native[j].top : stack'[i] = stack[i]
    PROVE  PendingThreads' = PendingThreads
<1>1. List(PendingThreads, Len(native)) /\ List(PendingThreads', Len(native'))
  BY DEF List, PendingThreads
<1>2. \A j \in 1 .. Len(native) : PendingThreads'[j] = PendingThreads[j]
  BY PendingMoves
<1>3. QED
  BY <1>1, <1>2, ListsEqual

(* The running thread.                                                     *)
LEMMA RunningIs ==
    ASSUME Running
    PROVE  /\ RunningThread # <<>> /\ RunningThread[1] = MThread(pc, Cont(bottom, top), current)
           /\ RunningThread = <<MThread(pc, Cont(bottom, top), current)>>
BY DEF RunningThread
LEMMA NoneRunning ==
    ASSUME ~Running
    PROVE  RunningThread = <<>>
BY DEF RunningThread

-----------------------------------------------------------------------------
(* Every step is a step of the meaning, or none.                           *)

LEMMA InitMeans == Init => Meaning!ContinuationsInit
<1> SUFFICES ASSUME Init PROVE Meaning!ContinuationsInit
  OBVIOUS
<1>1. prog \in Programs /\ pc = FnOf(Root(prog)) /\ bottom = 4 /\ top = 4 /\ stack[4] = Exit
      /\ native = <<>> /\ current = <<>> /\ leaves = <<>> /\ err = "OK"
  BY StackCapAssumption DEF Init, Slots
<1>2. Running
  BY <1>1, ProgramsAssumption, Kinds DEF Running, FnOf, Compiled
<1>3. Cont(4, 4) = <<Exit>>
  BY <1>1 DEF Cont
<1>4. RunningThread = <<MThread(FnOf(Root(prog)), <<Exit>>, <<>>)>>
  BY <1>1, <1>2, <1>3 DEF RunningThread
<1>5. PendingThreads = <<>>
  BY <1>1 DEF PendingThreads
<1>6. QED
  BY <1>1, <1>4, <1>5, SameTag, SameThread DEF Meaning!ContinuationsInit, HasAborted

(* What stays the same while a thread runs on.                             *)
LEMMA RestKept ==
    ASSUME IInv, Running, UNCHANGED <<prog, native, snap, err>>,
           \A i \in 0 .. bottom - 1 : stack'[i] = stack[i]
    PROVE  PendingThreads' = PendingThreads /\ HasAborted' = HasAborted
<1>1. ASSUME NEW j \in 1 .. Len(native), NEW i \in native[j].bottom .. native[j].top
      PROVE  stack'[i] = stack[i]
  <2>1. native[j].top < bottom /\ native[j].top \in Nat /\ native[j].bottom \in Nat /\ bottom \in Nat
    BY DEF IInv, StackInv, Sound, TypeInv
  <2>2. QED
    BY <2>1
<1>2. \A j \in 1 .. Len(native) : Alike(native'[j], native[j])
  BY DEF Alike, SamePlace
<1>3. QED
  BY <1>1, <1>2, PendingKept DEF HasAborted

(* How the running thread moves on.                                        *)
LEMMA StepForms ==
    ASSUME Running, NEW u, RunningThread' = <<u>>,
           PendingThreads' = PendingThreads, HasAborted' = HasAborted, UNCHANGED <<prog, leaves>>,
           NEW k, k = Cont(bottom, top), NEW n, n = PrimitiveOf(prog, pc),
           NEW r, r = Result(prog, n, current),
           \/ DoesNothing(prog, pc) /\ u = MThread(Head(k), Tail(k), current)
           \/ Forwards(prog, pc) /\ u = MThread(Target(prog, pc), k, current)
           \/ /\ Calls(prog, pc)
              /\ u = MThread(FnOf(Chain(prog, pc[1])[pc[2]]), <<Rest(pc)>> \o k, current)
           \/ /\ RunsPrimitive(prog, pc) /\ r # False
              /\ \/ r = Nil /\ Chained(prog, pc) /\ u = MThread(Rest(pc), k, Ran(n, current))
                 \/ r = Nil /\ ~Chained(prog, pc) /\ u = MThread(Head(k), Tail(k), Ran(n, current))
                 \/ r # Nil /\ Chained(prog, pc) /\ u = MThread(r, <<Rest(pc)>> \o k, Ran(n, current))
                 \/ r # Nil /\ ~Chained(prog, pc) /\ u = MThread(r, k, Ran(n, current))
    PROVE  Meaning!Step
<1>1. PICK t : t = RunningThread[1]
  OBVIOUS
<1>2. RunningThread # <<>> /\ t.code = pc /\ t.cont = k /\ t.state = current
  BY <1>1, RunningIs, SameThread
<1>3. /\ Meaning!PrimitiveOf(prog, t.code) = n /\ Meaning!Result(prog, n, t.state) = r
      /\ Meaning!Ran(n, t.state) = Ran(n, current) /\ Meaning!False = False /\ Meaning!Nil = Nil
      /\ Meaning!Rest(t.code) = Rest(pc)
  BY <1>2, SamePatterns, SameResults, SameTag
<1>4. CASE DoesNothing(prog, pc) /\ u = MThread(Head(k), Tail(k), current)
  <2>1. Meaning!DoesNothing(prog, t.code) /\ u = Meaning!Returned(t.cont, t.state)
    BY <1>2, <1>4, SamePatterns, SameThread DEF Meaning!Returned
  <2>2. QED
    BY <1>1, <1>2, <2>1 DEF Meaning!Step
<1>5. CASE Forwards(prog, pc) /\ u = MThread(Target(prog, pc), k, current)
  <2>1. /\ Meaning!Forwards(prog, t.code)
        /\ u = Meaning!Thread(Meaning!Target(prog, t.code), t.cont, t.state)
    BY <1>2, <1>5, SamePatterns, SameThread
  <2>2. QED
    BY <1>1, <1>2, <2>1 DEF Meaning!Step
<1>6. CASE /\ Calls(prog, pc)
           /\ u = MThread(FnOf(Chain(prog, pc[1])[pc[2]]), <<Rest(pc)>> \o k, current)
  <2>1. /\ Meaning!Calls(prog, t.code)
        /\ u = Meaning!Thread(Meaning!FnOf(Meaning!Chain(prog, t.code[1])[t.code[2]]),
                              <<Meaning!Rest(t.code)>> \o t.cont, t.state)
    BY <1>2, <1>3, <1>6, SamePatterns, SameThread, SameChain, SameTag
  <2>2. QED
    BY <1>1, <1>2, <2>1 DEF Meaning!Step
<1>7. CASE /\ RunsPrimitive(prog, pc) /\ r # False
           /\ \/ r = Nil /\ Chained(prog, pc) /\ u = MThread(Rest(pc), k, Ran(n, current))
              \/ r = Nil /\ ~Chained(prog, pc) /\ u = MThread(Head(k), Tail(k), Ran(n, current))
              \/ r # Nil /\ Chained(prog, pc) /\ u = MThread(r, <<Rest(pc)>> \o k, Ran(n, current))
              \/ r # Nil /\ ~Chained(prog, pc) /\ u = MThread(r, k, Ran(n, current))
  <2>1. Meaning!RunsPrimitive(prog, t.code) /\ (Meaning!Chained(prog, t.code) <=> Chained(prog, pc))
    BY <1>2, <1>7, SamePatterns
  <2>2. u = Meaning!PrimitiveStep(t, r, Ran(n, current))
    BY <1>2, <1>3, <1>7, <2>1, SameThread DEF Meaning!PrimitiveStep, Meaning!Returned
  <2>3. QED
    BY <1>1, <1>2, <1>3, <1>7, <2>1, <2>2 DEF Meaning!Step
<1>8. QED
  BY <1>4, <1>5, <1>6, <1>7

(* The thread that runs after a step.                                      *)
LEMMA RunsNext ==
    ASSUME NEW f \in Code, pc' = f, NEW b, bottom' = b, NEW t, top' = t, NEW s, current' = s,
           NEW k, Cont(b, t)' = k
    PROVE  RunningThread' = <<MThread(f, k, s)>>
<1>1. Running'
  BY Kinds DEF Running, Code
<1>2. Cont(bottom, top)' = k
  BY DEF Cont
<1>3. QED
  BY <1>1, <1>2 DEF RunningThread, MThread

(* The ways in which a compiled function hands over to another one.        *)
LEMMA HandsOver ==
    ASSUME IInv, pc \in Compiled, NEW k, k = Cont(bottom, top), NEW s, current' = s
    PROVE  /\ ReturnToTop => /\ RunningThread' = <<MThread(Head(k), Tail(k), s)>>
                             /\ \A i \in 0 .. bottom - 1 : stack'[i] = stack[i]
           /\ \A f \in Compiled : TailCall(f) => /\ RunningThread' = <<MThread(f, k, s)>>
                                                 /\ \A i \in 0 .. bottom - 1 : stack'[i] = stack[i]
           /\ \A f \in Compiled, g \in Compiled :
                 CallThen(f, g) => /\ RunningThread' = <<MThread(f, <<g>> \o k, s)>>
                                   /\ \A i \in 0 .. bottom - 1 : stack'[i] = stack[i]
<1>1. PICK b \in Nat, t \in Nat : b = bottom /\ t = top /\ b <= t /\ 4 <= b
  BY InFunction
<1>2. ASSUME ReturnToTop
      PROVE  /\ RunningThread' = <<MThread(Head(k), Tail(k), s)>>
             /\ \A i \in 0 .. bottom - 1 : stack'[i] = stack[i]
  <2>1. /\ pc' \in Code /\ stack' = stack /\ bottom' = b /\ top' = t - 1 /\ pc' = stack[t]
    BY <1>1, <1>2, ReturnSound
  <2>2. Head(k) = stack[t] /\ Tail(k) = Cont(b, t - 1)
    BY <1>1, ContPops
  <2>3. Cont(b, t - 1)' = Tail(k)
    BY <2>1, <2>2 DEF Cont
  <2>4. PICK f \in Code : f = pc'
    BY <2>1
  <2>5. RunningThread' = <<MThread(f, Tail(k), s)>>
    BY <2>1, <2>3, <2>4, RunsNext
  <2>6. f = Head(k)
    BY <2>1, <2>2, <2>4
  <2>7. QED
    BY <2>1, <2>5, <2>6
<1>3. ASSUME NEW f \in Compiled, TailCall(f)
      PROVE  /\ RunningThread' = <<MThread(f, k, s)>>
             /\ \A i \in 0 .. bottom - 1 : stack'[i] = stack[i]
  <2>1. pc' = f /\ stack' = stack /\ bottom' = b /\ top' = t /\ f \in Code
    BY <1>1, <1>3 DEF TailCall, stackvars, Code
  <2>2. Cont(b, t)' = k
    BY <1>1, <2>1 DEF Cont
  <2>3. QED
    BY <2>1, <2>2, RunsNext
<1>4. ASSUME NEW f \in Compiled, NEW g \in Compiled, CallThen(f, g)
      PROVE  /\ RunningThread' = <<MThread(f, <<g>> \o k, s)>>
             /\ \A i \in 0 .. bottom - 1 : stack'[i] = stack[i]
  <2>1. /\ pc' = f /\ bottom' = b /\ top' = t + 1 /\ stack'[t + 1] = g /\ f \in Code
        /\ \A i \in 0 .. t : stack'[i] = stack[i]
    BY <1>1, <1>4, CallSound DEF Code
  <2>2. b <= t + 1 /\ (\A i \in b .. t : i \in 0 .. t) /\ \A i \in 0 .. b - 1 : i \in 0 .. t
    BY <1>1
  <2>3. Cont(b, t + 1)' = <<g>> \o Cont(b, t)
    BY <2>1, <2>2, ContPushes
  <2>4. QED
    BY <1>1, <2>1, <2>2, <2>3, RunsNext
<1>5. QED
  BY <1>2, <1>3, <1>4

LEMMA PlainMeans ==
    ASSUME IInv, Nothing \/ Forward \/ ChainCall
    PROVE  Meaning!Step
<1>1. pc \in Compiled /\ prog \in Programs
  BY Patterns DEF IInv, TypeInv, Nothing, Forward, ChainCall
<1>2. UNCHANGED <<prog, native, current, snap, err, leaves>>
  BY DEF Nothing, Forward, ChainCall, simvars
<1>3. PICK k, n, r : k = Cont(bottom, top) /\ n = PrimitiveOf(prog, pc) /\ r = Result(prog, n, current)
  OBVIOUS
<1>4. PICK s : s = current
  OBVIOUS
<1>5. Running /\ current' = s
  BY <1>1, <1>2, <1>4, InFunction
<1>6. CASE Nothing
  <2>1. ReturnToTop /\ DoesNothing(prog, pc)
    BY <1>6 DEF Nothing
  <2>2. /\ RunningThread' = <<MThread(Head(k), Tail(k), s)>>
        /\ \A i \in 0 .. bottom - 1 : stack'[i] = stack[i]
    BY <1>1, <1>3, <1>5, <2>1, HandsOver
  <2>3. PendingThreads' = PendingThreads /\ HasAborted' = HasAborted
    BY <1>2, <1>5, <2>2, RestKept
  <2>4. QED
    BY <1>2, <1>3, <1>4, <1>5, <2>1, <2>2, <2>3, StepForms
<1>7. CASE Forward
  <2>1. TailCall(Target(prog, pc)) /\ Forwards(prog, pc)
    BY <1>7 DEF Forward
  <2>2. PICK f \in Compiled : f = Target(prog, pc)
    BY <1>1, <2>1, Targets
  <2>3. /\ RunningThread' = <<MThread(f, k, s)>>
        /\ \A i \in 0 .. bottom - 1 : stack'[i] = stack[i]
    BY <1>1, <1>3, <1>5, <2>1, <2>2, HandsOver
  <2>4. PendingThreads' = PendingThreads /\ HasAborted' = HasAborted
    BY <1>2, <1>5, <2>3, RestKept
  <2>5. QED
    BY <1>2, <1>3, <1>4, <1>5, <2>1, <2>2, <2>3, <2>4, StepForms
<1>8. CASE ChainCall
  <2>1. CallThen(FnOf(Chain(prog, pc[1])[pc[2]]), Rest(pc)) /\ Calls(prog, pc)
    BY <1>8 DEF ChainCall
  <2>2. PICK f \in Compiled, g \in Compiled : f = FnOf(Chain(prog, pc[1])[pc[2]]) /\ g = Rest(pc)
    BY <1>1, <2>1, Targets DEF Calls, FnOf, Compiled
  <2>3. /\ RunningThread' = <<MThread(f, <<g>> \o k, s)>>
        /\ \A i \in 0 .. bottom - 1 : stack'[i] = stack[i]
    BY <1>1, <1>3, <1>5, <2>1, <2>2, HandsOver
  <2>4. PendingThreads' = PendingThreads /\ HasAborted' = HasAborted
    BY <1>2, <1>5, <2>3, RestKept
  <2>5. QED
    BY <1>2, <1>3, <1>4, <1>5, <2>1, <2>2, <2>3, <2>4, StepForms
<1>9. QED
  BY <1>6, <1>7, <1>8

(* The end of a path.                                                      *)
LEMMA EndMeans ==
    ASSUME IInv, Running, pc' = Return, UNCHANGED <<prog, stack, native, snap, err>>,
           NEW n, n = PrimitiveOf(prog, pc),
           \/ DoesExit(prog, pc) /\ leaves' = Append(leaves, current)
           \/ /\ RunsPrimitive(prog, pc) /\ Result(prog, n, current) = False
              /\ leaves' = Append(leaves, Ran(n, current))
    PROVE  Meaning!End
<1>1. PICK t : t = RunningThread[1]
  OBVIOUS
<1>2. RunningThread # <<>> /\ t.code = pc /\ t.state = current
  BY <1>1, RunningIs, SameThread
<1>3. ~Running'
  BY DEF Running
<1>4. RunningThread' = <<>>
  BY <1>3 DEF RunningThread
<1>5. PendingThreads' = PendingThreads /\ HasAborted' = HasAborted
  BY RestKept
<1>6. /\ Meaning!PrimitiveOf(prog, t.code) = n
      /\ Meaning!Result(prog, n, t.state) = Result(prog, n, current)
      /\ Meaning!Ran(n, t.state) = Ran(n, current) /\ Meaning!False = False
      /\ (Meaning!DoesExit(prog, t.code) <=> DoesExit(prog, pc))
      /\ (Meaning!RunsPrimitive(prog, t.code) <=> RunsPrimitive(prog, pc))
  BY <1>2, SamePatterns, SameResults, SameTag
<1>7. \/ Meaning!DoesExit(prog, t.code) /\ leaves' = Append(leaves, t.state)
      \/ /\ Meaning!RunsPrimitive(prog, t.code)
         /\ Meaning!Result(prog, Meaning!PrimitiveOf(prog, t.code), t.state) = Meaning!False
         /\ leaves' = Append(leaves, Meaning!Ran(Meaning!PrimitiveOf(prog, t.code), t.state))
  BY <1>2, <1>6
<1>8. QED
  BY <1>1, <1>2, <1>4, <1>5, <1>7 DEF Meaning!End

LEMMA ExitMeans ==
    ASSUME IInv, ExitPath
    PROVE  Meaning!End
<1>1. pc \in Code
  BY Patterns DEF IInv, TypeInv, ExitPath
<1>2. Running
  BY <1>1, Kinds DEF Running, Code
<1>3. PICK n : n = PrimitiveOf(prog, pc)
  OBVIOUS
<1>4. /\ DoesExit(prog, pc) /\ pc' = Return /\ leaves' = Append(leaves, current)
      /\ UNCHANGED <<prog, stack, native, snap, err>>
  BY DEF ExitPath, stackvars, simvars
<1>5. QED
  BY <1>2, <1>3, <1>4, EndMeans

LEMMA PrimitiveMeans ==
    ASSUME IInv, Primitive
    PROVE  Meaning!Step \/ Meaning!End
<1>1. pc \in Compiled /\ prog \in Programs /\ current \in State /\ RunsPrimitive(prog, pc)
  BY Patterns DEF IInv, TypeInv, Primitive
<1>2. PICK k, n, r, s : /\ k = Cont(bottom, top) /\ n = PrimitiveOf(prog, pc)
                        /\ r = Result(prog, n, current) /\ s = Ran(n, current)
  OBVIOUS
<1>3. r \in {Nil, False} \cup Compiled /\ Rest(pc) \in Compiled
  BY <1>1, <1>2, Targets, Results
<1>4. /\ current' = s
      /\ \/ r = False /\ pc' = Return /\ UNCHANGED stackvars
         \/ r = Nil /\ ~Chained(prog, pc) /\ ReturnToTop
         \/ r = Nil /\ Chained(prog, pc) /\ TailCall(Rest(pc))
         \/ r \notin {Nil, False} /\ ~Chained(prog, pc) /\ TailCall(r)
         \/ r \notin {Nil, False} /\ Chained(prog, pc) /\ CallThen(r, Rest(pc))
      /\ leaves' = IF r = False THEN Append(leaves, s) ELSE leaves
      /\ UNCHANGED <<prog, native, snap, err>>
  BY <1>2 DEF Primitive
<1>5. Running
  BY <1>1, InFunction
<1>6. CASE r = False
  <2>1. UNCHANGED stack /\ pc' = Return /\ leaves' = Append(leaves, s)
    BY <1>4, <1>6, Kinds DEF stackvars, Nil, False
  <2>2. Meaning!End
    BY <1>1, <1>2, <1>4, <1>5, <1>6, <2>1, EndMeans
  <2>3. QED
    BY <2>2
<1>7. CASE r # False
  <2>1. PICK g \in Compiled : g = Rest(pc)
    BY <1>3
  <2>2. PICK u : /\ RunningThread' = <<u>>
                 /\ \A i \in 0 .. bottom - 1 : stack'[i] = stack[i]
                 /\ \/ r = Nil /\ Chained(prog, pc) /\ u = MThread(g, k, s)
                    \/ r = Nil /\ ~Chained(prog, pc) /\ u = MThread(Head(k), Tail(k), s)
                    \/ r # Nil /\ Chained(prog, pc) /\ u = MThread(r, <<g>> \o k, s)
                    \/ r # Nil /\ ~Chained(prog, pc) /\ u = MThread(r, k, s)
    <3>1. CASE r = Nil /\ ~Chained(prog, pc) /\ ReturnToTop
      BY <1>1, <1>2, <1>4, <3>1, HandsOver
    <3>2. CASE r = Nil /\ Chained(prog, pc) /\ TailCall(Rest(pc))
      BY <1>1, <1>2, <1>4, <2>1, <3>2, HandsOver
    <3>3. CASE r \notin {Nil, False} /\ ~Chained(prog, pc) /\ TailCall(r)
      BY <1>1, <1>2, <1>3, <1>4, <3>3, HandsOver
    <3>4. CASE r \notin {Nil, False} /\ Chained(prog, pc) /\ CallThen(r, Rest(pc))
      BY <1>1, <1>2, <1>3, <1>4, <2>1, <3>4, HandsOver
    <3>5. QED
      BY <1>4, <1>7, <3>1, <3>2, <3>3, <3>4
  <2>3. PendingThreads' = PendingThreads /\ HasAborted' = HasAborted
    BY <1>4, <1>5, <2>2, RestKept
  <2>4. leaves' = leaves
    BY <1>4, <1>7
  <2>5. Meaning!Step
    BY <1>1, <1>2, <1>4, <1>5, <1>7, <2>1, <2>2, <2>3, <2>4, StepForms
  <2>6. QED
    BY <2>5
<1>8. QED
  BY <1>6, <1>7

(* A choice becomes the list of the threads it stands for.                 *)
LEMMA ForkMeans ==
    ASSUME IInv, Running, pc' = Return, NEW a \in Act, native' = Append(native, a),
           UNCHANGED <<prog, stack, err, leaves>>, a.fp = depth,
           snap' = [snap EXCEPT ![depth] = current],
           NEW t, t = RunningThread[1], NEW ts, ts = Remaining(a)', ts = Meaning!Alternatives(t),
           Meaning!Branches(prog, t.code) \/ Meaning!Tag(prog, t.code) = "input"
    PROVE  Meaning!Fork
<1>1. PICK n \in Nat : n = Len(native)
  BY DEF IInv, TypeInv
<1>2. /\ Len(native') = n + 1 /\ native'[n + 1] = a
      /\ \A j \in 1 .. n : native'[j] = native[j]
  BY <1>1, Pushed DEF IInv, TypeInv
<1>3. List(PendingThreads, n)
  BY <1>1, PendingIs
<1>4. /\ List(PendingThreads', n + 1) /\ PendingThreads'[n + 1] = Remaining(a)'
  <2>1. n + 1 \in 1 .. n + 1
    OBVIOUS
  <2>2. PendingThreads' = [j \in 1 .. n + 1 |-> Remaining(native[j])']
    BY <1>2 DEF PendingThreads
  <2>3. Remaining(native[n + 1])' = Remaining(a)'
    BY <1>2, ZenonT(40) DEF Remaining
  <2>4. QED
    BY <2>1, <2>2, <2>3 DEF List
<1>5. ASSUME NEW j \in 1 .. n PROVE PendingThreads'[j] = PendingThreads[j]
  <2>1. j \in 1 .. Len(native) /\ j \in 1 .. Len(native') /\ native'[j] = native[j]
    BY <1>1, <1>2
  <2>2. native[j].fp \in Sim!Frames /\ native[j].fp # depth
    BY <2>1, Suspended, FrameNumbers DEF IInv, TypeInv, Sim!Frames
  <2>3. snap'[native[j].fp] = snap[native[j].fp]
    BY <2>2 DEF IInv, TypeInv
  <2>4. Alike(native'[j], native[j])
    BY <2>1 DEF Alike, SamePlace
  <2>5. QED
    BY <2>1, <2>3, <2>4, PendingMoves
<1>6. PICK p, q : p = PendingThreads /\ q = PendingThreads'
  OBVIOUS
<1>7. q = Append(p, ts)
  <2>1. List(p, n) /\ List(q, n + 1) /\ q[n + 1] = ts
    BY <1>3, <1>4, <1>6
  <2>2. \A j \in 1 .. n : q[j] = p[j]
    BY <1>5, <1>6
  <2>3. QED
    BY <2>1, <2>2, AppendIs
<1>8. RunningThread # <<>> /\ RunningThread' = <<>> /\ HasAborted' = HasAborted
  BY RunningIs DEF RunningThread, Running, HasAborted
<1>9. QED
  BY <1>6, <1>7, <1>8 DEF Meaning!Fork

LEMMA AnyStartMeans ==
    ASSUME IInv, AnyStart
    PROVE  Meaning!Fork
<1> DEFINE a == [node |-> pc[1], next |-> 1, phase |-> "enter", fp |-> depth,
                 bottom |-> bottom, top |-> top, continue |-> Nil]
<1>1. pc \in Compiled /\ prog \in Programs /\ TagOf(prog, pc[1]) = "any" /\ Branches(prog, pc)
  BY Patterns DEF IInv, TypeInv, AnyStart, Branches
<1>2. /\ Running /\ depth \in Sim!Frames /\ bottom \in Nat /\ top \in Nat /\ Fresh(depth)
  BY <1>1, InFunction
<1>3. snap' = [snap EXCEPT ![depth] = current]
  BY <1>2 DEF AnyStart, Sim!MarkBranch, Fresh
<1>4. /\ pc' = Return /\ native' = Append(native, a)
      /\ UNCHANGED <<prog, stack, bottom, top, err, leaves>>
  BY DEF AnyStart, stackvars
<1>5. /\ a \in Act /\ a.fp = depth /\ a.bottom = bottom /\ a.top = top
      /\ a.node = pc[1] /\ a.next = 1
  BY <1>1, <1>2, FrameNumbers DEF Act, Compiled, Fn
<1> HIDE DEF a
<1>6. PICK b \in Act : b = a
  BY <1>5
<1>7. PICK k, s, m : k = Cont(bottom, top) /\ s = current /\ m = pc[1]
  OBVIOUS
<1>8. snap'[b.fp] = s
  BY <1>2, <1>3, <1>5, <1>6, <1>7 DEF IInv, TypeInv
<1>9. Cont(b.bottom, b.top)' = k
  BY <1>4, <1>5, <1>6, <1>7 DEF Cont
<1> DEFINE L == Len(EdgesOf(prog, m))
           R == [i \in 1 .. L |-> MThread(FnOf(EdgesOf(prog, m)[i]), k, s)]
<1>10. Remaining(b)' = R
  <2>1. TagOf(prog', b.node) = "any" /\ EdgesOf(prog', b.node) = EdgesOf(prog, m) /\ b.next = 1
    BY <1>1, <1>4, <1>5, <1>6, <1>7
  <2>2. L \in Nat
    BY <1>1, <1>7, ProgramsAssumption DEF Compiled
  <2>3. L - 1 + 1 = L /\ \A i \in 1 .. L : 1 + i - 1 = i
    BY <2>2
  <2>4. Remaining(b)' = [i \in 1 .. L - 1 + 1 |-> MThread(FnOf(EdgesOf(prog, m)[1 + i - 1]), k, s)]
    BY <1>8, <1>9, <2>1 DEF Remaining, MThread
  <2>5. QED
    BY <2>3, <2>4
<1>11. PICK t : t = RunningThread[1]
  OBVIOUS
<1>12. t.code = pc /\ t.cont = k /\ t.state = s
  BY <1>2, <1>7, <1>11, RunningIs, SameThread
<1>13. Meaning!Branches(prog, t.code)
  BY <1>1, <1>12, SamePatterns
<1>14. Meaning!Alternatives(t) = R
  BY <1>7, <1>12, <1>13, SameThread, SameTag DEF Meaning!Alternatives
<1> HIDE DEF R
<1>15. PICK ts : ts = R
  OBVIOUS
<1>16. QED
  BY <1>2, <1>3, <1>4, <1>5, <1>6, <1>10, <1>11, <1>13, <1>14, <1>15, ForkMeans

LEMMA InputStartMeans ==
    ASSUME IInv, InputStart
    PROVE  Meaning!Fork
<1> DEFINE a == [node |-> pc[1], next |-> 1, phase |-> "enter", fp |-> depth,
                 bottom |-> bottom, top |-> top - 1, continue |-> stack[top]]
<1>1. pc \in Compiled /\ prog \in Programs /\ TagOf(prog, pc[1]) = "input" /\ Tag(prog, pc) = "input"
  BY Patterns DEF IInv, TypeInv, InputStart
<1>2. /\ Running /\ depth \in Sim!Frames /\ bottom \in Nat /\ top \in Nat
      /\ bottom <= top /\ 4 <= bottom /\ stack \in [Slots -> Fn] /\ top \in Slots
  BY <1>1, InFunction
<1>3. snap' = [snap EXCEPT ![depth] = current]
  BY DEF InputStart, Sim!Save
<1>4. /\ pc' = Return /\ native' = Append(native, a)
      /\ UNCHANGED <<prog, stack, bottom, top, err, leaves>>
  BY DEF InputStart, stackvars
<1>5. /\ a \in Act /\ a.fp = depth /\ a.bottom = bottom /\ a.top = top - 1
      /\ a.node = pc[1] /\ a.next = 1 /\ a.continue = stack[top]
  <2>1. top - 1 \in Nat /\ stack[top] \in Fn
    BY <1>2
  <2>2. QED
    BY <1>1, <1>2, <2>1, FrameNumbers DEF Act, Compiled
<1> HIDE DEF a
<1>6. PICK b \in Act : b = a
  BY <1>5
<1>7. PICK k, s, m : k = Cont(bottom, top) /\ s = current /\ m = pc[1]
  OBVIOUS
<1>8. snap'[b.fp] = s
  BY <1>2, <1>3, <1>5, <1>6, <1>7 DEF IInv, TypeInv
<1>9. Cont(b.bottom, b.top)' = Tail(k) /\ b.continue = Head(k)
  <2>1. Head(k) = stack[top] /\ Tail(k) = Cont(bottom, top - 1)
    BY <1>2, <1>7, ContPops
  <2>2. Cont(b.bottom, b.top)' = Cont(bottom, top - 1)
    BY <1>4, <1>5, <1>6 DEF Cont
  <2>3. QED
    BY <1>5, <1>6, <2>1, <2>2
<1> DEFINE R == [i \in 1 .. NItems |-> MThread(Head(k), Tail(k), ReadItem(m, i, s))]
<1>10. Remaining(b)' = R
  <2>1. TagOf(prog', b.node) # "any" /\ b.next = 1 /\ b.node = m
    BY <1>1, <1>4, <1>5, <1>6, <1>7
  <2>2. NItems - 1 + 1 = NItems /\ \A i \in 1 .. NItems : 1 + i - 1 = i
    BY NumbersAssumption
  <2>3. Remaining(b)' = [i \in 1 .. NItems - 1 + 1 |->
                           MThread(Head(k), Tail(k), ReadItem(m, 1 + i - 1, s))]
    BY <1>8, <1>9, <2>1 DEF Remaining, MThread
  <2>4. QED
    BY <2>2, <2>3
<1>11. PICK t : t = RunningThread[1]
  OBVIOUS
<1>12. t.code = pc /\ t.cont = k /\ t.state = s
  BY <1>2, <1>7, <1>11, RunningIs, SameThread
<1>13. Meaning!Tag(prog, t.code) = "input" /\ ~Meaning!Branches(prog, t.code)
  BY <1>1, <1>12, SameTag, SamePatterns DEF Branches
<1>14. Meaning!Alternatives(t) = R
  <2>1. \A i : Meaning!ReadItem(m, i, s) = ReadItem(m, i, s)
    BY SameResults
  <2>2. \A u : Meaning!Returned(k, u) = MThread(Head(k), Tail(k), u)
    BY SameThread DEF Meaning!Returned
  <2>3. QED
    BY <1>7, <1>12, <1>13, <2>1, <2>2 DEF Meaning!Alternatives
<1> HIDE DEF R
<1>15. PICK ts : ts = R
  OBVIOUS
<1>16. QED
  BY <1>2, <1>3, <1>4, <1>5, <1>6, <1>10, <1>11, <1>13, <1>14, <1>15, ForkMeans

(* The alternatives of an activation, one by one.                          *)
Alternative(a, i) ==
    IF IsAny(a)
    THEN MThread(FnOf(EdgesOf(prog, a.node)[i]), Cont(a.bottom, a.top), snap[a.fp])
    ELSE MThread(a.continue, Cont(a.bottom, a.top), ReadItem(a.node, i, snap[a.fp]))
Alternatives(a) == IF IsAny(a) THEN Len(EdgesOf(prog, a.node)) ELSE NItems

LEMMA RemainingIs ==
    ASSUME NEW a
    PROVE  Remaining(a) = [i \in 1 .. Alternatives(a) - a.next + 1 |-> Alternative(a, a.next + i - 1)]
<1>1. CASE IsAny(a)
  BY <1>1 DEF Remaining, Alternatives, Alternative, IsAny
<1>2. CASE ~IsAny(a)
  BY <1>2 DEF Remaining, Alternatives, Alternative, IsAny
<1>3. QED
  BY <1>1, <1>2

LEMMA RemainingHead ==
    ASSUME NEW a \in Act, NEW L \in Nat, L = Alternatives(a), a.next <= L
    PROVE  /\ L - a.next + 1 \in Nat \ {0} /\ List(Remaining(a), L - a.next + 1)
           /\ Remaining(a) # <<>> /\ Len(Remaining(a)) = L - a.next + 1
           /\ Head(Remaining(a)) = Alternative(a, a.next)
<1>1. a.next \in Nat
  BY DEF Act
<1> DEFINE n == L - a.next + 1
<1>2. n \in Nat \ {0} /\ 1 \in 1 .. n /\ a.next + 1 - 1 = a.next
  BY <1>1
<1>3. PICK ts : ts = Remaining(a)
  OBVIOUS
<1>4. ts = [i \in 1 .. n |-> Alternative(a, a.next + i - 1)]
  BY <1>3, RemainingIs
<1>5. List(ts, n) /\ ts[1] = Alternative(a, a.next)
  BY <1>2, <1>4 DEF List
<1>6. ts # <<>> /\ Len(ts) = n /\ ts \in Seq({ts[j] : j \in 1 .. n})
  <2> HIDE DEF n
  <2>1. QED
    BY <1>2, <1>5, ListIsSeq
<1>7. Head(ts) = ts[1]
  BY <1>6
<1>8. QED
  BY <1>2, <1>3, <1>5, <1>6, <1>7

LEMMA RemainingTail ==
    ASSUME NEW a \in Act, NEW b \in Act, NEW L \in Nat, L = Alternatives(a), a.next <= L,
           b.node = a.node, b.next = a.next + 1, SamePlace(b, a), prog' = prog,
           snap'[a.fp] = snap[a.fp], \A i \in a.bottom .. a.top : stack'[i] = stack[i]
    PROVE  Remaining(b)' = Tail(Remaining(a))
<1>1. a.next \in Nat /\ a.bottom \in Nat /\ a.top \in Nat
  BY DEF Act
<1> DEFINE n == L - a.next + 1
<1>2. /\ n \in Nat \ {0} /\ L - b.next + 1 = n - 1
      /\ \A i \in 1 .. n - 1 : /\ b.next + i - 1 = a.next + (i + 1) - 1
                              /\ i + 1 \in 1 .. n
  BY <1>1
<1>3. Cont(b.bottom, b.top)' = Cont(a.bottom, a.top)
  BY <1>1, ContKept DEF SamePlace
<1>4. (IsAny(b)' <=> IsAny(a)) /\ Alternatives(b)' = L
  BY DEF IsAny, Alternatives
<1>5. ASSUME NEW i PROVE Alternative(b, i)' = Alternative(a, i)
  <2>1. snap'[b.fp] = snap[a.fp] /\ b.continue = a.continue
    BY DEF SamePlace
  <2>2. CASE IsAny(a)
    BY <1>3, <1>4, <2>1, <2>2 DEF Alternative, MThread
  <2>3. CASE ~IsAny(a)
    BY <1>3, <1>4, <2>1, <2>3 DEF Alternative, MThread
  <2>4. QED
    BY <2>2, <2>3
<1>6. PICK ts, rs : ts = Remaining(a) /\ rs = Remaining(b)'
  OBVIOUS
<1>7. ts = [i \in 1 .. n |-> Alternative(a, a.next + i - 1)]
  BY <1>6, RemainingIs
<1>8. rs = [i \in 1 .. n - 1 |-> Alternative(a, b.next + i - 1)]
  <2>1. Remaining(b)' = [i \in 1 .. Alternatives(b)' - b.next + 1 |-> Alternative(b, b.next + i - 1)']
    <3>1. CASE IsAny(b)'
      BY <3>1 DEF Remaining, Alternatives, Alternative, IsAny
    <3>2. CASE ~IsAny(b)'
      BY <3>2 DEF Remaining, Alternatives, Alternative, IsAny
    <3>3. QED
      BY <3>1, <3>2
  <2>2. QED
    BY <1>2, <1>4, <1>5, <1>6, <2>1
<1>9. List(ts, n) /\ List(rs, n - 1)
  BY <1>7, <1>8 DEF List
<1>10. \A i \in 1 .. n - 1 : rs[i] = ts[i + 1]
  BY <1>2, <1>7, <1>8
<1> HIDE DEF n
<1>11. rs = Tail(ts)
  BY <1>2, <1>9, <1>10, TailIs
<1>12. QED
  BY <1>6, <1>11

(* The innermost choice runs its next alternative.                         *)
LEMMA TakeMeans ==
    ASSUME IInv, pc = Return, native # <<>>, UNCHANGED <<prog, err, leaves>>,
           NEW n \in Nat, n = Len(native), NEW ts, ts = Remaining(native[n]), ts # <<>>,
           RunningThread' = <<Head(ts)>>,
           \A j \in 1 .. n - 1 :
              /\ native'[j] = native[j] /\ snap'[native[j].fp] = snap[native[j].fp]
              /\ \A i \in native[j].bottom .. native[j].top : stack'[i] = stack[i],
           \/ Len(native') = n /\ Remaining(native[n])' = Tail(ts)
           \/ Len(native') = n - 1 /\ Len(ts) = 1
    PROVE  Meaning!Take
<1>1. n \in Nat \ {0} /\ n \in 1 .. n /\ n - 1 \in Nat
  BY Last
<1>2. List(PendingThreads, n) /\ PendingThreads[n] = ts /\ PendingThreads # <<>>
      /\ Len(PendingThreads) = n
  BY <1>1, PendingIs, ListIsSeq
<1>3. RunningThread = <<>> /\ HasAborted' = HasAborted
  BY NoneRunning DEF Running, HasAborted
<1>4. Len(native') = n \/ Len(native') = n - 1
  OBVIOUS
<1>5. ASSUME NEW j \in 1 .. n - 1 PROVE PendingThreads'[j] = PendingThreads[j]
  <2>1. j \in 1 .. Len(native) /\ j \in 1 .. Len(native')
    BY <1>1, <1>4
  <2>2. Alike(native'[j], native[j])
    BY DEF Alike, SamePlace
  <2>3. QED
    BY <2>1, <2>2, PendingMoves
<1>6. PICK p, q : p = PendingThreads /\ q = PendingThreads'
  OBVIOUS
<1>7. \A j \in 1 .. n - 1 : q[j] = p[j]
  BY <1>5, <1>6
<1>8. CASE Len(native') = n /\ Remaining(native[n])' = Tail(ts)
  <2> DEFINE fr == [j \in 1 .. n - 1 |-> p[j]]
  <2>1. List(fr, n - 1) /\ \A j \in 1 .. n - 1 : fr[j] = p[j] /\ q[j] = fr[j]
    BY <1>7 DEF List
  <2> HIDE DEF fr
  <2>2. fr = SubSeq(p, 1, Len(p) - 1)
    BY <1>1, <1>2, <1>6, <2>1, FrontIs
  <2>3. List(q, n) /\ q[n] = Tail(ts)
    BY <1>1, <1>6, <1>8 DEF List, PendingThreads
  <2>4. PICK m \in Nat : m = n - 1 /\ m + 1 = n
    <3>1. n - 1 \in Nat /\ (n - 1) + 1 = n
      BY <1>1
    <3>2. QED
      BY <3>1
  <2>5. q = Append(fr, Tail(ts))
    BY <2>1, <2>3, <2>4, AppendIs, SMTT(30)
  <2>6. PendingThreads' = Append(Meaning!Front(PendingThreads), Tail(ts))
    BY <1>6, <2>2, <2>5 DEF Meaning!Front
  <2>7. QED
    BY <1>2, <1>3, <2>6 DEF Meaning!Take
<1>9. CASE Len(native') = n - 1 /\ Len(ts) = 1
  <2>1. List(q, n - 1)
    BY <1>6, <1>9 DEF List, PendingThreads
  <2>2. q = SubSeq(p, 1, Len(p) - 1)
    BY <1>1, <1>2, <1>6, <1>7, <2>1, FrontIs
  <2>3. PendingThreads' = Meaning!Front(PendingThreads)
    BY <1>6, <2>2 DEF Meaning!Front
  <2>4. QED
    BY <1>2, <1>3, <1>9, <2>3 DEF Meaning!Take
<1>10. QED
  BY <1>8, <1>9

(* What the activations below the last one find is left alone.             *)
LEMMA OthersKept ==
    ASSUME IInv, native # <<>>, NEW n \in Nat, n = Len(native),
           FramesKept(Activation.fp, depth'),
           \A j \in 1 .. n - 1 : native'[j] = native[j],
           \A i \in 0 .. Activation.bottom - 1 : stack'[i] = stack[i]
    PROVE  \A j \in 1 .. n - 1 :
              /\ native'[j] = native[j] /\ snap'[native[j].fp] = snap[native[j].fp]
              /\ \A i \in native[j].bottom .. native[j].top : stack'[i] = stack[i]
<1> SUFFICES ASSUME NEW j \in 1 .. n - 1
             PROVE  /\ snap'[native[j].fp] = snap[native[j].fp]
                    /\ \A i \in native[j].bottom .. native[j].top : stack'[i] = stack[i]
  OBVIOUS
<1>1. /\ j \in 1 .. Len(native) /\ j # Len(native)
  OBVIOUS
<1>2. /\ native[j].fp < Activation.fp /\ native[j].fp \in Nat
      /\ native[j].top < Activation.bottom /\ native[j].top \in Nat
      /\ Activation \in Act /\ native[j] \in Act
  BY <1>1, Last
<1>3. Activation.fp \in Nat /\ Activation.bottom \in Nat /\ native[j].bottom \in Nat
  BY <1>2 DEF Act
<1>4. /\ native[j].fp \in 0 .. Activation.fp
      /\ \A i \in native[j].bottom .. native[j].top : i \in 0 .. Activation.bottom - 1
  BY <1>2, <1>3
<1>5. QED
  BY <1>4 DEF FramesKept

(* The copy made by copystack is the continuation it was made from.        *)
LEMMA CopyMeans ==
    ASSUME IInv, NEW a \in Act, NEW f, Sound(stack, f, a.bottom, a.top),
           CallWithCopy(f, a.bottom, a.top), f \in Code, NEW s, current' = s
    PROVE  /\ RunningThread' = <<MThread(f, Cont(a.bottom, a.top), s)>>
           /\ \A i \in 0 .. a.top : stack'[i] = stack[i]
<1>1. PICK c : c = Copystack(a.bottom, a.top)
  OBVIOUS
<1>2. c.top <= StackCap /\ stack' = c.stack /\ bottom' = c.bottom /\ top' = c.top /\ pc' = f
  BY <1>1 DEF CallWithCopy
<1>3. /\ c.bottom \in Nat /\ c.top \in Nat /\ c.top - c.bottom = a.top - a.bottom
      /\ \A i \in 0 .. a.top : c.stack[i] = stack[i]
      /\ \A i \in a.bottom .. a.top : c.stack[i + (c.bottom - a.bottom)] = stack[i]
  BY <1>1, <1>2, CopySound DEF IInv, TypeInv
<1>4. PICK b \in Nat, t \in Nat : b = a.bottom /\ t = a.top
  BY DEF Act
<1>5. PICK e \in Nat, d \in Nat : e = c.bottom /\ d = c.top
  BY <1>3
<1>6. d - e = t - b /\ \A i \in b .. t : stack'[i + (e - b)] = stack[i]
  BY <1>2, <1>3, <1>4, <1>5
<1>7. Cont(e, d)' = Cont(b, t)
  BY <1>6, ContCopied
<1>8. PICK k : k = Cont(b, t)
  OBVIOUS
<1>9. RunningThread' = <<MThread(f, k, s)>>
  BY <1>2, <1>5, <1>7, <1>8, RunsNext
<1>10. QED
  BY <1>2, <1>3, <1>4, <1>8, <1>9

LEMMA AnyBranchMeans ==
    ASSUME IInv, AnyBranch
    PROVE  Meaning!Take
<1>n. PICK n \in Nat : n = Len(native)
  BY DEF IInv, TypeInv
<1>a. PICK a \in Act : a = Activation
  BY Last DEF AnyBranch, Resumes
<1>1. /\ pc = Return /\ native # <<>> /\ TagOf(prog, a.node) = "any"
      /\ UNCHANGED <<prog, err, leaves>> /\ n \in 1 .. n /\ a = native[n] /\ native \in Seq(Act)
  BY <1>n, <1>a, Last DEF AnyBranch, Resumes
<1>2. /\ FramesKept(a.fp, depth') /\ current' = snap[a.fp]
  BY <1>a, EnteredBranch DEF AnyBranch
<1>3. IsAny(a) /\ a.next \in 1 .. Len(EdgesOf(prog, a.node)) /\ a.continue = Nil
  BY <1>1, <1>n, <1>a, Last DEF Awaits, Sane, IsAny
<1>4. PICK es \in Seq(Node) : es = EdgesOf(prog, a.node)
  BY ProgramsAssumption DEF IInv, TypeInv, Act
<1>5. PICK L \in Nat : L = Len(es) /\ L = Alternatives(a) /\ a.next <= L /\ a.next \in 1 .. L
  <2>1. Alternatives(a) = Len(es) /\ Len(es) \in Nat /\ a.next \in 1 .. Len(es)
    BY <1>3, <1>4 DEF Alternatives
  <2>2. QED
    BY <2>1
<1>6. PICK f \in Code : f = FnOf(es[a.next]) /\ f # Exit
  <2>1. es[a.next] \in Node
    <3>1. a.next \in 1 .. Len(es) /\ es \in Seq(Node)
      BY <1>3, <1>4
    <3>2. QED
      BY <3>1
  <2>2. FnOf(es[a.next]) \in Compiled
    BY <2>1 DEF FnOf, Compiled
  <2>3. QED
    BY <2>1, <2>2, Kinds DEF Code
<1>7. Sound(stack, f, a.bottom, a.top) /\ a.bottom \in Nat /\ a.top \in Nat
  BY <1>1, <1>3, <1>6, <1>a, Last, Kinds DEF Sound
<1>8. PICK k, s, ts : k = Cont(a.bottom, a.top) /\ s = snap[a.fp] /\ ts = Remaining(a)
  OBVIOUS
<1>9. /\ ts # <<>> /\ Len(ts) = L - a.next + 1 /\ Head(ts) = MThread(f, k, s)
  <2>1. ts # <<>> /\ Len(ts) = L - a.next + 1 /\ Head(ts) = Alternative(a, a.next)
    BY <1>5, <1>8, RemainingHead
  <2>2. QED
    BY <1>3, <1>4, <1>6, <1>8, <2>1 DEF Alternative
<1>10. snap'[a.fp] = snap[a.fp]
  <2>1. a.fp \in 0 .. a.fp
    BY DEF Act
  <2>2. QED
    BY <1>2, <2>1 DEF FramesKept
<1>12. CASE /\ a.next < Len(es)
            /\ native' = [native EXCEPT ![Len(native)].next = @ + 1]
            /\ CallWithCopy(f, a.bottom, a.top)
  <2>1. /\ RunningThread' = <<MThread(f, k, s)>>
        /\ \A i \in 0 .. a.top : stack'[i] = stack[i]
    BY <1>2, <1>7, <1>8, <1>12, CopyMeans
  <2> DEFINE b == [a EXCEPT !.next = a.next + 1]
  <2>2. /\ b \in Act /\ SamePlace(b, a) /\ b.node = a.node /\ b.next = a.next + 1
    <3>1. a.next + 1 \in Nat /\ a.phase \in {"enter", "read", "load"}
      BY DEF Act
    <3>2. b \in Act /\ b = [node |-> a.node, next |-> a.next + 1, phase |-> a.phase, fp |-> a.fp,
                bottom |-> a.bottom, top |-> a.top, continue |-> a.continue]
      BY <3>1, Advanced
    <3> HIDE DEF b
    <3>3. QED
      BY <3>2 DEF SamePlace
  <2>3. native' = [native EXCEPT ![n] = b]
    BY <1>1, <1>12, <1>n
  <2> HIDE DEF b
  <2>4. /\ Len(native') = n /\ native'[n] = b
        /\ \A j \in 1 .. n : j # n => native'[j] = native[j]
    BY <1>1, <1>n, <2>2, <2>3, Replaced
  <2>5. (\A i \in a.bottom .. a.top : i \in 0 .. a.top) /\ (\A j \in 1 .. n - 1 : j \in 1 .. n /\ j # n)
        /\ \A i \in 0 .. a.bottom - 1 : i \in 0 .. a.top
    BY <1>7 DEF Sound
  <2>6. PICK c \in Act : c = b
    BY <2>2
  <2>7. Remaining(c)' = Tail(ts)
    BY <1>1, <1>5, <1>8, <1>10, <2>1, <2>2, <2>5, <2>6, RemainingTail
  <2>8. Remaining(native[n])' = Tail(ts)
    BY <2>4, <2>6, <2>7 DEF Remaining
  <2>9. \A j \in 1 .. n - 1 :
              /\ native'[j] = native[j] /\ snap'[native[j].fp] = snap[native[j].fp]
              /\ \A i \in native[j].bottom .. native[j].top : stack'[i] = stack[i]
    BY <1>1, <1>2, <1>a, <1>n, <2>1, <2>4, <2>5, OthersKept
  <2>10. RunningThread' = <<Head(ts)>> /\ ts = Remaining(native[n])
    BY <1>1, <1>8, <1>9, <2>1
  <2>11. QED
    BY <1>1, <1>9, <1>n, <2>4, <2>8, <2>9, <2>10, TakeMeans
<1>13. CASE /\ a.next = Len(es)
            /\ native' = PopNative
            /\ pc' = f
            /\ bottom' = a.bottom /\ top' = a.top /\ UNCHANGED stack
  <2>1. /\ Len(native') = n - 1 /\ n - 1 \in Nat
        /\ \A j \in 1 .. n - 1 : native'[j] = native[j]
    BY <1>1, <1>13, <1>n, Popped DEF PopNative
  <2>2. PICK b, t : b = a.bottom /\ t = a.top
    OBVIOUS
  <2>3. Cont(b, t)' = k
    BY <1>8, <1>13, <2>2 DEF Cont
  <2>4. RunningThread' = <<MThread(f, k, s)>>
    BY <1>2, <1>8, <1>13, <2>2, <2>3, RunsNext
  <2>5. Len(ts) = 1
    <3>1. a.next = L /\ Len(ts) = L - a.next + 1 /\ L \in Nat
      BY <1>5, <1>9, <1>13
    <3>2. QED
      BY <3>1
  <2>6. \A j \in 1 .. n - 1 :
              /\ native'[j] = native[j] /\ snap'[native[j].fp] = snap[native[j].fp]
              /\ \A i \in native[j].bottom .. native[j].top : stack'[i] = stack[i]
    BY <1>1, <1>2, <1>13, <1>a, <1>n, <2>1, OthersKept
  <2>7. RunningThread' = <<Head(ts)>> /\ ts = Remaining(native[n])
    BY <1>1, <1>8, <1>9, <2>4
  <2>8. QED
    BY <1>1, <1>9, <1>n, <2>1, <2>5, <2>6, <2>7, TakeMeans
<1>14. QED
  BY <1>4, <1>6, <1>12, <1>13, <1>a DEF AnyBranch

LEMMA InputReadMeans ==
    ASSUME IInv, InputRead
    PROVE  Meaning!Take
<1>n. PICK n \in Nat : n = Len(native)
  BY DEF IInv, TypeInv
<1>1. /\ InLoop("read") /\ current' = ReadItem(Activation.node, Activation.next, current)
      /\ CallWithCopy(Activation.continue, Activation.bottom, Activation.top)
      /\ Iteration(Activation.next + 1, "load")
      /\ UNCHANGED <<prog, depth, snap, branches, err, leaves>>
  BY DEF InputRead
<1>2. PICK a \in Act : a = Activation /\ n \in 1 .. n /\ native \in Seq(Act) /\ a = native[n]
  BY <1>1, <1>n, InLoopFacts, Last
<1>3. /\ pc = Return /\ native # <<>> /\ TagOf(prog, a.node) = "input" /\ a.next \in Nat
      /\ a.next <= NItems /\ a.continue \in Code /\ current = snap[a.fp] /\ a.fp < depth /\ Fresh(depth)
  BY <1>1, <1>2, InLoopFacts
<1>4. Sound(stack, a.continue, a.bottom, a.top) /\ a.bottom \in Nat /\ a.top \in Nat
  BY <1>2, <1>3, Last DEF Sound
<1>5. PICK L \in Nat : L = NItems /\ L = Alternatives(a)
  BY <1>3, NumbersAssumption DEF Alternatives, IsAny
<1>6. PICK k, s, ts, f : /\ k = Cont(a.bottom, a.top) /\ s = ReadItem(a.node, a.next, current)
                         /\ ts = Remaining(a) /\ f = a.continue
  OBVIOUS
<1>7. ts # <<>> /\ Head(ts) = MThread(f, k, s)
  <2>1. ts # <<>> /\ Head(ts) = Alternative(a, a.next)
    BY <1>3, <1>5, <1>6, RemainingHead
  <2>2. QED
    BY <1>3, <1>6, <2>1 DEF Alternative, IsAny
<1>8. /\ RunningThread' = <<MThread(f, k, s)>>
      /\ \A i \in 0 .. a.top : stack'[i] = stack[i]
  <2>1. current' = s /\ CallWithCopy(f, a.bottom, a.top) /\ f \in Code
        /\ Sound(stack, f, a.bottom, a.top)
    BY <1>1, <1>2, <1>3, <1>4, <1>6
  <2>2. QED
    BY <1>6, <2>1, CopyMeans
<1> DEFINE b == [a EXCEPT !.next = a.next + 1, !.phase = "load"]
<1>9. b \in Act /\ b = [node |-> a.node, next |-> a.next + 1, phase |-> "load", fp |-> a.fp,
                        bottom |-> a.bottom, top |-> a.top, continue |-> a.continue]
  <2>1. a.next + 1 \in Nat
    BY <1>3
  <2>2. QED
    BY <2>1, Advanced
<1>10. native' = [native EXCEPT ![n] = b]
  BY <1>1, <1>2, <1>n DEF Iteration, Activation
<1> HIDE DEF b
<1>11. /\ Len(native') = n /\ native'[n] = b
       /\ \A j \in 1 .. n : j # n => native'[j] = native[j]
  BY <1>2, <1>3, <1>9, <1>10, <1>n, Replaced
<1>12. PICK c \in Act : c = b /\ c.node = a.node /\ c.next = a.next + 1 /\ SamePlace(c, a)
  BY <1>9 DEF SamePlace
<1>13. (\A i \in a.bottom .. a.top : i \in 0 .. a.top) /\ (\A j \in 1 .. n - 1 : j \in 1 .. n /\ j # n)
       /\ \A i \in 0 .. a.bottom - 1 : i \in 0 .. a.top
  BY <1>4 DEF Sound
<1>14. Remaining(c)' = Tail(ts)
  BY <1>1, <1>3, <1>5, <1>6, <1>8, <1>12, <1>13, RemainingTail
<1>15. Remaining(native[n])' = Tail(ts)
  BY <1>11, <1>12, <1>14 DEF Remaining
<1>16. FramesKept(Activation.fp, depth')
  <2>1. \A i \in Sim!Frames : i >= depth => i = depth \/ i > depth
    BY NFrameAssumption DEF Sim!Frames, IInv, TypeInv
  <2>2. \A i \in Sim!Frames : i >= depth => Fresh(i)
    BY <1>3, <2>1 DEF IInv, FrameInv
  <2>3. QED
    BY <1>1, <2>2 DEF FramesKept, Fresh, IInv, TypeInv
<1>17. \A j \in 1 .. n - 1 :
              /\ native'[j] = native[j] /\ snap'[native[j].fp] = snap[native[j].fp]
              /\ \A i \in native[j].bottom .. native[j].top : stack'[i] = stack[i]
  BY <1>2, <1>3, <1>8, <1>11, <1>13, <1>16, <1>n, OthersKept
<1>18. RunningThread' = <<Head(ts)>> /\ ts = Remaining(native[n])
  BY <1>2, <1>6, <1>7, <1>8
<1>19. QED
  BY <1>1, <1>3, <1>7, <1>11, <1>15, <1>17, <1>18, <1>n, TakeMeans

(* Between two entries the input loop moves frames, and no thread runs.    *)
LEMMA LoopMeans ==
    ASSUME IInv, InputEnter \/ InputLoad
    PROVE  UNCHANGED Meaning!cvars
<1>n. PICK n \in Nat : n = Len(native)
  BY DEF IInv, TypeInv
<1>1. PICK ph \in {"enter", "read", "load"} :
         /\ InLoop("enter") \/ InLoop("load")
         /\ Iteration(Activation.next, ph)
         /\ UNCHANGED <<prog, stack, pc, leaves, err>>
  BY DEF InputEnter, InputLoad, stackvars
<1>2. native # <<>> /\ pc = Return /\ Activation.next \in Nat
  BY <1>1, InLoopFacts
<1>3. PICK a \in Act : a = Activation /\ n \in 1 .. n /\ native \in Seq(Act) /\ a = native[n]
                       /\ a.fp \in Sim!Frames /\ a.fp \in Nat
  BY <1>2, <1>n, Last, FrameNumbers
<1> DEFINE b == [a EXCEPT !.next = a.next, !.phase = ph]
<1>4. b \in Act /\ b = [node |-> a.node, next |-> a.next, phase |-> ph, fp |-> a.fp,
                        bottom |-> a.bottom, top |-> a.top, continue |-> a.continue]
  <2>1. a.next \in Nat /\ ph \in {"enter", "read", "load"}
    BY <1>1, <1>2, <1>3
  <2>2. PICK x \in Nat : x = a.next
    BY <2>1
  <2>3. /\ [a EXCEPT !.next = x, !.phase = ph] =
              [node |-> a.node, next |-> x, phase |-> ph, fp |-> a.fp,
               bottom |-> a.bottom, top |-> a.top, continue |-> a.continue]
        /\ [a EXCEPT !.next = x, !.phase = ph] \in Act
    <3>1. CASE ph = "enter"
      <4>1. /\ [a EXCEPT !.next = x, !.phase = "enter"] =
                  [node |-> a.node, next |-> x, phase |-> "enter", fp |-> a.fp,
                   bottom |-> a.bottom, top |-> a.top, continue |-> a.continue]
            /\ [a EXCEPT !.next = x, !.phase = "enter"] \in Act
        BY Advanced
      <4>2. QED
        BY <3>1, <4>1, Zenon
    <3>2. CASE ph = "read"
      <4>1. /\ [a EXCEPT !.next = x, !.phase = "read"] =
                  [node |-> a.node, next |-> x, phase |-> "read", fp |-> a.fp,
                   bottom |-> a.bottom, top |-> a.top, continue |-> a.continue]
            /\ [a EXCEPT !.next = x, !.phase = "read"] \in Act
        BY Advanced
      <4>2. QED
        BY <3>2, <4>1, Zenon
    <3>3. CASE ph = "load"
      <4>1. /\ [a EXCEPT !.next = x, !.phase = "load"] =
                  [node |-> a.node, next |-> x, phase |-> "load", fp |-> a.fp,
                   bottom |-> a.bottom, top |-> a.top, continue |-> a.continue]
            /\ [a EXCEPT !.next = x, !.phase = "load"] \in Act
        BY Advanced
      <4>2. QED
        BY <3>3, <4>1, Zenon
    <3>4. QED
      BY <2>1, <3>1, <3>2, <3>3
  <2>4. QED
    BY <2>2, <2>3, Zenon
<1>5. native' = [native EXCEPT ![n] = b]
  BY <1>1, <1>3, <1>n DEF Iteration, Activation
<1> HIDE DEF b
<1>6. /\ Len(native') = n /\ native'[n] = b
      /\ \A j \in 1 .. n : j # n => native'[j] = native[j]
  BY <1>2, <1>3, <1>4, <1>5, <1>n, Replaced
<1>7. \A j \in 1 .. n : Alike(native'[j], native[j])
  <2>1. Alike(b, a)
    BY <1>4 DEF Alike, SamePlace
  <2>2. QED
    BY <1>3, <1>6, <2>1 DEF Alike, SamePlace
<1>8. \A i \in 0 .. a.fp : snap'[i] = snap[i]
  <2>1. CASE InputEnter
    BY <2>1 DEF InputEnter, Sim!Descend
  <2>2. CASE InputLoad
    <3>1. snap' = Sim!Forget(snap, a.fp, NoSnap) /\ branches' = Sim!Forget(branches, a.fp, FALSE)
      BY <1>3, <2>2 DEF InputLoad, Sim!Load
    <3>2. FramesKept(a.fp, a.fp + 1)
      BY <1>3, <3>1, Forgotten
    <3>3. QED
      BY <3>2 DEF FramesKept
  <2>3. QED
    BY <2>1, <2>2
<1>9. \A j \in 1 .. n : native[j].fp \in 0 .. a.fp
  <2>1. \A j \in 1 .. n : j # n => native[j].fp < a.fp /\ native[j].fp \in Nat
    BY <1>2, <1>3, <1>n, Last
  <2>2. QED
    BY <1>3, <2>1
<1>10. PendingThreads' = PendingThreads
  <2>1. \A j \in 1 .. Len(native) :
           /\ Alike(native'[j], native[j]) /\ snap'[native[j].fp] = snap[native[j].fp]
           /\ \A i \in native[j].bottom .. native[j].top : stack'[i] = stack[i]
    BY <1>1, <1>7, <1>8, <1>9, <1>n
  <2>2. QED
    BY <1>1, <1>6, <1>n, <2>1, PendingKept
<1>11. RunningThread = <<>> /\ RunningThread' = <<>> /\ HasAborted' = HasAborted
  BY <1>1, <1>2 DEF RunningThread, Running, HasAborted
<1>12. QED
  BY <1>1, <1>10, <1>11 DEF Meaning!cvars

(* The input loop ends when no entry is left.                              *)
LEMMA InputEndMeans ==
    ASSUME IInv, InputEnd
    PROVE  Meaning!Forget
<1>n. PICK n \in Nat : n = Len(native)
  BY DEF IInv, TypeInv
<1>1. /\ InLoop("enter") /\ Activation.next > NItems /\ native' = PopNative
      /\ UNCHANGED <<prog, stack, pc, snap, leaves, err>>
  BY DEF InputEnd, stackvars, simvars
<1>2. PICK a \in Act : a = Activation /\ n \in 1 .. n /\ native \in Seq(Act) /\ a = native[n]
                       /\ native # <<>> /\ n \in Nat \ {0} /\ n - 1 \in Nat
  BY <1>1, <1>n, InLoopFacts, Last
<1>3. pc = Return /\ ~IsAny(a) /\ a.next \in 1 .. NItems + 1
  BY <1>1, <1>2, InLoopFacts
<1>4. Remaining(a) = <<>>
  <2>1. NItems - a.next + 1 = 0
    BY <1>1, <1>2, <1>3, NumbersAssumption
  <2>2. Remaining(a) = [i \in 1 .. 0 |-> Alternative(a, a.next + i - 1)]
    BY <1>3, <2>1, RemainingIs DEF Alternatives
  <2>3. QED
    BY <2>2
<1>5. /\ Len(native') = n - 1 /\ \A j \in 1 .. n - 1 : native'[j] = native[j]
  BY <1>1, <1>2, <1>n, Popped DEF PopNative
<1>6. PICK p, q : p = PendingThreads /\ q = PendingThreads'
  OBVIOUS
<1>7. List(p, n) /\ p # <<>> /\ Len(p) = n /\ p[n] = <<>>
  BY <1>2, <1>4, <1>6, <1>n, PendingIs, ListIsSeq
<1>8. List(q, n - 1)
  BY <1>5, <1>6 DEF List, PendingThreads
<1>9. \A j \in 1 .. n - 1 : q[j] = p[j]
  <2>1. ASSUME NEW j \in 1 .. n - 1 PROVE PendingThreads'[j] = PendingThreads[j]
    <3>1. j \in 1 .. Len(native) /\ j \in 1 .. Len(native') /\ Alike(native'[j], native[j])
      BY <1>2, <1>5, <1>n DEF Alike, SamePlace
    <3>2. QED
      BY <1>1, <3>1, PendingMoves
  <2>2. QED
    BY <1>6, <2>1
<1>10. q = SubSeq(p, 1, Len(p) - 1)
  BY <1>2, <1>7, <1>8, <1>9, FrontIs
<1>11. RunningThread = <<>> /\ RunningThread' = <<>> /\ HasAborted' = HasAborted
  BY <1>1, <1>3 DEF RunningThread, Running, HasAborted
<1>12. PendingThreads' = Meaning!Front(PendingThreads)
  BY <1>6, <1>10 DEF Meaning!Front
<1>13. QED
  BY <1>1, <1>6, <1>7, <1>11, <1>12 DEF Meaning!Forget

LEMMA FailMeans ==
    ASSUME IInv, AnyFails \/ InputFails \/ AnyBranchFails \/ InputEnterFails
    PROVE  Meaning!Abort
<1>1. pc # Done
  <2>1. CASE AnyFails \/ InputFails
    BY <2>1, Patterns, Kinds DEF IInv, TypeInv, AnyFails, InputFails
  <2>2. CASE AnyBranchFails \/ InputEnterFails
    BY <2>2, Kinds DEF AnyBranchFails, InputEnterFails, InLoop, Resumes
  <2>3. QED
    BY <2>1, <2>2
<1>2. ~HasAborted
  BY <1>1 DEF IInv, ErrorInv, HasAborted
<1>3. PICK code : Raise(code) /\ code # "OK"
  BY DEF AnyFails, InputFails, AnyBranchFails, InputEnterFails, LimitOr
<1>4. pc' = Done /\ native' = <<>> /\ UNCHANGED <<prog, leaves>> /\ HasAborted'
  BY <1>3 DEF Raise, HasAborted
<1>5. RunningThread' = <<>> /\ PendingThreads' = <<>>
  BY <1>4 DEF RunningThread, Running, PendingThreads
<1>6. QED
  BY <1>2, <1>4, <1>5 DEF Meaning!Abort, HasAborted

LEMMA StopMeans ==
    ASSUME IInv, ExecReturns \/ Stopped \/ UNCHANGED vars
    PROVE  UNCHANGED Meaning!cvars
<1>1. /\ UNCHANGED <<prog, stack, bottom, top, native, current, snap, leaves, err>>
      /\ pc' = pc \/ (pc = Return /\ pc' = Done)
  BY DEF ExecReturns, Stopped, stackvars, simvars, vars
<1>2. PendingThreads' = PendingThreads /\ HasAborted' = HasAborted
  BY <1>1 DEF PendingThreads, Remaining, Cont, HasAborted
<1>3. RunningThread' = RunningThread
  BY <1>1 DEF RunningThread, Running, Cont
<1>4. QED
  BY <1>1, <1>2, <1>3 DEF Meaning!cvars

LEMMA NextMeans ==
    ASSUME IInv, [Next]_vars
    PROVE  [Meaning!ContinuationsNext]_(Meaning!cvars)
<1>1. CASE Nothing \/ Forward \/ ChainCall \/ ExitPath \/ Primitive
  BY <1>1, PlainMeans, ExitMeans, PrimitiveMeans DEF Meaning!ContinuationsNext
<1>2. CASE AnyStart \/ AnyBranch \/ InputStart \/ InputRead \/ InputEnd
  BY <1>2, AnyStartMeans, AnyBranchMeans, InputStartMeans, InputReadMeans, InputEndMeans
     DEF Meaning!ContinuationsNext
<1>3. CASE AnyFails \/ InputFails \/ AnyBranchFails \/ InputEnterFails
  BY <1>3, FailMeans DEF Meaning!ContinuationsNext
<1>4. CASE InputEnter \/ InputLoad
  BY <1>4, LoopMeans
<1>5. CASE ExecReturns \/ Stopped \/ UNCHANGED vars
  BY <1>5, StopMeans
<1>6. QED
  BY <1>1, <1>2, <1>3, <1>4, <1>5 DEF Next

(* Compiled code on one mutable call stack, with states restored from      *)
(* savepoints, runs exactly the threads that the control flow graph means, *)
(* for every graph, stack and number of frames: no alternative sees the    *)
(* stack or the state of another.                                          *)
THEOREM Refinement == Spec => ImplementsContinuations
<1>1. Init => Meaning!ContinuationsInit
  BY InitMeans
<1>2. IInv /\ [Next]_vars => [Meaning!ContinuationsNext]_(Meaning!cvars)
  BY NextMeans
<1>3. QED
  BY <1>1, <1>2, Invariance, PTL DEF Spec, ImplementsContinuations, Meaning!ContinuationsSpec
=============================================================================
