---------------------------- MODULE SolverProofs ----------------------------
(***************************************************************************)
(* Proofs about Solver, for every graph: models are called once, with all  *)
(* their parameters, and roots are answered in order, with values.         *)
(***************************************************************************)
EXTENDS Solver, WellFoundedInduction, FiniteSetTheorems, SequenceTheorems, TLAPS

-----------------------------------------------------------------------------
(* The least-number principle, for proofs by a least counterexample where  *)
(* an induction would be needed.                                           *)

(* A set of numbers has an element below which, in any well-founded        *)
(* relation that agrees with <, there is none.                             *)
LEMMA LeastByRelation ==
    ASSUME NEW R, IsWellFoundedOn(R, Nat), \A x, y \in Nat : <<y, x>> \in R <=> y < x,
           NEW T, T \subseteq Nat, T # {}
    PROVE  \E x \in T : \A y \in T : x <= y
<1>1. PICK x \in T : \A y \in T : ~(<<y, x>> \in R)
  BY WFMin
<1>2. x \in Nat /\ \A y \in T : y \in Nat /\ ~(y < x)
  BY <1>1, Zenon
<1>3. \A y \in T : x <= y
  BY <1>2
<1>4. QED
  BY <1>3

(* Every nonempty set of natural numbers has a least element.              *)
LEMMA LeastNatural ==
    ASSUME NEW T, T \subseteq Nat, T # {}
    PROVE  \E x \in T : \A y \in T : x <= y
<1>1. \A x, y \in Nat : <<y, x>> \in OpToRel(<, Nat) <=> y < x
  BY DEF OpToRel
<1>2. QED
  BY <1>1, NatLessThanWellFounded, LeastByRelation

-----------------------------------------------------------------------------
(* Functions defined by recursion on 0 .. n, one step at a time: they      *)
(* exist, and their values stay in a set that every step stays in.         *)

Recursive(f, n, base, step) ==
    f = [i \in 0 .. n |-> IF i = 0 THEN base ELSE step[<<i, f[i - 1]>>]]

LEMMA RecursionType ==
    ASSUME NEW S, NEW n \in Nat, NEW base \in S, NEW step,
           \A i \in 1 .. n : \A s \in S : step[<<i, s>>] \in S,
           NEW f, Recursive(f, n, base, step)
    PROVE  f \in [0 .. n -> S]
<1> DEFINE T == {m \in Nat : m <= n /\ f[m] \notin S}
<1>1. /\ DOMAIN f = 0 .. n /\ f[0] = base
      /\ \A i \in 1 .. n : f[i] = step[<<i, f[i - 1]>>]
  <2>1. PICK g : g = f
    OBVIOUS
  <2>2. f = [i \in 0 .. n |-> IF i = 0 THEN base ELSE step[<<i, g[i - 1]>>]]
    BY <2>1, Zenon DEF Recursive
  <2>3. /\ DOMAIN f = 0 .. n
        /\ \A i \in 0 .. n : f[i] = IF i = 0 THEN base ELSE step[<<i, g[i - 1]>>]
    BY <2>2
  <2>4. 0 \in 0 .. n /\ \A i \in 1 .. n : i \in 0 .. n /\ i # 0
    OBVIOUS
  <2>5. f[0] = base /\ \A i \in 1 .. n : f[i] = step[<<i, g[i - 1]>>]
    BY <2>3, <2>4, Zenon
  <2>6. QED
    BY <2>1, <2>3, <2>5, Zenon
<1>2. T = {}
  <2> SUFFICES ASSUME T # {} PROVE FALSE
    OBVIOUS
  <2>1. PICK x \in T : \A y \in T : x <= y
    BY LeastNatural
  <2>2. x # 0
    BY <1>1, <2>1
  <2>3. x - 1 \in Nat /\ x - 1 <= n /\ ~(x <= x - 1) /\ x \in 1 .. n
    BY <2>1, <2>2
  <2>4. f[x - 1] \in S
    BY <2>1, <2>3
  <2>5. QED
    BY <1>1, <2>1, <2>3, <2>4
<1>3. \A m \in 0 .. n : f[m] \in S
  BY <1>2
<1>4. f = [i \in 0 .. n |-> f[i]]
  BY DEF Recursive
<1>5. QED
  BY <1>3, <1>4

LEMMA RecursionExists ==
    ASSUME NEW S, NEW n \in Nat, NEW base \in S, NEW step,
           \A i \in 1 .. n : \A s \in S : step[<<i, s>>] \in S
    PROVE  \E f : Recursive(f, n, base, step)
<1> DEFINE Exists(m) == \E f : Recursive(f, m, base, step)
           T == {m \in Nat : m <= n /\ ~Exists(m)}
<1> HIDE DEF Exists
<1> SUFFICES ASSUME T # {} PROVE FALSE
  <2>1. Exists(n)
    OBVIOUS
  <2>2. QED
    BY <2>1 DEF Exists
<1>1. PICK x \in T : \A y \in T : x <= y
  BY LeastNatural
<1>2. x # 0
  <2>1. Recursive([i \in 0 .. 0 |-> base], 0, base, step)
    BY DEF Recursive
  <2>2. Exists(0)
    BY <2>1 DEF Exists
  <2>3. QED
    BY <1>1, <2>2
<1>3. x \in Nat /\ x - 1 \in Nat /\ x - 1 <= n /\ ~(x <= x - 1)
  BY <1>1, <1>2
<1>4. x - 1 \notin T
  BY <1>1, <1>3
<1>5. Exists(x - 1)
  BY <1>3, <1>4
<1>6. PICK f : Recursive(f, x - 1, base, step)
  BY <1>5 DEF Exists
<1> DEFINE g == [i \in 0 .. x |-> IF i = x THEN step[<<x, f[x - 1]>>] ELSE f[i]]
<1>7. f[0] = base /\ \A i \in 1 .. x - 1 : f[i] = step[<<i, f[i - 1]>>]
  BY <1>3, <1>6 DEF Recursive
<1>8. \A i \in 0 .. x : g[i] = IF i = 0 THEN base ELSE step[<<i, g[i - 1]>>]
  <2> SUFFICES ASSUME NEW i \in 0 .. x
               PROVE  g[i] = IF i = 0 THEN base ELSE step[<<i, g[i - 1]>>]
    OBVIOUS
  <2>1. CASE i = 0
    BY <1>2, <1>3, <1>7, <2>1
  <2>2. CASE i # 0
    <3>1. g[i - 1] = f[i - 1]
      BY <1>3, <2>2
    <3>2. g[i] = step[<<i, f[i - 1]>>]
      <4>1. CASE i = x
        BY <4>1
      <4>2. CASE i # x
        <5>1. i \in 1 .. x - 1 /\ g[i] = f[i]
          BY <1>3, <2>2, <4>2
        <5>2. QED
          BY <1>7, <5>1
      <4>3. QED
        BY <4>1, <4>2
    <3> HIDE DEF g
    <3>3. QED
      BY <2>2, <3>1, <3>2
  <2>3. QED
    BY <2>1, <2>2
<1>9. g = [i \in 0 .. x |-> g[i]]
  OBVIOUS
<1> HIDE DEF g
<1>10. Recursive(g, x, base, step)
  BY <1>8, <1>9 DEF Recursive
<1>11. QED
  BY <1>1, <1>10 DEF Exists

-----------------------------------------------------------------------------
(* What the graph is.                                                      *)

Link == [ei : Nat, m : Mod]
VarState == [cost : Int, chain : Link \cup {None}, value : BOOLEAN]
ModState == [cost : Int, chain : BOOLEAN, value : BOOLEAN]

LEMMA SeqIs ==
    ASSUME NEW S, NEW s \in Seq(S)
    PROVE  /\ Len(s) \in Nat /\ DOMAIN s = 1 .. Len(s)
           /\ \A i \in DOMAIN s : i \in Nat /\ i >= 1 /\ s[i] \in S
  OBVIOUS

LEMMA ModIs ==
    ASSUME G \in Graphs, NEW m \in Mod
    PROVE  /\ G.mod[m].k \in Nat /\ G.mod[m].c \in Nat \ {0} /\ G.mod[m].cmin \in Nat
           /\ G.mod[m].params \in Seq(Seq(Var))
           /\ G.mod[m].given \in Seq(G.given)
           /\ G.mod[m].shadows \in Seq([penalty : Nat, over : Seq(DOMAIN G.shadow)])
           /\ m # None
  BY SolverAssumption DEF IsGraph, Mod, Var

LEMMA OverIs ==
    ASSUME G \in Graphs, NEW m \in Mod, NEW e \in 1 .. Len(G.mod[m].shadows)
    PROVE  /\ G.mod[m].shadows[e].over \in Seq(DOMAIN G.shadow)
           /\ G.mod[m].shadows[e].penalty \in Nat
<1> DEFINE R == [penalty : Nat, over : Seq(DOMAIN G.shadow)]
<1>1. PICK sh \in Seq(R) : sh = G.mod[m].shadows
  BY ModIs
<1> HIDE DEF R
<1>2. sh[e] \in R
  BY <1>1
<1>3. QED
  BY <1>1, <1>2 DEF R

LEMMA VarIs ==
    ASSUME G \in Graphs
    PROVE  /\ Var \cap Given = {} /\ G.given \subseteq Given /\ None \notin Link
           /\ \A x \in Var : G.models[x] \in Seq(Seq(Mod))
           /\ \A w \in DOMAIN G.shadow : /\ G.shadow[w].x \in Var \cup Given
                                         /\ G.shadow[w].next \in DOMAIN G.shadow \cup {None}
           /\ IsFiniteSet(DOMAIN G.shadow)
           /\ \A r \in G.roots : r # <<>> /\ (r \in Seq(Var) \/ r \in Seq(Given))
<1>1. IsGraph(G)
  BY SolverAssumption
<1>2. \A r \in G.roots : r # <<>> /\ (r \in Seq(Var) \/ r \in Seq(G.given))
  BY <1>1 DEF IsGraph, Var
<1>3. G.given \subseteq Given
  BY <1>1 DEF IsGraph
<1>4. \A r \in Seq(G.given) : r \in Seq(Given)
  BY <1>3
<1>5. QED
  BY <1>1, <1>2, <1>4 DEF IsGraph, Var, Mod, Link

LEMMA Division ==
    ASSUME NEW a \in Int, NEW M \in Nat, a <= M, NEW c \in Nat \ {0}
    PROVE  a \div c \in Int /\ a \div c <= M
<1>1. PICK q \in Int : q = a \div c /\ c * q <= a
  OBVIOUS
<1>2. CASE q <= 0
  BY <1>1, <1>2
<1>3. CASE q > 0
  <2>1. c * q >= q
    BY <1>3
  <2>2. QED
    BY <1>1, <2>1
<1>4. QED
  BY <1>1, <1>2, <1>3

LEMMA CandidatesCounted ==
    ASSUME G \in Graphs, NEW x \in Var
    PROVE  NCand(x) \in Nat
<1>1. G.models[x] \in Seq(Seq(Mod))
  BY VarIs
<1>2. PICK n \in Nat : DOMAIN G.models[x] = 1 .. n
  BY <1>1
<1>i. IsFiniteSet(1 .. n)
  BY FS_Interval
<1>3. IsFiniteSet({ei \in DOMAIN G.models[x] : G.models[x][ei] # <<>>})
  BY <1>2, <1>i, FS_Subset
<1>4. QED
  BY <1>3, FS_CardinalityType DEF NCand

-----------------------------------------------------------------------------
(* The candidate loop of S_select_chain: what it chooses is a candidate,   *)
(* within the bound.                                                       *)

(* FlattenSeq appends the sequences one after the other.                   *)
Flattens(D, ss, n, S) ==
    /\ \A i \in 1 .. n + 1 : D[i] \in Seq(S)
    /\ D[1] = ss[1] /\ \A i \in 1 .. n : D[i + 1] = D[i] \o ss[i + 1]
    /\ FlattenSeq(ss) = D[n + 1]

LEMMA Flattened ==
    ASSUME NEW S, NEW ss \in Seq(Seq(S)), NEW n \in Nat, Len(ss) = n + 1
    PROVE  \E D : Flattens(D, ss, n, S)
<1>1. Len(ss) = n + 1 /\ Len(ss) # 0
  OBVIOUS
<1> DEFINE step == [x \in (1 .. n) \X Seq(S) |-> x[2] \o ss[x[1] + 1]]
           D == CHOOSE f : f = [i \in 1 .. n + 1 |-> IF i = 1 THEN ss[i] ELSE f[i - 1] \o ss[i]]
<1>2. \A i \in 1 .. n + 1 : ss[i] \in Seq(S)
  BY <1>1
<1>3. \A i \in 1 .. n : \A t \in Seq(S) :
         step[<<i, t>>] = t \o ss[i + 1] /\ step[<<i, t>>] \in Seq(S)
  <2> SUFFICES ASSUME NEW i \in 1 .. n, NEW t \in Seq(S)
               PROVE  step[<<i, t>>] = t \o ss[i + 1] /\ step[<<i, t>>] \in Seq(S)
    BY Zenon
  <2>1. <<i, t>> \in (1 .. n) \X Seq(S) /\ <<i, t>>[1] = i /\ <<i, t>>[2] = t
    OBVIOUS
  <2>2. step[<<i, t>>] = t \o ss[i + 1]
    BY <2>1
  <2>3. ss[i + 1] \in Seq(S)
    BY <1>2
  <2>4. t \o ss[i + 1] \in Seq(S)
    BY <2>3, ConcatProperties
  <2> HIDE DEF step
  <2>5. QED
    BY <2>2, <2>4
<1>4. ss[1] \in Seq(S)
  BY <1>2
<1> HIDE DEF step
<1>5. PICK g : Recursive(g, n, ss[1], step)
  <2>1. \E g : Recursive(g, n, ss[1], step)
    BY <1>3, <1>4, RecursionExists
  <2>2. QED
    BY <2>1
<1>6. g \in [0 .. n -> Seq(S)]
  BY <1>3, <1>4, <1>5, RecursionType
<1> DEFINE h == [i \in 1 .. n + 1 |-> g[i - 1]]
<1>7. \A i \in 1 .. n + 1 : h[i] = IF i = 1 THEN ss[i] ELSE h[i - 1] \o ss[i]
  <2> SUFFICES ASSUME NEW i \in 1 .. n + 1
               PROVE  h[i] = IF i = 1 THEN ss[i] ELSE h[i - 1] \o ss[i]
    OBVIOUS
  <2>1. CASE i = 1
    BY <1>5, <2>1 DEF Recursive
  <2>2. CASE i # 1
    <3>1. PICK k \in 1 .. n : k + 1 = i /\ k - 1 \in 0 .. n
      <4>1. i - 1 \in 1 .. n /\ i - 1 + 1 = i /\ i - 1 - 1 \in 0 .. n
        BY <2>2
      <4>2. QED
        BY <4>1
    <3>2. g[k] = step[<<k, g[k - 1]>>]
      BY <1>5, <3>1 DEF Recursive
    <3>3. g[k] = g[k - 1] \o ss[k + 1]
      BY <1>3, <1>6, <3>1, <3>2
    <3>4. h[i] = g[k] /\ h[i - 1] = g[k - 1]
      <4>1. i - 1 = k /\ k \in 1 .. n + 1
        BY <3>1
      <4>2. h[i] = g[i - 1] /\ h[k] = g[k - 1]
        BY <4>1
      <4> HIDE DEF h
      <4>3. QED
        BY <4>1, <4>2, Zenon
    <3> HIDE DEF h
    <3>5. QED
      BY <2>2, <3>1, <3>3, <3>4
  <2>3. QED
    BY <2>1, <2>2
<1>8. h = [i \in 1 .. n + 1 |-> h[i]]
  OBVIOUS
<1> HIDE DEF h
<1>9. h = [i \in 1 .. n + 1 |-> IF i = 1 THEN ss[i] ELSE h[i - 1] \o ss[i]]
  BY <1>7, <1>8
<1>10. D = [i \in 1 .. n + 1 |-> IF i = 1 THEN ss[i] ELSE D[i - 1] \o ss[i]]
  BY <1>9, Zenon
<1>11. FlattenSeq(ss) = D[n + 1]
  BY <1>1 DEF FlattenSeq
<1> HIDE DEF D
<1>12. D[1] = ss[1] /\ \A i \in 1 .. n : D[i + 1] = D[i] \o ss[i + 1]
  <2>1. D[1] = ss[1]
    BY <1>10
  <2>2. ASSUME NEW i \in 1 .. n PROVE D[i + 1] = D[i] \o ss[i + 1]
    <3>1. PICK k \in 1 .. n + 1 : k = i + 1 /\ k # 1 /\ k - 1 = i
      OBVIOUS
    <3>2. D[k] = D[k - 1] \o ss[k]
      BY <1>10, <3>1
    <3>3. QED
      BY <3>1, <3>2
  <2>3. QED
    BY <2>1, <2>2
<1> DEFINE T == {i \in Nat : i <= n /\ D[i + 1] \notin Seq(S)}
<1>13. T = {}
  <2> SUFFICES ASSUME T # {} PROVE FALSE
    OBVIOUS
  <2>1. PICK k \in T : \A j \in T : k <= j
    BY LeastNatural
  <2>2. k # 0
    BY <1>4, <1>12, <2>1
  <2>3. k \in 1 .. n /\ k - 1 \in Nat /\ k - 1 <= n /\ ~(k <= k - 1) /\ k - 1 + 1 = k
    BY <2>1, <2>2
  <2>4. D[k] \in Seq(S)
    BY <2>1, <2>3
  <2>5. D[k + 1] = D[k] \o ss[k + 1]
    BY <1>12, <2>3
  <2>6. ss[k + 1] \in Seq(S)
    BY <1>2, <2>3
  <2>7. D[k + 1] \in Seq(S)
    BY <2>4, <2>5, <2>6, ConcatProperties
  <2>8. QED
    BY <2>1, <2>7
<1>14. \A i \in 1 .. n + 1 : D[i] \in Seq(S)
  <2> SUFFICES ASSUME NEW i \in 1 .. n + 1 PROVE D[i] \in Seq(S)
    OBVIOUS
  <2>1. PICK k \in Nat : k + 1 = i /\ k <= n
    <3>1. i - 1 \in Nat /\ i - 1 + 1 = i /\ i - 1 <= n
      OBVIOUS
    <3>2. QED
      BY <3>1, Zenon
  <2>2. ~(k \in Nat /\ k <= n /\ D[k + 1] \notin Seq(S))
    BY <1>13, Zenon
  <2>3. QED
    BY <2>1, <2>2
<1>15. Flattens(D, ss, n, S)
  BY <1>11, <1>12, <1>14 DEF Flattens
<1>16. QED
  BY <1>15

LEMMA FlattenIs ==
    ASSUME NEW S, NEW ss \in Seq(Seq(S))
    PROVE  FlattenSeq(ss) \in Seq(S)
<1>1. CASE Len(ss) = 0
  <2>1. ss = <<>>
    BY <1>1
  <2>2. QED
    BY <1>1, <2>1 DEF FlattenSeq
<1>2. CASE Len(ss) # 0
  <2>1. PICK n \in Nat : Len(ss) = n + 1
    <3>1. Len(ss) - 1 \in Nat /\ Len(ss) = Len(ss) - 1 + 1
      BY <1>2
    <3>2. QED
      BY <3>1, Zenon
  <2>2. \E D : Flattens(D, ss, n, S)
    BY <2>1, Flattened
  <2>3. PICK D : Flattens(D, ss, n, S)
    BY <2>2
  <2>4. n + 1 \in 1 .. n + 1
    OBVIOUS
  <2>5. QED
    BY <2>3, <2>4 DEF Flattens
<1>3. QED
  BY <1>1, <1>2

(* Nothing is lost by it.                                                  *)
LEMMA FlattenHas ==
    ASSUME NEW S, NEW ss \in Seq(Seq(S)), NEW a \in DOMAIN ss, NEW b \in DOMAIN ss[a]
    PROVE  \E i \in DOMAIN FlattenSeq(ss) : FlattenSeq(ss)[i] = ss[a][b]
<1>1. PICK n \in Nat : Len(ss) = n + 1
  <2>1. Len(ss) - 1 \in Nat /\ Len(ss) = Len(ss) - 1 + 1
    OBVIOUS
  <2>2. QED
    BY <2>1, Zenon
<1>2. \E D : Flattens(D, ss, n, S)
  BY <1>1, Flattened
<1>3. PICK D : Flattens(D, ss, n, S)
  BY <1>2
<1>4. /\ \A i \in 1 .. n + 1 : D[i] \in Seq(S)
      /\ D[1] = ss[1] /\ \A i \in 1 .. n : D[i + 1] = D[i] \o ss[i + 1]
      /\ FlattenSeq(ss) = D[n + 1]
  BY <1>3 DEF Flattens
<1>5. a \in 1 .. n + 1 /\ \A i \in 1 .. n + 1 : ss[i] \in Seq(S)
  BY <1>1
<1> DEFINE Has(k) == \E i \in DOMAIN D[k] : D[k][i] = ss[a][b]
<1>6. Has(a)
  <2>1. CASE a = 1
    BY <1>4, <2>1
  <2>2. CASE a # 1
    <3>1. PICK k \in 1 .. n : k + 1 = a
      <4>1. a - 1 \in 1 .. n /\ a - 1 + 1 = a
        BY <1>5, <2>2
      <4>2. QED
        BY <4>1
    <3>2. PICK u \in Seq(S) : u = D[k]
      BY <1>4, <3>1
    <3>3. PICK v \in Seq(S) : v = ss[a]
      BY <1>5
    <3>4. D[a] = u \o v
      BY <1>4, <3>1, <3>2, <3>3
    <3>5. b \in 1 .. Len(v)
      BY <3>3
    <3>6. Len(u) + b \in DOMAIN (u \o v) /\ (u \o v)[Len(u) + b] = v[b]
      BY <3>5
    <3>7. QED
      BY <3>3, <3>4, <3>6, Zenon
  <2>3. QED
    BY <2>1, <2>2
<1>7. ASSUME NEW k \in 1 .. n, Has(k) PROVE Has(k + 1)
  <2>1. PICK u \in Seq(S) : u = D[k]
    BY <1>4, <1>7
  <2>2. PICK v \in Seq(S) : v = ss[k + 1]
    BY <1>5, <1>7
  <2>3. D[k + 1] = u \o v
    BY <1>4, <1>7, <2>1, <2>2
  <2>4. PICK i \in DOMAIN u : u[i] = ss[a][b]
    BY <1>7, <2>1
  <2>5. i \in DOMAIN (u \o v) /\ (u \o v)[i] = u[i]
    BY <2>4
  <2>6. QED
    BY <2>3, <2>4, <2>5, Zenon
<1> HIDE DEF Has
<1> DEFINE T == {i \in Nat : a + i <= n + 1 /\ ~Has(a + i)}
<1>8. T = {}
  <2> SUFFICES ASSUME T # {} PROVE FALSE
    OBVIOUS
  <2>1. PICK k \in T : \A j \in T : k <= j
    BY LeastNatural
  <2>2. CASE k = 0
    <3>1. a + k = a
      BY <1>5, <2>2
    <3>2. QED
      BY <1>6, <2>1, <3>1
  <2>3. CASE k # 0
    <3>1. k - 1 \in Nat /\ a + (k - 1) <= n + 1 /\ ~(k <= k - 1) /\ a + (k - 1) \in 1 .. n
          /\ a + (k - 1) + 1 = a + k
      BY <1>5, <2>1, <2>3
    <3>2. Has(a + (k - 1))
      BY <2>1, <3>1
    <3>3. Has(a + k)
      BY <1>7, <3>1, <3>2
    <3>4. QED
      BY <2>1, <3>3
  <2>4. QED
    BY <2>2, <2>3
<1>9. n + 1 - a \in Nat /\ a + (n + 1 - a) <= n + 1 /\ a + (n + 1 - a) = n + 1
  BY <1>5
<1>10. Has(n + 1)
  <2>1. ~(n + 1 - a \in Nat /\ a + (n + 1 - a) <= n + 1 /\ ~Has(a + (n + 1 - a)))
    BY <1>8, Zenon
  <2>2. QED
    BY <1>9, <2>1
<1>11. QED
  BY <1>4, <1>10 DEF Has

Candidates(x) == {c \in Link : c.m \in ModelsOf(G, x) /\ x \in Returned(c.m)}

LEMMA CandsAre ==
    ASSUME G \in Graphs, NEW x \in Var
    PROVE  Cands(x) \in Seq(Candidates(x))
<1> DEFINE ss == [ei \in DOMAIN G.models[x] |->
                     [j \in DOMAIN G.models[x][ei] |-> [ei |-> ei, m |-> G.models[x][ei][j]]]]
<1>1. G.models[x] \in Seq(Seq(Mod))
  BY VarIs
<1>2. ASSUME NEW ei \in DOMAIN G.models[x], NEW j \in DOMAIN G.models[x][ei]
      PROVE  [ei |-> ei, m |-> G.models[x][ei][j]] \in Candidates(x)
  <2>1. ei \in Nat /\ G.models[x][ei] \in Seq(Mod) /\ G.models[x][ei][j] \in Mod
    BY <1>1, SMTT(30)
  <2>2. G.models[x][ei] \in Range(G.models[x]) /\ G.models[x][ei][j] \in Range(G.models[x][ei])
    BY DEF Range
  <2>3. \E r \in Range(G.mod[G.models[x][ei][j]].returns) : x \in Range(r.over)
    BY <2>2, SolverAssumption, Zenon DEF IsGraph, Var
  <2>4. x \in Returned(G.models[x][ei][j])
    BY <2>3 DEF Returned
  <2>5. G.models[x][ei][j] \in ModelsOf(G, x)
    BY <2>2, Zenon DEF ModelsOf
  <2>6. QED
    BY <2>1, <2>4, <2>5 DEF Candidates, Link
<1>3. ASSUME NEW ei \in DOMAIN G.models[x] PROVE ss[ei] \in Seq(Candidates(x))
  <2>0. G.models[x][ei] \in Seq(Mod)
    BY <1>1, SeqIs, Zenon
  <2>1. PICK n \in Nat : DOMAIN G.models[x][ei] = 1 .. n
    BY <2>0, SeqIs, Zenon
  <2>2. ss[ei] \in [1 .. n -> Candidates(x)]
    BY <1>2, <2>1
  <2> HIDE DEF ss
  <2>3. QED
    BY <2>2
<1>4. PICK n \in Nat : DOMAIN G.models[x] = 1 .. n
  BY <1>1
<1>5. ss \in [1 .. n -> Seq(Candidates(x))]
  BY <1>3, <1>4
<1>6. Cands(x) = FlattenSeq(ss)
  BY DEF Cands
<1> HIDE DEF ss
<1>7. ss \in Seq(Seq(Candidates(x)))
  BY <1>5
<1>8. QED
  BY <1>6, <1>7, FlattenIs

(* What the loop knows after some candidates.                              *)
Found(x, beta) == {b \in [cand : Link \cup {None}, beta : Int, cost : Int] :
                      /\ b.beta <= beta /\ b.cost <= Inf
                      /\ b.cost < Inf => b.cand \in Candidates(x)}

LEMMA BetterFound ==
    ASSUME NEW x, NEW beta \in Int, NEW b \in Found(x, beta), NEW c \in Candidates(x),
           NEW cost \in Int
    PROVE  Better(b, c, cost) \in Found(x, beta)
<1>1. /\ b.cand \in Link \cup {None} /\ b.beta \in Int /\ b.cost \in Int
      /\ b.beta <= beta /\ b.cost <= Inf /\ (b.cost < Inf => b.cand \in Candidates(x))
  BY DEF Found
<1>2. c \in Link
  BY DEF Candidates
<1>3. Inf \in Int
  BY SolverAssumption
<1> DEFINE z == Better(b, c, cost)
<1>4. z = [cand |-> IF cost < b.cost THEN c ELSE b.cand,
           beta |-> Smaller(b.beta, Larger(b.cost, cost)), cost |-> Smaller(b.cost, cost)]
  BY DEF Better
<1>5. Smaller(b.cost, cost) \in Int /\ Smaller(b.cost, cost) <= Inf
      /\ Smaller(b.beta, Larger(b.cost, cost)) \in Int
      /\ Smaller(b.beta, Larger(b.cost, cost)) <= beta
  BY <1>1, <1>3 DEF Smaller, Larger
<1>6. Smaller(b.cost, cost) < Inf => (IF cost < b.cost THEN c ELSE b.cand) \in Candidates(x)
  BY <1>1, <1>3 DEF Smaller
<1> HIDE DEF z
<1>7. z \in [cand : Link \cup {None}, beta : Int, cost : Int]
  BY <1>1, <1>2, <1>4, <1>5
<1>8. z.cost = Smaller(b.cost, cost) /\ z.beta = Smaller(b.beta, Larger(b.cost, cost))
      /\ z.cand = IF cost < b.cost THEN c ELSE b.cand
  BY <1>4
<1>9. z \in Found(x, beta)
  BY <1>5, <1>6, <1>7, <1>8 DEF Found
<1>10. QED
  BY <1>9 DEF z

(* Best, one candidate after the other.                                    *)
Scans(D, x, beta, cs, n) ==
    /\ D[0] = [cand |-> None, beta |-> beta, cost |-> Inf]
    /\ \A i \in 1 .. n : D[i] = Better(D[i - 1], cs[i], mp[cs[i].m].cost)
    /\ \A i \in 0 .. n : D[i] \in Found(x, beta)
    /\ Best(x, beta) = D[n]

LEMMA Scanning ==
    ASSUME G \in Graphs, mp \in [Mod -> ModState], NEW x \in Var, NEW beta \in Int,
           NEW n \in Nat, n = Len(Cands(x))
    PROVE  \E D : Scans(D, x, beta, Cands(x), n)
<1>1. PICK cs \in Seq(Candidates(x)) : cs = Cands(x)
  BY CandsAre
<1>2. n = Len(cs)
  BY <1>1
<1>3. \A i \in 1 .. n : cs[i] \in Candidates(x) /\ mp[cs[i].m].cost \in Int
  BY <1>2 DEF Candidates, Link, ModState
<1> DEFINE S == Found(x, beta)
           base == [cand |-> None, beta |-> beta, cost |-> Inf]
           Step(i, b) == Better(b, cs[i], mp[cs[i].m].cost)
           step == [z \in (1 .. n) \X S |-> Step(z[1], z[2])]
           D == CHOOSE f : f = [i \in 0 .. n |-> IF i = 0 THEN base ELSE Step(i, f[i - 1])]
<1>4. Best(x, beta) = D[n]
  BY <1>1, <1>2 DEF Best
<1>5. base \in S
  <2>1. Inf \in Int /\ Inf <= Inf /\ ~(Inf < Inf) /\ beta <= beta
    BY SolverAssumption
  <2>2. base \in [cand : Link \cup {None}, beta : Int, cost : Int]
    BY <2>1
  <2>3. base.cost = Inf /\ base.beta = beta
    OBVIOUS
  <2> HIDE DEF base
  <2>4. QED
    BY <2>1, <2>2, <2>3 DEF Found
<1> HIDE DEF base
<1>6. \A i \in 1 .. n : \A b \in S : Step(i, b) \in S
  BY <1>3, BetterFound
<1> HIDE DEF S, Step
<1>7. \A i \in 1 .. n : \A b \in S : step[<<i, b>>] = Step(i, b)
  OBVIOUS
<1> HIDE DEF step
<1>8. \A i \in 1 .. n : \A b \in S : step[<<i, b>>] \in S
  BY <1>6, <1>7, Zenon
<1>9. PICK g : Recursive(g, n, base, step)
  <2>1. \E g : Recursive(g, n, base, step)
    BY <1>5, <1>8, RecursionExists
  <2>2. QED
    BY <2>1
<1>10. g \in [0 .. n -> S]
  BY <1>5, <1>8, <1>9, RecursionType
<1>11. g = [i \in 0 .. n |-> IF i = 0 THEN base ELSE Step(i, g[i - 1])]
  <2>1. ASSUME NEW i \in 0 .. n PROVE g[i] = IF i = 0 THEN base ELSE Step(i, g[i - 1])
    <3>1. g[i] = IF i = 0 THEN base ELSE step[<<i, g[i - 1]>>]
      BY <1>9 DEF Recursive
    <3>2. CASE i = 0
      BY <3>1, <3>2
    <3>3. CASE i # 0
      <4>1. i \in 1 .. n /\ i - 1 \in 0 .. n
        BY <3>3
      <4>2. step[<<i, g[i - 1]>>] = Step(i, g[i - 1])
        BY <1>7, <1>10, <4>1
      <4>3. QED
        BY <3>1, <3>3, <4>2
    <3>4. QED
      BY <3>2, <3>3
  <2>2. QED
    BY <1>10, <2>1
<1>12. D = [i \in 0 .. n |-> IF i = 0 THEN base ELSE Step(i, D[i - 1])]
  BY <1>11
<1> HIDE DEF D
<1>13. D[0] = base /\ \A i \in 1 .. n : D[i] = Step(i, D[i - 1])
  <2>1. ASSUME NEW i \in 0 .. n PROVE D[i] = IF i = 0 THEN base ELSE Step(i, D[i - 1])
    BY <1>12, Zenon
  <2>2. 0 \in 0 .. n /\ \A i \in 1 .. n : i \in 0 .. n /\ i # 0
    OBVIOUS
  <2>3. QED
    BY <2>1, <2>2, Zenon
<1> DEFINE T == {i \in Nat : i <= n /\ D[i] \notin S}
<1>14. T = {}
  <2> SUFFICES ASSUME T # {} PROVE FALSE
    OBVIOUS
  <2>1. PICK k \in T : \A j \in T : k <= j
    BY LeastNatural
  <2>2. k # 0
    BY <1>5, <1>13, <2>1
  <2>3. k \in 1 .. n /\ k - 1 \in Nat /\ k - 1 <= n /\ ~(k <= k - 1)
    BY <2>1, <2>2
  <2>4. D[k - 1] \in S
    BY <2>1, <2>3
  <2>5. QED
    BY <1>6, <1>13, <2>1, <2>3, <2>4
<1>15. \A i \in 0 .. n : D[i] \in S
  <2> SUFFICES ASSUME NEW i \in 0 .. n PROVE D[i] \in S
    OBVIOUS
  <2>1. ~(i \in Nat /\ i <= n /\ D[i] \notin S)
    BY <1>14, Zenon
  <2>2. QED
    BY <2>1
<1>16. Scans(D, x, beta, cs, n)
  BY <1>4, <1>13, <1>15, Zenon DEF Scans, S, Step, base
<1>17. QED
  BY <1>1, <1>16

LEMMA BestIs ==
    ASSUME G \in Graphs, mp \in [Mod -> ModState], NEW x \in Var, NEW beta \in Int
    PROVE  Best(x, beta) \in Found(x, beta)
<1>1. PICK n \in Nat : n = Len(Cands(x))
  BY CandsAre
<1>2. \E D : Scans(D, x, beta, Cands(x), n)
  BY <1>1, Scanning
<1>3. PICK D : Scans(D, x, beta, Cands(x), n)
  BY <1>2
<1>4. n \in 0 .. n
  OBVIOUS
<1>5. QED
  BY <1>3, <1>4, Zenon DEF Scans

-----------------------------------------------------------------------------
(* scanv_computed, scanv_given: what a check scans has values.             *)
LEMMA ScannedIs ==
    ASSUME G \in Graphs, NEW w \in DOMAIN G.shadow
    PROVE  /\ w \in Scanned(w) /\ Scanned(w) \subseteq DOMAIN G.shadow
           /\ \A u \in Scanned(w) : u = w \/ HasValue(G.shadow[u].x)
<1>1. IsFiniteSet(DOMAIN G.shadow)
        /\ \A v \in DOMAIN G.shadow : G.shadow[v].next \in DOMAIN G.shadow \cup {None}
  BY VarIs
<1>2. PICK n \in Nat : n = Cardinality(DOMAIN G.shadow)
  BY <1>1, FS_CardinalityType
<1> DEFINE S == {T \in SUBSET DOMAIN G.shadow :
                    w \in T /\ \A u \in T : u = w \/ HasValue(G.shadow[u].x)}
           Step(b) == b \cup {u \in Following(b) : HasValue(G.shadow[u].x)}
           step == [z \in (1 .. n) \X S |-> Step(z[2])]
           D == CHOOSE f : f = [i \in 0 .. n |-> IF i = 0 THEN {w} ELSE Step(f[i - 1])]
<1>3. {w} \in S
  OBVIOUS
<1>4. \A b \in S : Step(b) \in S
  BY <1>1 DEF Following
<1>5. Scanned(w) = D[n]
  BY <1>2 DEF Scanned
<1> HIDE DEF S, Step
<1>6. \A i \in 1 .. n : \A b \in S : step[<<i, b>>] = Step(b)
  OBVIOUS
<1> HIDE DEF step
<1>7. \A i \in 1 .. n : \A b \in S : step[<<i, b>>] \in S
  BY <1>4, <1>6, Zenon
<1>8. PICK g : Recursive(g, n, {w}, step)
  <2>1. \E g : Recursive(g, n, {w}, step)
    BY <1>3, <1>7, RecursionExists
  <2>2. QED
    BY <2>1
<1>9. g \in [0 .. n -> S]
  BY <1>3, <1>7, <1>8, RecursionType
<1>10. g = [i \in 0 .. n |-> IF i = 0 THEN {w} ELSE Step(g[i - 1])]
  <2>1. ASSUME NEW i \in 0 .. n PROVE g[i] = IF i = 0 THEN {w} ELSE Step(g[i - 1])
    <3>1. g[i] = IF i = 0 THEN {w} ELSE step[<<i, g[i - 1]>>]
      BY <1>8 DEF Recursive
    <3>2. CASE i = 0
      BY <3>1, <3>2
    <3>3. CASE i # 0
      <4>1. i \in 1 .. n /\ i - 1 \in 0 .. n
        BY <3>3
      <4>2. step[<<i, g[i - 1]>>] = Step(g[i - 1])
        BY <1>6, <1>9, <4>1
      <4>3. QED
        BY <3>1, <3>3, <4>2
    <3>4. QED
      BY <3>2, <3>3
  <2>2. QED
    BY <1>9, <2>1
<1>11. D = [i \in 0 .. n |-> IF i = 0 THEN {w} ELSE Step(D[i - 1])]
  BY <1>10
<1> HIDE DEF D
<1>12. D[0] = {w} /\ \A i \in 1 .. n : D[i] = Step(D[i - 1])
  <2>1. D[0] = {w}
    BY <1>11
  <2>2. ASSUME NEW i \in 1 .. n PROVE D[i] = Step(D[i - 1])
    <3>1. i \in 0 .. n /\ i # 0
      OBVIOUS
    <3>2. QED
      BY <1>11, <3>1, Zenon
  <2>3. QED
    BY <2>1, <2>2
<1> DEFINE T == {i \in Nat : i <= n /\ D[i] \notin S}
<1>13. T = {}
  <2> SUFFICES ASSUME T # {} PROVE FALSE
    OBVIOUS
  <2>1. PICK k \in T : \A j \in T : k <= j
    BY LeastNatural
  <2>2. k # 0
    BY <1>3, <1>12, <2>1
  <2>3. k \in 1 .. n /\ k - 1 \in Nat /\ k - 1 <= n /\ ~(k <= k - 1)
    BY <2>1, <2>2
  <2>4. D[k - 1] \in S
    BY <2>1, <2>3
  <2>5. QED
    BY <1>4, <1>12, <2>1, <2>3, <2>4
<1>14. n \notin T /\ n <= n
  BY <1>13
<1>15. D[n] \in S
  BY <1>14
<1>16. QED
  BY <1>5, <1>15 DEF S

-----------------------------------------------------------------------------
(* The inductive invariant.                                                *)

Frame == [x : Var, beta : Int, ncand : Int, where : {"none", "shadow", "param"},
          m : Mod \cup {None}, ei : Nat, mbeta : Int, costS : Int, betaS : Int,
          edge : Nat, pos : Nat, ssmax : Nat]
Base == [where |-> "done", ncand |-> 0]
Activation == [x : Var, m : Mod, edge : Nat \ {0}, pos : Nat \ {0}]

TypeInv ==
    /\ G \in Graphs
    /\ sp \in [Var -> VarState]
    /\ mp \in [Mod -> ModState]
    /\ sw \in [DOMAIN G.shadow -> {"none", "pass", "fail"}]
    /\ arg \in [x : Var \cup {None}, beta : Int, cost : Int]
    /\ V \in Seq(Activation)
    /\ cur \in [num : Nat, i : Nat, j : Nat]
    /\ have \subseteq Given
    /\ val \in [Var -> Mod \cup {None}]
    /\ called \subseteq Mod

(* Where each step of the solver finds the two stacks.                     *)
Searching == {"candidate", "shadow", "check", "param", "bound", "chosen", "failed"}
Passing == {"start", "givens", "chains", "values", "collect"}
Where ==
    /\ pc \in Searching \cup Passing \cup {"solve", "value", "args", "unpack", "yield"}
    /\ pc \in Searching => Len(X) > 1 /\ V = <<>>
    /\ pc \in Passing => Len(X) = 1 /\ V = <<>>
    /\ pc = "solve" =>
          V = <<>> /\ arg.x \in Var /\ sp[arg.x].chain = None /\ arg.beta <= MaxCost
    /\ pc = "value" => arg.x \in Var
    /\ pc \in {"args", "unpack"} => V # <<>>
    /\ pc = "yield" => \/ status.code = "OK" /\ Len(X) = 1 /\ V = <<>>
                       \/ status.code = "MODCALL" /\ V # <<>>
                       \/ status.code = "VREF"

(* A frame of the work stack in the loop over shadows: all instances that  *)
(* it has left behind on the current edge have passed.                     *)
InShadow(f, mm, w) ==
    /\ f.m \in Mod /\ f.x \in Returned(f.m) /\ mm[f.m].chain = FALSE
    /\ f.costS >= 0 /\ f.betaS <= MaxCost
    /\ f.edge \in 1 .. Len(G.mod[f.m].shadows) + 1 /\ f.pos >= 1
    /\ f.edge <= Len(G.mod[f.m].shadows) =>
          /\ f.pos <= Len(G.mod[f.m].shadows[f.edge].over) + 1
          /\ \A q \in 1 .. f.pos - 1 : w[G.mod[f.m].shadows[f.edge].over[q]] = "pass"

(* And in the loop over parameters: all that it has left behind have       *)
(* chains.                                                                 *)
InParam(f, mm, s) ==
    /\ f.m \in Mod /\ f.x \in Returned(f.m) /\ mm[f.m].chain = FALSE
    /\ f.costS >= 0 /\ f.betaS <= MaxCost
    /\ f.edge \in 0 .. Len(G.mod[f.m].params) /\ f.pos >= 1
    /\ f.edge > 0 => f.pos <= Len(G.mod[f.m].params[f.edge]) + 1
    /\ \A e \in DOMAIN G.mod[f.m].params : \A k \in DOMAIN G.mod[f.m].params[e] :
          e > f.edge \/ (e = f.edge /\ k < f.pos) => s[G.mod[f.m].params[e][k]].chain # None

ShadowOf(f) == G.mod[f.m].shadows[f.edge].over[f.pos]
AtShadow(f, y) ==
    /\ f.edge <= Len(G.mod[f.m].shadows) /\ f.pos <= Len(G.mod[f.m].shadows[f.edge].over)
    /\ G.shadow[ShadowOf(f)].x = y

(* A frame that waits for variable y, which is searched for above it.      *)
Waits(f, y, w) ==
    \/ f.where = "shadow" /\ AtShadow(f, y) /\ w[ShadowOf(f)] = "none"
    \/ /\ f.where = "param" /\ f.edge >= 1 /\ f.pos <= Len(G.mod[f.m].params[f.edge])
       /\ G.mod[f.m].params[f.edge][f.pos] = y
Sleeps(f, y, s, mm, w) ==
    /\ s[f.x].chain = None /\ Waits(f, y, w)
    /\ f.where = "shadow" => InShadow(f, mm, w)
    /\ f.where = "param" => InParam(f, mm, s)

(* A frame that tries the model of a frame below it can not overtake it:   *)
(* there it would have to search for a variable that is on the stack.      *)
Behind(f, g, mode) ==
    IF f.where = "shadow"
    THEN mode = "shadow" /\ (g.edge < f.edge \/ (g.edge = f.edge /\ g.pos <= f.pos))
    ELSE \/ mode = "shadow"
         \/ mode = "param" /\ (g.edge > f.edge \/ (g.edge = f.edge /\ g.pos <= f.pos))

Stacked(Y, s, mm, w) ==
    /\ Y \in Seq(Frame \cup {Base}) /\ Len(Y) >= 1 /\ Y[1] = Base
    /\ \A i \in 2 .. Len(Y) : Y[i] \in Frame /\ Y[i].beta <= MaxCost /\ s[Y[i].x].cost < 0
    /\ \A i \in 2 .. Len(Y) - 1 : Sleeps(Y[i], Y[i + 1].x, s, mm, w)
    /\ \A i, j \in 2 .. Len(Y) : i < j => Y[i].x # Y[j].x
    /\ \A i, j \in 2 .. Len(Y) - 1 :
          i < j /\ Y[i].m = Y[j].m => Behind(Y[i], Y[j], Y[j].where)

(* The frame f on top of stack Y, in the loop that program counter p says. *)
ModeOf(p, f) ==
    IF p = "solve" THEN f.where ELSE IF p = "param" THEN "param"
    ELSE IF p \in {"shadow", "check", "value", "args", "unpack", "yield"} THEN "shadow"
    ELSE "none"
Ready(f, p, Y, s, mm, w) ==
    /\ ModeOf(p, f) = "shadow" => InShadow(f, mm, w)
    /\ ModeOf(p, f) = "param" => InParam(f, mm, s)
    /\ ModeOf(p, f) # "none" =>
          \A i \in 2 .. Len(Y) - 1 : Y[i].m = f.m => Behind(Y[i], f, ModeOf(p, f))
TopInv ==
    /\ IF pc = "chosen" THEN sp[Top.x].chain # None ELSE sp[Top.x].chain = None
    /\ Ready(Top, pc, X, sp, mp, sw)
    /\ pc \in {"chosen", "bound"} => Top.m \in Mod
    /\ pc = "solve" => Waits(Top, arg.x, sw)
    /\ pc = "check" => AtShadow(Top, G.shadow[ShadowOf(Top)].x) /\ HasValue(G.shadow[ShadowOf(Top)].x)
    /\ pc = "value" /\ V = <<>> => AtShadow(Top, arg.x)
    /\ V # <<>> => AtShadow(Top, V[1].x)
StackInv == Stacked(X, sp, mp, sw) /\ (Len(X) > 1 => TopInv)

(* Chains lead to solved models whose parameters all have chains, and      *)
(* values to chains.                                                       *)
IsParam(m, y) ==
    \E e \in DOMAIN G.mod[m].params : \E k \in DOMAIN G.mod[m].params[e] :
        G.mod[m].params[e][k] = y
ChainInv ==
    /\ \A x \in Var : sp[x].chain # None =>
          mp[sp[x].chain.m].chain = TRUE /\ x \in Returned(sp[x].chain.m)
    /\ \A x \in Var : sp[x].value = TRUE => sp[x].chain # None
    /\ \A m \in Mod : mp[m].value = TRUE => mp[m].chain = TRUE
    /\ \A m \in Mod, y \in Var : mp[m].chain = TRUE /\ IsParam(m, y) => sp[y].chain # None

(* And they do so without cycles: models can be ranked by the order in     *)
(* which they were solved.                                                 *)
Ranked(rank, n, s, mm, Z) ==
    /\ \A m \in Mod : mm[m].chain = TRUE => rank[m] < n
    /\ \A m \in Mod, y \in Var :
          mm[m].chain = TRUE /\ IsParam(m, y) => rank[s[y].chain.m] < rank[m]
    /\ \A i, j \in DOMAIN Z : i < j => rank[Z[j].m] < rank[Z[i].m]
RankInv == \E rank \in [Mod -> Nat], n \in Nat : Ranked(rank, n, sp, mp, V)

(* An activation has computed the arguments before its position, except    *)
(* the one that is being computed above it.                                *)
Argued(i, y) ==
    \/ val[y] # None
    \/ i < Len(V) /\ y = V[i + 1].x
    \/ i = Len(V) /\ pc = "value" /\ y = arg.x
Activated(i) ==
    /\ sp[V[i].x].chain # None /\ sp[V[i].x].chain.m = V[i].m
    /\ sp[V[i].x].value = TRUE /\ mp[V[i].m].value = TRUE
    /\ (i < Len(V) \/ pc # "unpack") => V[i].m \notin called
    /\ V[i].edge <= Len(G.mod[V[i].m].params) =>
          V[i].pos = 1 \/ V[i].pos <= Len(G.mod[V[i].m].params[V[i].edge])
    /\ \A e \in DOMAIN G.mod[V[i].m].params : \A k \in DOMAIN G.mod[V[i].m].params[e] :
          e < V[i].edge \/ (e = V[i].edge /\ k < V[i].pos) => Argued(i, G.mod[V[i].m].params[e][k])
ValueInv ==
    /\ \A i \in DOMAIN V : Activated(i)
    /\ V # <<>> /\ pc = "value" => IsParam(Act.m, arg.x)
    /\ pc = "unpack" => Act.m \in called
    /\ \A m \in Mod : mp[m].value = TRUE => m \in called \/ \E i \in DOMAIN V : V[i].m = m
    /\ \A m \in called : mp[m].value = TRUE
    /\ \A m \in called : ~RetBuf(m) => \A x \in Returned(m) : val[x] # None
    /\ \A x \in Var : sp[x].value = TRUE => val[x] # None \/ \E i \in DOMAIN V : V[i].x = x
    /\ pc = "yield" /\ status.code = "MODCALL" =>
          /\ status.of = Act.m /\ Act.edge > Len(G.mod[Act.m].params)
          /\ Range(G.mod[Act.m].given) \subseteq have

(* The passes of S_solve over the roots of a round.                        *)
InRound == pc # "start" /\ ~(pc = "yield" /\ status.code = "OK")
InGivens == pc = "givens" \/ (pc = "yield" /\ status.code = "VREF" /\ V = <<>> /\ Len(X) = 1)
InValues == \/ pc \in {"values", "collect"}
            \/ Len(X) = 1 /\ pc \in {"value", "args", "unpack"}
            \/ Len(X) = 1 /\ pc = "yield" /\ V # <<>>
Before(k, l) == k < cur.i \/ (k = cur.i /\ l < cur.j)
RootInv ==
    /\ InRound =>
          /\ cur.num <= Len(r_buf) /\ cur.i >= 1 /\ cur.j >= 1
          /\ cur.i <= cur.num => cur.j <= Len(r_buf[cur.i])
          /\ \A k \in 1 .. cur.num : \A l \in DOMAIN r_buf[k] :
                /\ r_buf[k][l] \in Given /\ (InGivens => Before(k, l)) => r_buf[k][l] \in have
                /\ InValues /\ Before(k, l) => HasValue(r_buf[k][l])
    /\ pc = "collect" => cur.i > cur.num
Answers ==
    /\ r_buf \in Seq(G.roots) /\ asked \in Seq(G.roots) /\ answered \in Seq(G.roots)
    /\ asked = answered \o r_buf
    /\ \A i \in DOMAIN answered : \A l \in DOMAIN answered[i] :
          IF answered[i][l] \in Given THEN answered[i][l] \in have ELSE val[answered[i][l]] # None

RunInv == TypeInv /\ Where /\ StackInv /\ ChainInv /\ RankInv /\ ValueInv /\ RootInv
IInv == Answers /\ (pc # "error" => RunInv)

-----------------------------------------------------------------------------
(* The work stack: what happens to the frames below the top.               *)

Retopped(Z, Y, f) ==
    f \in Frame /\ f.x = Y[Len(Y)].x /\ f.beta = Y[Len(Y)].beta /\ Z = [Y EXCEPT ![Len(Y)] = f]

LEMMA Retop ==
    ASSUME NEW Y, NEW s, NEW mm, NEW w, Stacked(Y, s, mm, w), Len(Y) > 1,
           NEW f, NEW Z, Retopped(Z, Y, f)
    PROVE  /\ Stacked(Z, s, mm, w) /\ Len(Z) = Len(Y) /\ Z[Len(Y)] = f
           /\ \A i \in 1 .. Len(Y) - 1 : Z[i] = Y[i]
<1>0. f \in Frame /\ f.x = Y[Len(Y)].x /\ f.beta = Y[Len(Y)].beta /\ Z = [Y EXCEPT ![Len(Y)] = f]
  BY DEF Retopped
<1>1. PICK n \in Nat : n = Len(Y)
  BY DEF Stacked
<1>2. Y \in Seq(Frame \cup {Base}) /\ n > 1 /\ Y[1] = Base
  BY <1>1 DEF Stacked
<1>3. Z \in Seq(Frame \cup {Base}) /\ Len(Z) = n /\ Z[n] = f /\ \A i \in 1 .. n - 1 : Z[i] = Y[i]
  BY <1>0, <1>1, <1>2
<1>4. Z[1] = Base
  BY <1>2, <1>3
<1>5. \A i \in 2 .. n : Z[i] \in Frame /\ Z[i].beta <= MaxCost /\ s[Z[i].x].cost < 0 /\ Z[i].x = Y[i].x
  <2>1. ASSUME NEW i \in 2 .. n
        PROVE  Z[i] \in Frame /\ Z[i].beta <= MaxCost /\ s[Z[i].x].cost < 0 /\ Z[i].x = Y[i].x
    <3>1. Y[i] \in Frame /\ Y[i].beta <= MaxCost /\ s[Y[i].x].cost < 0
      BY <1>1 DEF Stacked
    <3>2. CASE i = n
      BY <1>0, <1>1, <1>3, <3>1, <3>2
    <3>3. CASE i # n
      <4>1. i \in 1 .. n - 1
        BY <3>3
      <4>2. QED
        BY <1>3, <3>1, <4>1
    <3>4. QED
      BY <3>2, <3>3
  <2>2. QED
    BY <2>1
<1>6. \A i \in 2 .. n - 1 : Sleeps(Z[i], Z[i + 1].x, s, mm, w)
  <2>1. ASSUME NEW i \in 2 .. n - 1 PROVE Sleeps(Z[i], Z[i + 1].x, s, mm, w)
    <3>1. i \in 1 .. n - 1 /\ i + 1 \in 2 .. n
      OBVIOUS
    <3>2. Sleeps(Y[i], Y[i + 1].x, s, mm, w)
      BY <1>1 DEF Stacked
    <3>3. QED
      BY <1>3, <1>5, <3>1, <3>2
  <2>2. QED
    BY <2>1
<1>7. \A i, j \in 2 .. n : i < j => Z[i].x # Z[j].x
  BY <1>1, <1>5 DEF Stacked
<1>8. \A i, j \in 2 .. n - 1 : i < j /\ Z[i].m = Z[j].m => Behind(Z[i], Z[j], Z[j].where)
  <2>1. \A i \in 2 .. n - 1 : Z[i] = Y[i]
    BY <1>3
  <2>2. QED
    BY <1>1, <2>1 DEF Stacked
<1>9. QED
  BY <1>1, <1>2, <1>3, <1>4, <1>5, <1>6, <1>7, <1>8 DEF Stacked

(* What may change in the search states while frames sleep.                *)
Undisturbed(f, s, w, s2, mm2, w2) ==
    /\ \A y \in Var : s[y].chain # None => s2[y].chain # None
    /\ \A u \in DOMAIN G.shadow : w[u] = "pass" => w2[u] = "pass"
    /\ s2[f.x].chain = None
    /\ mm2[f.m].chain = FALSE
    /\ f.where = "shadow" => w2[ShadowOf(f)] = "none"

LEMMA SleepOn ==
    ASSUME G \in Graphs, NEW f \in Frame, NEW y, NEW s, NEW mm, NEW w, NEW s2, NEW mm2, NEW w2,
           Sleeps(f, y, s, mm, w), Undisturbed(f, s, w, s2, mm2, w2)
    PROVE  Sleeps(f, y, s2, mm2, w2)
<1>1. Waits(f, y, w2)
  BY DEF Sleeps, Waits, Undisturbed
<1>2. ASSUME f.where = "shadow" PROVE InShadow(f, mm2, w2)
  <2>1. InShadow(f, mm, w)
    BY <1>2 DEF Sleeps
  <2>2. ASSUME f.edge <= Len(G.mod[f.m].shadows), NEW q \in 1 .. f.pos - 1
        PROVE  w2[G.mod[f.m].shadows[f.edge].over[q]] = "pass"
    <3>1. f.m \in Mod /\ f.edge \in 1 .. Len(G.mod[f.m].shadows) /\ f.pos \in Nat
      BY <2>1, <2>2, SMTT(30) DEF InShadow, Frame
    <3>2. PICK over \in Seq(DOMAIN G.shadow) : over = G.mod[f.m].shadows[f.edge].over
      BY <3>1, OverIs
    <3>3. f.pos <= Len(over) + 1
      BY <2>1, <2>2, <3>2, Zenon DEF InShadow
    <3>4. q \in 1 .. Len(over)
      BY <3>1, <3>3
    <3>5. over[q] \in DOMAIN G.shadow
      BY <3>4
    <3>6. w[over[q]] = "pass"
      BY <2>1, <2>2, <3>2, Zenon DEF InShadow
    <3>7. QED
      BY <3>2, <3>5, <3>6, Zenon DEF Undisturbed
  <2>3. QED
    BY <2>1, <2>2, Zenon DEF InShadow, Undisturbed
<1>3. ASSUME f.where = "param" PROVE InParam(f, mm2, s2)
  <2>1. InParam(f, mm, s)
    BY <1>3 DEF Sleeps
  <2>2. G.mod[f.m].params \in Seq(Seq(Var))
    BY <2>1, ModIs, Zenon DEF InParam
  <2>3. \A e \in DOMAIN G.mod[f.m].params : \A k \in DOMAIN G.mod[f.m].params[e] :
           G.mod[f.m].params[e][k] \in Var
    BY <2>2
  <2>4. QED
    BY <2>1, <2>3, Zenon DEF InParam, Undisturbed
<1>4. QED
  BY <1>1, <1>2, <1>3 DEF Sleeps, Undisturbed

LEMMA Restate ==
    ASSUME G \in Graphs, NEW Y, NEW s, NEW mm, NEW w, NEW s2, NEW mm2, NEW w2,
           Stacked(Y, s, mm, w),
           \A i \in 2 .. Len(Y) - 1 : Undisturbed(Y[i], s, w, s2, mm2, w2),
           \A i \in 2 .. Len(Y) : s2[Y[i].x].cost < 0
    PROVE  Stacked(Y, s2, mm2, w2)
<1>1. PICK n \in Nat : n = Len(Y)
  BY DEF Stacked
<1>2. ASSUME NEW i \in 2 .. n - 1 PROVE Sleeps(Y[i], Y[i + 1].x, s2, mm2, w2)
  <2>1. i \in 2 .. n /\ i \in 2 .. Len(Y) - 1
    BY <1>1
  <2>2. Y[i] \in Frame /\ Sleeps(Y[i], Y[i + 1].x, s, mm, w)
    BY <1>1, <2>1 DEF Stacked
  <2>3. Undisturbed(Y[i], s, w, s2, mm2, w2)
    BY <2>1
  <2>4. QED
    BY <2>2, <2>3, SleepOn
<1>3. QED
  BY <1>1, <1>2 DEF Stacked

(* What is needed to push a frame.                                         *)
Pushed(Z, Y, f) == Z = Append(Y, f)
Pushable(f, Y, s, mm, w) ==
    /\ f \in Frame /\ f.beta <= MaxCost /\ s[f.x].cost < 0
    /\ \A i \in 2 .. Len(Y) : Y[i].x # f.x
    /\ Len(Y) > 1 => /\ Sleeps(Y[Len(Y)], f.x, s, mm, w)
                     /\ \A i \in 2 .. Len(Y) - 1 : Y[i].m = Y[Len(Y)].m =>
                           Behind(Y[i], Y[Len(Y)], Y[Len(Y)].where)

LEMMA Push ==
    ASSUME NEW Y, NEW s, NEW mm, NEW w, Stacked(Y, s, mm, w),
           NEW f, Pushable(f, Y, s, mm, w), NEW Z, Pushed(Z, Y, f)
    PROVE  Stacked(Z, s, mm, w) /\ Len(Z) = Len(Y) + 1 /\ Z[Len(Z)] = f
<1> USE DEF Pushable, Pushed
<1>1. PICK n \in Nat : n = Len(Y) /\ n >= 1
  BY DEF Stacked
<1>2. Y \in Seq(Frame \cup {Base})
  BY DEF Stacked
<1>3. /\ Z \in Seq(Frame \cup {Base}) /\ Len(Z) = n + 1 /\ Z[n + 1] = f
      /\ \A i \in 1 .. n : Z[i] = Y[i]
  BY <1>1, <1>2, AppendProperties
<1>4. \A i \in 2 .. n + 1 : i = n + 1 \/ (i \in 2 .. n /\ i \in 1 .. n)
  BY <1>1
<1>5. \A i \in 2 .. n + 1 : Z[i] \in Frame /\ Z[i].beta <= MaxCost /\ s[Z[i].x].cost < 0
  <2>1. ASSUME NEW i \in 2 .. n + 1
        PROVE  Z[i] \in Frame /\ Z[i].beta <= MaxCost /\ s[Z[i].x].cost < 0
    <3>1. CASE i = n + 1
      BY <1>3, <3>1
    <3>2. CASE i # n + 1
      <4>1. i \in 2 .. Len(Y) /\ Z[i] = Y[i]
        BY <1>1, <1>3, <1>4, <3>2
      <4>2. QED
        BY <4>1 DEF Stacked
    <3>3. QED
      BY <3>1, <3>2
  <2>2. QED
    BY <2>1
<1>6. ASSUME NEW i \in 2 .. n PROVE Sleeps(Z[i], Z[i + 1].x, s, mm, w)
  <2>1. Z[i] = Y[i]
    BY <1>1, <1>3
  <2>2. CASE i = n
    BY <1>1, <1>3, <2>1, <2>2
  <2>3. CASE i # n
    <3>1. i \in 2 .. Len(Y) - 1 /\ i + 1 \in 1 .. n
      BY <1>1, <2>3
    <3>2. Sleeps(Y[i], Y[i + 1].x, s, mm, w)
      BY <3>1 DEF Stacked
    <3>3. QED
      BY <1>3, <2>1, <3>1, <3>2
  <2>4. QED
    BY <2>2, <2>3
<1>7. ASSUME NEW i \in 2 .. n + 1, NEW j \in 2 .. n + 1, i < j PROVE Z[i].x # Z[j].x
  <2>1. i \in 2 .. n /\ i \in 2 .. Len(Y) /\ i \in 1 .. n /\ Z[i] = Y[i]
    BY <1>1, <1>3, <1>7
  <2>2. CASE j = n + 1
    BY <1>3, <2>1, <2>2
  <2>3. CASE j # n + 1
    <3>1. j \in 2 .. Len(Y) /\ Z[j] = Y[j]
      BY <1>1, <1>3, <1>4, <2>3
    <3>2. QED
      BY <1>7, <2>1, <3>1 DEF Stacked
  <2>4. QED
    BY <2>2, <2>3
<1>8. ASSUME NEW i \in 2 .. n, NEW j \in 2 .. n, i < j, Z[i].m = Z[j].m
      PROVE  Behind(Z[i], Z[j], Z[j].where)
  <2>1. i \in 2 .. Len(Y) - 1 /\ Z[i] = Y[i] /\ Z[j] = Y[j]
    BY <1>1, <1>3, <1>8
  <2>2. CASE j = n
    BY <1>1, <1>8, <2>1, <2>2
  <2>3. CASE j # n
    <3>1. j \in 2 .. Len(Y) - 1
      BY <1>1, <2>3
    <3>2. QED
      BY <1>8, <2>1, <3>1 DEF Stacked
  <2>4. QED
    BY <2>2, <2>3
<1>9. Z[1] = Base
  BY <1>1, <1>3 DEF Stacked
<1>10. QED
  BY <1>1, <1>3, <1>5, <1>6, <1>7, <1>8, <1>9 DEF Stacked

IsPop(Z, Y) == Z = SubSeq(Y, 1, Len(Y) - 1)

LEMMA Popped ==
    ASSUME NEW Y, NEW s, NEW mm, NEW w, Stacked(Y, s, mm, w), Len(Y) > 1,
           NEW Z, IsPop(Z, Y)
    PROVE  /\ Stacked(Z, s, mm, w) /\ Len(Z) = Len(Y) - 1 /\ Z[Len(Z)] = Y[Len(Y) - 1]
           /\ \A i \in 1 .. Len(Z) : Z[i] = Y[i]
<1> USE DEF IsPop
<1>1. PICK n \in Nat : n = Len(Y) - 1 /\ n >= 1 /\ n + 1 = Len(Y)
  <2>1. Len(Y) \in Nat /\ Len(Y) - 1 \in Nat /\ Len(Y) - 1 >= 1 /\ Len(Y) - 1 + 1 = Len(Y)
    BY DEF Stacked
  <2>2. QED
    BY <2>1, Zenon
<1>2. Y \in Seq(Frame \cup {Base})
  BY DEF Stacked
<1>3. /\ Z \in Seq(Frame \cup {Base}) /\ Len(Z) = n /\ \A i \in 1 .. n : Z[i] = Y[i]
  BY <1>1, <1>2, SubSeqProperties
<1>4. \A i \in 2 .. n : Z[i] \in Frame /\ Z[i].beta <= MaxCost /\ s[Z[i].x].cost < 0
  BY <1>1, <1>3 DEF Stacked
<1>5. \A i \in 2 .. n - 1 : Sleeps(Z[i], Z[i + 1].x, s, mm, w)
  <2>1. ASSUME NEW i \in 2 .. n - 1 PROVE Sleeps(Z[i], Z[i + 1].x, s, mm, w)
    <3>1. i \in 2 .. Len(Y) - 1 /\ i \in 1 .. n /\ i + 1 \in 1 .. n
      BY <1>1
    <3>2. Sleeps(Y[i], Y[i + 1].x, s, mm, w)
      BY <3>1 DEF Stacked
    <3>3. QED
      BY <1>3, <3>1, <3>2
  <2>2. QED
    BY <2>1
<1>6. \A i, j \in 2 .. n : i < j => Z[i].x # Z[j].x
  BY <1>1, <1>3 DEF Stacked
<1>7. \A i, j \in 2 .. n - 1 : i < j /\ Z[i].m = Z[j].m => Behind(Z[i], Z[j], Z[j].where)
  BY <1>1, <1>3 DEF Stacked
<1>8. Z[1] = Base
  BY <1>1, <1>3 DEF Stacked
<1>n. Len(Z) >= 1 /\ n >= 1
  BY <1>1, <1>3
<1>9. Stacked(Z, s, mm, w)
  BY <1>3, <1>4, <1>5, <1>6, <1>7, <1>8, <1>n DEF Stacked
<1>10. QED
  BY <1>1, <1>3, <1>9

-----------------------------------------------------------------------------
(* What a step leaves alone.                                               *)

LEMMA AnswersKept ==
    ASSUME Answers, G' = G, UNCHANGED root_vars, UNCHANGED <<have, val>>
    PROVE  Answers'
  BY DEF Answers, root_vars

LEMMA ChainsKept ==
    ASSUME ChainInv, RankInv, G' = G, V' = V,
           \A x \in Var : sp'[x].chain = sp[x].chain /\ sp'[x].value = sp[x].value,
           \A m \in Mod : mp'[m].chain = mp[m].chain /\ mp'[m].value = mp[m].value,
           sp \in [Var -> VarState]
    PROVE  ChainInv' /\ RankInv'
<1>1. Var' = Var /\ Mod' = Mod
  BY DEF Var, Mod
<1>2. \A m \in Mod, y \in Var : IsParam(m, y)' <=> IsParam(m, y)
  BY DEF IsParam
<1>3. \A m : Returned(m)' = Returned(m)
  BY DEF Returned
<1>4. ChainInv'
  <2>1. \A x \in Var : sp[x].chain # None => sp[x].chain.m \in Mod
    BY DEF VarState, Link
  <2>2. QED
    BY <1>1, <1>2, <1>3, <2>1 DEF ChainInv
<1>5. PICK rank \in [Mod -> Nat], n \in Nat : Ranked(rank, n, sp, mp, V)
  BY DEF RankInv
<1>6. Ranked(rank, n, sp, mp, V)'
  BY <1>1, <1>2, <1>5 DEF Ranked
<1>7. QED
  BY <1>1, <1>4, <1>6 DEF RankInv

(* A step of the search, or one that starts or ends it.                    *)
LEMMA SearchKeeps ==
    ASSUME RunInv, G' = G, UNCHANGED value_vars, UNCHANGED root_vars, have' = have,
           V = <<>>, InRound, ~InGivens, ~InValues',
           \A x \in Var : sp'[x].value = sp[x].value,
           \A m \in Mod : mp'[m].value = mp[m].value,
           pc' \notin {"start", "unpack", "collect"}, pc' = "yield" => status'.code = "VREF"
    PROVE  ValueInv' /\ RootInv'
<1>1. Var' = Var /\ Mod' = Mod /\ V' = <<>> /\ DOMAIN V' = {} /\ DOMAIN V = {}
  BY DEF Var, Mod, value_vars
<1>2. ValueInv'
  <2>1. called \subseteq Mod
    BY DEF RunInv, TypeInv
  <2>2. \A m : Returned(m)' = Returned(m) /\ RetBuf(m)' = RetBuf(m)
    BY DEF Returned, RetBuf
  <2>3. QED
    BY <1>1, <2>1, <2>2 DEF RunInv, ValueInv, value_vars
<1>3. RootInv'
  BY DEF RunInv, RootInv, root_vars, InRound, Before
<1>4. QED
  BY <1>2, <1>3

LEMMA StackPrimes ==
    ASSUME G' = G, Stacked(X', sp', mp', sw')
    PROVE  Stacked(X, sp, mp, sw)'
<1>1. Frame' = Frame /\ Base' = Base
  BY DEF Frame, Base, Var, Mod
<1>2. \A f, y : Sleeps(f, y, sp, mp, sw)' <=> Sleeps(f, y, sp', mp', sw')
  BY DEF Sleeps, Waits, InShadow, InParam, AtShadow, ShadowOf, Mod, Returned
<1>3. \A f, g, mode : Behind(f, g, mode)' <=> Behind(f, g, mode)
  BY DEF Behind
<1>4. QED
  BY <1>1, <1>2, <1>3 DEF Stacked

LEMMA ReadyPrimes ==
    ASSUME G' = G, Ready(Top', pc', X', sp', mp', sw')
    PROVE  Ready(Top, pc, X, sp, mp, sw)'
  BY Zenon DEF Ready, ModeOf, InShadow, InParam, Behind, Mod, Returned

LEMMA TypesKept ==
    ASSUME TypeInv, G' = G, UNCHANGED value_vars, UNCHANGED <<cur, have>>,
           sp' \in [Var -> VarState], mp' \in [Mod -> ModState],
           sw' \in [DOMAIN G.shadow -> {"none", "pass", "fail"}],
           arg' \in [x : Var \cup {None}, beta : Int, cost : Int]
    PROVE  TypeInv'
  BY DEF TypeInv, value_vars, Activation, VarState, ModState, Link, Var, Mod

-----------------------------------------------------------------------------
(* Steps of S_select_chain that move the frame on top.                     *)

LEMMA TopFrame ==
    ASSUME RunInv, Len(X) > 1
    PROVE  /\ Top \in Frame /\ Top.beta <= MaxCost /\ sp[Top.x].cost < 0 /\ Top.x \in Var
           /\ X = [X EXCEPT ![Len(X)] = Top] /\ Len(X) \in Nat
<1>1. X \in Seq(Frame \cup {Base}) /\ Len(X) \in 2 .. Len(X) /\ Len(X) \in Nat
  BY DEF RunInv, StackInv, Stacked
<1>2. Top \in Frame /\ Top.beta <= MaxCost /\ sp[Top.x].cost < 0
  BY <1>1 DEF RunInv, StackInv, Stacked, Top
<1>3. X = [X EXCEPT ![Len(X)] = Top]
  BY <1>1 DEF Top
<1>4. QED
  BY <1>1, <1>2, <1>3 DEF Frame

(* What the frame on top may become.                                       *)
Moved(f, p, x) ==
    /\ f \in Frame /\ f.x = Top.x /\ f.beta = Top.beta
    /\ Ready(f, p, X, sp, mp, sw)
    /\ p = "bound" => f.m \in Mod
    /\ p = "solve" => Waits(f, x, sw)
    /\ p = "check" => AtShadow(f, G.shadow[ShadowOf(f)].x) /\ HasValue(G.shadow[ShadowOf(f)].x)
    /\ p = "value" => AtShadow(f, x)

LEMMA TopMoves ==
    ASSUME RunInv, Len(X) > 1, V = <<>>, V' = V, G' = G, have' = have,
           sp' = sp, mp' = mp, sw' = sw, pc # "chosen", pc' # "chosen",
           NEW f, Moved(f, pc', arg'.x), X' = [X EXCEPT ![Len(X)] = f]
    PROVE  StackInv' /\ Len(X') = Len(X)
<1>1. Stacked(X, sp, mp, sw) /\ sp[Top.x].chain = None
  BY DEF RunInv, StackInv, TopInv
<1>2. f \in Frame /\ f.x = X[Len(X)].x /\ f.beta = X[Len(X)].beta
  BY DEF Moved, Top
<1>3. PICK Z : Z = [X EXCEPT ![Len(X)] = f]
  OBVIOUS
<1>r. Retopped(Z, X, f)
  BY <1>2, <1>3 DEF Retopped
<1>4. /\ Stacked(Z, sp, mp, sw) /\ Len(Z) = Len(X) /\ Z[Len(X)] = f
      /\ \A i \in 1 .. Len(X) - 1 : Z[i] = X[i]
  BY <1>1, <1>r, Retop
<1>5. /\ Stacked(X', sp', mp', sw') /\ Len(X') = Len(X) /\ Top' = f
      /\ \A i \in 1 .. Len(X) - 1 : X'[i] = X[i]
  BY <1>3, <1>4, Zenon DEF Top
<1>6. Ready(Top', pc', X', sp', mp', sw')
  <2>1. Ready(f, pc', X, sp, mp, sw)
    BY DEF Moved
  <2>2. Len(X) \in Nat
    BY <1>1 DEF Stacked
  <2>3. \A i \in 2 .. Len(X) - 1 : X'[i] = X[i]
    <3>1. \A i \in 2 .. Len(X) - 1 : i \in 1 .. Len(X) - 1
      BY <2>2
    <3>2. QED
      BY <1>5, <3>1, Zenon
  <2>4. QED
    BY <1>5, <2>1, <2>3, Zenon DEF Ready
<1>7. Stacked(X, sp, mp, sw)' /\ Ready(Top, pc, X, sp, mp, sw)'
  BY <1>5, <1>6, StackPrimes, ReadyPrimes, Zenon
<1>8. TopInv'
  <2>1. \A y : /\ (AtShadow(f, y))' <=> AtShadow(f, y)
               /\ HasValue(y)' <=> HasValue(y)
    BY DEF AtShadow, ShadowOf, HasValue
  <2>2. \A y : (Waits(f, y, sw))' <=> Waits(f, y, sw)
    BY DEF Waits, AtShadow, ShadowOf
  <2>3. ShadowOf(f)' = ShadowOf(f) /\ Mod' = Mod
    BY DEF ShadowOf, Mod
  <2>4. /\ pc' = "solve" => Waits(Top, arg.x, sw)'
        /\ pc' = "check" => (AtShadow(Top, G.shadow[ShadowOf(Top)].x) /\ HasValue(G.shadow[ShadowOf(Top)].x))'
        /\ pc' = "value" => AtShadow(Top, arg.x)'
        /\ pc' = "bound" => (Top.m \in Mod)'
    BY <1>5, <2>1, <2>2, <2>3, Zenon DEF Moved
  <2>5. sp'[Top'.x].chain = None
    BY <1>1, <1>2, <1>5, Zenon DEF Top
  <2>6. QED
    BY <1>7, <2>4, <2>5 DEF TopInv
<1>9. QED
  BY <1>5, <1>7, <1>8, Zenon DEF StackInv

LEMMA TopRuns ==
    ASSUME RunInv, Answers, pc \in Searching \ {"chosen"}, G' = G,
           UNCHANGED <<sp, mp, sw, have>>, UNCHANGED value_vars, UNCHANGED root_vars,
           NEW f, Moved(f, pc', arg'.x), X' = [X EXCEPT ![Len(X)] = f],
           arg' \in [x : Var \cup {None}, beta : Int, cost : Int],
           pc' \in (Searching \ {"chosen"}) \cup {"solve", "value", "yield"},
           pc' = "solve" => arg'.x \in Var /\ sp[arg'.x].chain = None /\ arg'.beta <= MaxCost,
           pc' = "value" => arg'.x \in Var,
           pc' = "yield" => status'.code = "VREF"
    PROVE  RunInv' /\ Answers'
<1>1. Len(X) > 1 /\ V = <<>> /\ V' = V
  BY DEF RunInv, Where, value_vars
<1>2. StackInv' /\ Len(X') = Len(X)
  BY <1>1, TopMoves DEF Searching
<1>3. TypeInv'
  BY TypesKept DEF RunInv, TypeInv, root_vars
<1>4. ChainInv' /\ RankInv'
  BY <1>1, ChainsKept DEF RunInv, TypeInv
<1>5. InRound /\ ~InGivens /\ ~InValues'
  BY <1>1, <1>2 DEF InRound, InGivens, InValues, Searching
<1>6. ValueInv' /\ RootInv'
  BY <1>1, <1>5, SearchKeeps DEF Searching
<1>7. Where'
  BY <1>1, <1>2 DEF Where, Searching, Passing, RunInv, Var
<1>8. Answers'
  BY AnswersKept DEF value_vars
<1>9. QED
  BY <1>2, <1>3, <1>4, <1>6, <1>7, <1>8 DEF RunInv

(* The frame g on top tries the same model as f, which sleeps.             *)
Chases(g, f, y, s, mm, w, mode) ==
    /\ f \in Frame /\ g \in Frame /\ f.m = g.m
    /\ Sleeps(f, y, s, mm, w) /\ Behind(f, g, mode)
    /\ mode = "shadow" => InShadow(g, mm, w)
    /\ mode = "param" => InParam(g, mm, s)

LEMMA ChaseShadow ==
    ASSUME G \in Graphs, NEW f, NEW g, NEW y, NEW s, NEW mm, NEW w,
           Chases(g, f, y, s, mm, w, "shadow")
    PROVE  /\ g.m \in Mod /\ f.edge \in Nat /\ g.edge \in Nat /\ f.pos \in Nat /\ g.pos \in Nat
           /\ Len(G.mod[g.m].shadows) \in Nat /\ Len(G.mod[g.m].params) \in Nat
           /\ \/ /\ f.where = "shadow" /\ f.edge \in 1 .. Len(G.mod[g.m].shadows)
                 /\ f.pos <= Len(G.mod[g.m].shadows[f.edge].over)
                 /\ Len(G.mod[g.m].shadows[f.edge].over) \in Nat
                 /\ g.edge < f.edge \/ (g.edge = f.edge /\ g.pos <= f.pos)
                 /\ g.edge = f.edge /\ g.pos = f.pos =>
                       w[ShadowOf(g)] = "none" /\ G.shadow[ShadowOf(g)].x = y
                 /\ g.edge = f.edge /\ g.pos < f.pos => w[ShadowOf(g)] = "pass"
              \/ /\ f.where = "param" /\ f.edge \in 1 .. Len(G.mod[g.m].params) /\ f.pos >= 1
<1>1. /\ f \in Frame /\ g \in Frame /\ f.m = g.m /\ g.m \in Mod
      /\ Waits(f, y, w) /\ Behind(f, g, "shadow")
  BY Zenon DEF Chases, Sleeps, InShadow
<1>2. f.edge \in Nat /\ g.edge \in Nat /\ f.pos \in Nat /\ g.pos \in Nat
  BY <1>1 DEF Frame
<1>3. Len(G.mod[g.m].shadows) \in Nat /\ Len(G.mod[g.m].params) \in Nat
  BY <1>1, ModIs, SeqIs, ZenonT(30)
<1>4. CASE f.where = "shadow"
  <2>1. InShadow(f, mm, w) /\ AtShadow(f, y) /\ w[ShadowOf(f)] = "none"
    BY <1>1, <1>4 DEF Chases, Sleeps, Waits
  <2>2. f.edge \in 1 .. Len(G.mod[g.m].shadows)
    <3>1. f.edge \in 1 .. Len(G.mod[g.m].shadows) + 1 /\ f.edge <= Len(G.mod[g.m].shadows)
      BY <1>1, <2>1, Zenon DEF InShadow, AtShadow
    <3>2. QED
      BY <1>3, <3>1, SMTT(30)
  <2>3. Len(G.mod[g.m].shadows[f.edge].over) \in Nat
    <3>1. PICK over \in Seq(DOMAIN G.shadow) : over = G.mod[g.m].shadows[f.edge].over
      BY <1>1, <2>2, OverIs
    <3>2. QED
      BY <3>1
  <2>4. f.pos <= Len(G.mod[g.m].shadows[f.edge].over)
    BY <1>1, <2>1 DEF AtShadow
  <2>5. g.edge < f.edge \/ (g.edge = f.edge /\ g.pos <= f.pos)
    BY <1>1, <1>4 DEF Behind
  <2>6. g.edge = f.edge /\ g.pos = f.pos => w[ShadowOf(g)] = "none" /\ G.shadow[ShadowOf(g)].x = y
    BY <1>1, <2>1, Zenon DEF AtShadow, ShadowOf
  <2>7. ASSUME g.edge = f.edge, g.pos < f.pos PROVE w[ShadowOf(g)] = "pass"
    <3>1. g.pos >= 1
      BY Zenon DEF Chases, InShadow
    <3>2. g.pos \in 1 .. f.pos - 1
      BY <1>2, <2>7, <3>1
    <3>3. f.edge <= Len(G.mod[f.m].shadows)
      BY <2>1 DEF AtShadow
    <3>4. w[G.mod[f.m].shadows[f.edge].over[g.pos]] = "pass"
      BY <2>1, <3>2, <3>3, Zenon DEF InShadow
    <3>5. QED
      BY <1>1, <2>7, <3>4, Zenon DEF ShadowOf
  <2>8. QED
    BY <1>1, <1>2, <1>3, <1>4, <2>2, <2>3, <2>4, <2>5, <2>6, <2>7
<1>5. CASE f.where # "shadow"
  <2>1. f.where = "param" /\ InParam(f, mm, s) /\ f.edge >= 1
    BY <1>1, <1>5 DEF Chases, Sleeps, Waits
  <2>2. f.edge \in 1 .. Len(G.mod[g.m].params) /\ f.pos >= 1
    BY <1>1, <1>2, <1>3, <2>1, SMTT(30) DEF InParam
  <2>3. QED
    BY <1>1, <1>2, <1>3, <2>1, <2>2
<1>6. QED
  BY <1>4, <1>5

(* A step from one instance to the next, from an edge to the next, and     *)
(* from the last edge to the parameters.                                   *)
LEMMA ChaseInstance ==
    ASSUME G \in Graphs, NEW f, NEW g, NEW y, NEW s, NEW mm, NEW w,
           Chases(g, f, y, s, mm, w, "shadow"), NEW h, h.edge = g.edge, h.pos = g.pos + 1,
           w[ShadowOf(g)] # "none" \/ G.shadow[ShadowOf(g)].x # y
    PROVE  Behind(f, h, "shadow")
  BY ChaseShadow DEF Behind
LEMMA ChasePenalty ==
    ASSUME G \in Graphs, NEW f, NEW g, NEW y, NEW s, NEW mm, NEW w,
           Chases(g, f, y, s, mm, w, "shadow"), NEW h, h.edge = g.edge + 1, h.pos = 1,
           w[ShadowOf(g)] # "none" \/ G.shadow[ShadowOf(g)].x # y, w[ShadowOf(g)] # "pass"
    PROVE  Behind(f, h, "shadow")
<1>1. f.where = "shadow" => InShadow(f, mm, w)
  BY DEF Chases, Sleeps
<1>2. f.where = "shadow" => f.pos >= 1
  BY <1>1, Zenon DEF InShadow
<1>3. QED
  BY <1>2, ChaseShadow, SMTT(30) DEF Behind
LEMMA ChaseEdge ==
    ASSUME G \in Graphs, NEW f, NEW g, NEW y, NEW s, NEW mm, NEW w,
           Chases(g, f, y, s, mm, w, "shadow"), NEW h, h.edge = g.edge + 1, h.pos = 1,
           g.pos > Len(G.mod[g.m].shadows[g.edge].over)
    PROVE  Behind(f, h, "shadow")
<1>1. f.where = "shadow" => InShadow(f, mm, w)
  BY DEF Chases, Sleeps
<1>2. f.where = "shadow" => f.pos >= 1
  BY <1>1, Zenon DEF InShadow
<1>3. CASE f.where = "shadow"
  <2>1. /\ f.edge \in Nat /\ g.edge \in Nat /\ f.pos \in Nat /\ g.pos \in Nat
        /\ f.pos <= Len(G.mod[g.m].shadows[f.edge].over)
        /\ Len(G.mod[g.m].shadows[f.edge].over) \in Nat
        /\ g.edge < f.edge \/ (g.edge = f.edge /\ g.pos <= f.pos)
    BY <1>3, ChaseShadow, Zenon
  <2>2. g.edge # f.edge
    <3> SUFFICES ASSUME g.edge = f.edge PROVE FALSE
      OBVIOUS
    <3>1. PICK n \in Nat : n = Len(G.mod[g.m].shadows[f.edge].over)
      BY <2>1, Zenon
    <3>2. g.pos > n
      BY <3>1
    <3>3. f.pos <= n /\ g.pos <= f.pos
      BY <2>1, <3>1
    <3>4. QED
      BY <2>1, <3>2, <3>3
  <2>3. QED
    BY <1>2, <1>3, <2>1, <2>2 DEF Behind
<1>4. CASE f.where # "shadow"
  BY <1>4 DEF Behind
<1>5. QED
  BY <1>3, <1>4
LEMMA ChaseParams ==
    ASSUME G \in Graphs, NEW f, NEW g, NEW y, NEW s, NEW mm, NEW w,
           Chases(g, f, y, s, mm, w, "shadow"), NEW h, h.edge = Len(G.mod[g.m].params), h.pos = 1,
           g.edge > Len(G.mod[g.m].shadows)
    PROVE  Behind(f, h, "param")
  BY ChaseShadow, SMTT(30) DEF Behind

LEMMA ChaseParam ==
    ASSUME G \in Graphs, NEW f, NEW g, NEW y, NEW s, NEW mm, NEW w,
           Chases(g, f, y, s, mm, w, "param")
    PROVE  /\ g.m \in Mod /\ f.edge \in Nat /\ g.edge \in Nat /\ f.pos \in Nat /\ g.pos \in Nat
           /\ f.where = "param" /\ f.edge \in 1 .. Len(G.mod[g.m].params)
           /\ f.pos >= 1 /\ f.pos <= Len(G.mod[g.m].params[f.edge])
           /\ Len(G.mod[g.m].params[f.edge]) \in Nat
           /\ g.edge > f.edge \/ (g.edge = f.edge /\ g.pos <= f.pos)
           /\ g.edge = f.edge /\ g.pos = f.pos => G.mod[g.m].params[g.edge][g.pos] = y
<1>1. /\ f \in Frame /\ g \in Frame /\ f.m = g.m /\ g.m \in Mod
      /\ Waits(f, y, w) /\ Behind(f, g, "param")
  BY Zenon DEF Chases, Sleeps, InParam
<1>2. f.edge \in Nat /\ g.edge \in Nat /\ f.pos \in Nat /\ g.pos \in Nat
  BY <1>1 DEF Frame
<1>3. /\ f.where # "shadow"
      /\ g.edge > f.edge \/ (g.edge = f.edge /\ g.pos <= f.pos)
  BY <1>1 DEF Behind
<1>4. /\ f.where = "param" /\ f.edge >= 1 /\ f.pos <= Len(G.mod[g.m].params[f.edge])
      /\ G.mod[g.m].params[f.edge][f.pos] = y
  BY <1>1, <1>3 DEF Waits
<1>5. InParam(f, mm, s)
  BY <1>4 DEF Chases, Sleeps
<1>6. G.mod[g.m].params \in Seq(Seq(Var))
  BY <1>1, ModIs, Zenon
<1>7. f.edge \in 1 .. Len(G.mod[g.m].params) /\ f.pos >= 1
  BY <1>1, <1>2, <1>4, <1>5, <1>6, SMTT(30) DEF InParam
<1>8. G.mod[g.m].params[f.edge] \in Seq(Var)
  BY <1>6, <1>7
<1>9. Len(G.mod[g.m].params[f.edge]) \in Nat
  <2>1. PICK q \in Seq(Var) : q = G.mod[g.m].params[f.edge]
    BY <1>8
  <2>2. Len(q) \in Nat
    OBVIOUS
  <2>3. QED
    BY <2>1, <2>2, Zenon
<1>10. g.edge = f.edge /\ g.pos = f.pos => G.mod[g.m].params[g.edge][g.pos] = y
  BY <1>4
<1>11. QED
  BY <1>1, <1>2, <1>3, <1>4, <1>7, <1>9, <1>10

LEMMA ChaseNext ==
    ASSUME G \in Graphs, NEW f, NEW g, NEW y, NEW s, NEW mm, NEW w,
           Chases(g, f, y, s, mm, w, "param"), NEW h, h.edge = g.edge, h.pos = g.pos + 1,
           G.mod[g.m].params[g.edge][g.pos] # y
    PROVE  Behind(f, h, "param")
<1>1. /\ f.edge \in Nat /\ g.edge \in Nat /\ f.pos \in Nat /\ g.pos \in Nat /\ f.where # "shadow"
      /\ g.edge > f.edge \/ (g.edge = f.edge /\ g.pos <= f.pos)
      /\ ~(g.edge = f.edge /\ g.pos = f.pos)
  BY ChaseParam
<1>2. h.edge > f.edge \/ (h.edge = f.edge /\ h.pos <= f.pos)
  BY <1>1
<1>3. QED
  BY <1>1, <1>2, Zenon DEF Behind
LEMMA ChaseDown ==
    ASSUME G \in Graphs, NEW f, NEW g, NEW y, NEW s, NEW mm, NEW w,
           Chases(g, f, y, s, mm, w, "param"), NEW h, h.edge = g.edge - 1, h.pos = 1,
           g.pos > Len(G.mod[g.m].params[g.edge])
    PROVE  Behind(f, h, "param")
<1>1. /\ f.edge \in Nat /\ g.edge \in Nat /\ f.pos \in Nat /\ g.pos \in Nat
      /\ f.where = "param" /\ f.pos >= 1 /\ f.pos <= Len(G.mod[g.m].params[f.edge])
      /\ Len(G.mod[g.m].params[f.edge]) \in Nat
      /\ g.edge > f.edge \/ (g.edge = f.edge /\ g.pos <= f.pos)
  BY ChaseParam, Zenon
<1>2. g.edge # f.edge
  <2> SUFFICES ASSUME g.edge = f.edge PROVE FALSE
    OBVIOUS
  <2>1. PICK n \in Nat : n = Len(G.mod[g.m].params[f.edge])
    BY <1>1
  <2>2. g.pos > n
    BY <2>1
  <2>3. f.pos <= n /\ g.pos <= f.pos
    BY <1>1, <2>1
  <2>4. QED
    BY <1>1, <2>2, <2>3
<1>3. QED
  BY <1>1, <1>2 DEF Behind

(* A frame that moves to its next shadow edge.                             *)
LEMMA NextEdge ==
    ASSUME G \in Graphs, NEW g, NEW f, NEW mm, NEW w, NEW w2, InShadow(g, mm, w),
           g.edge <= Len(G.mod[g.m].shadows),
           f.x = g.x, f.m = g.m, f.costS >= 0, f.betaS = g.betaS, f.edge = g.edge + 1, f.pos = 1
    PROVE  InShadow(f, mm, w2)
<1>1. g.m \in Mod /\ g.edge \in 1 .. Len(G.mod[g.m].shadows) + 1
  BY Zenon DEF InShadow
<1>2. PICK n \in Nat : n = Len(G.mod[f.m].shadows)
  BY <1>1, ModIs
<1>3. f.edge \in 1 .. n + 1
  BY <1>1, <1>2
<1>4. ASSUME f.edge <= n PROVE 1 <= Len(G.mod[f.m].shadows[f.edge].over) + 1
  <2>m. f.m \in Mod /\ f.edge \in 1 .. n
    BY <1>1, <1>3, <1>4
  <2>e. f.edge \in 1 .. Len(G.mod[f.m].shadows)
    BY <1>2, <2>m
  <2>1. PICK over \in Seq(DOMAIN G.shadow) : over = G.mod[f.m].shadows[f.edge].over
    BY <2>m, <2>e, OverIs
  <2>2. 1 <= Len(over) + 1
    OBVIOUS
  <2>3. QED
    BY <2>1, <2>2, Zenon
<1>5. \A q : ~(q \in 1 .. f.pos - 1)
  OBVIOUS
<1>6. /\ f.m \in Mod /\ f.x \in Returned(f.m) /\ mm[f.m].chain = FALSE
      /\ f.costS >= 0 /\ f.betaS <= MaxCost
  BY Zenon DEF InShadow
<1>7. f.edge \in 1 .. Len(G.mod[f.m].shadows) + 1 /\ f.pos >= 1
  BY <1>2, <1>3
<1>8. f.edge <= Len(G.mod[f.m].shadows) => f.pos <= Len(G.mod[f.m].shadows[f.edge].over) + 1
  BY <1>2, <1>4, Zenon
<1>9. QED
  BY <1>5, <1>6, <1>7, <1>8, Zenon DEF InShadow

(* The frames below the top sleep, for variables without a value.          *)
LEMMA Sleeping ==
    ASSUME RunInv, Len(X) > 1, NEW i \in 2 .. Len(X) - 1
    PROVE  /\ X[i] \in Frame /\ X[i + 1] \in Frame /\ X[i].x # Top.x
           /\ Sleeps(X[i], X[i + 1].x, sp, mp, sw)
           /\ X[i + 1].x \in Var
           /\ pc # "chosen" => sp[X[i + 1].x].chain = None /\ ~HasValue(X[i + 1].x)
<1>1. PICK n \in Nat : n = Len(X) /\ n > 1
  BY TopFrame
<1>2. i \in 2 .. n /\ i + 1 \in 2 .. n /\ i < n /\ n \in 2 .. n
  BY <1>1
<1>3. Stacked(X, sp, mp, sw)
  BY DEF RunInv, StackInv
<1>4. X[i] \in Frame /\ X[i + 1] \in Frame /\ X[i].x # Top.x /\ Sleeps(X[i], X[i + 1].x, sp, mp, sw)
  BY <1>1, <1>2, <1>3 DEF Stacked, Top
<1>5. X[i + 1].x \in Var
  BY <1>4 DEF Frame
<1>6. ASSUME pc # "chosen" PROVE sp[X[i + 1].x].chain = None
  <2>1. CASE i + 1 = n
    BY <1>1, <1>6, <2>1 DEF RunInv, StackInv, TopInv, Top
  <2>2. CASE i + 1 # n
    <3>1. i + 1 \in 2 .. n - 1
      BY <1>2, <2>2
    <3>2. Sleeps(X[i + 1], X[i + 1 + 1].x, sp, mp, sw)
      BY <1>1, <1>3, <3>1 DEF Stacked
    <3>3. QED
      BY <3>2 DEF Sleeps
  <2>3. QED
    BY <2>1, <2>2
<1>7. ASSUME pc # "chosen" PROVE ~HasValue(X[i + 1].x)
  <2>1. X[i + 1].x \notin Given
    BY <1>5, VarIs DEF RunInv, TypeInv
  <2>2. sp[X[i + 1].x].value # TRUE
    BY <1>5, <1>6, <1>7 DEF RunInv, ChainInv
  <2>3. sp[X[i + 1].x].value \in BOOLEAN
    BY <1>5 DEF RunInv, TypeInv, VarState
  <2>4. QED
    BY <2>1, <2>2, <2>3 DEF HasValue
<1>8. QED
  BY <1>4, <1>5, <1>6, <1>7

LEMMA TopChases ==
    ASSUME RunInv, Len(X) > 1, NEW i \in 2 .. Len(X) - 1, X[i].m = Top.m,
           ModeOf(pc, Top) \in {"shadow", "param"}
    PROVE  Chases(Top, X[i], X[i + 1].x, sp, mp, sw, ModeOf(pc, Top))
<1>1. Ready(Top, pc, X, sp, mp, sw)
  BY DEF RunInv, StackInv, TopInv
<1>2. Behind(X[i], Top, ModeOf(pc, Top))
  BY <1>1 DEF Ready
<1>3. QED
  BY <1>1, <1>2, Sleeping, TopFrame DEF Chases, Ready

(* What is known of the frame on top in the loop over shadows.             *)
LEMMA TopShadow ==
    ASSUME RunInv, Len(X) > 1, ModeOf(pc, Top) = "shadow"
    PROVE  /\ InShadow(Top, mp, sw) /\ Top.m \in Mod /\ Top.edge \in Nat /\ Top.pos \in Nat
           /\ Top.costS \in Int /\ Top.pos >= 1 /\ Len(Shadows) \in Nat /\ Len(Params) \in Nat
           /\ Top.edge <= Len(Shadows) =>
                 /\ Shadows[Top.edge].over \in Seq(DOMAIN G.shadow)
                 /\ Shadows[Top.edge].penalty \in Nat
                 /\ Len(Shadows[Top.edge].over) \in Nat
           /\ Top.edge <= Len(Shadows) /\ Top.pos <= Len(Shadows[Top.edge].over) =>
                 /\ W = ShadowOf(Top) /\ W \in DOMAIN G.shadow
                 /\ G.shadow[W].x \in Var \cup Given /\ sw[W] \in {"none", "pass", "fail"}
<1>1. InShadow(Top, mp, sw)
  BY DEF RunInv, StackInv, TopInv, Ready
<1>2. Top.edge \in Nat /\ Top.pos \in Nat /\ Top.costS \in Int
  BY TopFrame, Zenon DEF Frame
<1>3. Top.m \in Mod /\ Top.pos >= 1 /\ Top.edge >= 1
  BY <1>1, SMTT(30) DEF InShadow
<1>g. G \in Graphs
  BY DEF RunInv, TypeInv
<1>4. Len(Shadows) \in Nat /\ Len(Params) \in Nat
  <2>1. Shadows \in Seq([penalty : Nat, over : Seq(DOMAIN G.shadow)]) /\ Params \in Seq(Seq(Var))
    BY <1>g, <1>3, ModIs DEF Shadows, Params
  <2>2. QED
    BY <2>1
<1>5. ASSUME Top.edge <= Len(Shadows)
      PROVE  /\ Shadows[Top.edge].over \in Seq(DOMAIN G.shadow)
             /\ Shadows[Top.edge].penalty \in Nat
             /\ Len(Shadows[Top.edge].over) \in Nat
  <2>1. Top.edge \in 1 .. Len(G.mod[Top.m].shadows)
    BY <1>2, <1>3, <1>4, <1>5 DEF Shadows
  <2>2. PICK over \in Seq(DOMAIN G.shadow) : over = Shadows[Top.edge].over
    BY <1>g, <1>3, <2>1, OverIs DEF Shadows
  <2>3. Len(over) \in Nat
    OBVIOUS
  <2>4. Shadows[Top.edge].penalty \in Nat
    BY <1>g, <1>3, <2>1, OverIs DEF Shadows
  <2>5. QED
    BY <2>2, <2>3, <2>4, Zenon
<1>6. ASSUME Top.edge <= Len(Shadows), Top.pos <= Len(Shadows[Top.edge].over)
      PROVE  /\ W = ShadowOf(Top) /\ W \in DOMAIN G.shadow
             /\ G.shadow[W].x \in Var \cup Given /\ sw[W] \in {"none", "pass", "fail"}
  <2>1. W = ShadowOf(Top)
    BY DEF W, ShadowOf, Shadows
  <2>2. PICK over \in Seq(DOMAIN G.shadow) : over = Shadows[Top.edge].over
    BY <1>5, <1>6
  <2>3. Top.pos \in 1 .. Len(over)
    BY <1>2, <1>3, <1>6, <2>2
  <2>4. over[Top.pos] \in DOMAIN G.shadow
    BY <2>3
  <2>5. W \in DOMAIN G.shadow
    BY <2>2, <2>4 DEF W
  <2>6. QED
    BY <1>g, <2>1, <2>5, VarIs DEF RunInv, TypeInv
<1>7. QED
  BY <1>1, <1>2, <1>3, <1>4, <1>5, <1>6

LEMMA DoShadowsDone == ASSUME RunInv, Answers, ShadowsDone PROVE RunInv' /\ Answers'
<1> DEFINE f == [Top EXCEPT !.edge = Len(G.mod[Top.m].params), !.pos = 1, !.ssmax = 0]
<1>1. Len(X) > 1 /\ ModeOf(pc, Top) = "shadow" /\ G \in Graphs
  BY DEF ShadowsDone, RunInv, TypeInv, Where, Searching, ModeOf
<1>2. /\ InShadow(Top, mp, sw) /\ Top.m \in Mod /\ Len(Params) \in Nat
      /\ Top.edge > Len(G.mod[Top.m].shadows)
  BY <1>1, TopShadow, Zenon DEF ShadowsDone, Shadows
<1>3. Top \in Frame
  BY <1>1, TopFrame
<1>4. f \in Frame
  BY <1>2, <1>3 DEF Frame, Params
<1>5. /\ f.x = Top.x /\ f.beta = Top.beta /\ f.m = Top.m /\ f.costS = Top.costS
      /\ f.betaS = Top.betaS /\ f.edge = Len(G.mod[Top.m].params) /\ f.pos = 1
  BY <1>3 DEF Frame
<1>x. X' = [X EXCEPT ![Len(X)] = f]
  BY DEF ShadowsDone, SetTop
<1> HIDE DEF f
<1>6. InParam(f, mp, sp)
  <2>1. f.m \in Mod /\ f.x \in Returned(f.m) /\ mp[f.m].chain = FALSE
        /\ f.costS >= 0 /\ f.betaS <= MaxCost
    BY <1>2, <1>5, Zenon DEF InShadow
  <2>2. PICK pp \in Seq(Seq(Var)) : pp = G.mod[f.m].params
    BY <1>1, <2>1, ModIs
  <2>3. Len(pp) \in Nat /\ DOMAIN pp = 1 .. Len(pp) /\ f.edge = Len(pp)
    BY <1>5, <2>2
  <2>4. f.edge \in 0 .. Len(G.mod[f.m].params) /\ f.pos >= 1
    BY <1>5, <2>2, <2>3
  <2>5. ASSUME f.edge > 0 PROVE f.pos <= Len(G.mod[f.m].params[f.edge]) + 1
    <3>1. PICK q \in Seq(Var) : q = pp[f.edge]
      BY <2>3, <2>5
    <3>2. Len(q) \in Nat /\ 1 <= Len(q) + 1
      OBVIOUS
    <3>3. q = G.mod[f.m].params[f.edge]
      BY <2>2, <3>1, Zenon
    <3>4. f.pos <= Len(q) + 1
      BY <1>5, <3>2
    <3>5. QED
      BY <3>3, <3>4, Zenon
  <2>6. \A e \in DOMAIN G.mod[f.m].params : \A k \in DOMAIN G.mod[f.m].params[e] :
           ~(e > f.edge \/ (e = f.edge /\ k < f.pos))
    <3> SUFFICES ASSUME NEW e \in DOMAIN pp, NEW k \in DOMAIN pp[e]
                 PROVE  ~(e > f.edge \/ (e = f.edge /\ k < f.pos))
      BY <2>2
    <3>1. k \in Nat \ {0}
      BY <2>3
    <3>2. QED
      BY <1>5, <2>3, <3>1
  <2>7. QED
    BY <2>1, <2>4, <2>5, <2>6 DEF InParam
<1>7. ASSUME NEW i \in 2 .. Len(X) - 1, X[i].m = f.m PROVE Behind(X[i], f, "param")
  <2>1. Chases(Top, X[i], X[i + 1].x, sp, mp, sw, "shadow")
    BY <1>1, <1>5, <1>7, TopChases
  <2>2. QED
    BY <1>1, <1>2, <1>5, <2>1, ChaseParams
<1>8. pc' = "param"
  BY DEF ShadowsDone
<1>9. Moved(f, pc', arg'.x)
  BY <1>4, <1>5, <1>6, <1>7, <1>8 DEF Moved, Ready, ModeOf
<1>10. QED
  BY <1>8, <1>9, <1>x, TopRuns DEF ShadowsDone, RunInv, TypeInv, graph_vars, Searching

LEMMA DoShadowEdgePassed == ASSUME RunInv, Answers, ShadowEdgePassed PROVE RunInv' /\ Answers'
<1> DEFINE f == [Top EXCEPT !.edge = @ + 1, !.pos = 1]
<1>1. Len(X) > 1 /\ ModeOf(pc, Top) = "shadow" /\ G \in Graphs
  BY DEF ShadowEdgePassed, RunInv, TypeInv, Where, Searching, ModeOf
<1>2. /\ InShadow(Top, mp, sw) /\ Top.m \in Mod /\ Top.edge \in Nat /\ Len(Shadows) \in Nat
      /\ Top.edge <= Len(Shadows)
      /\ Top.pos > Len(G.mod[Top.m].shadows[Top.edge].over)
  BY <1>1, TopShadow, Zenon DEF ShadowEdgePassed, Shadows
<1>3. Top \in Frame
  BY <1>1, TopFrame
<1>4. f \in Frame
  <2>1. Top.edge + 1 \in Nat
    BY <1>2
  <2>2. QED
    BY <1>3, <2>1 DEF Frame
<1>5. /\ f.x = Top.x /\ f.beta = Top.beta /\ f.m = Top.m /\ f.costS = Top.costS
      /\ f.betaS = Top.betaS /\ f.edge = Top.edge + 1 /\ f.pos = 1
  BY <1>3 DEF Frame
<1>x. X' = [X EXCEPT ![Len(X)] = f]
  BY DEF ShadowEdgePassed, SetTop
<1> HIDE DEF f
<1>6. InShadow(f, mp, sw)
  <2>1. Top.costS >= 0
    BY <1>2, Zenon DEF InShadow
  <2>2. f.costS >= 0 /\ Top.edge <= Len(G.mod[Top.m].shadows)
    BY <1>2, <1>5, <2>1 DEF Shadows
  <2>3. QED
    BY <1>1, <1>2, <1>5, <2>2, NextEdge
<1>7. ASSUME NEW i \in 2 .. Len(X) - 1, X[i].m = f.m PROVE Behind(X[i], f, "shadow")
  <2>1. Chases(Top, X[i], X[i + 1].x, sp, mp, sw, "shadow")
    BY <1>1, <1>5, <1>7, TopChases
  <2>2. QED
    BY <1>1, <1>2, <1>5, <2>1, ChaseEdge
<1>8. pc' = "shadow"
  BY DEF ShadowEdgePassed
<1>9. Moved(f, pc', arg'.x)
  BY <1>4, <1>5, <1>6, <1>7, <1>8 DEF Moved, Ready, ModeOf
<1>10. QED
  BY <1>8, <1>9, <1>x, TopRuns DEF ShadowEdgePassed, RunInv, TypeInv, graph_vars, Searching

(* And to the next instance of an edge, past one that passed.              *)
LEMMA NextInstance ==
    ASSUME G \in Graphs, NEW g, NEW f, NEW mm, NEW w, NEW w2, InShadow(g, mm, w), g.pos \in Nat,
           g.edge <= Len(G.mod[g.m].shadows), g.pos <= Len(G.mod[g.m].shadows[g.edge].over),
           \A u \in DOMAIN G.shadow : w[u] = "pass" => w2[u] = "pass", w2[ShadowOf(g)] = "pass",
           f.x = g.x, f.m = g.m, f.costS = g.costS, f.betaS = g.betaS, f.edge = g.edge,
           f.pos = g.pos + 1
    PROVE  InShadow(f, mm, w2)
<1>1. g.m \in Mod /\ g.edge \in 1 .. Len(G.mod[g.m].shadows) + 1 /\ g.pos >= 1
  BY Zenon DEF InShadow
<1>2. PICK n \in Nat : n = Len(G.mod[g.m].shadows)
  BY <1>1, ModIs
<1>3. g.edge \in 1 .. n
  BY <1>1, <1>2
<1>4. PICK over \in Seq(DOMAIN G.shadow) : over = G.mod[g.m].shadows[g.edge].over
  BY <1>1, <1>2, <1>3, OverIs, Zenon
<1>5. PICK l \in Nat : l = Len(over)
  OBVIOUS
<1>6. g.pos <= l
  BY <1>4, <1>5
<1>7. ASSUME NEW q \in 1 .. f.pos - 1 PROVE w2[over[q]] = "pass"
  <2>1. q \in 1 .. g.pos
    OBVIOUS
  <2>2. CASE q = g.pos
    BY <1>4, <2>2, Zenon DEF ShadowOf
  <2>3. CASE q # g.pos
    <3>1. q \in 1 .. g.pos - 1
      BY <2>1, <2>3
    <3>2. w[over[q]] = "pass"
      BY <1>4, <3>1, Zenon DEF InShadow
    <3>3. over[q] \in DOMAIN G.shadow
      BY <1>5, <1>6, <2>1
    <3>4. QED
      BY <3>2, <3>3
  <2>4. QED
    BY <2>2, <2>3
<1>8. f.pos >= 1 /\ f.pos <= l + 1
  BY <1>1, <1>6
<1>9. f.edge \in 1 .. Len(G.mod[f.m].shadows) + 1
  BY <1>1
<1>10. f.pos <= Len(G.mod[f.m].shadows[f.edge].over) + 1
  BY <1>4, <1>5, <1>8, Zenon
<1>11. \A q \in 1 .. f.pos - 1 : w2[G.mod[f.m].shadows[f.edge].over[q]] = "pass"
  BY <1>4, <1>7, Zenon
<1>12. QED
  BY <1>8, <1>9, <1>10, <1>11, Zenon DEF InShadow

LEMMA DoShadow == ASSUME RunInv, Answers, Shadow PROVE RunInv' /\ Answers'
<1>1. Len(X) > 1 /\ ModeOf(pc, Top) = "shadow" /\ G \in Graphs /\ pc = "shadow"
  BY DEF Shadow, RunInv, TypeInv, Where, Searching, ModeOf
<1>2. Top.edge <= Len(Shadows) /\ Top.pos <= Len(Shadows[Top.edge].over)
  BY DEF Shadow
<1>3. /\ InShadow(Top, mp, sw) /\ Top.m \in Mod /\ Top.edge \in Nat /\ Top.pos \in Nat
      /\ Top.costS \in Int /\ Shadows[Top.edge].penalty \in Nat
      /\ W = ShadowOf(Top) /\ W \in DOMAIN G.shadow
      /\ G.shadow[W].x \in Var \cup Given /\ sw[W] \in {"none", "pass", "fail"}
  BY <1>1, <1>2, TopShadow
<1>4. Top \in Frame /\ X = [X EXCEPT ![Len(X)] = Top]
  BY <1>1, TopFrame
<1>5. /\ Top.edge <= Len(G.mod[Top.m].shadows)
      /\ Top.pos <= Len(G.mod[Top.m].shadows[Top.edge].over)
  BY <1>2 DEF Shadows
<1>6. \A i \in 2 .. Len(X) - 1 : X[i].m = Top.m =>
         Chases(Top, X[i], X[i + 1].x, sp, mp, sw, "shadow")
  BY <1>1, TopChases
<1>7. arg \in [x : Var \cup {None}, beta : Int, cost : Int]
  BY DEF RunInv, TypeInv
<1>8. /\ G' = G /\ UNCHANGED <<sp, mp, sw, have>> /\ UNCHANGED value_vars /\ UNCHANGED root_vars
  BY DEF Shadow, graph_vars
<1>9. \A p \in {"shadow", "check", "value", "yield"} : Ready(Top, p, X, sp, mp, sw)
  BY <1>3, <1>6 DEF Ready, ModeOf, Chases
<1>a. Var \cap Given = {}
  BY <1>1, VarIs
<1>10. CASE sw[W] = "pass"
  <2> DEFINE f == [Top EXCEPT !.pos = @ + 1]
  <2>1. X' = [X EXCEPT ![Len(X)] = f] /\ pc' = "shadow" /\ arg' = arg
    BY <1>1, <1>10 DEF Shadow, SetTop
  <2>2. Top.pos + 1 \in Nat
    BY <1>3
  <2>3. f \in Frame
    BY <1>4, <2>2 DEF Frame
  <2>4. /\ f.x = Top.x /\ f.beta = Top.beta /\ f.m = Top.m /\ f.costS = Top.costS
        /\ f.betaS = Top.betaS /\ f.edge = Top.edge /\ f.pos = Top.pos + 1
    BY <1>4 DEF Frame
  <2> HIDE DEF f
  <2>5. InShadow(f, mp, sw)
    BY <1>1, <1>3, <1>5, <1>10, <2>4, NextInstance, Zenon
  <2>6. ASSUME NEW i \in 2 .. Len(X) - 1, X[i].m = f.m PROVE Behind(X[i], f, "shadow")
    <3>1. Chases(Top, X[i], X[i + 1].x, sp, mp, sw, "shadow")
      BY <1>6, <2>4, <2>6
    <3>2. QED
      BY <1>1, <1>3, <1>10, <2>4, <3>1, ChaseInstance
  <2>7. Moved(f, pc', arg'.x)
    BY <2>1, <2>3, <2>4, <2>5, <2>6 DEF Moved, Ready, ModeOf
  <2>8. QED
    BY <1>1, <1>7, <1>8, <2>1, <2>7, TopRuns DEF Searching
<1>11. CASE sw[W] = "fail"
  <2> DEFINE S == Top.costS + G.mod[Top.m].shadows[Top.edge].penalty
             f == [Top EXCEPT !.costS = S, !.edge = @ + 1, !.pos = 1]
  <2>1. X' = [X EXCEPT ![Len(X)] = f] /\ pc' \in {"shadow", "bound"} /\ arg' = arg
    BY <1>1, <1>11 DEF Shadow, Penalize
  <2>2. Top.edge + 1 \in Nat /\ S \in Int /\ S >= 0
    <3>1. PICK pen \in Nat : pen = G.mod[Top.m].shadows[Top.edge].penalty
      BY <1>3 DEF Shadows
    <3>2. Top.costS >= 0
      BY <1>3, Zenon DEF InShadow
    <3>3. QED
      BY <1>3, <3>1, <3>2
  <2>3. f \in Frame
    BY <1>4, <2>2, Zenon DEF Frame
  <2>4. /\ f.x = Top.x /\ f.beta = Top.beta /\ f.m = Top.m /\ f.costS = S
        /\ f.betaS = Top.betaS /\ f.edge = Top.edge + 1 /\ f.pos = 1
    BY <1>4 DEF Frame
  <2> HIDE DEF f, S
  <2>5. InShadow(f, mp, sw)
    BY <1>1, <1>3, <1>5, <2>2, <2>4, NextEdge
  <2>6. ASSUME NEW i \in 2 .. Len(X) - 1, X[i].m = f.m PROVE Behind(X[i], f, "shadow")
    <3>1. Chases(Top, X[i], X[i + 1].x, sp, mp, sw, "shadow")
      BY <1>6, <2>4, <2>6
    <3>2. sw[ShadowOf(Top)] # "none" /\ sw[ShadowOf(Top)] # "pass"
      BY <1>3, <1>11
    <3>3. QED
      BY <1>1, <2>4, <3>1, <3>2, ChasePenalty
  <2>7. Moved(f, pc', arg'.x)
    BY <1>3, <2>1, <2>3, <2>4, <2>5, <2>6 DEF Moved, Ready, ModeOf
  <2>8. QED
    BY <1>1, <1>7, <1>8, <2>1, <2>7, TopRuns DEF Searching
<1>12. CASE sw[W] = "none" /\ G.shadow[W].x \in Given
  <2>1. /\ X' = X /\ arg' = arg /\ pc' \in {"check", "yield"}
        /\ pc' = "check" => G.shadow[W].x \in have
        /\ pc' = "yield" => status'.code = "VREF"
    <3>1. X' = X /\ arg' = arg
      BY <1>12, <1>a DEF Shadow
    <3>2. IF G.shadow[W].x \in have THEN pc' = "check" ELSE Vref(G.shadow[W].x)
      BY <1>12, <1>a DEF Shadow
    <3>3. QED
      BY <3>1, <3>2 DEF Vref
  <2>2. AtShadow(Top, G.shadow[ShadowOf(Top)].x)
    BY <1>5 DEF AtShadow
  <2>3. pc' = "check" => HasValue(G.shadow[ShadowOf(Top)].x)
    BY <1>3, <1>12, <2>1 DEF HasValue
  <2>4. Moved(Top, pc', arg'.x)
    BY <1>4, <1>9, <2>1, <2>2, <2>3 DEF Moved
  <2>5. QED
    BY <1>1, <1>4, <1>7, <1>8, <2>1, <2>4, TopRuns DEF Searching
<1>13. CASE sw[W] = "none" /\ G.shadow[W].x \in Var /\ sp[G.shadow[W].x].chain = None
  <2> DEFINE f == [Top EXCEPT !.where = "shadow"]
  <2>1. X' = [X EXCEPT ![Len(X)] = f] /\ pc' = "solve"
        /\ arg' = [arg EXCEPT !.x = G.shadow[W].x, !.beta = MaxCost]
    BY <1>13, <1>a DEF Shadow, SetTop
  <2>2. /\ arg' \in [x : Var \cup {None}, beta : Int, cost : Int]
        /\ arg'.x = G.shadow[W].x /\ arg'.beta = MaxCost /\ MaxCost <= MaxCost
    <3>1. MaxCost \in Int /\ MaxCost <= MaxCost
      BY SolverAssumption
    <3>2. QED
      BY <1>7, <1>13, <2>1, <3>1
  <2>3. f \in Frame
    BY <1>4 DEF Frame
  <2>4. /\ f.x = Top.x /\ f.beta = Top.beta /\ f.m = Top.m /\ f.costS = Top.costS
        /\ f.betaS = Top.betaS /\ f.edge = Top.edge /\ f.pos = Top.pos /\ f.where = "shadow"
    BY <1>4 DEF Frame
  <2> HIDE DEF f
  <2>5. InShadow(f, mp, sw)
    BY <1>3, <2>4, Zenon DEF InShadow
  <2>6. ASSUME NEW i \in 2 .. Len(X) - 1, X[i].m = f.m PROVE Behind(X[i], f, "shadow")
    <3>1. Behind(X[i], Top, "shadow")
      BY <1>6, <2>4, <2>6 DEF Chases
    <3>2. QED
      BY <2>4, <3>1 DEF Behind
  <2>7. Waits(f, arg'.x, sw)
    BY <1>3, <1>5, <1>13, <2>2, <2>4, Zenon DEF Waits, AtShadow, ShadowOf
  <2>8. Moved(f, pc', arg'.x)
    BY <2>1, <2>3, <2>4, <2>5, <2>6, <2>7 DEF Moved, Ready, ModeOf
  <2>9. QED
    BY <1>1, <1>8, <1>13, <2>1, <2>2, <2>8, TopRuns DEF Searching
<1>14. CASE sw[W] = "none" /\ G.shadow[W].x \in Var /\ sp[G.shadow[W].x].chain # None
  <2>1. /\ X' = X /\ arg' = [arg EXCEPT !.x = G.shadow[W].x]
        /\ pc' = IF sp[G.shadow[W].x].value THEN "check" ELSE "value"
    BY <1>14, <1>a DEF Shadow
  <2>2. arg' \in [x : Var \cup {None}, beta : Int, cost : Int] /\ arg'.x = G.shadow[W].x
    BY <1>7, <1>14, <2>1
  <2>3. AtShadow(Top, G.shadow[ShadowOf(Top)].x)
    BY <1>5 DEF AtShadow
  <2>4. pc' = "check" => HasValue(G.shadow[ShadowOf(Top)].x)
    BY <1>3, <1>14, <1>a, <2>1 DEF HasValue
  <2>5. pc' \in {"check", "value"}
    BY <2>1
  <2>6. Moved(Top, pc', arg'.x)
    BY <1>3, <1>4, <1>9, <2>2, <2>3, <2>4, <2>5 DEF Moved
  <2>7. QED
    BY <1>1, <1>4, <1>8, <1>14, <2>1, <2>2, <2>5, <2>6, TopRuns, Zenon DEF Searching
<1>15. QED
  BY <1>3, <1>10, <1>11, <1>12, <1>13, <1>14

(* What is known of the frame on top in the loop over parameters.          *)
LEMMA TopParam ==
    ASSUME RunInv, Len(X) > 1, ModeOf(pc, Top) = "param"
    PROVE  /\ InParam(Top, mp, sp) /\ Top.m \in Mod /\ Top.edge \in Nat /\ Top.pos \in Nat
           /\ Top.costS \in Int /\ Top.betaS \in Int /\ Top.ssmax \in Nat /\ Top.pos >= 1
           /\ Params \in Seq(Seq(Var)) /\ Len(Params) \in Nat /\ Top.edge <= Len(Params)
           /\ Top.edge > 0 =>
                 Params[Top.edge] \in Seq(Var) /\ Len(Params[Top.edge]) \in Nat
           /\ Top.edge > 0 /\ Top.pos <= Len(Params[Top.edge]) =>
                 /\ Params[Top.edge][Top.pos] \in Var
                 /\ sp[Params[Top.edge][Top.pos]].cost \in Int
<1>1. InParam(Top, mp, sp)
  BY DEF RunInv, StackInv, TopInv, Ready
<1>2. /\ Top.edge \in Nat /\ Top.pos \in Nat /\ Top.costS \in Int /\ Top.betaS \in Int
      /\ Top.ssmax \in Nat
  BY TopFrame DEF Frame
<1>3. Top.m \in Mod /\ Top.pos >= 1 /\ Top.edge \in 0 .. Len(Params)
  BY <1>1 DEF InParam, Params
<1>4. Params \in Seq(Seq(Var))
  BY <1>3, ModIs DEF Params, RunInv, TypeInv
<1>5. Len(Params) \in Nat /\ Top.edge <= Len(Params)
  BY <1>2, <1>3, <1>4
<1>6. ASSUME Top.edge > 0
      PROVE  Params[Top.edge] \in Seq(Var) /\ Len(Params[Top.edge]) \in Nat
  <2>1. PICK q \in Seq(Var) : q = Params[Top.edge]
    BY <1>2, <1>4, <1>5, <1>6
  <2>2. Len(q) \in Nat
    OBVIOUS
  <2>3. QED
    BY <2>1, <2>2, Zenon
<1>7. ASSUME Top.edge > 0, Top.pos <= Len(Params[Top.edge])
      PROVE  /\ Params[Top.edge][Top.pos] \in Var
             /\ sp[Params[Top.edge][Top.pos]].cost \in Int
  <2>1. PICK q \in Seq(Var) : q = Params[Top.edge]
    BY <1>6, <1>7
  <2>2. Top.pos \in 1 .. Len(q)
    BY <1>2, <1>3, <1>7, <2>1
  <2>3. q[Top.pos] \in Var
    BY <2>2
  <2>4. sp[q[Top.pos]].cost \in Int
    BY <2>3 DEF RunInv, TypeInv, VarState
  <2>5. QED
    BY <2>1, <2>3, <2>4, Zenon
<1>8. QED
  BY <1>1, <1>2, <1>3, <1>4, <1>5, <1>6, <1>7

(* A frame that moves past a parameter with a chain.                       *)
LEMMA NextParam ==
    ASSUME G \in Graphs, NEW g, NEW f, NEW mm, NEW s, NEW s2, InParam(g, mm, s),
           g.edge \in Nat, g.pos \in Nat, g.edge > 0, g.pos <= Len(G.mod[g.m].params[g.edge]),
           \A y \in Var : s[y].chain # None => s2[y].chain # None,
           s2[G.mod[g.m].params[g.edge][g.pos]].chain # None,
           f.x = g.x, f.m = g.m, f.costS = g.costS, f.betaS = g.betaS, f.edge = g.edge,
           f.pos = g.pos + 1
    PROVE  InParam(f, mm, s2)
<1>1. g.m \in Mod /\ g.edge \in 0 .. Len(G.mod[g.m].params) /\ g.pos >= 1
  BY Zenon DEF InParam
<1>2. PICK pp \in Seq(Seq(Var)) : pp = G.mod[g.m].params
  BY <1>1, ModIs, Zenon
<1>3. g.edge \in 1 .. Len(pp)
  BY <1>1, <1>2, SMTT(30)
<1>4. PICK q \in Seq(Var) : q = pp[g.edge]
  BY <1>3, SMTT(30)
<1>5. PICK l \in Nat : l = Len(q)
  BY SMTT(30)
<1>6. q = G.mod[g.m].params[g.edge]
  BY <1>2, <1>4, Zenon
<1>7. g.pos <= l
  BY <1>5, <1>6, Zenon
<1>8. f.pos >= 1 /\ f.pos <= l + 1
  BY <1>1, <1>7, SMTT(30)
<1>9. ASSUME NEW e \in DOMAIN pp, NEW k \in DOMAIN pp[e], e > f.edge \/ (e = f.edge /\ k < f.pos)
      PROVE  s2[pp[e][k]].chain # None
  <2>0. e \in Nat /\ k \in Nat /\ pp[e][k] \in Var
    <3>1. e \in 1 .. Len(pp)
      BY SMTT(30)
    <3>2. PICK t \in Seq(Var) : t = pp[e]
      BY <3>1, SMTT(30)
    <3>3. k \in 1 .. Len(t) /\ t[k] \in Var
      BY <3>2, SeqIs, Zenon
    <3>4. QED
      BY <3>1, <3>2, <3>3, SMTT(30)
  <2>1. CASE e = g.edge /\ k = g.pos
    BY <1>2, <2>1, Zenon
  <2>2. CASE ~(e = g.edge /\ k = g.pos)
    <3>1. e > g.edge \/ (e = g.edge /\ k < g.pos)
      BY <1>9, <2>0, <2>2, SMTT(30)
    <3>2. s[pp[e][k]].chain # None
      BY <1>2, <3>1, Zenon DEF InParam
    <3>3. QED
      BY <2>0, <3>2, Zenon
  <2>3. QED
    BY <2>1, <2>2, Zenon
<1>10. f.pos <= Len(G.mod[f.m].params[f.edge]) + 1
  BY <1>5, <1>6, <1>8, Zenon
<1>11. \A e \in DOMAIN G.mod[f.m].params : \A k \in DOMAIN G.mod[f.m].params[e] :
          e > f.edge \/ (e = f.edge /\ k < f.pos) => s2[G.mod[f.m].params[e][k]].chain # None
  BY <1>2, <1>9, Zenon
<1>12. QED
  BY <1>1, <1>8, <1>10, <1>11, Zenon DEF InParam

LEMMA DoParam == ASSUME RunInv, Answers, Param PROVE RunInv' /\ Answers'
<1> DEFINE y == Params[Top.edge][Top.pos]
<1>1. Len(X) > 1 /\ ModeOf(pc, Top) = "param" /\ G \in Graphs /\ pc = "param"
  BY DEF Param, RunInv, TypeInv, Where, Searching, ModeOf
<1>2. Top.edge > 0 /\ Top.pos <= Len(Params[Top.edge])
  BY DEF Param
<1>3. /\ InParam(Top, mp, sp) /\ Top.m \in Mod /\ Top.edge \in Nat /\ Top.pos \in Nat
      /\ Top.costS \in Int /\ Top.betaS \in Int /\ Top.ssmax \in Nat
      /\ y \in Var /\ sp[y].cost \in Int
  BY <1>1, <1>2, TopParam
<1>4. Top \in Frame
  BY <1>1, TopFrame
<1>5. Top.pos <= Len(G.mod[Top.m].params[Top.edge]) /\ y = G.mod[Top.m].params[Top.edge][Top.pos]
  BY <1>2 DEF Params
<1>6. \A i \in 2 .. Len(X) - 1 : X[i].m = Top.m =>
         Chases(Top, X[i], X[i + 1].x, sp, mp, sw, "param")
  BY <1>1, TopChases
<1>7. arg \in [x : Var \cup {None}, beta : Int, cost : Int]
  BY DEF RunInv, TypeInv
<1>8. /\ G' = G /\ UNCHANGED <<sp, mp, sw, have>> /\ UNCHANGED value_vars /\ UNCHANGED root_vars
  BY DEF Param, graph_vars
<1>9. \/ /\ X' = SetTop([Top EXCEPT !.costS = Cap(@ + sp[y].cost)])
         /\ pc' = "bound" /\ arg' = arg
      \/ /\ sp[y].chain # None
         /\ X' = SetTop([Top EXCEPT !.ssmax = Larger(@, sp[y].cost), !.pos = @ + 1])
         /\ pc' = pc /\ arg' = arg
      \/ /\ sp[y].chain = None
         /\ X' = SetTop([Top EXCEPT !.where = "param"])
         /\ arg' = [arg EXCEPT !.x = y, !.beta = Top.betaS - Top.costS]
         /\ pc' = "solve"
  BY DEF Param
<1> HIDE DEF y
<1>10. CASE /\ X' = SetTop([Top EXCEPT !.costS = Cap(@ + sp[y].cost)])
            /\ pc' = "bound" /\ arg' = arg
  <2> DEFINE f == [Top EXCEPT !.costS = Cap(@ + sp[y].cost)]
  <2>1. X' = [X EXCEPT ![Len(X)] = f]
    BY <1>10 DEF SetTop
  <2>2. Cap(Top.costS + sp[y].cost) \in Int
    BY <1>3, SolverAssumption DEF Cap, Smaller
  <2>3. f \in Frame
    BY <1>4, <2>2 DEF Frame
  <2>4. f.x = Top.x /\ f.beta = Top.beta /\ f.m = Top.m
    BY <1>4 DEF Frame
  <2> HIDE DEF f
  <2>5. Moved(f, pc', arg'.x)
    BY <1>3, <1>10, <2>3, <2>4 DEF Moved, Ready, ModeOf
  <2>6. QED
    BY <1>1, <1>7, <1>8, <1>10, <2>1, <2>5, TopRuns DEF Searching
<1>11. CASE /\ sp[y].chain # None
            /\ X' = SetTop([Top EXCEPT !.ssmax = Larger(@, sp[y].cost), !.pos = @ + 1])
            /\ pc' = pc /\ arg' = arg
  <2> DEFINE f == [Top EXCEPT !.ssmax = Larger(@, sp[y].cost), !.pos = @ + 1]
  <2>1. X' = [X EXCEPT ![Len(X)] = f] /\ pc' = "param"
    BY <1>1, <1>11 DEF SetTop
  <2>2. Larger(Top.ssmax, sp[y].cost) \in Nat /\ Top.pos + 1 \in Nat
    BY <1>3 DEF Larger
  <2>3. f \in Frame
    BY <1>4, <2>2 DEF Frame
  <2>4. /\ f.x = Top.x /\ f.beta = Top.beta /\ f.m = Top.m /\ f.costS = Top.costS
        /\ f.betaS = Top.betaS /\ f.edge = Top.edge /\ f.pos = Top.pos + 1
    BY <1>4 DEF Frame
  <2> HIDE DEF f
  <2>5. InParam(f, mp, sp)
    BY <1>1, <1>2, <1>3, <1>5, <1>11, <2>4, NextParam, Zenon
  <2>6. ASSUME NEW i \in 2 .. Len(X) - 1, X[i].m = f.m PROVE Behind(X[i], f, "param")
    <3>1. Chases(Top, X[i], X[i + 1].x, sp, mp, sw, "param")
      BY <1>6, <2>4, <2>6
    <3>2. sp[X[i + 1].x].chain = None
      BY <1>1, Sleeping
    <3>3. y # X[i + 1].x
      BY <1>11, <3>2
    <3>4. QED
      BY <1>1, <1>5, <2>4, <3>1, <3>3, ChaseNext, Zenon
  <2>7. Moved(f, pc', arg'.x)
    BY <2>1, <2>3, <2>4, <2>5, <2>6 DEF Moved, Ready, ModeOf
  <2>8. QED
    BY <1>1, <1>7, <1>8, <1>11, <2>1, <2>7, TopRuns DEF Searching
<1>12. CASE /\ sp[y].chain = None
            /\ X' = SetTop([Top EXCEPT !.where = "param"])
            /\ arg' = [arg EXCEPT !.x = y, !.beta = Top.betaS - Top.costS]
            /\ pc' = "solve"
  <2> DEFINE f == [Top EXCEPT !.where = "param"]
  <2>1. X' = [X EXCEPT ![Len(X)] = f]
    BY <1>12 DEF SetTop
  <2>2. Top.betaS - Top.costS \in Int /\ Top.betaS - Top.costS <= MaxCost
    <3>1. Top.costS >= 0 /\ Top.betaS <= MaxCost
      BY <1>3 DEF InParam
    <3>2. MaxCost \in Int
      BY SolverAssumption
    <3>3. QED
      BY <1>3, <3>1, <3>2
  <2>3. /\ arg' \in [x : Var \cup {None}, beta : Int, cost : Int]
        /\ arg'.x = y /\ arg'.beta <= MaxCost
    BY <1>3, <1>7, <1>12, <2>2
  <2>4. f \in Frame
    BY <1>4 DEF Frame
  <2>5. /\ f.x = Top.x /\ f.beta = Top.beta /\ f.m = Top.m /\ f.costS = Top.costS
        /\ f.betaS = Top.betaS /\ f.edge = Top.edge /\ f.pos = Top.pos /\ f.where = "param"
    BY <1>4 DEF Frame
  <2> HIDE DEF f
  <2>6. InParam(f, mp, sp)
    BY <1>3, <2>5, Zenon DEF InParam
  <2>7. ASSUME NEW i \in 2 .. Len(X) - 1, X[i].m = f.m PROVE Behind(X[i], f, "param")
    <3>1. Behind(X[i], Top, "param")
      BY <1>6, <2>5, <2>7 DEF Chases
    <3>2. QED
      BY <2>5, <3>1 DEF Behind
  <2>8. Waits(f, arg'.x, sw)
    BY <1>2, <1>3, <1>5, <2>3, <2>5, SMTT(30) DEF Waits
  <2>9. Moved(f, pc', arg'.x)
    BY <1>12, <2>4, <2>5, <2>6, <2>7, <2>8 DEF Moved, Ready, ModeOf
  <2>10. QED
    BY <1>1, <1>3, <1>8, <1>12, <2>1, <2>3, <2>9, TopRuns DEF Searching
<1>13. QED
  BY <1>9, <1>10, <1>11, <1>12

LEMMA DoParamEdgeDone == ASSUME RunInv, Answers, ParamEdgeDone PROVE RunInv' /\ Answers'
<1> DEFINE f == [Top EXCEPT !.costS = @ + Top.ssmax, !.edge = @ - 1, !.pos = 1, !.ssmax = 0]
<1>1. Len(X) > 1 /\ ModeOf(pc, Top) = "param" /\ G \in Graphs /\ pc = "param"
  BY DEF ParamEdgeDone, RunInv, TypeInv, Where, Searching, ModeOf
<1>2. Top.edge > 0 /\ Top.pos > Len(G.mod[Top.m].params[Top.edge])
  BY DEF ParamEdgeDone, Params
<1>3. /\ InParam(Top, mp, sp) /\ Top.m \in Mod /\ Top.edge \in Nat /\ Top.pos \in Nat
      /\ Top.costS \in Int /\ Top.ssmax \in Nat /\ Len(Params) \in Nat /\ Top.edge <= Len(Params)
  BY <1>1, TopParam
<1>4. Top \in Frame
  BY <1>1, TopFrame
<1>5. Top.costS + Top.ssmax \in Int /\ Top.edge - 1 \in Nat
  BY <1>2, <1>3, SMTT(30)
<1>6. f \in Frame
  BY <1>4, <1>5 DEF Frame
<1>7. /\ f.x = Top.x /\ f.beta = Top.beta /\ f.m = Top.m /\ f.costS = Top.costS + Top.ssmax
      /\ f.betaS = Top.betaS /\ f.edge = Top.edge - 1 /\ f.pos = 1
  BY <1>4 DEF Frame
<1>x. X' = [X EXCEPT ![Len(X)] = f] /\ pc' = "param" /\ arg' = arg
  BY <1>1 DEF ParamEdgeDone, SetTop
<1> HIDE DEF f
<1>8. InParam(f, mp, sp)
  <2>1. f.m \in Mod /\ f.x \in Returned(f.m) /\ mp[f.m].chain = FALSE /\ f.betaS <= MaxCost
    BY <1>3, <1>7 DEF InParam
  <2>2. f.costS >= 0
    <3>1. Top.costS >= 0
      BY <1>3 DEF InParam
    <3>2. QED
      BY <1>3, <1>7, <3>1
  <2>3. PICK pp \in Seq(Seq(Var)) : pp = G.mod[f.m].params
    BY <1>1, <2>1, ModIs
  <2>4. PICK n \in Nat : n = Len(pp)
    OBVIOUS
  <2>5. Top.edge \in 1 .. n /\ f.edge \in 0 .. n
    BY <1>2, <1>3, <1>7, <2>3, <2>4, SMTT(30) DEF Params
  <2>6. ASSUME f.edge > 0 PROVE f.pos <= Len(G.mod[f.m].params[f.edge]) + 1
    <3>1. PICK q \in Seq(Var) : q = pp[f.edge]
      BY <2>4, <2>5, <2>6
    <3>2. q = G.mod[f.m].params[f.edge]
      BY <2>3, <3>1, Zenon
    <3>3. f.pos <= Len(q) + 1
      BY <1>7
    <3>4. QED
      BY <3>2, <3>3, Zenon
  <2>7. ASSUME NEW e \in DOMAIN pp, NEW k \in DOMAIN pp[e], e > f.edge \/ (e = f.edge /\ k < f.pos)
        PROVE  sp[pp[e][k]].chain # None
    <3>1. e \in 1 .. n /\ k \in 1 .. Len(pp[e]) /\ Len(pp[e]) \in Nat
      BY <2>4
    <3>2. e >= Top.edge
      BY <1>3, <1>7, <2>7, <3>1
    <3>3. e = Top.edge => k < Top.pos
      <4> SUFFICES ASSUME e = Top.edge PROVE k < Top.pos
        OBVIOUS
      <4>1. PICK l \in Nat : l = Len(pp[e])
        BY <3>1
      <4>2. Top.pos > l
        BY <1>2, <1>7, <2>3, <4>1
      <4>3. QED
        BY <1>3, <3>1, <4>1, <4>2
    <3>4. e > Top.edge \/ (e = Top.edge /\ k < Top.pos)
      BY <1>3, <3>1, <3>2, <3>3
    <3>5. QED
      BY <1>3, <1>7, <2>3, <3>4, Zenon DEF InParam
  <2>8. \A e \in DOMAIN G.mod[f.m].params : \A k \in DOMAIN G.mod[f.m].params[e] :
           e > f.edge \/ (e = f.edge /\ k < f.pos) => sp[G.mod[f.m].params[e][k]].chain # None
    BY <2>3, <2>7, Zenon
  <2>9. f.edge \in 0 .. Len(G.mod[f.m].params) /\ f.pos >= 1
    BY <1>7, <2>3, <2>4, <2>5
  <2>10. QED
    BY <2>1, <2>2, <2>6, <2>8, <2>9, Zenon DEF InParam
<1>9. ASSUME NEW i \in 2 .. Len(X) - 1, X[i].m = f.m PROVE Behind(X[i], f, "param")
  <2>1. Chases(Top, X[i], X[i + 1].x, sp, mp, sw, "param")
    BY <1>1, <1>7, <1>9, TopChases
  <2>2. QED
    BY <1>1, <1>2, <1>7, <2>1, ChaseDown
<1>10. Moved(f, pc', arg'.x)
  BY <1>6, <1>7, <1>8, <1>9, <1>x DEF Moved, Ready, ModeOf
<1>11. QED
  BY <1>x, <1>10, TopRuns DEF ParamEdgeDone, RunInv, TypeInv, graph_vars, Searching

-----------------------------------------------------------------------------
(* Steps that select a chain.                                              *)

(* The search continues with stack Z, of which f becomes the top.          *)
LEMMA StackSet ==
    ASSUME G' = G, NEW Z, Stacked(Z, sp', mp', sw'), Len(Z) > 1, NEW f, Retopped(X', Z, f),
           Ready(f, pc', Z, sp', mp', sw')
    PROVE  /\ Stacked(X, sp, mp, sw)' /\ Top' = f /\ Len(X') = Len(Z)
           /\ Ready(Top, pc, X, sp, mp, sw)'
<1>1. /\ Stacked(X', sp', mp', sw') /\ Len(X') = Len(Z) /\ X'[Len(Z)] = f
      /\ \A i \in 1 .. Len(Z) - 1 : X'[i] = Z[i]
  BY Retop
<1>2. Top' = f
  BY <1>1 DEF Top
<1>3. PICK n \in Nat : n = Len(Z)
  BY DEF Stacked
<1>4. \A i \in 2 .. n - 1 : X'[i] = Z[i]
  BY <1>1, <1>3
<1>5. Ready(Top', pc', X', sp', mp', sw')
  BY <1>1, <1>2, <1>3, <1>4 DEF Ready
<1>6. QED
  BY <1>1, <1>2, <1>5, StackPrimes, ReadyPrimes

(* What remains to be shown of a step of the search.                       *)
LEMMA SearchRuns ==
    ASSUME RunInv, Answers, pc \in Searching \cup {"solve"}, G' = G, have' = have,
           UNCHANGED value_vars, UNCHANGED root_vars,
           sp' \in [Var -> VarState], mp' \in [Mod -> ModState],
           sw' \in [DOMAIN G.shadow -> {"none", "pass", "fail"}],
           arg' \in [x : Var \cup {None}, beta : Int, cost : Int],
           \A x \in Var : sp'[x].value = sp[x].value,
           \A m \in Mod : mp'[m].value = mp[m].value,
           StackInv', ChainInv', RankInv',
           \/ Len(X') > 1 /\ pc' \in Searching
           \/ Len(X') > 1 /\ pc' = "value" /\ arg'.x \in Var
           \/ Len(X') = 1 /\ pc' = "chains"
    PROVE  RunInv' /\ Answers'
<1>1. V = <<>> /\ V' = <<>>
  BY DEF RunInv, Where, value_vars
<1>2. TypeInv'
  BY TypesKept DEF RunInv, TypeInv, root_vars
<1>n. Len(X') \in Nat
  BY DEF StackInv, Stacked
<1>3. InRound /\ ~InGivens /\ ~InValues'
  <2>1. InRound /\ ~InGivens
    BY <1>1 DEF InRound, InGivens, Searching
  <2>2. pc' \notin {"values", "collect", "args", "unpack", "yield"}
    BY DEF Searching
  <2>3. pc' = "value" => Len(X') # 1
    <3>1. PICK n \in Nat : n = Len(X')
      BY <1>n
    <3>2. pc' = "value" => n > 1
      BY <3>1 DEF Searching
    <3>3. pc' = "value" => n # 1
      BY <3>2
    <3>4. QED
      BY <3>1, <3>3, Zenon
  <2>4. QED
    BY <2>1, <2>2, <2>3 DEF InValues
<1>4. ValueInv' /\ RootInv'
  BY <1>1, <1>3, SearchKeeps DEF Searching
<1>5. Var' = Var
  BY DEF Var
<1>6. Where'
  BY <1>1, <1>5 DEF Where, Searching, Passing
<1>7. Answers'
  BY AnswersKept DEF value_vars
<1>8. QED
  BY <1>2, <1>4, <1>6, <1>7 DEF RunInv

(* The candidate that is chosen.                                           *)
LEMMA Chosen ==
    ASSUME RunInv, pc = "candidate", NEW best, best = Best(Top.x, Top.beta), best.cost <= Top.beta
    PROVE  /\ best.cand \in Link /\ best.cand.m \in Mod /\ best.cand.ei \in Nat
           /\ Top.x \in Returned(best.cand.m) /\ best.beta \in Int /\ best.cost \in Int
           /\ CostfInvS(G, best.cand.m, best.beta) \in Int
           /\ CostfInvS(G, best.cand.m, best.beta) <= MaxCost
<1>1. Len(X) > 1
  BY DEF RunInv, Where, Searching
<1>2. Top.x \in Var /\ Top.beta \in Int /\ Top.beta <= MaxCost
  BY <1>1, TopFrame DEF Frame
<1>3. best \in Found(Top.x, Top.beta)
  BY <1>2, BestIs DEF RunInv, TypeInv
<1>4. MaxCost \in Nat /\ Inf \in Nat /\ MaxCost < Inf
  BY SolverAssumption
<1>5. best.beta \in Int /\ best.cost \in Int /\ best.beta <= Top.beta
  BY <1>3 DEF Found
<1>6. best.cost < Inf
  BY <1>2, <1>4, <1>5
<1>7. best.cand \in Candidates(Top.x)
  BY <1>3, <1>6 DEF Found
<1>8. best.cand \in Link /\ Top.x \in Returned(best.cand.m)
  BY <1>7 DEF Candidates
<1>9. best.cand.m \in Mod /\ best.cand.ei \in Nat
  BY <1>8 DEF Link
<1>10. PICK k \in Nat, c \in Nat \ {0} : k = G.mod[best.cand.m].k /\ c = G.mod[best.cand.m].c
  BY <1>9, ModIs, Zenon DEF RunInv, TypeInv
<1>11. best.beta - k \in Int /\ best.beta - k <= MaxCost
  BY <1>2, <1>4, <1>5
<1>12. (best.beta - k) \div c \in Int /\ (best.beta - k) \div c <= MaxCost
  BY <1>4, <1>11, Division
<1>13. CostfInvS(G, best.cand.m, best.beta) = (best.beta - k) \div c
  BY <1>10 DEF CostfInvS
<1>14. QED
  BY <1>5, <1>8, <1>9, <1>12, <1>13

(* Frames below the top when only the top's variable gets a chain, and     *)
(* its model, which none of them tries.                                    *)
LEMMA LowerKept ==
    ASSUME RunInv, Len(X) > 1, NEW s2, NEW mm2,
           \A y \in Var : y # Top.x => s2[y].chain = sp[y].chain,
           \A y \in Var : s2[y].cost = sp[y].cost, s2[Top.x].chain # None,
           \A i \in 2 .. Len(X) - 1 : mm2[X[i].m].chain = mp[X[i].m].chain
    PROVE  Stacked(X, s2, mm2, sw)
<1>1. Stacked(X, sp, mp, sw) /\ Top.x \in Var
  BY TopFrame DEF RunInv, StackInv
<1>2. ASSUME NEW i \in 2 .. Len(X) - 1 PROVE Undisturbed(X[i], sp, sw, s2, mm2, sw)
  <2>1. X[i] \in Frame /\ X[i].x # Top.x /\ Sleeps(X[i], X[i + 1].x, sp, mp, sw)
    BY Sleeping
  <2>2. X[i].x \in Var /\ sp[X[i].x].chain = None
    BY <2>1 DEF Frame, Sleeps
  <2>3. mp[X[i].m].chain = FALSE
    BY <2>1, Zenon DEF Sleeps, Waits, InShadow, InParam
  <2>4. X[i].where = "shadow" => sw[ShadowOf(X[i])] = "none"
    BY <2>1 DEF Sleeps, Waits
  <2>5. \A y \in Var : sp[y].chain # None => s2[y].chain # None
    OBVIOUS
  <2>6. QED
    BY <1>2, <2>1, <2>2, <2>3, <2>4, <2>5 DEF Undisturbed
<1>3. ASSUME NEW i \in 2 .. Len(X) PROVE s2[X[i].x].cost < 0
  <2>1. X[i] \in Frame /\ sp[X[i].x].cost < 0
    BY <1>1 DEF Stacked
  <2>2. QED
    BY <2>1 DEF Frame
<1>4. QED
  BY <1>1, <1>2, <1>3, Restate DEF RunInv, TypeInv

(* A variable gets its chain, to a model that is solved.                   *)
LEMMA ChainAdded ==
    ASSUME RunInv, V = <<>>, G' = G, mp' = mp, V' = V, NEW x \in Var, NEW cand \in Link,
           sp[x].chain = None, cand # None,
           sp'[x].chain = cand, mp[cand.m].chain = TRUE, x \in Returned(cand.m),
           \A y \in Var : y # x => sp'[y].chain = sp[y].chain,
           \A y \in Var : sp'[y].value = sp[y].value
    PROVE  ChainInv' /\ RankInv'
<1>1. Var' = Var /\ Mod' = Mod /\ \A m : Returned(m)' = Returned(m)
  BY DEF Var, Mod, Returned
<1>2. \A m \in Mod, y \in Var : IsParam(m, y)' <=> IsParam(m, y)
  BY DEF IsParam
<1>3. ChainInv
  BY DEF RunInv
<1>4. ChainInv'
  BY <1>1, <1>2, <1>3 DEF ChainInv
<1>5. PICK rank \in [Mod -> Nat], n \in Nat : Ranked(rank, n, sp, mp, V)
  BY DEF RunInv, RankInv
<1>6. ASSUME NEW m \in Mod, NEW y \in Var, mp[m].chain = TRUE, IsParam(m, y)
      PROVE  sp'[y].chain = sp[y].chain
  BY <1>3, <1>6 DEF ChainInv
<1>7. Ranked(rank, n, sp, mp, V)'
  BY <1>1, <1>2, <1>5, <1>6, Zenon DEF Ranked
<1>8. QED
  BY <1>1, <1>4, <1>7 DEF RankInv

LEMMA FirstShadow ==
    ASSUME G \in Graphs, NEW f, NEW mm, NEW w, f.m \in Mod, f.x \in Returned(f.m),
           mm[f.m].chain = FALSE, f.costS = 0, f.betaS <= MaxCost, f.edge = 1, f.pos = 1
    PROVE  InShadow(f, mm, w)
<1>1. PICK n \in Nat : n = Len(G.mod[f.m].shadows)
  BY ModIs
<1>2. 1 \in 1 .. n + 1
  BY <1>1, SMTT(30)
<1>3. ASSUME 1 <= n PROVE 1 <= Len(G.mod[f.m].shadows[1].over) + 1
  <2>1. 1 \in 1 .. n
    BY <1>3
  <2>2. PICK over \in Seq(DOMAIN G.shadow) : over = G.mod[f.m].shadows[1].over
    BY <1>1, <2>1, OverIs, Zenon
  <2>3. 1 <= Len(over) + 1
    OBVIOUS
  <2>4. QED
    BY <2>2, <2>3, Zenon
<1>4. \A q : ~(q \in 1 .. f.pos - 1)
  OBVIOUS
<1>5. QED
  BY <1>1, <1>2, <1>3, <1>4 DEF InShadow

(* The candidate was solved for another variable that it returns.          *)
LEMMA KnownModel ==
    ASSUME RunInv, Answers, Len(X) > 1, pc = "candidate", V = <<>>, G' = G,
           UNCHANGED <<mp, sw, have>>, UNCHANGED value_vars, UNCHANGED root_vars,
           NEW cand \in Link, cand.m \in Mod, Top.x \in Returned(cand.m), mp[cand.m].chain = TRUE,
           NEW f \in Frame, f.x = Top.x, f.beta = Top.beta, f.m = cand.m,
           X' = [X EXCEPT ![Len(X)] = f], pc' = "chosen",
           NEW cost \in Int, arg' = [arg EXCEPT !.cost = cost],
           sp' = [sp EXCEPT ![Top.x].chain = cand]
    PROVE  RunInv' /\ Answers'
<1>1. /\ sp \in [Var -> VarState] /\ Top.x \in Var /\ G \in Graphs
      /\ arg \in [x : Var \cup {None}, beta : Int, cost : Int]
  BY TopFrame DEF RunInv, TypeInv
<1>2. cand # None
  BY <1>1, VarIs
<1>3. sp' \in [Var -> VarState]
  <2>1. [sp[Top.x] EXCEPT !.chain = cand] \in VarState
    BY <1>1 DEF VarState
  <2>2. sp' = [sp EXCEPT ![Top.x] = [sp[Top.x] EXCEPT !.chain = cand]]
    BY <1>1
  <2>3. QED
    BY <1>1, <2>1, <2>2
<1>4. arg' \in [x : Var \cup {None}, beta : Int, cost : Int]
  BY <1>1
<1>5. /\ sp'[Top.x].chain = cand
      /\ \A y \in Var : y # Top.x => sp'[y].chain = sp[y].chain
      /\ \A y \in Var : sp'[y].cost = sp[y].cost /\ sp'[y].value = sp[y].value
  BY <1>1 DEF VarState
<1>6. Stacked(X, sp', mp', sw')
  <2>1. Stacked(X, sp', mp', sw)
    BY <1>2, <1>5, LowerKept
  <2>2. QED
    BY <2>1
<1>7. Retopped(X', X, f)
  BY DEF Retopped, Top
<1>8. Ready(f, pc', X, sp', mp', sw')
  BY DEF Ready, ModeOf
<1>9. /\ Stacked(X, sp, mp, sw)' /\ Top' = f /\ Len(X') = Len(X)
      /\ Ready(Top, pc, X, sp, mp, sw)'
  BY <1>6, <1>7, <1>8, StackSet
<1>10. StackInv'
  <2>1. V' = <<>> /\ Mod' = Mod
    BY DEF value_vars, Mod
  <2>2. TopInv'
    BY <1>2, <1>5, <1>9, <2>1 DEF TopInv
  <2>3. QED
    BY <1>9, <2>2 DEF StackInv
<1>11. sp[Top.x].chain = None
  BY DEF RunInv, StackInv, TopInv
<1>12. ChainInv' /\ RankInv'
  <2>1. V' = V /\ mp' = mp
    BY DEF value_vars
  <2>2. \A y \in Var : sp'[y].value = sp[y].value
    BY <1>5
  <2>3. QED
    BY <1>1, <1>2, <1>5, <1>11, <2>1, <2>2, ChainAdded
<1>13. QED
  BY <1>1, <1>3, <1>4, <1>5, <1>9, <1>10, <1>12, SearchRuns DEF Searching, RunInv, TypeInv

(* Frame f is g, trying model m.                                           *)
Tried(f, g, m, ei, beta, b) ==
    f = [g EXCEPT !.m = m, !.ei = ei, !.mbeta = beta, !.betaS = b, !.costS = 0,
                  !.edge = 1, !.pos = 1]

LEMMA TriedFrame ==
    ASSUME NEW g \in Frame, NEW m \in Mod, NEW ei \in Nat, NEW beta \in Int, NEW b \in Int, NEW f,
           Tried(f, g, m, ei, beta, b)
    PROVE  /\ f \in Frame /\ f.x = g.x /\ f.beta = g.beta /\ f.m = m /\ f.betaS = b
           /\ f.costS = 0 /\ f.edge = 1 /\ f.pos = 1
<1>1. PICK f1 : f1 = [g EXCEPT !.m = m, !.ei = ei, !.mbeta = beta]
  OBVIOUS
<1>2. f1 \in Frame /\ f1.x = g.x /\ f1.beta = g.beta /\ f1.m = m
  BY <1>1 DEF Frame
<1>3. PICK f2 : f2 = [f1 EXCEPT !.betaS = b]
  OBVIOUS
<1>4. f2 \in Frame
  BY <1>2, <1>3 DEF Frame
<1>5. f2.x = g.x /\ f2.beta = g.beta /\ f2.m = m /\ f2.betaS = b
  BY <1>2, <1>3 DEF Frame
<1>6. PICK f3 : f3 = [f2 EXCEPT !.costS = 0]
  OBVIOUS
<1>7. f3 \in Frame
  BY <1>4, <1>6 DEF Frame
<1>8. f3.x = g.x /\ f3.beta = g.beta /\ f3.m = m /\ f3.betaS = b /\ f3.costS = 0
  BY <1>4, <1>5, <1>6 DEF Frame
<1>9. f = [f3 EXCEPT !.edge = 1, !.pos = 1]
  BY <1>1, <1>3, <1>6 DEF Tried
<1>10. f \in Frame
  BY <1>7, <1>9 DEF Frame
<1>11. QED
  BY <1>7, <1>8, <1>9, <1>10 DEF Frame

LEMMA DoCandidate == ASSUME RunInv, Answers, Candidate PROVE RunInv' /\ Answers'
<1>1. Len(X) > 1 /\ G \in Graphs /\ pc = "candidate" /\ V = <<>>
  BY DEF Candidate, RunInv, TypeInv, Where, Searching
<1>2. PICK best : best = Best(Top.x, Top.beta)
  OBVIOUS
<1>3. /\ Top \in Frame /\ X = [X EXCEPT ![Len(X)] = Top] /\ Top.x \in Var /\ Top.beta \in Int
      /\ Top.beta <= MaxCost
  BY <1>1, TopFrame DEF Frame
<1>4. best.cost \in Int
  BY <1>1, <1>2, <1>3, BestIs DEF RunInv, TypeInv, Found
<1>5. arg \in [x : Var \cup {None}, beta : Int, cost : Int]
  BY DEF RunInv, TypeInv
<1>6. /\ G' = G /\ UNCHANGED <<mp, sw, have>> /\ UNCHANGED value_vars /\ UNCHANGED root_vars
  BY DEF Candidate, graph_vars
<1>7. CASE best.cost > Top.beta
  <2>1. pc' = "failed" /\ arg' = [arg EXCEPT !.cost = best.cost] /\ X' = X /\ sp' = sp
    BY <1>2, <1>7 DEF Candidate
  <2>2. arg' \in [x : Var \cup {None}, beta : Int, cost : Int]
    BY <1>4, <1>5, <2>1
  <2>3. Moved(Top, pc', arg'.x)
    BY <1>3, <2>1 DEF Moved, Ready, ModeOf
  <2>4. QED
    BY <1>1, <1>3, <1>6, <2>1, <2>2, <2>3, TopRuns DEF Searching
<1>8. CASE ~(best.cost > Top.beta)
  <2>1. best.cost <= Top.beta
    BY <1>3, <1>4, <1>8
  <2>2. /\ best.cand \in Link /\ best.cand.m \in Mod /\ best.cand.ei \in Nat
        /\ Top.x \in Returned(best.cand.m) /\ best.beta \in Int
        /\ CostfInvS(G, best.cand.m, best.beta) \in Int
        /\ CostfInvS(G, best.cand.m, best.beta) <= MaxCost
    BY <1>1, <1>2, <2>1, Chosen
  <2> DEFINE m == best.cand.m
  <2>3. PICK f : f = [Top EXCEPT !.m = m, !.ei = best.cand.ei, !.mbeta = best.beta,
                                 !.betaS = CostfInvS(G, m, best.beta), !.costS = 0,
                                 !.edge = 1, !.pos = 1]
    OBVIOUS
  <2>4. X' = [X EXCEPT ![Len(X)] = f]
    BY <1>2, <1>8, <2>3 DEF Candidate, SetTop
  <2>5. PICK ei \in Nat, beta \in Int, b \in Int :
           ei = best.cand.ei /\ beta = best.beta /\ b = CostfInvS(G, m, best.beta)
    BY <2>2
  <2>6. Tried(f, Top, m, ei, beta, b)
    BY <2>3, <2>5 DEF Tried
  <2>7. /\ f \in Frame /\ f.x = Top.x /\ f.beta = Top.beta /\ f.m = m /\ f.betaS = b
        /\ f.costS = 0 /\ f.edge = 1 /\ f.pos = 1
    BY <1>3, <2>2, <2>6, TriedFrame
  <2>8. b <= MaxCost
    BY <2>2, <2>5
  <2>11. mp[m].chain \in BOOLEAN
    BY <2>2 DEF RunInv, TypeInv, ModState
  <2>12. CASE mp[m].chain = TRUE
    <3>1. pc' = "chosen" /\ arg' = [arg EXCEPT !.cost = best.cost]
          /\ sp' = [sp EXCEPT ![Top.x].chain = best.cand]
      BY <1>2, <1>8, <2>12 DEF Candidate
    <3>2. QED
      BY <1>1, <1>3, <1>4, <1>5, <1>6, <2>2, <2>4, <2>7, <2>12, <3>1, KnownModel
  <2>13. CASE mp[m].chain = FALSE
    <3>1. pc' = "shadow" /\ arg' = arg /\ sp' = sp
      BY <1>2, <1>8, <2>13 DEF Candidate
    <3>2. InShadow(f, mp, sw)
      BY <1>1, <2>2, <2>7, <2>8, <2>13, FirstShadow
    <3>3. ASSUME NEW i \in 2 .. Len(X) - 1, X[i].m = f.m PROVE Behind(X[i], f, "shadow")
      <4>1. Sleeps(X[i], X[i + 1].x, sp, mp, sw) /\ X[i] \in Frame
        BY <1>1, Sleeping
      <4>2. X[i].edge \in Nat /\ X[i].pos \in Nat
        BY <4>1 DEF Frame
      <4>3. X[i].where = "shadow" => X[i].edge >= 1 /\ X[i].pos >= 1
        <5>1. X[i].where = "shadow" =>
                 X[i].m \in Mod /\ X[i].edge \in 1 .. Len(G.mod[X[i].m].shadows) + 1 /\ X[i].pos >= 1
          BY <4>1, Zenon DEF Sleeps, InShadow
        <5>2. G \in Graphs
          BY DEF RunInv, TypeInv
        <5>3. ASSUME X[i].m \in Mod PROVE Len(G.mod[X[i].m].shadows) \in Nat
          BY <5>2, <5>3, ModIs, SeqIs, Zenon
        <5>4. QED
          BY <5>1, <5>3, SMTT(30)
      <4>4. QED
        BY <2>7, <4>2, <4>3 DEF Behind
    <3>4. Moved(f, pc', arg'.x)
      BY <2>7, <3>1, <3>2, <3>3 DEF Moved, Ready, ModeOf
    <3>5. QED
      BY <1>1, <1>5, <1>6, <2>4, <3>1, <3>4, TopRuns DEF Searching
  <2>14. QED
    BY <2>11, <2>12, <2>13
<1>9. QED
  BY <1>7, <1>8

LEMMA CostIs ==
    ASSUME G \in Graphs, NEW m \in Mod, NEW S \in Int
    PROVE  Costf(G, m, S) \in Int
<1>1. PICK k \in Nat, c \in Nat : k = G.mod[m].k /\ c = G.mod[m].c
  BY ModIs
<1>2. k + c * S \in Int /\ Inf \in Int
  BY SolverAssumption
<1>3. Cap(k + c * S) \in Int
  BY <1>2 DEF Cap, Smaller
<1>4. QED
  BY <1>1, <1>3 DEF Costf

NewChain(x, cand) ==
    /\ sp'[x].chain = cand
    /\ \A y \in Var : y # x => sp'[y].chain = sp[y].chain
    /\ \A y \in Var : sp'[y].value = sp[y].value
NewModel(n) ==
    /\ mp'[n].chain = TRUE
    /\ \A m \in Mod : m # n => mp'[m].chain = mp[m].chain
    /\ \A m \in Mod : mp'[m].value = mp[m].value

(* A model is solved last of all so far, when all its parameters have      *)
(* chains.                                                                 *)
LEMMA ModelAdded ==
    ASSUME RunInv, V = <<>>, G' = G, V' = V, NEW x \in Var, NEW n \in Mod, NEW cand \in Link,
           cand.m = n, cand # None, x \in Returned(n), sp[x].chain = None, mp[n].chain = FALSE,
           \A y \in Var : IsParam(n, y) => sp[y].chain # None,
           NewChain(x, cand), NewModel(n)
    PROVE  ChainInv' /\ RankInv'
<1>s. /\ sp'[x].chain = cand /\ \A y \in Var : y # x => sp'[y].chain = sp[y].chain
      /\ \A y \in Var : sp'[y].value = sp[y].value
  BY DEF NewChain
<1>m. /\ mp'[n].chain = TRUE /\ \A m \in Mod : m # n => mp'[m].chain = mp[m].chain
      /\ \A m \in Mod : mp'[m].value = mp[m].value
  BY DEF NewModel
<1>1. Var' = Var /\ Mod' = Mod /\ \A m : Returned(m)' = Returned(m)
  BY DEF Var, Mod, Returned
<1>2. \A m \in Mod, y \in Var : IsParam(m, y)' <=> IsParam(m, y)
  BY DEF IsParam
<1>3. ChainInv
  BY DEF RunInv
<1>4. \A y \in Var : sp[y].chain # None =>
         y # x /\ sp[y].chain.m \in Mod /\ sp[y].chain.m # n /\ mp[sp[y].chain.m].chain = TRUE
  BY <1>3 DEF ChainInv, RunInv, TypeInv, VarState, Link
<1>5. ChainInv'
  <2>1. \A y \in Var : sp'[y].chain # None =>
           mp'[sp'[y].chain.m].chain = TRUE /\ y \in Returned(sp'[y].chain.m)
    <3>1. ASSUME NEW y \in Var, sp'[y].chain # None
          PROVE  mp'[sp'[y].chain.m].chain = TRUE /\ y \in Returned(sp'[y].chain.m)
      <4>1. CASE y = x
        BY <1>s, <1>m, <4>1
      <4>2. CASE y # x
        <5>1. sp'[y].chain = sp[y].chain
          BY <1>s, <4>2
        <5>2. QED
          BY <1>m, <1>3, <1>4, <3>1, <5>1 DEF ChainInv
      <4>3. QED
        BY <4>1, <4>2
    <3>2. QED
      BY <3>1
  <2>2. \A y \in Var : sp'[y].value = TRUE => sp'[y].chain # None
    BY <1>s, <1>3 DEF ChainInv
  <2>3. \A m \in Mod : mp'[m].value = TRUE => mp'[m].chain = TRUE
    BY <1>m, <1>3 DEF ChainInv
  <2>4. \A m \in Mod, y \in Var : mp'[m].chain = TRUE /\ IsParam(m, y) => sp'[y].chain # None
    <3>1. ASSUME NEW m \in Mod, NEW y \in Var, mp'[m].chain = TRUE, IsParam(m, y)
          PROVE  sp'[y].chain # None
      <4>1. sp[y].chain # None
        BY <1>m, <1>3, <3>1 DEF ChainInv
      <4>2. QED
        BY <1>s, <1>4, <4>1
    <3>2. QED
      BY <3>1
  <2>5. QED
    BY <1>1, <1>2, <2>1, <2>2, <2>3, <2>4 DEF ChainInv
<1>6. PICK rank \in [Mod -> Nat], k \in Nat : Ranked(rank, k, sp, mp, V)
  BY DEF RunInv, RankInv
<1>7. PICK rank2 \in [Mod -> Nat] : rank2 = [rank EXCEPT ![n] = k]
  <2>1. [rank EXCEPT ![n] = k] \in [Mod -> Nat]
    OBVIOUS
  <2>2. QED
    BY <2>1
<1>8. rank2[n] = k /\ \A m \in Mod : m # n => rank2[m] = rank[m]
  BY <1>7
<1>9. \A m \in Mod : mp[m].chain = TRUE => rank[m] < k /\ m # n
  BY <1>6 DEF Ranked
<1>10. k + 1 \in Nat
  OBVIOUS
<1>11. \A m \in Mod : mp'[m].chain = TRUE => rank2[m] < k + 1
  <2>1. ASSUME NEW m \in Mod, mp'[m].chain = TRUE PROVE rank2[m] < k + 1
    <3>1. CASE m = n
      BY <1>8, <3>1
    <3>2. CASE m # n
      <4>1. rank2[m] = rank[m] /\ rank[m] < k /\ rank[m] \in Nat
        BY <1>m, <1>8, <1>9, <2>1, <3>2
      <4>2. QED
        BY <4>1
    <3>3. QED
      BY <3>1, <3>2
  <2>2. QED
    BY <2>1
<1>12. ASSUME NEW m \in Mod, NEW y \in Var, mp'[m].chain = TRUE, IsParam(m, y)
       PROVE  rank2[sp'[y].chain.m] < rank2[m]
  <2>1. sp[y].chain # None
    BY <1>m, <1>3, <1>12 DEF ChainInv
  <2>2. PICK q \in Mod : q = sp[y].chain.m /\ q = sp'[y].chain.m /\ q # n /\ mp[q].chain = TRUE
    BY <1>s, <1>4, <2>1
  <2>3. rank2[q] = rank[q] /\ rank[q] < k
    BY <1>8, <1>9, <2>2
  <2>4. CASE m = n
    BY <1>8, <2>2, <2>3, <2>4
  <2>5. CASE m # n
    <3>1. mp[m].chain = TRUE
      BY <1>m, <1>12, <2>5
    <3>2. rank[sp[y].chain.m] < rank[m]
      BY <1>6, <1>12, <3>1 DEF Ranked
    <3>3. QED
      BY <1>8, <2>2, <2>3, <2>5, <3>2
  <2>6. QED
    BY <2>4, <2>5
<1>13. DOMAIN V' = {}
  OBVIOUS
<1>14. Ranked(rank2, k + 1, sp, mp, V)'
  BY <1>1, <1>2, <1>11, <1>12, <1>13 DEF Ranked
<1>15. QED
  BY <1>1, <1>5, <1>10, <1>14 DEF RankInv

LEMMA DoChainSolved == ASSUME RunInv, Answers, ChainSolved PROVE RunInv' /\ Answers'
<1>1. Len(X) > 1 /\ ModeOf(pc, Top) = "param" /\ G \in Graphs /\ pc = "param" /\ V = <<>>
  BY DEF ChainSolved, RunInv, TypeInv, Where, Searching, ModeOf
<1>2. /\ InParam(Top, mp, sp) /\ Top.m \in Mod /\ Top.costS \in Int /\ Top.edge = 0
      /\ Params \in Seq(Seq(Var))
  BY <1>1, TopParam DEF ChainSolved
<1>3. /\ sp \in [Var -> VarState] /\ mp \in [Mod -> ModState] /\ Top.x \in Var /\ Top.ei \in Nat
      /\ arg \in [x : Var \cup {None}, beta : Int, cost : Int]
  BY <1>1, TopFrame DEF RunInv, TypeInv, Frame
<1>4. PICK cost \in Int : cost = Costf(G, Top.m, Top.costS)
  BY <1>1, <1>2, CostIs
<1>5. PICK cand \in Link : cand = [ei |-> Top.ei, m |-> Top.m]
  BY <1>2, <1>3 DEF Link
<1>6. cand.m = Top.m /\ cand # None
  BY <1>1, <1>5, VarIs
<1>7. /\ mp' = [mp EXCEPT ![Top.m] = [cost |-> cost, chain |-> TRUE, value |-> FALSE]]
      /\ sp' = [sp EXCEPT ![Top.x].chain = cand]
      /\ arg' = [arg EXCEPT !.cost = cost]
      /\ pc' = "chosen" /\ X' = X /\ sw' = sw /\ G' = G /\ have' = have
      /\ UNCHANGED value_vars /\ UNCHANGED root_vars
  BY <1>4, <1>5 DEF ChainSolved, graph_vars
<1>8. sp' \in [Var -> VarState]
  <2>1. [sp[Top.x] EXCEPT !.chain = cand] \in VarState
    BY <1>3 DEF VarState
  <2>2. sp' = [sp EXCEPT ![Top.x] = [sp[Top.x] EXCEPT !.chain = cand]]
    BY <1>3, <1>7
  <2>3. QED
    BY <1>3, <2>1, <2>2
<1>9. mp' \in [Mod -> ModState]
  <2>1. [cost |-> cost, chain |-> TRUE, value |-> FALSE] \in ModState
    BY DEF ModState
  <2>2. QED
    BY <1>2, <1>3, <1>7, <2>1
<1>10. arg' \in [x : Var \cup {None}, beta : Int, cost : Int]
  BY <1>3, <1>7
<1>11. /\ sp'[Top.x].chain = cand
       /\ \A y \in Var : y # Top.x => sp'[y].chain = sp[y].chain
       /\ \A y \in Var : sp'[y].cost = sp[y].cost
       /\ \A y \in Var : sp'[y].value = sp[y].value
  BY <1>3, <1>7 DEF VarState
<1>12. sp[Top.x].chain = None /\ mp[Top.m].chain = FALSE /\ Top.x \in Returned(Top.m)
  BY <1>1, <1>2 DEF RunInv, StackInv, TopInv, InParam
<1>13. mp[Top.m].value = FALSE
  BY <1>2, <1>3, <1>12 DEF RunInv, ChainInv, ModState
<1>14. /\ mp'[Top.m].chain = TRUE
       /\ \A m \in Mod : m # Top.m => mp'[m].chain = mp[m].chain
       /\ \A m \in Mod : mp'[m].value = mp[m].value
  <2>1. mp'[Top.m].chain = TRUE /\ mp'[Top.m].value = FALSE
    BY <1>2, <1>3, <1>7
  <2>2. \A m \in Mod : m # Top.m => mp'[m] = mp[m]
    BY <1>3, <1>7
  <2>3. QED
    BY <1>13, <2>1, <2>2
<1>15. \A i \in 2 .. Len(X) - 1 : X[i].m # Top.m
  <2> SUFFICES ASSUME NEW i \in 2 .. Len(X) - 1, X[i].m = Top.m PROVE FALSE
    OBVIOUS
  <2>1. Chases(Top, X[i], X[i + 1].x, sp, mp, sw, "param")
    BY <1>1, TopChases
  <2>2. /\ X[i].edge \in Nat /\ X[i].edge \in 1 .. Len(G.mod[Top.m].params)
        /\ Top.edge > X[i].edge \/ Top.edge = X[i].edge
    BY <1>1, <2>1, ChaseParam
  <2>3. QED
    BY <1>2, <2>2
<1>16. \A i \in 2 .. Len(X) - 1 : mp'[X[i].m].chain = mp[X[i].m].chain
  <2>1. ASSUME NEW i \in 2 .. Len(X) - 1 PROVE mp'[X[i].m].chain = mp[X[i].m].chain
    <3>1. Sleeps(X[i], X[i + 1].x, sp, mp, sw)
      BY <1>1, Sleeping
    <3>2. X[i].m \in Mod
      BY <3>1, Zenon DEF Sleeps, Waits, InShadow, InParam
    <3>3. QED
      BY <1>14, <1>15, <3>2
  <2>2. QED
    BY <2>1
<1>17. Stacked(X, sp', mp', sw')
  <2>1. Stacked(X, sp', mp', sw)
    BY <1>1, <1>6, <1>11, <1>16, LowerKept
  <2>2. QED
    BY <1>7, <2>1
<1>18. Retopped(X', X, Top)
  <2>1. Top \in Frame /\ X = [X EXCEPT ![Len(X)] = Top]
    BY <1>1, TopFrame
  <2>2. QED
    BY <1>7, <2>1 DEF Retopped, Top
<1>19. Ready(Top, pc', X, sp', mp', sw')
  BY <1>7 DEF Ready, ModeOf
<1>20. PICK f : f = Top
  OBVIOUS
<1>21. /\ Stacked(X, sp, mp, sw)' /\ Top' = f /\ Len(X') = Len(X)
       /\ Ready(Top, pc, X, sp, mp, sw)'
  BY <1>1, <1>7, <1>17, <1>18, <1>19, <1>20, StackSet
<1>22. StackInv'
  <2>1. V' = <<>> /\ Mod' = Mod
    BY <1>1, <1>7 DEF value_vars, Mod
  <2>2. TopInv'
    BY <1>2, <1>6, <1>7, <1>11, <1>20, <1>21, <2>1 DEF TopInv
  <2>3. QED
    BY <1>21, <2>2 DEF StackInv
<1>23. \A y \in Var : IsParam(Top.m, y) => sp[y].chain # None
  <2>1. ASSUME NEW e \in DOMAIN G.mod[Top.m].params, NEW k \in DOMAIN G.mod[Top.m].params[e]
        PROVE  sp[G.mod[Top.m].params[e][k]].chain # None
    <3>1. e > Top.edge
      BY <1>2 DEF Params
    <3>2. QED
      BY <1>2, <3>1 DEF InParam
  <2>2. QED
    BY <2>1, Zenon DEF IsParam
<1>24. ChainInv' /\ RankInv'
  <2>1. V' = V
    BY <1>7 DEF value_vars
  <2>2. QED
    <3>1. NewChain(Top.x, cand) /\ NewModel(Top.m)
      BY <1>11, <1>14 DEF NewChain, NewModel
    <3>2. QED
      BY <1>1, <1>2, <1>3, <1>6, <1>7, <1>12, <1>23, <2>1, <3>1, ModelAdded
<1>25. sw' \in [DOMAIN G.shadow -> {"none", "pass", "fail"}]
  BY <1>7 DEF RunInv, TypeInv
<1>26. Len(X') > 1 /\ pc' \in Searching /\ pc \in Searching
  BY <1>1, <1>7 DEF Searching
<1>27. QED
  BY <1>7, <1>8, <1>9, <1>10, <1>11, <1>14, <1>22, <1>24, <1>25, <1>26, SearchRuns

LEMMA ShadowIs ==
    ASSUME G \in Graphs, NEW f \in Frame, NEW y, NEW mm, NEW w, AtShadow(f, y), InShadow(f, mm, w)
    PROVE  ShadowOf(f) \in DOMAIN G.shadow
<1>1. f.m \in Mod /\ f.edge >= 1 /\ f.pos >= 1 /\ f.edge \in Nat /\ f.pos \in Nat
  BY SMTT(30) DEF InShadow, Frame
<1>2. PICK n \in Nat : n = Len(G.mod[f.m].shadows)
  BY <1>1, ModIs
<1>3. f.edge \in 1 .. n
  BY <1>1, <1>2 DEF AtShadow
<1>4. PICK over \in Seq(DOMAIN G.shadow) : over = G.mod[f.m].shadows[f.edge].over
  BY <1>1, <1>2, <1>3, OverIs
<1>5. f.pos \in 1 .. Len(over)
  BY <1>1, <1>4 DEF AtShadow
<1>6. over[f.pos] \in DOMAIN G.shadow
  BY <1>5
<1>7. QED
  BY <1>4, <1>6, Zenon DEF ShadowOf

(* S_checkscan leaves the shadows that sleeping frames wait for alone:     *)
(* their variables have no values.                                         *)
LEMMA CheckKeeps ==
    ASSUME RunInv, Check, pc = "check", Len(X) > 1
    PROVE  /\ sw' \in [DOMAIN G.shadow -> {"none", "pass", "fail"}]
           /\ \A u \in DOMAIN G.shadow : sw[u] = "pass" => sw'[u] = "pass"
           /\ Stacked(X, sp, mp, sw')
<1>1. ModeOf(pc, Top) = "shadow" /\ G \in Graphs
  BY DEF RunInv, TypeInv, ModeOf
<1>2. sw \in [DOMAIN G.shadow -> {"none", "pass", "fail"}]
  BY DEF RunInv, TypeInv
<1>3. sw' = [w \in DOMAIN sw |->
                IF w \notin Scanned(W) THEN sw[w]
                ELSE IF sw[w] = "pass" \/ G.shadow[w].ok THEN "pass" ELSE "fail"]
  BY DEF Check
<1>4. sw' \in [DOMAIN G.shadow -> {"none", "pass", "fail"}]
  BY <1>2, <1>3
<1>5. \A u \in DOMAIN G.shadow : sw[u] = "pass" => sw'[u] = "pass"
  BY <1>2, <1>3
<1>6. \A u \in DOMAIN G.shadow : u \notin Scanned(W) => sw'[u] = sw[u]
  BY <1>2, <1>3
<1>7. AtShadow(Top, G.shadow[ShadowOf(Top)].x) /\ HasValue(G.shadow[ShadowOf(Top)].x)
  BY DEF RunInv, StackInv, TopInv
<1>8. Top.edge <= Len(Shadows) /\ Top.pos <= Len(Shadows[Top.edge].over)
  BY <1>7 DEF AtShadow, Shadows
<1>9. W = ShadowOf(Top) /\ W \in DOMAIN G.shadow
  BY <1>1, <1>8, TopShadow
<1>10. \A u \in Scanned(W) : HasValue(G.shadow[u].x)
  BY <1>1, <1>7, <1>9, ScannedIs
<1>11. ASSUME NEW i \in 2 .. Len(X) - 1 PROVE Undisturbed(X[i], sp, sw, sp, mp, sw')
  <2>1. /\ X[i] \in Frame /\ Sleeps(X[i], X[i + 1].x, sp, mp, sw) /\ ~HasValue(X[i + 1].x)
    BY Sleeping
  <2>2. sp[X[i].x].chain = None /\ mp[X[i].m].chain = FALSE
    BY <2>1, Zenon DEF Sleeps, Waits, InShadow, InParam
  <2>3. ASSUME X[i].where = "shadow" PROVE sw'[ShadowOf(X[i])] = "none"
    <3>1. /\ sw[ShadowOf(X[i])] = "none" /\ AtShadow(X[i], X[i + 1].x)
      BY <2>1, <2>3 DEF Sleeps, Waits
    <3>2. InShadow(X[i], mp, sw)
      BY <2>1, <2>3 DEF Sleeps
    <3>3. ShadowOf(X[i]) \in DOMAIN G.shadow
      BY <1>1, <2>1, <3>1, <3>2, ShadowIs
    <3>4. G.shadow[ShadowOf(X[i])].x = X[i + 1].x
      BY <3>1 DEF AtShadow
    <3>5. ShadowOf(X[i]) \notin Scanned(W)
      BY <1>10, <2>1, <3>4
    <3>6. QED
      BY <1>6, <3>1, <3>3, <3>5
  <2>4. QED
    BY <1>5, <2>2, <2>3 DEF Undisturbed
<1>12. Stacked(X, sp, mp, sw) /\ \A i \in 2 .. Len(X) : sp[X[i].x].cost < 0
  BY DEF RunInv, StackInv, Stacked
<1>13. Stacked(X, sp, mp, sw')
  BY <1>1, <1>11, <1>12, Restate
<1>14. QED
  BY <1>4, <1>5, <1>13

LEMMA DoCheck == ASSUME RunInv, Answers, Check PROVE RunInv' /\ Answers'
<1>1. Len(X) > 1 /\ ModeOf(pc, Top) = "shadow" /\ G \in Graphs /\ pc = "check" /\ V = <<>>
  BY DEF Check, RunInv, TypeInv, Where, Searching, ModeOf
<1>2. AtShadow(Top, G.shadow[ShadowOf(Top)].x) /\ HasValue(G.shadow[ShadowOf(Top)].x)
  BY <1>1 DEF RunInv, StackInv, TopInv
<1>3. Top.edge <= Len(Shadows) /\ Top.pos <= Len(Shadows[Top.edge].over)
  BY <1>2 DEF AtShadow, Shadows
<1>4. /\ InShadow(Top, mp, sw) /\ Top.m \in Mod /\ Top.edge \in Nat /\ Top.pos \in Nat
      /\ Top.costS \in Int /\ Shadows[Top.edge].penalty \in Nat
      /\ W = ShadowOf(Top) /\ W \in DOMAIN G.shadow
  BY <1>1, <1>3, TopShadow
<1>5. Top \in Frame
  BY <1>1, TopFrame
<1>6. /\ Top.edge <= Len(G.mod[Top.m].shadows)
      /\ Top.pos <= Len(G.mod[Top.m].shadows[Top.edge].over)
  BY <1>3 DEF Shadows
<1>7. /\ sw' \in [DOMAIN G.shadow -> {"none", "pass", "fail"}]
      /\ \A u \in DOMAIN G.shadow : sw[u] = "pass" => sw'[u] = "pass"
      /\ Stacked(X, sp, mp, sw')
  BY <1>1, CheckKeeps
<1>8. /\ G' = G /\ sp' = sp /\ mp' = mp /\ arg' = arg /\ have' = have
      /\ UNCHANGED value_vars /\ UNCHANGED root_vars /\ V' = V
  BY DEF Check, graph_vars, value_vars
<1>9. \A i \in 2 .. Len(X) - 1 : X[i].m = Top.m =>
         /\ Chases(Top, X[i], X[i + 1].x, sp, mp, sw, "shadow")
         /\ G.shadow[ShadowOf(Top)].x # X[i + 1].x
  <2>1. ASSUME NEW i \in 2 .. Len(X) - 1, X[i].m = Top.m
        PROVE  /\ Chases(Top, X[i], X[i + 1].x, sp, mp, sw, "shadow")
               /\ G.shadow[ShadowOf(Top)].x # X[i + 1].x
    <3>1. Chases(Top, X[i], X[i + 1].x, sp, mp, sw, "shadow")
      BY <1>1, <2>1, TopChases
    <3>2. ~HasValue(X[i + 1].x)
      BY <1>1, Sleeping
    <3>3. QED
      BY <1>2, <3>1, <3>2
  <2>2. QED
    BY <2>1
<1>10. ASSUME NEW f \in Frame, f.x = Top.x, f.beta = Top.beta, f.m = Top.m,
              X' = [X EXCEPT ![Len(X)] = f], pc' \in {"shadow", "bound"}, InShadow(f, mp, sw'),
              \A i \in 2 .. Len(X) - 1 : X[i].m = f.m => Behind(X[i], f, "shadow")
       PROVE  RunInv' /\ Answers'
  <2>1. Retopped(X', X, f)
    BY <1>10 DEF Retopped, Top
  <2>2. Stacked(X, sp', mp', sw')
    BY <1>7, <1>8
  <2>3. Ready(f, pc', X, sp', mp', sw')
    BY <1>8, <1>10 DEF Ready, ModeOf
  <2>4. /\ Stacked(X, sp, mp, sw)' /\ Top' = f /\ Len(X') = Len(X)
        /\ Ready(Top, pc, X, sp, mp, sw)'
    BY <1>1, <1>8, <2>1, <2>2, <2>3, StackSet
  <2>5. sp[Top.x].chain = None
    BY <1>1 DEF RunInv, StackInv, TopInv
  <2>6. Mod' = Mod /\ V' = <<>>
    BY <1>1, <1>8 DEF Mod
  <2>7. TopInv'
    BY <1>4, <1>8, <1>10, <2>4, <2>5, <2>6 DEF TopInv
  <2>8. StackInv'
    BY <2>4, <2>7 DEF StackInv
  <2>9. ChainInv' /\ RankInv'
    BY <1>8, ChainsKept DEF RunInv, TypeInv
  <2>10. Len(X') > 1 /\ pc' \in Searching /\ pc \in Searching
    BY <1>1, <1>10, <2>4 DEF Searching
  <2>11. /\ sp' \in [Var -> VarState] /\ mp' \in [Mod -> ModState]
         /\ arg' \in [x : Var \cup {None}, beta : Int, cost : Int]
    BY <1>8 DEF RunInv, TypeInv
  <2>12. QED
    BY <1>7, <1>8, <2>8, <2>9, <2>10, <2>11, SearchRuns
<1>11. CASE sw'[W] = "pass"
  <2>1. PICK f : f = [Top EXCEPT !.pos = @ + 1]
    OBVIOUS
  <2>2. X' = [X EXCEPT ![Len(X)] = f] /\ pc' = "shadow"
    BY <1>11, <2>1 DEF Check, SetTop
  <2>3. Top.pos + 1 \in Nat
    BY <1>4
  <2>4. f \in Frame
    BY <1>5, <2>1, <2>3 DEF Frame
  <2>5. /\ f.x = Top.x /\ f.beta = Top.beta /\ f.m = Top.m /\ f.costS = Top.costS
        /\ f.betaS = Top.betaS /\ f.edge = Top.edge /\ f.pos = Top.pos + 1
    BY <1>5, <2>1 DEF Frame
  <2>6. InShadow(f, mp, sw')
    BY <1>1, <1>4, <1>6, <1>7, <1>11, <2>5, NextInstance, Zenon
  <2>7. ASSUME NEW i \in 2 .. Len(X) - 1, X[i].m = f.m PROVE Behind(X[i], f, "shadow")
    BY <1>1, <1>9, <2>5, <2>7, ChaseInstance
  <2>8. QED
    BY <1>10, <2>2, <2>4, <2>5, <2>6, <2>7
<1>12. CASE sw'[W] # "pass"
  <2> DEFINE S == Top.costS + G.mod[Top.m].shadows[Top.edge].penalty
  <2>1. PICK f : f = [Top EXCEPT !.costS = S, !.edge = @ + 1, !.pos = 1]
    OBVIOUS
  <2>2. X' = [X EXCEPT ![Len(X)] = f] /\ pc' \in {"shadow", "bound"}
    BY <1>12, <2>1, Zenon DEF Check, Penalize
  <2>3. Top.edge + 1 \in Nat /\ S \in Int /\ S >= 0
    <3>1. PICK pen \in Nat : pen = G.mod[Top.m].shadows[Top.edge].penalty
      BY <1>4 DEF Shadows
    <3>2. Top.costS >= 0
      BY <1>4, Zenon DEF InShadow
    <3>3. QED
      BY <1>4, <3>1, <3>2
  <2> HIDE DEF S
  <2>4. f \in Frame
    BY <1>5, <2>1, <2>3 DEF Frame
  <2>5. /\ f.x = Top.x /\ f.beta = Top.beta /\ f.m = Top.m /\ f.costS = S
        /\ f.betaS = Top.betaS /\ f.edge = Top.edge + 1 /\ f.pos = 1
    BY <1>5, <2>1 DEF Frame
  <2>6. InShadow(f, mp, sw')
    BY <1>1, <1>4, <1>6, <2>3, <2>5, NextEdge
  <2>7. sw[ShadowOf(Top)] # "pass"
    BY <1>4, <1>7, <1>12
  <2>8. ASSUME NEW i \in 2 .. Len(X) - 1, X[i].m = f.m PROVE Behind(X[i], f, "shadow")
    BY <1>1, <1>9, <2>5, <2>7, <2>8, ChasePenalty
  <2>9. QED
    BY <1>10, <2>2, <2>4, <2>5, <2>6, <2>8
<1>13. QED
  BY <1>11, <1>12

-----------------------------------------------------------------------------
(* Steps of S_select_chain that push and pop frames.                       *)

(* Costs do not matter to sleeping frames, except that they are marks on   *)
(* the stack.                                                              *)
LEMMA CostsOnly ==
    ASSUME G \in Graphs, NEW Y, NEW s, NEW mm, NEW w, NEW s2, NEW mm2, Stacked(Y, s, mm, w),
           \A y \in Var : s2[y].chain = s[y].chain,
           \A m \in Mod : mm2[m].chain = mm[m].chain,
           \A i \in 2 .. Len(Y) : s2[Y[i].x].cost < 0
    PROVE  Stacked(Y, s2, mm2, w)
<1>1. PICK n \in Nat : n = Len(Y)
  BY DEF Stacked
<1>2. ASSUME NEW i \in 2 .. Len(Y) - 1 PROVE Undisturbed(Y[i], s, w, s2, mm2, w)
  <2>1. i \in 2 .. Len(Y)
    BY <1>1
  <2>2. Y[i] \in Frame /\ Sleeps(Y[i], Y[i + 1].x, s, mm, w)
    BY <2>1 DEF Stacked
  <2>3. /\ s[Y[i].x].chain = None /\ Y[i].x \in Var /\ Y[i].m \in Mod /\ mm[Y[i].m].chain = FALSE
        /\ Y[i].where = "shadow" => w[ShadowOf(Y[i])] = "none"
    BY <2>2, Zenon DEF Frame, Sleeps, Waits, InShadow, InParam
  <2>4. QED
    BY <2>3 DEF Undisturbed
<1>3. QED
  BY <1>2, Restate

LEMMA DoXBound ==
    ASSUME RunInv, Answers, XBound PROVE Answers' /\ (pc' # "error" => RunInv')
<1>1. Len(X) > 1 /\ G \in Graphs /\ pc = "bound" /\ V = <<>>
  BY DEF XBound, RunInv, TypeInv, Where, Searching
<1>2. /\ G' = G /\ sp' = sp /\ sw' = sw /\ X' = X /\ arg' = arg /\ have' = have /\ V' = V
      /\ UNCHANGED value_vars /\ UNCHANGED root_vars /\ val' = val
  BY DEF XBound, graph_vars, value_vars
<1>3. Answers'
  BY <1>2, AnswersKept
<1>4. Top.m \in Mod /\ sp[Top.x].chain = None
  BY <1>1 DEF RunInv, StackInv, TopInv
<1>5. /\ mp \in [Mod -> ModState] /\ sp \in [Var -> VarState]
      /\ sw \in [DOMAIN G.shadow -> {"none", "pass", "fail"}]
      /\ arg \in [x : Var \cup {None}, beta : Int, cost : Int]
  BY DEF RunInv, TypeInv
<1>6. Top \in Frame /\ X = [X EXCEPT ![Len(X)] = Top]
  BY <1>1, TopFrame
<1>7. PICK cost \in Int : cost = CandidateBound
  <2>1. Top.costS \in Int
    BY <1>6 DEF Frame
  <2>2. QED
    BY <1>1, <1>4, <2>1, CostIs DEF CandidateBound
<1>8. mp' = [mp EXCEPT ![Top.m].cost = cost]
  BY <1>7 DEF XBound
<1>9. /\ mp' \in [Mod -> ModState]
      /\ \A m \in Mod : mp'[m].chain = mp[m].chain /\ mp'[m].value = mp[m].value
  <2>1. /\ [mp[Top.m] EXCEPT !.cost = cost] \in ModState
        /\ [mp[Top.m] EXCEPT !.cost = cost].chain = mp[Top.m].chain
        /\ [mp[Top.m] EXCEPT !.cost = cost].value = mp[Top.m].value
    BY <1>4, <1>5 DEF ModState
  <2>2. mp' = [mp EXCEPT ![Top.m] = [mp[Top.m] EXCEPT !.cost = cost]]
    BY <1>4, <1>5, <1>8
  <2>3. QED
    BY <1>4, <1>5, <2>1, <2>2
<1>10. ASSUME pc' # "error" PROVE RunInv'
  <2>1. pc' = "candidate"
    BY <1>10 DEF XBound, Error
  <2>2. Stacked(X, sp', mp', sw')
    <3>1. Stacked(X, sp, mp, sw) /\ \A i \in 2 .. Len(X) : sp[X[i].x].cost < 0
      BY DEF RunInv, StackInv, Stacked
    <3>2. Stacked(X, sp, mp', sw)
      BY <1>1, <1>9, <3>1, CostsOnly
    <3>3. QED
      BY <1>2, <3>2
  <2>3. Retopped(X', X, Top)
    BY <1>2, <1>6 DEF Retopped, Top
  <2>4. Ready(Top, pc', X, sp', mp', sw')
    BY <2>1 DEF Ready, ModeOf
  <2>5. PICK f : f = Top
    OBVIOUS
  <2>6. /\ Stacked(X, sp, mp, sw)' /\ Top' = f /\ Len(X') = Len(X)
        /\ Ready(Top, pc, X, sp, mp, sw)'
    BY <1>1, <1>2, <2>2, <2>3, <2>4, <2>5, StackSet
  <2>7. TopInv'
    <3>1. V' = <<>>
      BY <1>1, <1>2
    <3>2. QED
      BY <1>2, <1>4, <2>1, <2>5, <2>6, <3>1 DEF TopInv
  <2>8. StackInv'
    BY <2>6, <2>7 DEF StackInv
  <2>9. ChainInv' /\ RankInv'
    BY <1>2, <1>5, <1>9, ChainsKept DEF RunInv
  <2>10. Len(X') > 1 /\ pc' \in Searching /\ pc \in Searching
    BY <1>1, <2>1, <2>6 DEF Searching
  <2>11. QED
    BY <1>2, <1>5, <1>9, <2>8, <2>9, <2>10, SearchRuns
<1>11. QED
  BY <1>3, <1>10

(* A variable's cost is set.                                               *)
NewCost(x, cost) == sp' = [sp EXCEPT ![x].cost = cost]

LEMMA CostSet ==
    ASSUME sp \in [Var -> VarState], NEW x \in Var, NEW cost \in Int, NewCost(x, cost)
    PROVE  /\ sp' \in [Var -> VarState] /\ sp'[x].cost = cost
           /\ \A y \in Var : sp'[y].chain = sp[y].chain /\ sp'[y].value = sp[y].value
           /\ \A y \in Var : y # x => sp'[y].cost = sp[y].cost
<1>1. /\ [sp[x] EXCEPT !.cost = cost] \in VarState
      /\ [sp[x] EXCEPT !.cost = cost].chain = sp[x].chain
      /\ [sp[x] EXCEPT !.cost = cost].value = sp[x].value
      /\ [sp[x] EXCEPT !.cost = cost].cost = cost
  BY DEF VarState
<1>2. sp' = [sp EXCEPT ![x] = [sp[x] EXCEPT !.cost = cost]]
  BY DEF NewCost
<1>3. QED
  BY <1>1, <1>2

LEMMA DoXSolve ==
    ASSUME RunInv, Answers, XSolve PROVE Answers' /\ (pc' # "error" => RunInv')
<1>1. /\ G \in Graphs /\ pc = "solve" /\ V = <<>> /\ arg.x \in Var /\ sp[arg.x].chain = None
      /\ arg.beta <= MaxCost
  BY DEF XSolve, RunInv, TypeInv, Where
<1>2. /\ G' = G /\ mp' = mp /\ sw' = sw /\ have' = have /\ V' = V
      /\ UNCHANGED value_vars /\ UNCHANGED root_vars /\ val' = val
  BY DEF XSolve, graph_vars, value_vars
<1>3. Answers'
  BY <1>2, AnswersKept
<1>4. /\ mp \in [Mod -> ModState] /\ sp \in [Var -> VarState]
      /\ sw \in [DOMAIN G.shadow -> {"none", "pass", "fail"}]
      /\ arg \in [x : Var \cup {None}, beta : Int, cost : Int]
  BY DEF RunInv, TypeInv
<1>5. Stacked(X, sp, mp, sw) /\ Len(X) \in Nat /\ Len(X) >= 1
  BY DEF RunInv, StackInv, Stacked
<1>6. NCand(arg.x) \in Nat
  BY <1>1, CandidatesCounted
<1>7. ASSUME pc' # "error" PROVE RunInv'
  <2>1. PICK f : f = [x |-> arg.x, beta |-> arg.beta, ncand |-> NCand(arg.x), where |-> "none",
                      m |-> None, ei |-> 0, mbeta |-> 0, costS |-> 0, betaS |-> 0,
                      edge |-> 1, pos |-> 1, ssmax |-> 0]
    OBVIOUS
  <2>2. /\ ~(sp[arg.x].cost < 0)
        /\ X' = Append(X, f) /\ sp' = [sp EXCEPT ![arg.x].cost = -1]
        /\ arg' = [arg EXCEPT !.cost = Inf] /\ pc' \in {"candidate", "failed"}
    BY <1>7, <2>1 DEF XSolve, Error
  <2>3. f \in Frame /\ f.x = arg.x /\ f.beta = arg.beta
    BY <1>1, <1>4, <1>6, <2>1 DEF Frame
  <2>4. NewCost(arg.x, -1)
    BY <2>2 DEF NewCost
  <2>5. /\ sp' \in [Var -> VarState] /\ sp'[arg.x].cost = -1
        /\ \A y \in Var : sp'[y].chain = sp[y].chain /\ sp'[y].value = sp[y].value
        /\ \A y \in Var : y # arg.x => sp'[y].cost = sp[y].cost
    BY <1>1, <1>4, <2>4, CostSet
  <2>6. \A i \in 2 .. Len(X) : X[i].x # f.x /\ X[i].x \in Var /\ sp'[X[i].x].cost < 0
    <3>1. \A i \in 2 .. Len(X) : X[i] \in Frame /\ sp[X[i].x].cost < 0
      BY <1>5 DEF Stacked
    <3>2. \A i \in 2 .. Len(X) : X[i].x \in Var
      BY <3>1 DEF Frame
    <3>3. QED
      BY <2>2, <2>3, <2>5, <3>1, <3>2
  <2>7. Stacked(X, sp', mp, sw)
    <3>1. /\ \A y \in Var : sp'[y].chain = sp[y].chain
          /\ \A m \in Mod : mp[m].chain = mp[m].chain
          /\ \A i \in 2 .. Len(X) : sp'[X[i].x].cost < 0
      BY <2>5, <2>6
    <3>2. QED
      BY <1>1, <1>5, <3>1, CostsOnly
  <2>8. ASSUME Len(X) > 1
        PROVE  /\ Sleeps(Top, f.x, sp', mp, sw)
               /\ \A i \in 2 .. Len(X) - 1 : X[i].m = Top.m => Behind(X[i], Top, Top.where)
    <3>1. /\ sp[Top.x].chain = None /\ Ready(Top, pc, X, sp, mp, sw) /\ Waits(Top, arg.x, sw)
      BY <1>1, <2>8 DEF RunInv, StackInv, TopInv
    <3>2. Top.where \in {"shadow", "param"} /\ ModeOf(pc, Top) = Top.where
      BY <1>1, <3>1 DEF Waits, ModeOf
    <3>3. /\ Top.where = "shadow" => InShadow(Top, mp, sw)
          /\ Top.where = "param" => InParam(Top, mp, sp)
          /\ \A i \in 2 .. Len(X) - 1 : X[i].m = Top.m => Behind(X[i], Top, Top.where)
      BY <3>1, <3>2 DEF Ready
    <3>4. Sleeps(Top, arg.x, sp, mp, sw)
      BY <3>1, <3>3 DEF Sleeps
    <3>5. Top \in Frame /\ Top.x \in Var
      BY <2>8, TopFrame
    <3>6. mp[Top.m].chain = FALSE /\ (Top.where = "shadow" => sw[ShadowOf(Top)] = "none")
      BY <3>1, <3>2, <3>3, Zenon DEF InShadow, InParam, Waits
    <3>7. Undisturbed(Top, sp, sw, sp', mp, sw)
      BY <2>5, <3>1, <3>5, <3>6 DEF Undisturbed
    <3>8. Sleeps(Top, arg.x, sp', mp, sw)
      BY <1>1, <3>4, <3>5, <3>7, SleepOn
    <3>9. QED
      BY <2>3, <3>3, <3>8
  <2>9. f.beta <= MaxCost /\ sp'[f.x].cost < 0
    BY <1>1, <2>3, <2>5
  <2>10. Stacked(X', sp', mp, sw) /\ Len(X') = Len(X) + 1 /\ X'[Len(X')] = f
    <3>1. \A i \in 2 .. Len(X) : X[i].x # f.x
      BY <2>6
    <3>2. Len(X) > 1 => /\ Sleeps(X[Len(X)], f.x, sp', mp, sw)
                        /\ \A i \in 2 .. Len(X) - 1 : X[i].m = X[Len(X)].m =>
                              Behind(X[i], X[Len(X)], X[Len(X)].where)
      BY <2>8 DEF Top
    <3>3. Pushable(f, X, sp', mp, sw)
      BY <2>3, <2>9, <3>1, <3>2 DEF Pushable
    <3>4. Pushed(X', X, f)
      BY <2>2 DEF Pushed
    <3>5. QED
      BY <2>7, <3>3, <3>4, Push
  <2>11. Stacked(X, sp, mp, sw)'
    BY <1>2, <2>10, StackPrimes
  <2>12. Top' = f
    BY <2>10 DEF Top
  <2>13. Ready(Top', pc', X', sp', mp', sw')
    BY <2>2 DEF Ready, ModeOf
  <2>14. Ready(Top, pc, X, sp, mp, sw)'
    BY <1>2, <2>13, ReadyPrimes
  <2>15. TopInv'
    <3>1. V' = <<>> /\ sp'[f.x].chain = None
      BY <1>1, <1>2, <2>3, <2>5
    <3>2. QED
      BY <2>2, <2>12, <2>14, <3>1 DEF TopInv
  <2>16. StackInv'
    BY <2>11, <2>15 DEF StackInv
  <2>17. ChainInv' /\ RankInv'
    BY <1>2, <1>4, <2>5, ChainsKept DEF RunInv
  <2>18. Len(X') > 1 /\ pc' \in Searching /\ pc \in Searching \cup {"solve"}
    BY <1>1, <1>5, <2>2, <2>10 DEF Searching
  <2>19. arg' \in [x : Var \cup {None}, beta : Int, cost : Int]
    <3>1. Inf \in Int
      BY SolverAssumption
    <3>2. QED
      BY <1>4, <2>2, <3>1
  <2>20. QED
    BY <1>2, <1>4, <2>5, <2>16, <2>17, <2>18, <2>19, SearchRuns
<1>8. QED
  BY <1>3, <1>7

(* The frame below the top waits for the variable of the top.              *)
LEMMA BelowIs ==
    ASSUME RunInv, Len(X) > 1
    PROVE  \/ Len(X) = 2 /\ Below = Base /\ Below.where = "done"
           \/ /\ Len(X) > 2 /\ Below \in Frame /\ Below.where \in {"shadow", "param"}
              /\ Sleeps(Below, Top.x, sp, mp, sw) /\ Below.beta <= MaxCost
              /\ \A i \in 2 .. Len(X) - 2 : X[i].m = Below.m =>
                    /\ Chases(Below, X[i], X[i + 1].x, sp, mp, sw, Below.where)
                    /\ X[i + 1].x # Top.x
<1>1. PICK n \in Nat : n = Len(X) /\ n > 1
  BY TopFrame
<1>2. Stacked(X, sp, mp, sw)
  BY DEF RunInv, StackInv
<1>3. CASE n = 2
  <2>1. X[1] = Base /\ Below = X[1]
    BY <1>1, <1>2, <1>3 DEF Stacked, Below
  <2>2. QED
    BY <1>1, <1>3, <2>1 DEF Base
<1>4. CASE n > 2
  <2>1. n - 1 \in 2 .. Len(X) - 1 /\ n - 1 + 1 = n /\ n - 1 \in 2 .. Len(X)
    BY <1>1, <1>4
  <2>2. X[n - 1] \in Frame /\ Sleeps(X[n - 1], X[n].x, sp, mp, sw)
    BY <1>1, <2>1, Sleeping
  <2>3. Below = X[n - 1] /\ Top = X[n]
    BY <1>1 DEF Below, Top
  <2>4. Sleeps(Below, Top.x, sp, mp, sw) /\ Below \in Frame
    BY <2>2, <2>3
  <2>5. Below.where \in {"shadow", "param"}
    BY <2>4 DEF Sleeps, Waits
  <2>6. Below.beta <= MaxCost
    BY <1>2, <2>1, <2>3 DEF Stacked
  <2>7. ASSUME NEW i \in 2 .. Len(X) - 2, X[i].m = Below.m
        PROVE  /\ Chases(Below, X[i], X[i + 1].x, sp, mp, sw, Below.where)
               /\ X[i + 1].x # Top.x
    <3>1. /\ i \in 2 .. Len(X) - 1 /\ i < n - 1 /\ i + 1 \in 2 .. Len(X) /\ n \in 2 .. Len(X)
          /\ i + 1 < n
      BY <1>1
    <3>2. X[i] \in Frame /\ Sleeps(X[i], X[i + 1].x, sp, mp, sw)
      BY <1>1, <3>1, Sleeping
    <3>3. Behind(X[i], Below, Below.where)
      BY <1>2, <2>1, <2>3, <2>7, <3>1 DEF Stacked
    <3>4. X[i + 1].x # Top.x
      BY <1>2, <2>3, <3>1 DEF Stacked
    <3>5. QED
      BY <2>4, <2>7, <3>2, <3>3, <3>4 DEF Chases, Sleeps
  <2>8. QED
    BY <1>1, <1>4, <2>4, <2>5, <2>6, <2>7
<1>5. QED
  BY <1>1, <1>3, <1>4

(* The stack without its top, when the top's variable has got a cost.      *)
LEMMA Popping ==
    ASSUME RunInv, Len(X) > 1, NEW cost \in Int, NewCost(Top.x, cost), NEW mm2,
           \A m \in Mod : mm2[m].chain = mp[m].chain, NEW Z, Z = Pop
    PROVE  /\ Stacked(Z, sp', mm2, sw) /\ Len(Z) = Len(X) - 1 /\ Z[Len(Z)] = Below
           /\ \A i \in 1 .. Len(Z) : Z[i] = X[i]
<1>1. PICK n \in Nat : n = Len(X) /\ n > 1
  BY TopFrame
<1>2. Stacked(X, sp, mp, sw) /\ G \in Graphs /\ sp \in [Var -> VarState]
  BY DEF RunInv, StackInv, TypeInv
<1>3. Top.x \in Var
  BY TopFrame
<1>4. /\ \A y \in Var : sp'[y].chain = sp[y].chain
      /\ \A y \in Var : y # Top.x => sp'[y].cost = sp[y].cost
  BY <1>2, <1>3, CostSet
<1>5. /\ Stacked(Z, sp, mp, sw) /\ Len(Z) = Len(X) - 1 /\ Z[Len(Z)] = Below
      /\ \A i \in 1 .. Len(Z) : Z[i] = X[i]
  <2>1. IsPop(Z, X)
    BY DEF Pop, IsPop
  <2>2. /\ Stacked(Z, sp, mp, sw) /\ Len(Z) = Len(X) - 1 /\ Z[Len(Z)] = X[Len(X) - 1]
        /\ \A i \in 1 .. Len(Z) : Z[i] = X[i]
    BY <1>2, <2>1, Popped
  <2>3. QED
    BY <2>2 DEF Below
<1>6. ASSUME NEW i \in 2 .. Len(Z) PROVE sp'[Z[i].x].cost < 0
  <2>1. i \in 2 .. Len(X) - 1 /\ i \in 1 .. Len(Z) /\ i \in 2 .. Len(X)
    BY <1>1, <1>5
  <2>2. X[i].x # Top.x /\ X[i] \in Frame
    BY <2>1, Sleeping
  <2>3. sp[X[i].x].cost < 0 /\ X[i].x \in Var
    BY <1>2, <2>1, <2>2 DEF Stacked, Frame
  <2>4. QED
    BY <1>4, <1>5, <2>1, <2>2, <2>3
<1>7. PICK s2 : s2 = sp'
  OBVIOUS
<1>8. /\ \A y \in Var : s2[y].chain = sp[y].chain
      /\ \A i \in 2 .. Len(Z) : s2[Z[i].x].cost < 0
  BY <1>4, <1>6, <1>7
<1>9. Stacked(Z, s2, mm2, sw)
  BY <1>2, <1>5, <1>8, CostsOnly
<1>10. QED
  BY <1>5, <1>7, <1>9

(* Frame f replaces the one below the top, which is popped: what remains   *)
(* to be shown.                                                            *)
LEMMA PopRuns ==
    ASSUME RunInv, Answers, pc \in {"chosen", "failed"}, Len(X) > 2, V = <<>>, G' = G,
           have' = have, UNCHANGED value_vars, UNCHANGED root_vars,
           NEW cost \in Int, NewCost(Top.x, cost), mp' \in [Mod -> ModState],
           \A m \in Mod : mp'[m].chain = mp[m].chain /\ mp'[m].value = mp[m].value,
           sw' \in [DOMAIN G.shadow -> {"none", "pass", "fail"}], Stacked(Pop, sp', mp', sw'),
           arg' \in [x : Var \cup {None}, beta : Int, cost : Int],
           NEW f, Retopped(X', Pop, f), Ready(f, pc', Pop, sp', mp', sw'),
           pc' \in {"candidate", "shadow", "param", "bound", "value"},
           pc' = "bound" => f.m \in Mod, pc' = "value" => AtShadow(f, arg'.x) /\ arg'.x \in Var
    PROVE  RunInv' /\ Answers'
<1>1. /\ Below \in Frame /\ Sleeps(Below, Top.x, sp, mp, sw)
  BY BelowIs, SMTT(30)
<1>2. Top.x \in Var /\ Len(X) \in Nat
  BY TopFrame
<1>3. Len(Pop) = Len(X) - 1 /\ Pop[Len(Pop)] = Below
  <2>1. Stacked(X, sp, mp, sw)
    BY DEF RunInv, StackInv
  <2>2. QED
    BY <2>1, Popped DEF Pop, Below
<1>4. sp \in [Var -> VarState] /\ V' = <<>> /\ Mod' = Mod /\ G.shadow' = G.shadow
  BY DEF RunInv, TypeInv, value_vars, Mod
<1>5. /\ sp' \in [Var -> VarState]
      /\ \A y \in Var : sp'[y].chain = sp[y].chain /\ sp'[y].value = sp[y].value
  BY <1>2, <1>4, CostSet
<1>6. f.x = Below.x
  BY <1>3 DEF Retopped
<1>7. sp'[f.x].chain = None
  BY <1>1, <1>5, <1>6, Zenon DEF Sleeps, Frame
<1>8. Len(Pop) > 1
  BY <1>2, <1>3
<1>9. /\ Stacked(X, sp, mp, sw)' /\ Top' = f /\ Len(X') = Len(Pop)
      /\ Ready(Top, pc, X, sp, mp, sw)'
  <2>1. PICK Z : Z = Pop
    OBVIOUS
  <2>2. /\ Stacked(Z, sp', mp', sw') /\ Len(Z) > 1 /\ Retopped(X', Z, f)
        /\ Ready(f, pc', Z, sp', mp', sw')
    BY <1>8, <2>1
  <2>3. QED
    BY <2>1, <2>2, StackSet
<1>10. pc' = "value" => AtShadow(Top, arg.x)'
  BY <1>9, Zenon DEF AtShadow, ShadowOf
<1>11. TopInv'
  BY <1>4, <1>7, <1>9, <1>10 DEF TopInv
<1>12. StackInv'
  BY <1>9, <1>11 DEF StackInv
<1>13. ChainInv' /\ RankInv'
  BY <1>4, <1>5, ChainsKept DEF RunInv, value_vars
<1>14. /\ pc \in Searching \cup {"solve"} /\ Len(X') > 1
       /\ pc' \in Searching \/ (pc' = "value" /\ arg'.x \in Var)
  BY <1>8, <1>9 DEF Searching
<1>15. QED
  BY <1>5, <1>12, <1>13, <1>14, SearchRuns

LEMMA DoXChosen == ASSUME RunInv, Answers, XChosen PROVE RunInv' /\ Answers'
<1>1. Len(X) > 1 /\ G \in Graphs /\ pc = "chosen" /\ V = <<>>
  BY DEF XChosen, RunInv, TypeInv, Where, Searching
<1>2. /\ G' = G /\ mp' = mp /\ sw' = sw /\ have' = have /\ V' = V
      /\ UNCHANGED value_vars /\ UNCHANGED root_vars
  BY DEF XChosen, graph_vars, value_vars
<1>3. /\ mp \in [Mod -> ModState] /\ sp \in [Var -> VarState]
      /\ sw \in [DOMAIN G.shadow -> {"none", "pass", "fail"}]
      /\ arg \in [x : Var \cup {None}, beta : Int, cost : Int]
  BY DEF RunInv, TypeInv
<1>4. Top \in Frame /\ Top.x \in Var /\ Len(X) \in Nat
  BY <1>1, TopFrame
<1>5. PICK cost \in Int : cost = arg.cost
  BY <1>3
<1>6. NewCost(Top.x, cost)
  BY <1>5 DEF XChosen, NewCost
<1>7. /\ sp' \in [Var -> VarState]
      /\ \A y \in Var : sp'[y].chain = sp[y].chain /\ sp'[y].value = sp[y].value
  BY <1>3, <1>4, <1>6, CostSet
<1>8. sp[Top.x].chain # None
  BY <1>1 DEF RunInv, StackInv, TopInv
<1>9. PICK Z : Z = Pop
  OBVIOUS
<1>10. /\ Stacked(Z, sp', mp, sw) /\ Len(Z) = Len(X) - 1 /\ Z[Len(Z)] = Below
       /\ \A i \in 1 .. Len(Z) : Z[i] = X[i]
  BY <1>1, <1>6, <1>9, Popping
<1>11. Stacked(Pop, sp', mp', sw')
  BY <1>2, <1>9, <1>10
<1>12. ChainInv' /\ RankInv'
  BY <1>2, <1>3, <1>7, ChainsKept DEF RunInv
<1>13. CASE Len(X) = 2
  <2>1. Below.where = "done"
    BY <1>1, <1>13, BelowIs
  <2>2. X' = Pop /\ pc' = "chains" /\ arg' = arg
    BY <2>1 DEF XChosen
  <2>3. Stacked(X', sp', mp', sw') /\ Len(X') = 1
    BY <1>9, <1>10, <1>11, <1>13, <2>2
  <2>4. StackInv'
    BY <1>2, <2>3, StackPrimes DEF StackInv
  <2>5. pc \in Searching \cup {"solve"}
    BY <1>1 DEF Searching
  <2>6. arg' \in [x : Var \cup {None}, beta : Int, cost : Int]
    BY <1>3, <2>2
  <2>7. mp' \in [Mod -> ModState] /\ sw' \in [DOMAIN G.shadow -> {"none", "pass", "fail"}]
    BY <1>2, <1>3
  <2>8. QED
    BY <1>2, <1>7, <1>12, <2>2, <2>3, <2>4, <2>5, <2>6, <2>7, SearchRuns
<1>14. CASE Len(X) # 2
  <2>1. /\ Len(X) > 2 /\ Below \in Frame /\ Below.where \in {"shadow", "param"}
        /\ Sleeps(Below, Top.x, sp, mp, sw)
        /\ \A i \in 2 .. Len(X) - 2 : X[i].m = Below.m =>
              /\ Chases(Below, X[i], X[i + 1].x, sp, mp, sw, Below.where)
              /\ X[i + 1].x # Top.x
    BY <1>1, <1>14, BelowIs
  <2>2. Waits(Below, Top.x, sw)
    BY <2>1 DEF Sleeps
  <2>3. /\ mp' \in [Mod -> ModState]
        /\ \A m \in Mod : mp'[m].chain = mp[m].chain /\ mp'[m].value = mp[m].value
        /\ sw' \in [DOMAIN G.shadow -> {"none", "pass", "fail"}]
    BY <1>2, <1>3
  <2>4. \A i \in 2 .. Len(Z) - 1 : i \in 2 .. Len(X) - 2 /\ Z[i] = X[i]
    BY <1>4, <1>10, <2>1, SMTT(30)
  <2>5. CASE Below.where = "param"
    <3>1. PICK f : f = [Below EXCEPT !.ssmax = Larger(@, arg.cost), !.pos = @ + 1]
      OBVIOUS
    <3>2. X' = [Pop EXCEPT ![Len(Pop)] = f] /\ pc' = "param" /\ arg' = arg
      BY <2>5, <3>1 DEF XChosen
    <3>3. Below.pos + 1 \in Nat /\ Below.edge \in Nat /\ Below.pos \in Nat
      BY <2>1 DEF Frame
    <3>4. Larger(Below.ssmax, arg.cost) \in Nat
      <4>1. Below.ssmax \in Nat /\ arg.cost \in Int
        BY <1>3, <2>1 DEF Frame
      <4>2. QED
        BY <4>1 DEF Larger
    <3>5. f \in Frame
      BY <2>1, <3>1, <3>3, <3>4 DEF Frame
    <3>6. /\ f.x = Below.x /\ f.beta = Below.beta /\ f.m = Below.m /\ f.costS = Below.costS
          /\ f.betaS = Below.betaS /\ f.edge = Below.edge /\ f.pos = Below.pos + 1
      BY <2>1, <3>1 DEF Frame
    <3>7. /\ Below.edge > 0 /\ Below.pos <= Len(G.mod[Below.m].params[Below.edge])
          /\ G.mod[Below.m].params[Below.edge][Below.pos] = Top.x
      BY <2>2, <2>5, <3>3 DEF Waits
    <3>8. InParam(Below, mp, sp)
      BY <2>1, <2>5 DEF Sleeps
    <3>9. InParam(f, mp, sp')
      <4>1. PICK s2 : s2 = sp'
        OBVIOUS
      <4>2. /\ \A y \in Var : sp[y].chain # None => s2[y].chain # None
            /\ s2[G.mod[Below.m].params[Below.edge][Below.pos]].chain # None
        BY <1>4, <1>7, <1>8, <3>7, <4>1
      <4>3. InParam(f, mp, s2)
        BY <1>1, <3>3, <3>6, <3>7, <3>8, <4>2, NextParam, Zenon
      <4>4. QED
        BY <4>1, <4>3
    <3>10. ASSUME NEW i \in 2 .. Len(Z) - 1, Z[i].m = f.m PROVE Behind(Z[i], f, "param")
      <4>1. /\ Chases(Below, X[i], X[i + 1].x, sp, mp, sw, "param") /\ X[i + 1].x # Top.x
        BY <2>1, <2>4, <2>5, <3>6, <3>10
      <4>2. Behind(X[i], f, "param")
        BY <1>1, <3>6, <3>7, <4>1, ChaseNext, Zenon
      <4>3. QED
        BY <2>4, <4>2
    <3>11. Ready(f, pc', Pop, sp', mp', sw')
      <4>1. Ready(f, pc', Z, sp', mp', sw')
        BY <1>2, <3>2, <3>9, <3>10 DEF Ready, ModeOf
      <4>2. QED
        BY <1>9, <4>1
    <3>12. Retopped(X', Pop, f)
      <4>1. Retopped(X', Z, f)
        BY <1>9, <1>10, <3>2, <3>5, <3>6 DEF Retopped
      <4>2. QED
        BY <1>9, <4>1
    <3>13. arg' \in [x : Var \cup {None}, beta : Int, cost : Int]
      BY <1>3, <3>2
    <3>14. pc \in {"chosen", "failed"} /\ pc' \in {"candidate", "shadow", "param", "bound", "value"}
      BY <1>1, <3>2
    <3>15. QED
      BY <1>1, <1>2, <1>6, <1>11, <2>1, <2>3, <3>2, <3>11, <3>12, <3>13, <3>14, PopRuns
  <2>6. CASE Below.where = "shadow"
    <3>1. X' = Pop /\ pc' = "value" /\ arg' = [arg EXCEPT !.x = Top.x]
      BY <2>6 DEF XChosen
    <3>2. arg' \in [x : Var \cup {None}, beta : Int, cost : Int] /\ arg'.x = Top.x
      BY <1>3, <1>4, <3>1
    <3>3. AtShadow(Below, Top.x) /\ InShadow(Below, mp, sw)
      BY <2>1, <2>2, <2>6 DEF Sleeps, Waits
    <3>4. ASSUME NEW i \in 2 .. Len(Z) - 1, Z[i].m = Below.m PROVE Behind(Z[i], Below, "shadow")
      BY <2>1, <2>4, <2>6, <3>4 DEF Chases
    <3>5. PICK f : f = Below
      OBVIOUS
    <3>6. Ready(f, pc', Pop, sp', mp', sw')
      <4>1. Ready(Below, pc', Z, sp', mp', sw')
        BY <1>2, <3>1, <3>3, <3>4 DEF Ready, ModeOf
      <4>2. QED
        BY <1>9, <3>5, <4>1
    <3>7. Retopped(X', Pop, f)
      <4>1. Z \in Seq(Frame \cup {Base}) /\ Len(Z) >= 1
        BY <1>10 DEF Stacked
      <4>2. Z = [Z EXCEPT ![Len(Z)] = Below]
        BY <1>10, <4>1
      <4>3. Retopped(Z, Z, Below)
        BY <1>10, <2>1, <4>2 DEF Retopped
      <4>4. QED
        BY <1>9, <3>1, <3>5, <4>3
    <3>8. AtShadow(f, arg'.x) /\ arg'.x \in Var
      BY <1>4, <3>2, <3>3, <3>5
    <3>9. pc \in {"chosen", "failed"} /\ pc' \in {"candidate", "shadow", "param", "bound", "value"}
      BY <1>1, <3>1
    <3>10. QED
      BY <1>1, <1>2, <1>6, <1>11, <2>1, <2>3, <3>1, <3>2, <3>6, <3>7, <3>8, <3>9, PopRuns
  <2>7. QED
    BY <2>1, <2>5, <2>6
<1>15. QED
  BY <1>13, <1>14

(* A shadow fails because its variable has no chain: no frame further down *)
(* waits for the same shadow.                                              *)
LEMMA ShadowFails ==
    ASSUME RunInv, Len(X) > 2, pc # "chosen", Below.where = "shadow", NEW s2, NEW Z, Z = Pop,
           Stacked(Z, s2, mp, sw), NEW w2, w2 = [sw EXCEPT ![ShadowOf(Below)] = "fail"],
           \A y \in Var : s2[y].chain = sp[y].chain
    PROVE  Stacked(Z, s2, mp, w2) /\ w2 \in [DOMAIN G.shadow -> {"none", "pass", "fail"}]
<1>1. PICK n \in Nat : n = Len(X) /\ n > 2
  BY TopFrame
<1>2. G \in Graphs /\ Stacked(X, sp, mp, sw) /\ sw \in [DOMAIN G.shadow -> {"none", "pass", "fail"}]
  BY DEF RunInv, StackInv, TypeInv
<1>3. Below \in Frame /\ Sleeps(Below, Top.x, sp, mp, sw)
  BY <1>1, BelowIs
<1>4. InShadow(Below, mp, sw) /\ AtShadow(Below, Top.x) /\ sw[ShadowOf(Below)] = "none"
  BY <1>3 DEF Sleeps, Waits
<1>5. ShadowOf(Below) \in DOMAIN G.shadow /\ G.shadow[ShadowOf(Below)].x = Top.x
  BY <1>2, <1>3, <1>4, ShadowIs, Zenon DEF AtShadow
<1>6. w2 \in [DOMAIN G.shadow -> {"none", "pass", "fail"}]
  BY <1>2, <1>5
<1>7. /\ \A u \in DOMAIN G.shadow : sw[u] = "pass" => w2[u] = "pass"
      /\ \A u \in DOMAIN G.shadow : u # ShadowOf(Below) => w2[u] = sw[u]
  BY <1>2, <1>4, <1>5
<1>8. Len(Z) = n - 1 /\ \A i \in 1 .. n - 1 : Z[i] = X[i]
  <2>1. IsPop(Z, X)
    BY DEF IsPop, Pop
  <2>2. Len(Z) = Len(X) - 1 /\ \A i \in 1 .. Len(Z) : Z[i] = X[i]
    BY <1>1, <1>2, <2>1, Popped
  <2>3. QED
    BY <1>1, <2>2
<1>9. ASSUME NEW i \in 2 .. Len(Z) - 1 PROVE Undisturbed(Z[i], s2, sw, s2, mp, w2)
  <2>1. /\ i \in 2 .. Len(X) - 1 /\ Z[i] = X[i] /\ i + 1 \in 2 .. Len(X) /\ n \in 2 .. Len(X)
        /\ i + 1 < n
    BY <1>1, <1>8
  <2>2. X[i] \in Frame /\ Sleeps(X[i], X[i + 1].x, sp, mp, sw)
    BY <1>1, <2>1, Sleeping
  <2>3. /\ sp[X[i].x].chain = None /\ mp[X[i].m].chain = FALSE /\ X[i].x \in Var
    BY <2>2, Zenon DEF Sleeps, Waits, InShadow, InParam, Frame
  <2>4. X[i + 1].x # Top.x
    BY <1>1, <1>2, <2>1 DEF Stacked, Top
  <2>5. ASSUME X[i].where = "shadow" PROVE w2[ShadowOf(X[i])] = "none"
    <3>1. sw[ShadowOf(X[i])] = "none" /\ AtShadow(X[i], X[i + 1].x) /\ InShadow(X[i], mp, sw)
      BY <2>2, <2>5 DEF Sleeps, Waits
    <3>2. ShadowOf(X[i]) \in DOMAIN G.shadow /\ G.shadow[ShadowOf(X[i])].x = X[i + 1].x
      BY <1>2, <2>2, <3>1, ShadowIs, Zenon DEF AtShadow
    <3>3. QED
      BY <1>5, <1>7, <2>4, <3>1, <3>2
  <2>6. QED
    BY <1>7, <2>1, <2>3, <2>5 DEF Undisturbed
<1>10. \A i \in 2 .. Len(Z) : s2[Z[i].x].cost < 0
  BY DEF Stacked
<1>11. Stacked(Z, s2, mp, w2)
  <2>1. PICK w3 : w3 = w2
    OBVIOUS
  <2>2. /\ Stacked(Z, s2, mp, sw)
        /\ \A i \in 2 .. Len(Z) - 1 : Undisturbed(Z[i], s2, sw, s2, mp, w3)
    BY <1>9, <2>1, Zenon
  <2>3. Stacked(Z, s2, mp, w3)
    BY <1>2, <1>10, <2>2, Restate
  <2>4. QED
    BY <2>1, <2>3
<1>12. QED
  BY <1>6, <1>11

LEMMA DoXFailed ==
    ASSUME RunInv, Answers, XFailed PROVE Answers' /\ (pc' # "error" => RunInv')
<1>1. Len(X) > 1 /\ G \in Graphs /\ pc = "failed" /\ V = <<>>
  BY Zenon DEF XFailed, RunInv, TypeInv, Where, Searching
<1>2. /\ G' = G /\ have' = have /\ V' = V /\ arg' = arg
      /\ UNCHANGED value_vars /\ UNCHANGED root_vars /\ val' = val
  BY Zenon DEF XFailed, graph_vars, value_vars
<1>a. Answers'
  BY <1>2, AnswersKept
<1>3. /\ mp \in [Mod -> ModState] /\ sp \in [Var -> VarState]
      /\ sw \in [DOMAIN G.shadow -> {"none", "pass", "fail"}]
      /\ arg \in [x : Var \cup {None}, beta : Int, cost : Int]
  BY DEF RunInv, TypeInv
<1>4. Top \in Frame /\ Top.x \in Var /\ Len(X) \in Nat
  BY <1>1, TopFrame
<1>5. PICK cost \in Int : cost = arg.cost
  BY <1>3
<1>6. NewCost(Top.x, cost)
  BY <1>5, Zenon DEF XFailed, NewCost, KnownBound
<1>7. /\ sp' \in [Var -> VarState]
      /\ \A y \in Var : sp'[y].chain = sp[y].chain /\ sp'[y].value = sp[y].value
  BY <1>3, <1>4, <1>6, CostSet
<1>8. PICK Z : Z = Pop
  OBVIOUS
<1>9. CASE Len(X) = 2
  <2>1. Below.where = "done"
    BY <1>1, <1>9, BelowIs
  <2>2. pc' = "error"
    BY <2>1 DEF XFailed, Error
  <2>3. QED
    BY <1>a, <2>2
<1>10. CASE Len(X) # 2
  <2>1. /\ Len(X) > 2 /\ Below \in Frame /\ Below.where \in {"shadow", "param"}
        /\ Sleeps(Below, Top.x, sp, mp, sw)
        /\ \A i \in 2 .. Len(X) - 2 : X[i].m = Below.m =>
              /\ Chases(Below, X[i], X[i + 1].x, sp, mp, sw, Below.where)
              /\ X[i + 1].x # Top.x
    BY <1>1, <1>10, BelowIs
  <2>2. Waits(Below, Top.x, sw) /\ Below.m \in Mod /\ Below.costS \in Int
    BY <2>1, Zenon DEF Sleeps, Waits, InShadow, InParam, Frame
  <2>3. arg' \in [x : Var \cup {None}, beta : Int, cost : Int]
    BY <1>2, <1>3
  <2>4. CASE Below.where = "param"
    <3>1. PICK c \in Int : c = Costf(G, Below.m, Cap(Below.costS + arg.cost))
      <4>1. Inf \in Int /\ arg.cost \in Int
        BY <1>3, SolverAssumption
      <4>2. Cap(Below.costS + arg.cost) \in Int
        BY <2>2, <4>1 DEF Cap, Smaller
      <4>3. QED
        BY <1>1, <2>2, <4>2, CostIs
    <3>2. X' = Pop /\ mp' = [mp EXCEPT ![Below.m].cost = c] /\ pc' = "candidate" /\ sw' = sw
      BY <2>4, <3>1 DEF XFailed
    <3>3. /\ mp' \in [Mod -> ModState]
          /\ \A m \in Mod : mp'[m].chain = mp[m].chain /\ mp'[m].value = mp[m].value
      <4>1. /\ [mp[Below.m] EXCEPT !.cost = c] \in ModState
            /\ [mp[Below.m] EXCEPT !.cost = c].chain = mp[Below.m].chain
            /\ [mp[Below.m] EXCEPT !.cost = c].value = mp[Below.m].value
        BY <1>3, <2>2 DEF ModState
      <4>2. mp' = [mp EXCEPT ![Below.m] = [mp[Below.m] EXCEPT !.cost = c]]
        BY <1>3, <2>2, <3>2
      <4>3. QED
        BY <1>3, <2>2, <4>1, <4>2
    <3>4. /\ Stacked(Z, sp', mp', sw) /\ Z[Len(Z)] = Below
      <4>1. PICK mm2 : mm2 = mp'
        OBVIOUS
      <4>2. \A m \in Mod : mm2[m].chain = mp[m].chain
        BY <3>3, <4>1
      <4>3. Stacked(Z, sp', mm2, sw) /\ Z[Len(Z)] = Below
        BY <1>1, <1>6, <1>8, <4>2, Popping
      <4>4. QED
        BY <4>1, <4>3
    <3>5. PICK f : f = Below
      OBVIOUS
    <3>6. Ready(f, pc', Pop, sp', mp', sw')
      BY <3>2 DEF Ready, ModeOf
    <3>7. Retopped(X', Pop, f)
      <4>1. Z \in Seq(Frame \cup {Base}) /\ Len(Z) >= 1
        BY <3>4 DEF Stacked
      <4>2. Z = [Z EXCEPT ![Len(Z)] = Below]
        BY <3>4, <4>1
      <4>3. Retopped(Z, Z, Below)
        BY <2>1, <3>4, <4>2 DEF Retopped
      <4>4. QED
        BY <1>8, <3>2, <3>5, <4>3
    <3>8. Stacked(Pop, sp', mp', sw') /\ sw' \in [DOMAIN G.shadow -> {"none", "pass", "fail"}]
      BY <1>3, <1>8, <3>2, <3>4
    <3>9. pc \in {"chosen", "failed"} /\ pc' \in {"candidate", "shadow", "param", "bound", "value"}
      BY <1>1, <3>2
    <3>10. QED
      BY <1>1, <1>2, <1>6, <2>1, <2>3, <3>2, <3>3, <3>6, <3>7, <3>8, <3>9, PopRuns
  <2>5. CASE Below.where = "shadow"
    <3> DEFINE S == Below.costS + G.mod[Below.m].shadows[Below.edge].penalty
    <3>1. PICK f : f = [Below EXCEPT !.costS = S, !.edge = @ + 1, !.pos = 1]
      OBVIOUS
    <3>2. /\ X' = [Pop EXCEPT ![Len(Pop)] = f] /\ pc' \in {"shadow", "bound"} /\ mp' = mp
          /\ sw' = [sw EXCEPT ![ShadowOf(Below)] = "fail"]
      BY <2>5, <3>1, Zenon DEF XFailed, Penalize, ShadowOf
    <3>3. /\ AtShadow(Below, Top.x) /\ InShadow(Below, mp, sw) /\ sw[ShadowOf(Below)] = "none"
      BY <2>1, <2>2, <2>5 DEF Sleeps, Waits
    <3>4. /\ Below.edge <= Len(G.mod[Below.m].shadows) /\ Below.edge \in Nat /\ Below.edge >= 1
          /\ Below.costS >= 0 /\ Below.pos \in Nat /\ G.shadow[ShadowOf(Below)].x = Top.x
      <4>1. /\ Below.edge \in 1 .. Len(G.mod[Below.m].shadows) + 1 /\ Below.costS >= 0
            /\ Below.edge <= Len(G.mod[Below.m].shadows) /\ Below.m \in Mod
            /\ G.shadow[ShadowOf(Below)].x = Top.x
        BY <3>3, Zenon DEF AtShadow, InShadow
      <4>2. Below.edge \in Nat /\ Below.pos \in Nat
        BY <2>1 DEF Frame
      <4>3. Len(G.mod[Below.m].shadows) \in Nat
        BY <1>1, <4>1, ModIs, SeqIs, Zenon
      <4>4. Below.edge >= 1
        BY <4>1, <4>3, SMTT(30)
      <4>5. QED
        BY <4>1, <4>2, <4>4
    <3>5. Below.edge + 1 \in Nat /\ S \in Int /\ S >= 0
      <4>1. Below.edge \in 1 .. Len(G.mod[Below.m].shadows)
        <5>1. Len(G.mod[Below.m].shadows) \in Nat
          BY <1>1, <2>2, ModIs, SMTT(30)
        <5>2. QED
          BY <3>4, <5>1
      <4>2. PICK pen \in Nat : pen = G.mod[Below.m].shadows[Below.edge].penalty
        BY <1>1, <2>2, <4>1, OverIs
      <4>3. Below.costS \in Int
        BY <2>1 DEF Frame
      <4>4. Below.costS + pen \in Int /\ Below.costS + pen >= 0 /\ Below.edge + 1 \in Nat
        BY <3>4, <4>3
      <4>5. QED
        BY <4>2, <4>4, Zenon
    <3> HIDE DEF S
    <3>6. f \in Frame
      BY <2>1, <3>1, <3>5 DEF Frame
    <3>7. /\ f.x = Below.x /\ f.beta = Below.beta /\ f.m = Below.m /\ f.costS = S
          /\ f.betaS = Below.betaS /\ f.edge = Below.edge + 1 /\ f.pos = 1
      BY <2>1, <3>1 DEF Frame
    <3>8. /\ Stacked(Z, sp', mp, sw) /\ Z[Len(Z)] = Below /\ Len(Z) = Len(X) - 1
          /\ \A i \in 1 .. Len(Z) : Z[i] = X[i]
      <4>1. \A m \in Mod : mp[m].chain = mp[m].chain
        OBVIOUS
      <4>2. QED
        BY <1>1, <1>6, <1>8, <4>1, Popping
    <3>9. Stacked(Z, sp', mp, sw') /\ sw' \in [DOMAIN G.shadow -> {"none", "pass", "fail"}]
      <4>1. PICK s2, w2 : s2 = sp' /\ w2 = sw'
        OBVIOUS
      <4>2. /\ Stacked(Z, s2, mp, sw) /\ w2 = [sw EXCEPT ![ShadowOf(Below)] = "fail"]
            /\ \A y \in Var : s2[y].chain = sp[y].chain
        BY <1>7, <3>2, <3>8, <4>1
      <4>3. Stacked(Z, s2, mp, w2) /\ w2 \in [DOMAIN G.shadow -> {"none", "pass", "fail"}]
        BY <1>1, <1>8, <2>1, <2>5, <4>2, ShadowFails
      <4>4. QED
        BY <4>1, <4>3
    <3>10. InShadow(f, mp, sw')
      BY <1>1, <3>3, <3>4, <3>5, <3>7, NextEdge
    <3>11. ASSUME NEW i \in 2 .. Len(Z) - 1, Z[i].m = f.m PROVE Behind(Z[i], f, "shadow")
      <4>1. i \in 2 .. Len(X) - 2 /\ Z[i] = X[i]
        BY <1>4, <2>1, <3>8, SMTT(30)
      <4>2. /\ Chases(Below, X[i], X[i + 1].x, sp, mp, sw, "shadow") /\ X[i + 1].x # Top.x
        BY <2>1, <2>5, <3>7, <3>11, <4>1
      <4>3. Behind(X[i], f, "shadow")
        BY <1>1, <3>3, <3>4, <3>7, <4>2, ChasePenalty
      <4>4. QED
        BY <4>1, <4>3
    <3>12. Ready(f, pc', Pop, sp', mp', sw')
      <4>1. Ready(f, pc', Z, sp', mp', sw')
        BY <3>2, <3>10, <3>11 DEF Ready, ModeOf
      <4>2. QED
        BY <1>8, <4>1
    <3>13. Retopped(X', Pop, f)
      <4>1. Retopped(X', Z, f)
        BY <1>8, <3>2, <3>6, <3>7, <3>8 DEF Retopped
      <4>2. QED
        BY <1>8, <4>1
    <3>14. Stacked(Pop, sp', mp', sw')
      BY <1>8, <3>2, <3>9
    <3>15. /\ mp' \in [Mod -> ModState]
           /\ \A m \in Mod : mp'[m].chain = mp[m].chain /\ mp'[m].value = mp[m].value
      BY <1>3, <3>2
    <3>16. /\ pc \in {"chosen", "failed"} /\ f.m \in Mod
           /\ pc' \in {"candidate", "shadow", "param", "bound", "value"} /\ pc' # "value"
      BY <1>1, <2>2, <3>2, <3>7
    <3>17. QED
      BY <1>1, <1>2, <1>6, <2>1, <2>3, <3>9, <3>12, <3>13, <3>14, <3>15, <3>16, PopRuns
  <2>6. QED
    BY <1>a, <2>1, <2>4, <2>5
<1>11. QED
  BY <1>9, <1>10

-----------------------------------------------------------------------------
(* What the other steps leave alone.                                       *)

LEMMA RootIs ==
    ASSUME G \in Graphs, NEW r \in G.roots
    PROVE  /\ r \in Seq(Var) \/ r \in Seq(Given)
           /\ Len(r) \in Nat /\ Len(r) >= 1 /\ DOMAIN r = 1 .. Len(r)
           /\ \A l \in DOMAIN r : r[l] \in Var \cup Given
<1>1. r # <<>> /\ (r \in Seq(Var) \/ r \in Seq(Given))
  BY VarIs
<1>2. r \in Seq(Var \cup Given)
  BY <1>1
<1>3. Len(r) \in Nat /\ DOMAIN r = 1 .. Len(r) /\ \A l \in DOMAIN r : r[l] \in Var \cup Given
  BY <1>2
<1>4. Len(r) # 0
  BY <1>1, <1>2
<1>5. QED
  BY <1>1, <1>3, <1>4

(* Answers stand while values are only added.                              *)
LEMMA AnswersGrow ==
    ASSUME Answers, G \in Graphs, G' = G, UNCHANGED root_vars, have \subseteq have',
           \A x \in Var : val[x] # None => val'[x] # None
    PROVE  Answers'
<1>1. r_buf' = r_buf /\ asked' = asked /\ answered' = answered
  BY DEF root_vars
<1>2. answered \in Seq(G.roots)
  BY DEF Answers
<1>3. ASSUME NEW i \in DOMAIN answered, NEW l \in DOMAIN answered[i]
      PROVE  IF answered[i][l] \in Given THEN answered[i][l] \in have'
             ELSE val'[answered[i][l]] # None
  <2>1. answered[i] \in G.roots
    BY <1>2
  <2>2. answered[i][l] \in Var \cup Given
    BY <2>1, RootIs
  <2>3. IF answered[i][l] \in Given THEN answered[i][l] \in have ELSE val[answered[i][l]] # None
    BY DEF Answers
  <2>4. QED
    BY <2>2, <2>3
<1>4. QED
  BY <1>1, <1>3 DEF Answers

LEMMA RootsKept ==
    ASSUME RootInv, Answers, G \in Graphs, G' = G, UNCHANGED <<r_buf, cur>>, have \subseteq have',
           sp \in [Var -> VarState], sp' \in [Var -> VarState],
           \A x \in Var : sp[x].value = TRUE => sp'[x].value = TRUE,
           InRound' => InRound, InRound' /\ InGivens => InGivens', InValues' => InValues,
           cur \in [num : Nat, i : Nat, j : Nat], pc' = "collect" => pc = "collect"
    PROVE  RootInv'
<1>1. \A k, l : Before(k, l)' <=> Before(k, l)
  BY DEF Before
<1>2. r_buf \in Seq(G.roots)
  BY DEF Answers
<1>3. ASSUME InRound'
      PROVE  /\ cur'.num <= Len(r_buf') /\ cur'.i >= 1 /\ cur'.j >= 1
             /\ cur'.i <= cur'.num => cur'.j <= Len(r_buf'[cur'.i])
             /\ \A k \in 1 .. cur'.num : \A l \in DOMAIN r_buf'[k] :
                   /\ r_buf'[k][l] \in Given /\ (InGivens' => Before(k, l)') => r_buf'[k][l] \in have'
                   /\ InValues' /\ Before(k, l)' => HasValue(r_buf[k][l])'
  <2>1. /\ cur.num <= Len(r_buf) /\ cur.i >= 1 /\ cur.j >= 1
        /\ cur.i <= cur.num => cur.j <= Len(r_buf[cur.i])
        /\ \A k \in 1 .. cur.num : \A l \in DOMAIN r_buf[k] :
              /\ r_buf[k][l] \in Given /\ (InGivens => Before(k, l)) => r_buf[k][l] \in have
              /\ InValues /\ Before(k, l) => HasValue(r_buf[k][l])
    BY <1>3 DEF RootInv
  <2>2. ASSUME NEW k \in 1 .. cur.num, NEW l \in DOMAIN r_buf[k]
        PROVE  /\ r_buf[k][l] \in Given /\ (InGivens' => Before(k, l)) => r_buf[k][l] \in have'
               /\ InValues' /\ Before(k, l) => HasValue(r_buf[k][l])'
    <3>1. PICK y : y = r_buf[k][l] /\ y \in Var \cup Given
      <4>1. k \in DOMAIN r_buf
        BY <1>2, <2>1
      <4>2. r_buf[k] \in G.roots
        BY <1>2, <4>1
      <4>3. r_buf[k][l] \in Var \cup Given
        BY <4>2, RootIs
      <4>4. QED
        BY <4>3
    <3>2. y \in Given /\ (InGivens' => Before(k, l)) => y \in have'
      BY <1>3, <2>1, <3>1
    <3>3. InValues' /\ Before(k, l) => HasValue(y)
      BY <2>1, <3>1
    <3>4. HasValue(y) => HasValue(y)'
      <4>1. Var \cap Given = {}
        BY VarIs
      <4>2. CASE y \in Given
        BY <4>2 DEF HasValue
      <4>3. CASE y \in Var
        <5>1. sp[y].value \in BOOLEAN /\ sp'[y].value \in BOOLEAN /\ y \notin Given
          BY <4>1, <4>3 DEF VarState
        <5>2. QED
          BY <4>3, <5>1 DEF HasValue
      <4>4. QED
        BY <3>1, <4>2, <4>3
    <3>5. HasValue(r_buf[k][l])' <=> HasValue(y)'
      BY <3>1 DEF HasValue
    <3>6. QED
      BY <3>1, <3>2, <3>3, <3>4, <3>5
  <2>3. QED
    BY <1>1, <2>1, <2>2
<1>4. pc' = "collect" => cur'.i > cur'.num
  BY DEF RootInv
<1>5. QED
  BY <1>3, <1>4 DEF RootInv

(* The work stack while values are computed.                               *)
LEMMA StackWaits ==
    ASSUME RunInv, G' = G, UNCHANGED <<X, sw>>,
           \A y \in Var : sp'[y].chain = sp[y].chain /\ sp'[y].cost = sp[y].cost,
           \A m \in Mod : mp'[m].chain = mp[m].chain,
           Len(X) > 1 =>
              /\ pc \in {"value", "args", "unpack", "yield"}
              /\ pc' \in {"value", "args", "unpack", "yield", "shadow", "check"}
              /\ pc' = "value" => V' # <<>>
              /\ V' # <<>> => AtShadow(Top, V'[1].x)
              /\ pc' = "check" => /\ AtShadow(Top, G.shadow[ShadowOf(Top)].x)
                                  /\ G.shadow[ShadowOf(Top)].x \in Var
                                  /\ sp'[G.shadow[ShadowOf(Top)].x].value = TRUE
    PROVE  StackInv'
<1>1. G \in Graphs /\ Stacked(X, sp, mp, sw)
  BY DEF RunInv, StackInv, TypeInv
<1>2. PICK s2, mm2 : s2 = sp' /\ mm2 = mp'
  OBVIOUS
<1>3. \A i \in 2 .. Len(X) : s2[X[i].x].cost < 0
  <2>1. ASSUME NEW i \in 2 .. Len(X) PROVE s2[X[i].x].cost < 0
    <3>1. X[i] \in Frame /\ sp[X[i].x].cost < 0
      BY <1>1 DEF Stacked
    <3>2. X[i].x \in Var
      BY <3>1 DEF Frame
    <3>3. QED
      BY <1>2, <3>1, <3>2
  <2>2. QED
    BY <2>1
<1>4. Stacked(X, s2, mm2, sw)
  <2>1. /\ \A y \in Var : s2[y].chain = sp[y].chain
        /\ \A m \in Mod : mm2[m].chain = mp[m].chain
    BY <1>2
  <2>2. QED
    BY <1>1, <1>3, <2>1, CostsOnly
<1>5. Stacked(X, sp, mp, sw)'
  <2>1. Stacked(X', sp', mp', sw')
    BY <1>2, <1>4
  <2>2. QED
    BY <2>1, StackPrimes
<1>6. ASSUME Len(X) > 1 PROVE TopInv'
  <2>1. /\ sp[Top.x].chain = None /\ Ready(Top, pc, X, sp, mp, sw)
    BY <1>6 DEF RunInv, StackInv, TopInv
  <2>2. Top.x \in Var /\ Top' = Top
    BY <1>6, TopFrame DEF Top
  <2>3. ModeOf(pc, Top) = "shadow" /\ ModeOf(pc', Top) = "shadow"
    BY <1>6 DEF ModeOf
  <2>4. InShadow(Top, mp, sw) /\ Top.m \in Mod
    BY <2>1, <2>3, Zenon DEF Ready, InShadow
  <2>5. InShadow(Top, mm2, sw)
    BY <1>2, <2>4, Zenon DEF InShadow
  <2>6. \A i \in 2 .. Len(X) - 1 : X[i].m = Top.m => Behind(X[i], Top, "shadow")
    BY <2>1, <2>3 DEF Ready
  <2>7. Ready(Top, pc', X, s2, mm2, sw)
    BY <2>3, <2>5, <2>6 DEF Ready
  <2>8. Ready(Top', pc', X', sp', mp', sw')
    BY <1>2, <2>2, <2>7
  <2>9. Ready(Top, pc, X, sp, mp, sw)'
    BY <2>8, ReadyPrimes
  <2>10. PICK y : y = G.shadow[ShadowOf(Top)].x
    OBVIOUS
  <2>11. ShadowOf(Top)' = ShadowOf(Top) /\ G.shadow' = G.shadow
    BY <2>2, Zenon DEF ShadowOf
  <2>12. \A z : AtShadow(Top, z) => AtShadow(Top, z)'
    BY <2>2, <2>11 DEF AtShadow
  <2>13. y \in Var /\ sp'[y].value = TRUE => HasValue(y)'
    BY <1>1, VarIs DEF HasValue
  <2>14. /\ sp'[Top'.x].chain = None
         /\ pc' # "chosen" /\ pc' # "bound" /\ pc' # "solve"
         /\ ~(pc' = "value" /\ V' = <<>>)
    BY <1>6, <2>1, <2>2
  <2>15. V' # <<>> => AtShadow(Top, V[1].x)'
    BY <1>6, <2>12, Zenon DEF AtShadow
  <2>16. pc' = "check" => AtShadow(Top, y)' /\ HasValue(y)'
    BY <1>6, <2>10, <2>12, <2>13
  <2>17. pc' = "check" => /\ AtShadow(Top, G.shadow[ShadowOf(Top)].x)'
                          /\ HasValue(G.shadow[ShadowOf(Top)].x)'
    BY <2>10, <2>11, <2>16 DEF AtShadow, HasValue
  <2>18. QED
    BY <2>9, <2>14, <2>15, <2>17 DEF TopInv
<1>7. Len(X') = Len(X)
  OBVIOUS
<1>8. QED
  BY <1>5, <1>6, <1>7 DEF StackInv

LEMMA RankKept ==
    ASSUME RankInv, G' = G,
           \A y \in Var : sp'[y].chain = sp[y].chain,
           \A m \in Mod : mp'[m].chain = mp[m].chain,
           \A i \in DOMAIN V' : i \in DOMAIN V /\ V'[i].m = V[i].m
    PROVE  RankInv'
<1>1. PICK rank \in [Mod -> Nat], n \in Nat : Ranked(rank, n, sp, mp, V)
  BY DEF RankInv
<1>2. Mod' = Mod /\ Var' = Var
  BY DEF Mod, Var
<1>3. Ranked(rank, n, sp', mp', V')
  BY <1>1 DEF Ranked
<1>4. Ranked(rank, n, sp, mp, V)'
  BY <1>3 DEF Ranked, IsParam, Mod, Var
<1>5. QED
  BY <1>2, <1>4 DEF RankInv

LEMMA ActIs ==
    ASSUME RunInv, V # <<>>
    PROVE  /\ Len(V) \in Nat /\ Len(V) >= 1 /\ DOMAIN V = 1 .. Len(V) /\ Len(V) \in DOMAIN V
           /\ \A i \in DOMAIN V : V[i] \in Activation /\ V[i].x \in Var /\ V[i].m \in Mod
           /\ Act \in Activation /\ Act.x \in Var /\ Act.m \in Mod
           /\ Act.edge \in Nat \ {0} /\ Act.pos \in Nat \ {0}
<1>1. V \in Seq(Activation)
  BY DEF RunInv, TypeInv
<1>2. Len(V) \in Nat /\ Len(V) >= 1 /\ DOMAIN V = 1 .. Len(V) /\ Len(V) \in DOMAIN V
  BY <1>1
<1>3. \A i \in DOMAIN V : V[i] \in Activation
  BY <1>1
<1>4. \A i \in DOMAIN V : V[i].x \in Var /\ V[i].m \in Mod
  BY <1>3 DEF Activation
<1>5. Act \in Activation
  BY <1>2, <1>3 DEF Act
<1>6. QED
  BY <1>2, <1>3, <1>4, <1>5 DEF Activation

(* The values that an activation needs are not those that it or the ones   *)
(* below it compute.                                                       *)
LEMMA Descends ==
    ASSUME RunInv, V # <<>>
    PROVE  /\ \A i \in DOMAIN V : i < Len(V) => V[i].m # Act.m
           /\ \A y \in Var : IsParam(Act.m, y) =>
                 /\ sp[y].chain # None /\ sp[y].chain.m \in Mod
                 /\ \A i \in DOMAIN V : V[i].m # sp[y].chain.m /\ V[i].x # y
<1>1. /\ Len(V) \in Nat /\ DOMAIN V = 1 .. Len(V) /\ Len(V) \in DOMAIN V
      /\ Act.m \in Mod /\ Act = V[Len(V)] /\ \A i \in DOMAIN V : V[i].m \in Mod
  BY ActIs DEF Act
<1>2. PICK rank \in [Mod -> Nat], c \in Nat : Ranked(rank, c, sp, mp, V)
  BY DEF RunInv, RankInv
<1>3. \A i \in DOMAIN V : i < Len(V) => rank[Act.m] < rank[V[i].m]
  BY <1>1, <1>2 DEF Ranked
<1>4. \A i \in DOMAIN V : i = Len(V) \/ i < Len(V)
  BY <1>1
<1>5. \A m \in Mod : rank[m] \in Nat
  BY <1>2
<1>6. \A i \in DOMAIN V : i < Len(V) => V[i].m # Act.m
  BY <1>1, <1>3, <1>5
<1>7. mp[Act.m].chain = TRUE
  BY <1>1 DEF RunInv, ValueInv, Activated, ChainInv
<1>8. ASSUME NEW y \in Var, IsParam(Act.m, y)
      PROVE  /\ sp[y].chain # None /\ sp[y].chain.m \in Mod
             /\ \A i \in DOMAIN V : V[i].m # sp[y].chain.m /\ V[i].x # y
  <2>1. sp[y].chain # None
    BY <1>1, <1>7, <1>8 DEF RunInv, ChainInv
  <2>2. sp[y].chain.m \in Mod
    BY <2>1 DEF RunInv, TypeInv, VarState, Link
  <2>3. rank[sp[y].chain.m] < rank[Act.m]
    BY <1>1, <1>2, <1>7, <1>8 DEF Ranked
  <2>4. ASSUME NEW i \in DOMAIN V PROVE V[i].m # sp[y].chain.m
    BY <1>1, <1>3, <1>4, <1>5, <2>2, <2>3
  <2>5. ASSUME NEW i \in DOMAIN V, V[i].x = y PROVE FALSE
    <3>1. sp[V[i].x].chain.m = V[i].m
      BY DEF RunInv, ValueInv, Activated
    <3>2. QED
      BY <2>4, <2>5, <3>1
  <2>6. QED
    BY <2>1, <2>2, <2>4, <2>5
<1>9. QED
  BY <1>6, <1>8

(* Steps that compute nothing.                                             *)
LEMMA ValuesKept ==
    ASSUME RunInv, G' = G, UNCHANGED <<sp, mp, V, val, called>>, have \subseteq have',
           pc \notin {"value", "unpack"}, pc' # "unpack", pc' = "value" => V = <<>>,
           pc' = "yield" /\ status'.code = "MODCALL" =>
              /\ status'.of = Act.m /\ Act.edge > Len(G.mod[Act.m].params)
              /\ Range(G.mod[Act.m].given) \subseteq have'
    PROVE  ValueInv'
<1>1. ValueInv
  BY DEF RunInv
<1>2. ASSUME NEW i \in DOMAIN V PROVE Activated(i)'
  <2>1. Activated(i)
    BY <1>1 DEF ValueInv
  <2>2. V # <<>>
    OBVIOUS
  <2>3. pc' # "value"
    BY <2>2
  <2>4. \A y : Argued(i, y) => Argued(i, y)'
    BY <2>3 DEF Argued
  <2>5. QED
    BY <2>1, <2>4 DEF Activated
<1>3. Act' = Act /\ Mod' = Mod /\ Var' = Var /\ (\A m : RetBuf(m)' = RetBuf(m))
      /\ \A m : Returned(m)' = Returned(m)
  BY DEF Act, Mod, Var, RetBuf, Returned
<1>4. /\ \A i \in DOMAIN V' : Activated(i)'
      /\ ~(V' # <<>> /\ pc' = "value") /\ pc' # "unpack"
  BY <1>2
<1>5. /\ \A m \in Mod : mp[m].value = TRUE => m \in called \/ \E i \in DOMAIN V : V[i].m = m
      /\ \A m \in called : mp[m].value = TRUE
      /\ \A m \in called : ~RetBuf(m) => \A x \in Returned(m) : val[x] # None
      /\ \A x \in Var : sp[x].value = TRUE => val[x] # None \/ \E i \in DOMAIN V : V[i].x = x
  BY <1>1 DEF ValueInv
<1>6. pc' = "yield" /\ status'.code = "MODCALL" =>
          /\ status'.of = Act'.m /\ Act'.edge > Len(G'.mod[Act'.m].params)
          /\ Range(G'.mod[Act'.m].given) \subseteq have'
  BY <1>3
<1>7. QED
  BY <1>3, <1>4, <1>5, <1>6 DEF ValueInv

-----------------------------------------------------------------------------
(* Steps of S_compute_value.                                               *)

LEMMA DoComputeValue ==
    ASSUME RunInv, Answers, ComputeValue PROVE Answers' /\ (pc' # "error" => RunInv')
<1>1. /\ G \in Graphs /\ pc = "value" /\ arg.x \in Var
      /\ mp \in [Mod -> ModState] /\ sp \in [Var -> VarState] /\ V \in Seq(Activation)
  BY DEF ComputeValue, RunInv, TypeInv, Where
<1>2. /\ G' = G /\ X' = X /\ sw' = sw /\ arg' = arg /\ val' = val /\ called' = called
      /\ have' = have /\ UNCHANGED root_vars /\ cur' = cur /\ r_buf' = r_buf
  BY DEF ComputeValue, graph_vars, root_vars
<1>3. Answers'
  BY <1>2, AnswersKept
<1>4. ASSUME pc' # "error" PROVE RunInv'
  <2>1. sp[arg.x].chain # None
    BY <1>4 DEF ComputeValue, Error
  <2>2. PICK m : m = sp[arg.x].chain.m
    OBVIOUS
  <2>3. m \in Mod
    BY <1>1, <2>1, <2>2 DEF VarState, Link
  <2>4. PICK a : a = [x |-> arg.x, m |-> m, edge |-> 1, pos |-> 1]
    OBVIOUS
  <2>5. /\ sp' = [sp EXCEPT ![arg.x].value = TRUE] /\ mp' = [mp EXCEPT ![m].value = TRUE]
        /\ V' = Append(V, a) /\ pc' = IF mp[m].value = FALSE THEN "args" ELSE "unpack"
    <3>1. mp[m].value \in BOOLEAN
      BY <1>1, <2>3 DEF ModState
    <3>2. QED
      BY <2>1, <2>2, <2>4, <3>1, Zenon DEF ComputeValue, NeedsCall
  <2>6. a \in Activation /\ a.x = arg.x /\ a.m = m /\ a.edge = 1 /\ a.pos = 1
    BY <1>1, <2>3, <2>4 DEF Activation
  <2>7. /\ sp' \in [Var -> VarState] /\ sp'[arg.x].value = TRUE
        /\ \A y \in Var : sp'[y].chain = sp[y].chain /\ sp'[y].cost = sp[y].cost
        /\ \A y \in Var : y # arg.x => sp'[y].value = sp[y].value
    <3>1. PICK v : v = [sp[arg.x] EXCEPT !.value = TRUE]
      OBVIOUS
    <3>2. v \in VarState /\ v.chain = sp[arg.x].chain /\ v.cost = sp[arg.x].cost /\ v.value = TRUE
      BY <1>1, <3>1 DEF VarState
    <3>3. sp' = [sp EXCEPT ![arg.x] = v]
      BY <1>1, <2>5, <3>1
    <3>4. QED
      BY <1>1, <3>2, <3>3
  <2>8. /\ mp' \in [Mod -> ModState] /\ mp'[m].value = TRUE
        /\ \A k \in Mod : mp'[k].chain = mp[k].chain
        /\ \A k \in Mod : k # m => mp'[k].value = mp[k].value
    <3>1. PICK v : v = [mp[m] EXCEPT !.value = TRUE]
      OBVIOUS
    <3>2. v \in ModState /\ v.chain = mp[m].chain /\ v.value = TRUE
      BY <1>1, <2>3, <3>1 DEF ModState
    <3>3. mp' = [mp EXCEPT ![m] = v]
      BY <1>1, <2>3, <2>5, <3>1
    <3>4. QED
      BY <1>1, <2>3, <3>2, <3>3
  <2>9. PICK n \in Nat : n = Len(V)
    BY <1>1
  <2>10. /\ V' \in Seq(Activation) /\ Len(V') = n + 1 /\ V'[n + 1] = a
         /\ \A i \in 1 .. n : V'[i] = V[i]
    BY <1>1, <2>5, <2>6, <2>9
  <2>11. DOMAIN V' = 1 .. n + 1 /\ DOMAIN V = 1 .. n /\ V' # <<>>
         /\ \A i \in 1 .. n + 1 : i \in 1 .. n \/ i = n + 1
    BY <1>1, <2>9, <2>10
  <2>12. \A i \in 1 .. n : V[i].m # m
    <3>1. CASE V = <<>>
      BY <2>9, <3>1
    <3>2. CASE V # <<>>
      <4>1. IsParam(Act.m, arg.x)
        BY <1>1, <3>2 DEF RunInv, ValueInv
      <4>2. QED
        BY <1>1, <2>2, <2>11, <3>2, <4>1, Descends
    <3>3. QED
      BY <3>1, <3>2
  <2>13. TypeInv'
    <3>1. Var' = Var /\ Mod' = Mod /\ Link' = Link /\ VarState' = VarState
          /\ Activation' = Activation
      BY <1>2 DEF Var, Mod, Link, VarState, Activation
    <3>2. QED
      BY <1>2, <2>7, <2>8, <2>10, <3>1 DEF RunInv, TypeInv
  <2>14. Where'
    BY <2>5, <2>11 DEF Where, Searching, Passing
  <2>15. StackInv'
    <3>1. ASSUME Len(X) > 1 PROVE AtShadow(Top, V'[1].x)
      <4>1. CASE V = <<>>
        <5>1. V'[1] = a
          BY <2>9, <2>10, <4>1
        <5>2. QED
          BY <1>1, <2>6, <3>1, <4>1, <5>1 DEF RunInv, StackInv, TopInv
      <4>2. CASE V # <<>>
        <5>1. 1 \in 1 .. n
          BY <2>9, <1>1, <4>2
        <5>2. V'[1] = V[1]
          BY <2>10, <5>1
        <5>3. QED
          BY <3>1, <4>2, <5>2 DEF RunInv, StackInv, TopInv
      <4>3. QED
        BY <4>1, <4>2
    <3>2. pc \in {"value", "args", "unpack", "yield"} /\ pc' \in {"args", "unpack"}
      BY <1>1, <2>5
    <3>3. QED
      BY <1>2, <2>7, <2>8, <2>11, <3>1, <3>2, StackWaits
  <2>16. ChainInv'
    <3>1. /\ \A y \in Var : sp'[y].chain # None =>
                mp'[sp'[y].chain.m].chain = TRUE /\ y \in Returned(sp'[y].chain.m)
      <4>1. \A y \in Var : sp[y].chain # None => sp[y].chain.m \in Mod
        BY <1>1 DEF VarState, Link
      <4>2. QED
        BY <2>7, <2>8, <4>1 DEF RunInv, ChainInv
    <3>2. \A y \in Var : sp'[y].value = TRUE => sp'[y].chain # None
      BY <2>1, <2>7 DEF RunInv, ChainInv
    <3>3. \A k \in Mod : mp'[k].value = TRUE => mp'[k].chain = TRUE
      BY <1>1, <2>1, <2>2, <2>8 DEF RunInv, ChainInv
    <3>4. \A k \in Mod, y \in Var : mp'[k].chain = TRUE /\ IsParam(k, y) => sp'[y].chain # None
      BY <2>7, <2>8 DEF RunInv, ChainInv
    <3>5. /\ Var' = Var /\ Mod' = Mod /\ (\A k : Returned(k)' = Returned(k))
          /\ \A k, y : IsParam(k, y)' = IsParam(k, y)
      BY <1>2 DEF Var, Mod, Returned, IsParam
    <3>6. QED
      BY <3>1, <3>2, <3>3, <3>4, <3>5 DEF ChainInv
  <2>17. RankInv'
    <3>1. PICK rank \in [Mod -> Nat], c \in Nat : Ranked(rank, c, sp, mp, V)
      BY DEF RunInv, RankInv
    <3>2. ASSUME NEW i \in DOMAIN V', NEW j \in DOMAIN V', i < j
          PROVE  rank[V'[j].m] < rank[V'[i].m]
      <4>1. i \in 1 .. n /\ i \in DOMAIN V /\ V'[i] = V[i]
        BY <2>10, <2>11, <3>2
      <4>2. CASE j \in 1 .. n
        BY <2>10, <2>11, <3>1, <3>2, <4>1, <4>2 DEF Ranked
      <4>3. CASE j = n + 1
        <5>1. V # <<>>
          BY <4>1
        <5>2. IsParam(Act.m, arg.x) /\ Act.m \in Mod /\ n \in DOMAIN V /\ Act = V[n]
          BY <1>1, <2>9, <5>1, ActIs DEF RunInv, ValueInv, Act
        <5>3. mp[Act.m].chain = TRUE
          BY <5>2 DEF RunInv, ValueInv, Activated, ChainInv
        <5>4. rank[m] < rank[V[n].m]
          BY <1>1, <2>2, <3>1, <5>2, <5>3 DEF Ranked
        <5>5. i < n => rank[V[n].m] < rank[V[i].m]
          BY <3>1, <4>1, <5>2 DEF Ranked
        <5>6. i = n \/ i < n
          BY <4>1
        <5>7. rank[m] \in Nat /\ rank[V[n].m] \in Nat /\ rank[V[i].m] \in Nat
          BY <2>3, <3>1, <4>1, <5>1, <5>2, ActIs
        <5>8. rank[m] < rank[V[i].m]
          BY <5>4, <5>5, <5>6, <5>7
        <5>9. QED
          BY <2>6, <2>10, <4>1, <4>3, <5>8
      <4>4. QED
        BY <2>11, <4>2, <4>3
    <3>3. Ranked(rank, c, sp', mp', V')
      BY <2>7, <2>8, <3>1, <3>2 DEF Ranked
    <3>4. Ranked(rank, c, sp, mp, V)' /\ Mod' = Mod
      BY <1>2, <3>3 DEF Ranked, IsParam, Mod, Var
    <3>5. QED
      BY <3>4 DEF RankInv
  <2>18. ValueInv'
    <3>1. ValueInv
      BY Zenon DEF RunInv
    <3>2. ASSUME NEW i \in 1 .. n PROVE Activated(i)'
      <4>1. Activated(i) /\ V'[i] = V[i] /\ V[i].x \in Var /\ V[i].m \in Mod
        <5>1. i \in DOMAIN V /\ V # <<>>
          BY <2>11
        <5>2. QED
          BY <2>10, <3>1, <5>1, ActIs DEF ValueInv
      <4>2. \A y : Argued(i, y) => Argued(i, y)'
        <5> SUFFICES ASSUME NEW y, Argued(i, y) PROVE Argued(i, y)'
          OBVIOUS
        <5>1. CASE val[y] # None
          BY <1>2, <5>1 DEF Argued
        <5>2. CASE i < n /\ y = V[i + 1].x
          <6>1. i + 1 \in 1 .. n /\ i < n + 1
            BY <5>2
          <6>2. QED
            BY <2>10, <5>2, <6>1 DEF Argued
        <5>3. CASE i = n /\ y = arg.x
          <6>1. i < n + 1 /\ y = V'[i + 1].x
            BY <2>6, <2>10, <5>3
          <6>2. QED
            BY <2>10, <6>1 DEF Argued
        <5>4. QED
          BY <1>1, <2>9, <5>1, <5>2, <5>3 DEF Argued
      <4>3. V[i].m \notin called
        BY <1>1, <4>1 DEF Activated
      <4>4. sp'[V[i].x].value = TRUE /\ mp'[V[i].m].value = TRUE
        BY <2>7, <2>8, <4>1, Zenon DEF Activated
      <4>5. QED
        BY <1>2, <2>7, <4>1, <4>2, <4>3, <4>4, SMTT(30) DEF Activated
    <3>3. Activated(n + 1)'
      <4>1. pc' # "unpack" => m \notin called
        BY <2>3, <2>5, <3>1 DEF ValueInv
      <4>2. ASSUME NEW e \in DOMAIN G.mod[m].params, NEW k \in DOMAIN G.mod[m].params[e]
            PROVE  ~(e < 1 \/ (e = 1 /\ k < 1))
        <5>1. G.mod[m].params \in Seq(Seq(Var))
          BY <1>1, <2>3, ModIs
        <5>2. e \in Nat /\ e >= 1 /\ G.mod[m].params[e] \in Seq(Var)
          BY <5>1, SeqIs, Zenon
        <5>3. k \in Nat /\ k >= 1
          BY <5>2, SeqIs, Zenon
        <5>4. QED
          BY <5>2, <5>3
      <4>3. ~(n + 1 < Len(V'))
        BY <2>10
      <4>4. QED
        BY <1>1, <1>2, <2>1, <2>2, <2>6, <2>7, <2>8, <2>10, <4>1, <4>2, <4>3 DEF Activated
    <3>4. \A i \in DOMAIN V' : Activated(i)'
      BY <2>11, <3>2, <3>3
    <3>5. pc' = "unpack" => Act'.m \in called
      <4>1. Act' = a
        BY <2>10 DEF Act
      <4>2. pc' = "unpack" => mp[m].value = TRUE
        BY <1>1, <2>3, <2>5 DEF ModState
      <4>3. mp[m].value = TRUE => m \in called
        BY <2>3, <2>11, <2>12, <3>1 DEF ValueInv
      <4>4. QED
        BY <2>6, <4>1, <4>2, <4>3
    <3>6. \A k \in Mod : mp'[k].value = TRUE => k \in called \/ \E i \in DOMAIN V' : V'[i].m = k
      <4> SUFFICES ASSUME NEW k \in Mod, mp'[k].value = TRUE, k \notin called
                   PROVE  \E i \in DOMAIN V' : V'[i].m = k
        OBVIOUS
      <4>1. CASE k = m
        <5>1. n + 1 \in DOMAIN V' /\ V'[n + 1].m = k
          BY <2>6, <2>10, <2>11, <4>1
        <5>2. QED
          BY <5>1
      <4>2. CASE k # m
        <5>1. PICK i \in DOMAIN V : V[i].m = k
          BY <2>8, <3>1, <4>2 DEF ValueInv
        <5>2. i \in DOMAIN V' /\ V'[i].m = k
          BY <2>10, <2>11, <5>1
        <5>3. QED
          BY <5>2
      <4>3. QED
        BY <4>1, <4>2
    <3>7. \A y \in Var : sp'[y].value = TRUE => val[y] # None \/ \E i \in DOMAIN V' : V'[i].x = y
      <4> SUFFICES ASSUME NEW y \in Var, sp'[y].value = TRUE, val[y] = None
                   PROVE  \E i \in DOMAIN V' : V'[i].x = y
        OBVIOUS
      <4>1. CASE y = arg.x
        <5>1. n + 1 \in DOMAIN V' /\ V'[n + 1].x = y
          BY <2>6, <2>10, <2>11, <4>1
        <5>2. QED
          BY <5>1
      <4>2. CASE y # arg.x
        <5>1. PICK i \in DOMAIN V : V[i].x = y
          BY <2>7, <3>1, <4>2 DEF ValueInv
        <5>2. i \in DOMAIN V' /\ V'[i].x = y
          BY <2>10, <2>11, <5>1
        <5>3. QED
          BY <5>2
      <4>3. QED
        BY <4>1, <4>2
    <3>8. \A k \in called : mp'[k].value = TRUE
      <4>1. called \subseteq Mod
        BY DEF RunInv, TypeInv
      <4>2. QED
        BY <2>8, <3>1, <4>1 DEF ValueInv
    <3>9. /\ \A k \in called : ~RetBuf(k) => \A x \in Returned(k) : val[x] # None
          /\ pc' # "value" /\ pc' # "yield"
      BY <2>5, <3>1 DEF ValueInv
    <3>10. /\ Var' = Var /\ Mod' = Mod /\ (\A k : Returned(k)' = Returned(k))
           /\ \A k : RetBuf(k)' = RetBuf(k)
      BY <1>2 DEF Var, Mod, Returned, RetBuf
    <3>11. QED
      BY <1>2, <3>4, <3>5, <3>6, <3>7, <3>8, <3>9, <3>10 DEF ValueInv
  <2>19. RootInv'
    <3>1. pc' \in {"args", "unpack"}
      BY <2>5
    <3>2. InRound /\ ~InGivens /\ (InValues' => InValues) /\ pc' # "collect"
      BY <1>1, <1>2, <3>1 DEF InRound, InGivens, InValues
    <3>3. \A y \in Var : sp[y].value = TRUE => sp'[y].value = TRUE
      BY <2>7
    <3>4. RootInv /\ cur \in [num : Nat, i : Nat, j : Nat] /\ have \subseteq have'
      BY <1>2 DEF RunInv, TypeInv
    <3>5. QED
      BY <1>1, <1>2, <2>7, <3>2, <3>3, <3>4, RootsKept
  <2>20. QED
    BY <2>13, <2>14, <2>15, <2>16, <2>17, <2>18, <2>19 DEF RunInv
<1>5. QED
  BY <1>3, <1>4

(* What remains to be shown of a step that changes no state of the search. *)
Shortens(Z, Y) == \A i \in DOMAIN Z : i \in DOMAIN Y /\ Z[i].m = Y[i].m /\ Z[i].x = Y[i].x

LEMMA ComputeRuns ==
    ASSUME RunInv, Answers, G' = G, UNCHANGED <<X, sp, mp, sw, cur, r_buf, have>>,
           V' \in Seq(Activation), Shortens(V', V),
           val' \in [Var -> Mod \cup {None}], called' \subseteq Mod,
           arg' \in [x : Var \cup {None}, beta : Int, cost : Int],
           Where', ValueInv', pc' # "collect",
           Len(X) > 1 =>
              /\ pc \in {"value", "args", "unpack", "yield"}
              /\ pc' \in {"value", "args", "unpack", "yield", "shadow", "check"}
              /\ pc' = "value" => V' # <<>>
              /\ pc' = "check" => /\ AtShadow(Top, G.shadow[ShadowOf(Top)].x)
                                  /\ G.shadow[ShadowOf(Top)].x \in Var
                                  /\ sp[G.shadow[ShadowOf(Top)].x].value = TRUE,
           InRound' => InRound, InRound' /\ InGivens => InGivens', InValues' => InValues
    PROVE  RunInv'
<1>1. /\ G \in Graphs /\ sp \in [Var -> VarState] /\ cur \in [num : Nat, i : Nat, j : Nat]
      /\ RootInv /\ RankInv /\ ChainInv
  BY DEF RunInv, TypeInv
<1>2. TypeInv'
  <2>1. Var' = Var /\ Mod' = Mod /\ Link' = Link /\ VarState' = VarState
        /\ Activation' = Activation
    BY DEF Var, Mod, Link, VarState, Activation
  <2>2. QED
    BY <2>1 DEF RunInv, TypeInv
<1>3. StackInv'
  <2>1. ASSUME Len(X) > 1, V' # <<>> PROVE AtShadow(Top, V'[1].x)
    <3>1. 1 \in DOMAIN V'
      BY <2>1
    <3>2. 1 \in DOMAIN V /\ V'[1].x = V[1].x
      BY <3>1 DEF Shortens
    <3>3. V # <<>>
      BY <3>2
    <3>4. QED
      BY <2>1, <3>2, <3>3 DEF RunInv, StackInv, TopInv
  <2>2. QED
    BY <2>1, StackWaits
<1>4. ChainInv'
  <2>1. /\ Var' = Var /\ Mod' = Mod /\ (\A k : Returned(k)' = Returned(k))
        /\ \A k, y : IsParam(k, y)' = IsParam(k, y)
    BY DEF Var, Mod, Returned, IsParam
  <2>2. QED
    BY <1>1, <2>1 DEF ChainInv
<1>5. RankInv'
  BY <1>1, RankKept DEF Shortens
<1>6. RootInv'
  <2>1. sp' \in [Var -> VarState] /\ have \subseteq have'
        /\ \A x \in Var : sp[x].value = TRUE => sp'[x].value = TRUE
    BY <1>1
  <2>2. QED
    BY <1>1, <2>1, RootsKept
<1>7. QED
  BY <1>2, <1>3, <1>4, <1>5, <1>6 DEF RunInv

LEMMA DoModcall == ASSUME RunInv, Answers, Modcall PROVE RunInv' /\ Answers'
<1>1. /\ G \in Graphs /\ pc = "args" /\ V # <<>> /\ Act.edge > Len(G.mod[Act.m].params)
      /\ arg \in [x : Var \cup {None}, beta : Int, cost : Int] /\ V \in Seq(Activation)
      /\ val \in [Var -> Mod \cup {None}] /\ called \subseteq Mod
  BY DEF Modcall, RunInv, TypeInv, Where
<1>2. /\ G' = G /\ UNCHANGED <<X, sp, mp, sw, arg, V, val, called, have>> /\ UNCHANGED root_vars
      /\ UNCHANGED <<cur, r_buf>>
  BY DEF Modcall, graph_vars, search_vars, value_vars, root_vars
<1>3. Answers'
  BY <1>2, AnswersKept
<1>4. PICK g : g = G.mod[Act.m].given
  OBVIOUS
<1>5. /\ pc' = "yield" /\ status'.code \in {"VREF", "MODCALL"}
      /\ status'.code = "MODCALL" =>
            status'.of = Act.m /\ {j \in DOMAIN g : g[j] \notin have} = {}
  BY <1>4, SMTT(30) DEF Modcall, Vref
<1>6. status'.code = "MODCALL" => Range(g) \subseteq have
  BY <1>5 DEF Range
<1>7. ValueInv'
  BY <1>1, <1>2, <1>4, <1>5, <1>6, ValuesKept
<1>8. Where'
  BY <1>1, <1>2, <1>5 DEF Where, Searching, Passing
<1>9. Shortens(V', V)
  BY <1>2 DEF Shortens
<1>10. /\ InRound /\ ~InGivens /\ (InValues' => InValues)
  BY <1>1, <1>2, <1>5 DEF InRound, InGivens, InValues
<1>11. /\ pc \in {"value", "args", "unpack", "yield"}
       /\ pc' \in {"value", "args", "unpack", "yield", "shadow", "check"}
       /\ pc' # "value" /\ pc' # "check" /\ pc' # "collect"
  BY <1>1, <1>5
<1>12. /\ V' \in Seq(Activation) /\ val' \in [Var -> Mod \cup {None}] /\ called' \subseteq Mod
       /\ arg' \in [x : Var \cup {None}, beta : Int, cost : Int]
  BY <1>1, <1>2
<1>13. RunInv'
  BY <1>2, <1>7, <1>8, <1>9, <1>10, <1>11, <1>12, ComputeRuns
<1>14. QED
  BY <1>3, <1>13

(* The next argument: from one instance to the next, or to the next edge.  *)
Advanced(a, b, n) ==
    /\ a.x = b.x /\ a.m = b.m
    /\ \/ b.pos < n /\ a.edge = b.edge /\ a.pos = b.pos + 1
       \/ b.pos >= n /\ a.edge = b.edge + 1 /\ a.pos = 1

LEMMA DoArgs == ASSUME RunInv, Answers, Args PROVE RunInv' /\ Answers'
<1>1. /\ G \in Graphs /\ pc = "args" /\ V # <<>> /\ Act.edge <= Len(G.mod[Act.m].params)
      /\ arg \in [x : Var \cup {None}, beta : Int, cost : Int] /\ V \in Seq(Activation)
      /\ val \in [Var -> Mod \cup {None}] /\ called \subseteq Mod /\ sp \in [Var -> VarState]
  BY Zenon DEF Args, RunInv, TypeInv, Where
<1>2. /\ G' = G /\ UNCHANGED <<X, sp, mp, sw, val, called, have>> /\ UNCHANGED root_vars
      /\ UNCHANGED <<cur, r_buf>>
  BY Zenon DEF Args, graph_vars, root_vars
<1>3. Answers'
  BY <1>2, AnswersKept
<1>4. PICK n \in Nat : n = Len(V) /\ n >= 1 /\ DOMAIN V = 1 .. n
  BY <1>1, ActIs, Zenon
<1>5. /\ Act \in Activation /\ Act.m \in Mod /\ Act.edge \in Nat \ {0} /\ Act.pos \in Nat \ {0}
      /\ Act = V[n] /\ \A i \in 1 .. n : V[i].x \in Var /\ V[i].m \in Mod
  BY <1>1, <1>4, ActIs DEF Act
<1>6. PICK ps \in Seq(Seq(Var)) : ps = G.mod[Act.m].params
  BY <1>1, <1>5, ModIs
<1>7. Act.edge \in DOMAIN ps /\ ps[Act.edge] \in Seq(Var)
  <2>1. PICK d \in Nat : d = Act.edge /\ d >= 1
    BY <1>5
  <2>2. Len(ps) \in Nat /\ d <= Len(ps)
    BY <1>1, <1>6, <2>1, SMTT(30)
  <2>3. d \in 1 .. Len(ps)
    BY <2>1, <2>2
  <2>4. QED
    BY <2>1, <2>3
<1>8. PICK e \in Seq(Var) : e = ps[Act.edge]
  BY <1>7
<1>9. PICK len \in Nat : len = Len(e) /\ DOMAIN e = 1 .. len
  BY <1>8
<1>10. Act.pos = 1 \/ Act.pos <= len
  <2>1. Activated(n)
    BY <1>4, SMTT(30) DEF RunInv, ValueInv
  <2>2. QED
    BY <1>1, <1>5, <1>6, <1>8, <1>9, <2>1, Zenon DEF Activated
<1>11. PICK a : a = IF Act.pos < len THEN [Act EXCEPT !.pos = @ + 1]
                    ELSE [Act EXCEPT !.edge = @ + 1, !.pos = 1]
  OBVIOUS
<1>12. V' = [V EXCEPT ![n] = a]
  <2>1. V' = [V EXCEPT ![Len(V)] =
                IF Act.pos < Len(G.mod[Act.m].params[Act.edge]) THEN [Act EXCEPT !.pos = @ + 1]
                ELSE [Act EXCEPT !.edge = @ + 1, !.pos = 1]]
    BY Zenon DEF Args
  <2>2. len = Len(G.mod[Act.m].params[Act.edge])
    BY <1>6, <1>8, <1>9
  <2>3. QED
    BY <1>4, <1>11, <2>1, <2>2, Zenon
<1>13. a \in Activation /\ Advanced(a, Act, len)
  <2>1. Act.pos + 1 \in Nat \ {0} /\ Act.edge + 1 \in Nat \ {0}
    BY <1>5, SMTT(30)
  <2>2. CASE Act.pos < len
    BY <1>5, <1>11, <2>1, <2>2 DEF Activation, Advanced
  <2>3. CASE ~(Act.pos < len)
    <3>1. a = [Act EXCEPT !.edge = Act.edge + 1, !.pos = 1]
      BY <1>11, <2>3
    <3>2. a \in Activation
      <4>1. a = [x |-> Act.x, m |-> Act.m, edge |-> Act.edge + 1, pos |-> 1]
        BY <1>5, <3>1 DEF Activation
      <4>2. Act.x \in Var
        BY <1>5 DEF Activation
      <4>3. QED
        BY <1>5, <2>1, <4>1, <4>2 DEF Activation
    <3>3. a.x = Act.x /\ a.m = Act.m /\ a.edge = Act.edge + 1 /\ a.pos = 1
      BY <1>5, <3>1 DEF Activation
    <3>4. Act.pos >= len
      BY <1>5, <2>3
    <3>5. QED
      BY <3>2, <3>3, <3>4 DEF Advanced
  <2>4. QED
    BY <2>2, <2>3
<1>14. /\ V' \in Seq(Activation) /\ Len(V') = n /\ V'[n] = a /\ DOMAIN V' = 1 .. n
       /\ \A i \in 1 .. n : i # n => V'[i] = V[i]
  BY <1>1, <1>4, <1>12, <1>13
<1>15. a.x = Act.x /\ a.m = Act.m
  BY <1>13 DEF Advanced
<1>16. Shortens(V', V)
  BY <1>4, <1>5, <1>14, <1>15 DEF Shortens
<1>17. V' # <<>> /\ Act' = a
  BY <1>4, <1>14 DEF Act
<1>18. ASSUME e # <<>> PROVE Act.pos \in 1 .. len /\ e[Act.pos] \in Var
  <2>1. len # 0
    BY <1>9, <1>18
  <2>2. Act.pos \in 1 .. len
    BY <1>5, <1>10, <2>1
  <2>3. QED
    BY <1>9, <2>2
<1>19. \/ e # <<>> /\ sp[e[Act.pos]].value = FALSE /\ pc' = "value"
          /\ arg' = [arg EXCEPT !.x = e[Act.pos]]
       \/ /\ e = <<>> \/ sp[e[Act.pos]].value = TRUE
          /\ pc' = "args" /\ arg' = arg
  <2>1. e # <<>> => sp[e[Act.pos]].value \in BOOLEAN
    BY <1>1, <1>18 DEF VarState
  <2>2. IF e # <<>> /\ ~sp[e[Act.pos]].value
        THEN pc' = "value" /\ arg' = [arg EXCEPT !.x = e[Act.pos]]
        ELSE UNCHANGED <<pc, arg>>
    BY <1>6, <1>8, Zenon DEF Args
  <2>3. QED
    BY <1>1, <2>1, <2>2
<1>20. /\ arg' \in [x : Var \cup {None}, beta : Int, cost : Int]
       /\ pc' = "value" => e # <<>> /\ arg'.x = e[Act.pos]
  BY <1>1, <1>18, <1>19
<1>21. \A l \in DOMAIN e : IsParam(Act.m, e[l])
  BY <1>6, <1>7, <1>8 DEF IsParam
<1>22. pc' \in {"args", "value"}
  BY <1>19
<1>23. Where'
  <2>1. pc' = "value" => arg'.x \in Var
    BY <1>18, <1>20
  <2>2. Var' = Var
    BY <1>2 DEF Var
  <2>3. QED
    BY <1>17, <1>22, <2>1, <2>2 DEF Where, Searching, Passing
<1>24. ValueInv
  BY Zenon DEF RunInv
<1>25. ASSUME NEW i \in 1 .. n, i # n PROVE Activated(i)'
  <2>1. Activated(i) /\ V'[i] = V[i] /\ V'[i + 1].x = V[i + 1].x /\ i + 1 \in 1 .. n /\ i < n
    <3>1. i + 1 \in 1 .. n /\ i < n
      BY <1>25
    <3>2. QED
      BY <1>4, <1>14, <1>16, <1>24, <1>25, <3>1 DEF ValueInv, Shortens
  <2>2. \A y : Argued(i, y) => Argued(i, y)'
    BY <1>1, <1>2, <1>4, <1>14, <2>1 DEF Argued
  <2>3. V[i].m \notin called
    BY <1>1, <2>1, Zenon DEF Activated
  <2>4. QED
    BY <1>2, <2>1, <2>2, <2>3 DEF Activated
<1>26. Activated(n)'
  <2>1. Activated(n)
    BY <1>4, <1>24, SMTT(30) DEF ValueInv
  <2>2. /\ sp[Act.x].chain # None /\ sp[Act.x].chain.m = Act.m
        /\ sp[Act.x].value = TRUE /\ mp[Act.m].value = TRUE /\ Act.m \notin called
    BY <1>1, <1>5, <2>1, Zenon DEF Activated
  <2>3. a.edge <= Len(ps) => a.pos = 1 \/ a.pos <= Len(ps[a.edge])
    BY <1>5, <1>8, <1>9, <1>13, SMTT(30) DEF Advanced
  <2>4. \A d \in DOMAIN ps : \A k \in DOMAIN ps[d] :
           d < Act.edge \/ (d = Act.edge /\ k < Act.pos) => val[ps[d][k]] # None
    <3>1. \A y : Argued(n, y) => val[y] # None
      BY <1>1, <1>4 DEF Argued
    <3>2. QED
      BY <1>5, <1>6, <2>1, <3>1, Zenon DEF Activated
  <2>5. ASSUME NEW d \in DOMAIN ps, NEW k \in DOMAIN ps[d],
               d < a.edge \/ (d = a.edge /\ k < a.pos)
        PROVE  val[ps[d][k]] # None \/ (pc' = "value" /\ ps[d][k] = arg'.x)
    <3>1. d \in Nat /\ k \in Nat /\ k >= 1 /\ (d = Act.edge => k <= len /\ k \in DOMAIN e)
      <4>1. d \in Nat /\ ps[d] \in Seq(Var)
        OBVIOUS
      <4>2. k \in Nat /\ k >= 1
        BY <4>1
      <4>3. d = Act.edge => k \in DOMAIN e
        BY <1>8
      <4>4. QED
        BY <1>9, <4>1, <4>2, <4>3
    <3>2. \/ d < Act.edge \/ (d = Act.edge /\ k < Act.pos)
          \/ d = Act.edge /\ k = Act.pos
      <4>1. \/ Act.pos < len /\ a.edge = Act.edge /\ a.pos = Act.pos + 1
            \/ Act.pos >= len /\ a.edge = Act.edge + 1 /\ a.pos = 1
        BY <1>13 DEF Advanced
      <4>2. PICK p, q \in Nat : p = Act.edge /\ q = Act.pos
        BY <1>5
      <4>3. CASE q < len /\ a.edge = p /\ a.pos = q + 1
        <5>1. d < p \/ (d = p /\ k < q + 1)
          BY <2>5, <4>3
        <5>2. d < p \/ (d = p /\ k < q) \/ (d = p /\ k = q)
          BY <3>1, <5>1
        <5>3. QED
          BY <4>2, <5>2, Zenon
      <4>4. CASE q >= len /\ a.edge = p + 1 /\ a.pos = 1
        <5>1. d < p + 1 \/ (d = p + 1 /\ k < 1)
          BY <2>5, <4>4
        <5>2. d = p => k <= len
          BY <3>1, <4>2
        <5>3. d < p \/ (d = p /\ k < q) \/ (d = p /\ k = q)
          BY <1>9, <3>1, <4>4, <5>1, <5>2
        <5>4. QED
          BY <4>2, <5>3, Zenon
      <4>5. QED
        BY <4>1, <4>2, <4>3, <4>4, Zenon
    <3>3. CASE d < Act.edge \/ (d = Act.edge /\ k < Act.pos)
      BY <2>4, <3>3
    <3>4. CASE d = Act.edge /\ k = Act.pos
      <4>1. k \in DOMAIN e /\ ps[d][k] = e[Act.pos] /\ e # <<>>
        BY <1>8, <1>9, <3>1, <3>4
      <4>2. CASE pc' = "value"
        BY <1>20, <4>1, <4>2
      <4>3. CASE pc' # "value"
        <5>1. sp[e[Act.pos]].value = TRUE /\ e[Act.pos] \in Var
          BY <1>18, <1>19, <4>1, <4>3
        <5>2. IsParam(Act.m, e[Act.pos])
          BY <1>21, <3>4, <4>1
        <5>3. \A i \in DOMAIN V : V[i].x # e[Act.pos]
          BY <1>1, <5>1, <5>2, Descends
        <5>4. QED
          BY <1>24, <4>1, <5>1, <5>3 DEF ValueInv
      <4>4. QED
        BY <4>2, <4>3
    <3>5. QED
      BY <3>2, <3>3, <3>4
  <2>6. \A d \in DOMAIN ps : \A k \in DOMAIN ps[d] :
           d < a.edge \/ (d = a.edge /\ k < a.pos) => Argued(n, ps[d][k])'
    BY <1>2, <1>14, <2>5 DEF Argued
  <2>7. /\ V'[n] = a /\ a.x = Act.x /\ a.m = Act.m /\ G'.mod[a.m].params = ps /\ sp' = sp /\ mp' = mp
        /\ called' = called
    BY <1>2, <1>6, <1>14, <1>15
  <2>8. QED
    BY <2>2, <2>3, <2>6, <2>7 DEF Activated
<1>27. ValueInv'
  <2>1. \A i \in DOMAIN V' : Activated(i)'
    BY <1>14, <1>25, <1>26
  <2>2. pc' = "value" => IsParam(Act'.m, arg'.x)
    BY <1>9, <1>15, <1>17, <1>18, <1>20, <1>21
  <2>3. /\ \A m \in Mod : mp[m].value = TRUE => m \in called \/ \E i \in DOMAIN V' : V'[i].m = m
        /\ \A x \in Var : sp[x].value = TRUE => val[x] # None \/ \E i \in DOMAIN V' : V'[i].x = x
    <3>1. \A i \in DOMAIN V : i \in DOMAIN V' /\ V'[i].m = V[i].m /\ V'[i].x = V[i].x
      BY <1>4, <1>14, <1>16 DEF Shortens
    <3>2. QED
      BY <1>24, <3>1 DEF ValueInv
  <2>4. /\ Var' = Var /\ Mod' = Mod /\ (\A k : Returned(k)' = Returned(k))
        /\ (\A k : RetBuf(k)' = RetBuf(k)) /\ \A k, y : IsParam(k, y)' = IsParam(k, y)
    BY <1>2 DEF Var, Mod, Returned, RetBuf, IsParam
  <2>5. /\ \A m \in called : mp[m].value = TRUE
        /\ \A m \in called : ~RetBuf(m) => \A x \in Returned(m) : val[x] # None
        /\ pc' # "unpack" /\ pc' # "yield"
    BY <1>22, <1>24 DEF ValueInv
  <2>6. pc' = "value" => IsParam(Act.m, arg.x)'
    BY <1>2, <2>2 DEF IsParam
  <2>7. QED
    BY <1>2, <2>1, <2>3, <2>4, <2>5, <2>6 DEF ValueInv
<1>28. /\ InRound /\ ~InGivens /\ (InValues' => InValues)
  BY <1>1, <1>2, <1>22 DEF InRound, InGivens, InValues
<1>29. /\ pc \in {"value", "args", "unpack", "yield"}
       /\ pc' \in {"value", "args", "unpack", "yield", "shadow", "check"}
       /\ pc' # "check" /\ pc' # "collect"
  BY <1>1, <1>22
<1>30. val' \in [Var -> Mod \cup {None}] /\ called' \subseteq Mod
  BY <1>1, <1>2
<1>31. RunInv'
  BY <1>2, <1>14, <1>16, <1>17, <1>20, <1>23, <1>27, <1>28, <1>29, <1>30, ComputeRuns
<1>32. QED
  BY <1>3, <1>31

LEMMA DoUnpack == ASSUME RunInv, Answers, Unpack PROVE RunInv' /\ Answers'
<1>1. /\ G \in Graphs /\ pc = "unpack" /\ V # <<>>
      /\ arg \in [x : Var \cup {None}, beta : Int, cost : Int] /\ V \in Seq(Activation)
      /\ val \in [Var -> Mod \cup {None}] /\ called \subseteq Mod /\ sp \in [Var -> VarState]
  BY DEF Unpack, RunInv, TypeInv, Where
<1>2. /\ G' = G /\ UNCHANGED <<X, sp, mp, sw, called, have, arg>> /\ UNCHANGED root_vars
      /\ UNCHANGED <<cur, r_buf>>
  BY DEF Unpack, graph_vars, search_vars, root_vars
<1>3. PICK n \in Nat : n = Len(V) /\ n >= 1 /\ DOMAIN V = 1 .. n
  BY <1>1, ActIs, Zenon
<1>4. Act \in Activation /\ Act.m \in Mod /\ Act.x \in Var /\ Act = V[n]
  BY <1>1, <1>3, ActIs DEF Act
<1>5. ValueInv /\ Activated(n)
  BY <1>3 DEF RunInv, ValueInv
<1>6. val' = IF RetBuf(Act.m) THEN [val EXCEPT ![Act.x] = Act.m] ELSE val
  BY DEF Unpack
<1>7. val' \in [Var -> Mod \cup {None}] /\ \A x \in Var : val[x] # None => val'[x] # None
  <2>1. Act.m # None
    BY <1>1, <1>4, ModIs
  <2>2. QED
    BY <1>1, <1>4, <1>6, <2>1
<1>8. val'[Act.x] # None
  <2>1. CASE RetBuf(Act.m)
    <3>1. Act.m # None
      BY <1>1, <1>4, ModIs
    <3>2. QED
      BY <1>1, <1>4, <1>6, <2>1, <3>1
  <2>2. CASE ~RetBuf(Act.m)
    <3>1. Act.m \in called
      BY <1>1, <1>5 DEF ValueInv
    <3>2. sp[Act.x].chain # None /\ sp[Act.x].chain.m = Act.m
      BY <1>4, <1>5 DEF Activated
    <3>3. Act.x \in Returned(Act.m)
      BY <1>4, <3>2 DEF RunInv, ChainInv
    <3>4. val[Act.x] # None
      BY <1>5, <2>2, <3>1, <3>3 DEF ValueInv
    <3>5. QED
      BY <1>4, <1>7, <3>4
  <2>3. QED
    BY <2>1, <2>2
<1>9. Answers'
  BY <1>1, <1>2, <1>7, AnswersGrow
<1>10. /\ V' \in Seq(Activation) /\ Len(V') = n - 1 /\ DOMAIN V' = 1 .. n - 1
       /\ \A i \in 1 .. n - 1 : V'[i] = V[i]
  <2>1. V' = SubSeq(V, 1, n - 1)
    BY <1>3 DEF Unpack
  <2>2. QED
    BY <1>1, <1>3, <2>1
<1>11. pc' = IF n > 1 THEN "args" ELSE IF Len(X) > 1 THEN "check" ELSE "values"
  BY <1>3 DEF Unpack
<1>12. Shortens(V', V)
  BY <1>3, <1>10 DEF Shortens
<1>13. n = 1 <=> V' = <<>>
  BY <1>3, <1>10
<1>14. Len(X) \in Nat /\ Len(X) >= 1
  BY DEF RunInv, StackInv, Stacked
<1>x. \/ n > 1 /\ pc' = "args" /\ V' # <<>>
      \/ n = 1 /\ Len(X) > 1 /\ pc' = "check" /\ V' = <<>>
      \/ n = 1 /\ Len(X) = 1 /\ pc' = "values" /\ V' = <<>>
  <2>1. (n > 1 /\ n # 1) \/ (n = 1 /\ ~(n > 1))
    BY <1>3
  <2>2. PICK l \in Nat : l = Len(X) /\ l >= 1
    BY <1>14
  <2>3. l > 1 \/ (l = 1 /\ ~(l > 1))
    BY <2>2
  <2>4. QED
    BY <1>11, <1>13, <2>1, <2>2, <2>3, Zenon
<1>15. Where'
  <2>1. Len(X') = Len(X)
    BY <1>2, Zenon
  <2>2. QED
    BY <1>x, <2>1 DEF Where, Searching, Passing
<1>16. ASSUME NEW i \in 1 .. n - 1 PROVE Activated(i)'
  <2>1. Activated(i) /\ V'[i] = V[i] /\ i < n
    <3>1. i \in 1 .. n /\ i < n
      BY <1>3, SMTT(30)
    <3>2. QED
      BY <1>3, <1>5, <1>10, <3>1 DEF ValueInv
  <2>2. V[i].m \in Mod /\ V[i].m \notin called
    BY <1>1, <1>3, <2>1, ActIs, SMTT(30) DEF Activated
  <2>3. ASSUME NEW y \in Var, Argued(i, y) PROVE Argued(i, y)'
    <3>1. CASE val[y] # None
      BY <1>7, <3>1 DEF Argued
    <3>2. CASE y = V[i + 1].x
      <4>1. CASE i + 1 = n
        BY <1>4, <1>8, <3>2, <4>1 DEF Argued
      <4>2. CASE i + 1 # n
        <5>1. i + 1 \in 1 .. n - 1 /\ i < n - 1
          BY <4>2
        <5>2. QED
          BY <1>10, <3>2, <5>1 DEF Argued
      <4>3. QED
        BY <4>1, <4>2
    <3>3. QED
      BY <1>1, <2>3, <3>1, <3>2 DEF Argued
  <2>4. \A e \in DOMAIN G.mod[V[i].m].params : \A k \in DOMAIN G.mod[V[i].m].params[e] :
           G.mod[V[i].m].params[e][k] \in Var
    <3>1. G.mod[V[i].m].params \in Seq(Seq(Var))
      BY <1>1, <2>2, ModIs
    <3>2. QED
      BY <3>1, SMTT(30)
  <2>5. QED
    BY <1>2, <2>1, <2>2, <2>3, <2>4 DEF Activated
<1>17. ValueInv'
  <2>1. \A i \in DOMAIN V' : Activated(i)'
    BY <1>10, <1>16
  <2>2. \A i \in DOMAIN V : V[i] = Act \/ (i \in DOMAIN V' /\ V'[i] = V[i])
    BY <1>3, <1>4, <1>10
  <2>3. \A m \in Mod : mp[m].value = TRUE => m \in called \/ \E i \in DOMAIN V' : V'[i].m = m
    <3>1. Act.m \in called
      BY <1>1, <1>5 DEF ValueInv
    <3>2. QED
      BY <1>5, <2>2, <3>1 DEF ValueInv
  <2>4. \A x \in Var : sp[x].value = TRUE => val'[x] # None \/ \E i \in DOMAIN V' : V'[i].x = x
    BY <1>5, <1>7, <1>8, <2>2 DEF ValueInv
  <2>5. \A m \in called : mp[m].value = TRUE
    BY <1>5 DEF ValueInv
  <2>6. \A m \in called : ~RetBuf(m) => \A x \in Returned(m) : val'[x] # None
    <3>1. \A x : val[x] # None => val'[x] # None
      <4>1. CASE RetBuf(Act.m)
        <5>1. ASSUME NEW x, val[x] # None PROVE val'[x] # None
          <6>1. CASE x = Act.x
            BY <1>8, <6>1
          <6>2. CASE x # Act.x /\ x \in Var
            BY <1>7, <5>1, <6>2
          <6>3. CASE x \notin Var
            BY <1>1, <1>4, <1>6, <4>1, <5>1, <6>3
          <6>4. QED
            BY <6>1, <6>2, <6>3
        <5>2. QED
          BY <5>1
      <4>2. CASE ~RetBuf(Act.m)
        BY <1>6, <4>2
      <4>3. QED
        BY <4>1, <4>2
    <3>2. QED
      BY <1>5, <3>1 DEF ValueInv
  <2>7. /\ Var' = Var /\ Mod' = Mod /\ (\A k : Returned(k)' = Returned(k))
        /\ (\A k : RetBuf(k)' = RetBuf(k))
    BY <1>2 DEF Var, Mod, Returned, RetBuf
  <2>8. pc' # "value" /\ pc' # "unpack" /\ pc' # "yield"
    BY <1>11
  <2>9. QED
    BY <1>2, <2>1, <2>3, <2>4, <2>5, <2>6, <2>7, <2>8 DEF ValueInv
<1>18. /\ InRound /\ ~InGivens /\ (InValues' => InValues)
  <2>1. Len(X') = Len(X)
    BY <1>2
  <2>2. QED
    BY <1>1, <1>x, <2>1 DEF InRound, InGivens, InValues
<1>19. ASSUME Len(X) > 1
       PROVE  /\ pc \in {"value", "args", "unpack", "yield"}
              /\ pc' \in {"value", "args", "unpack", "yield", "shadow", "check"}
              /\ pc' # "value"
              /\ pc' = "check" => /\ AtShadow(Top, G.shadow[ShadowOf(Top)].x)
                                  /\ G.shadow[ShadowOf(Top)].x \in Var
                                  /\ sp[G.shadow[ShadowOf(Top)].x].value = TRUE
  <2>1. pc' \in {"args", "check"} /\ (pc' = "check" => n = 1)
    BY <1>3, <1>11, <1>19
  <2>2. AtShadow(Top, V[1].x)
    BY <1>1, <1>19 DEF RunInv, StackInv, TopInv
  <2>3. G.shadow[ShadowOf(Top)].x = V[1].x
    BY <2>2 DEF AtShadow
  <2>4. n = 1 => V[1].x \in Var /\ sp[V[1].x].value = TRUE
    BY <1>4, <1>5 DEF Activated
  <2>5. QED
    BY <1>1, <2>1, <2>2, <2>3, <2>4
<1>20. called' \subseteq Mod /\ arg' \in [x : Var \cup {None}, beta : Int, cost : Int]
       /\ pc' # "collect"
  BY <1>1, <1>2, <1>11
<1>21. RunInv'
  BY <1>2, <1>7, <1>10, <1>12, <1>15, <1>17, <1>18, <1>19, <1>20, ComputeRuns
<1>22. QED
  BY <1>9, <1>21

-----------------------------------------------------------------------------
(* Steps of the driver.                                                    *)

LEMMA ReturnedIs ==
    ASSUME G \in Graphs, NEW m \in Mod
    PROVE  Returned(m) \subseteq Var
<1> DEFINE R == [over : Seq(Var), map : {"ident", "space", "user"}]
<1>1. PICK rs \in Seq(R) : rs = G.mod[m].returns
  BY SolverAssumption DEF IsGraph, Var, Mod
<1> HIDE DEF R
<1>2. ASSUME NEW r \in Range(rs) PROVE r.over \in Seq(Var)
  <2>1. r \in R
    BY DEF Range
  <2>2. QED
    BY <2>1 DEF R
<1>3. \A r \in Range(rs) : Range(r.over) \subseteq Var
  <2>1. ASSUME NEW r \in Range(rs), NEW x \in Range(r.over) PROVE x \in Var
    <3>1. PICK s \in Seq(Var) : s = r.over
      BY <1>2
    <3>2. x \in Range(s)
      BY <3>1
    <3>3. QED
      BY <3>2 DEF Range
  <2>2. QED
    BY <2>1
<1>4. QED
  BY <1>1, <1>3 DEF Returned

(* fhk_continue after a model call.                                        *)
LEMMA Called ==
    ASSUME RunInv, Answers, Continue, status.code = "MODCALL" PROVE RunInv' /\ Answers'
<1>1. /\ G \in Graphs /\ pc = "yield" /\ V # <<>>
      /\ arg \in [x : Var \cup {None}, beta : Int, cost : Int] /\ V \in Seq(Activation)
      /\ val \in [Var -> Mod \cup {None}] /\ called \subseteq Mod /\ sp \in [Var -> VarState]
  BY DEF Continue, Suspended, RunInv, TypeInv, Where
<1>2. /\ G' = G /\ UNCHANGED <<X, sp, mp, sw, have, arg, V>> /\ UNCHANGED root_vars
      /\ UNCHANGED <<cur, r_buf>>
  BY DEF Continue, graph_vars, search_vars, root_vars
<1>3. PICK n \in Nat : n = Len(V) /\ n >= 1 /\ DOMAIN V = 1 .. n
  BY <1>1, ActIs, Zenon
<1>4. Act \in Activation /\ Act.m \in Mod /\ Act.x \in Var /\ Act = V[n]
      /\ \A i \in 1 .. n : V[i].m \in Mod
  BY <1>1, <1>3, ActIs DEF Act
<1>5. ValueInv
  BY DEF RunInv
<1>6. status.of = Act.m
  BY <1>1, <1>5 DEF ValueInv
<1>7. PICK m \in Mod : m = Act.m
  BY <1>4
<1>8. /\ called' = called \cup {m} /\ pc' = "unpack"
      /\ val' = [x \in Var |-> IF ~RetBuf(m) /\ x \in Returned(m) THEN m ELSE val[x]]
  BY <1>6, <1>7 DEF Continue
<1>9. m # None /\ Returned(m) \subseteq Var
  BY <1>1, ModIs, ReturnedIs
<1>10. /\ val' \in [Var -> Mod \cup {None}] /\ (\A x \in Var : val[x] # None => val'[x] # None)
       /\ ~RetBuf(m) => \A x \in Returned(m) : val'[x] # None
  BY <1>1, <1>8, <1>9
<1>11. Answers'
  BY <1>1, <1>2, <1>10, AnswersGrow
<1>12. called' \subseteq Mod
  BY <1>1, <1>8, Zenon
<1>13. ASSUME NEW i \in 1 .. n PROVE Activated(i)'
  <2>1. Activated(i) /\ V[i].m \in Mod
    BY <1>3, <1>4, <1>5 DEF ValueInv
  <2>2. V[i].m \notin called
    BY <1>1, <2>1 DEF Activated
  <2>3. i < n => V[i].m # m
    BY <1>1, <1>3, <1>7, Descends
  <2>4. (i < Len(V') \/ pc' # "unpack") => V'[i].m \notin called'
    BY <1>2, <1>3, <1>8, <2>2, <2>3
  <2>5. ASSUME NEW y \in Var, Argued(i, y) PROVE Argued(i, y)'
    BY <1>1, <1>2, <1>10, <2>5 DEF Argued
  <2>6. \A e \in DOMAIN G.mod[V[i].m].params : \A k \in DOMAIN G.mod[V[i].m].params[e] :
           G.mod[V[i].m].params[e][k] \in Var
    <3>1. G.mod[V[i].m].params \in Seq(Seq(Var))
      BY <1>1, <2>1, ModIs
    <3>2. QED
      BY <3>1, SMTT(30)
  <2>7. QED
    BY <1>2, <2>1, <2>4, <2>5, <2>6 DEF Activated
<1>14. ValueInv'
  <2>1. \A i \in DOMAIN V' : Activated(i)'
    BY <1>2, <1>3, <1>13
  <2>2. Act' = Act /\ Act'.m \in called'
    BY <1>2, <1>7, <1>8 DEF Act
  <2>3. \A k \in Mod : mp[k].value = TRUE => k \in called' \/ \E i \in DOMAIN V : V[i].m = k
    BY <1>5, <1>8 DEF ValueInv
  <2>4. \A k \in called' : mp[k].value = TRUE
    <3>1. mp[m].value = TRUE
      BY <1>3, <1>4, <1>5, <1>7 DEF ValueInv, Activated
    <3>2. QED
      BY <1>5, <1>8, <3>1 DEF ValueInv
  <2>5. \A k \in called' : ~RetBuf(k) => \A x \in Returned(k) : val'[x] # None
    <3>1. ASSUME NEW k \in called, ~RetBuf(k), NEW x \in Returned(k) PROVE val'[x] # None
      <4>1. x \in Var
        BY <1>1, ReturnedIs
      <4>2. val[x] # None
        BY <1>5, <3>1 DEF ValueInv
      <4>3. QED
        BY <1>10, <4>1, <4>2
    <3>2. QED
      BY <1>8, <1>10, <3>1
  <2>6. \A x \in Var : sp[x].value = TRUE => val'[x] # None \/ \E i \in DOMAIN V : V[i].x = x
    BY <1>5, <1>10 DEF ValueInv
  <2>7. /\ Var' = Var /\ Mod' = Mod /\ (\A k : Returned(k)' = Returned(k))
        /\ (\A k : RetBuf(k)' = RetBuf(k))
    BY <1>2 DEF Var, Mod, Returned, RetBuf
  <2>8. QED
    BY <1>2, <1>8, <2>1, <2>2, <2>3, <2>4, <2>5, <2>6, <2>7 DEF ValueInv
<1>15. Where'
  BY <1>1, <1>2, <1>8 DEF Where, Searching, Passing
<1>16. Shortens(V', V)
  BY <1>2 DEF Shortens
<1>17. /\ InRound /\ ~InGivens /\ (InValues' => InValues)
  <2>1. Len(X') = Len(X)
    BY <1>2
  <2>2. QED
    BY <1>1, <1>8, <2>1 DEF InRound, InGivens, InValues
<1>18. /\ pc \in {"value", "args", "unpack", "yield"}
       /\ pc' \in {"value", "args", "unpack", "yield", "shadow", "check"}
       /\ pc' # "check" /\ pc' # "value" /\ pc' # "collect"
  BY <1>1, <1>8
<1>19. V' \in Seq(Activation) /\ arg' \in [x : Var \cup {None}, beta : Int, cost : Int]
  BY <1>1, <1>2
<1>20. RunInv'
  BY <1>2, <1>10, <1>12, <1>14, <1>15, <1>16, <1>17, <1>18, <1>19, ComputeRuns
<1>21. QED
  BY <1>11, <1>20

LEMMA DoContinue ==
    ASSUME RunInv, Answers, Continue PROVE Answers' /\ (pc' # "error" => RunInv')
<1>1. /\ G \in Graphs /\ pc = "yield"
      /\ arg \in [x : Var \cup {None}, beta : Int, cost : Int] /\ V \in Seq(Activation)
      /\ val \in [Var -> Mod \cup {None}] /\ called \subseteq Mod
      /\ \/ status.code = "OK" /\ Len(X) = 1 /\ V = <<>>
         \/ status.code = "MODCALL" /\ V # <<>>
         \/ status.code = "VREF"
  BY DEF Continue, Suspended, RunInv, TypeInv, Where
<1>2. /\ G' = G /\ UNCHANGED <<X, sp, mp, sw, have, arg, V>> /\ UNCHANGED root_vars
      /\ UNCHANGED <<cur, r_buf>>
  BY DEF Continue, graph_vars, search_vars, root_vars
<1>3. V' \in Seq(Activation) /\ arg' \in [x : Var \cup {None}, beta : Int, cost : Int]
      /\ Len(X') = Len(X) /\ Len(X) \in Nat /\ Len(X) >= 1
  BY <1>1, <1>2 DEF RunInv, StackInv, Stacked
<1>4. Shortens(V', V)
  BY <1>2 DEF Shortens
<1>5. CASE status.code = "OK"
  <2>1. pc' = "start" /\ val' = val /\ called' = called /\ Len(X) = 1 /\ V = <<>>
    BY <1>1, <1>5 DEF Continue
  <2>2. Answers'
    BY <1>2, <2>1, AnswersKept
  <2>3. ValueInv'
    <3>1. pc \notin {"value", "unpack"} /\ pc' # "unpack" /\ pc' # "value" /\ pc' # "yield"
      BY <1>1, <2>1
    <3>2. QED
      BY <1>2, <2>1, <3>1, ValuesKept
  <2>4. Where'
    BY <1>2, <1>3, <2>1 DEF Where, Searching, Passing
  <2>5. ~InRound' /\ ~InValues' /\ pc' # "collect" /\ ~(Len(X) > 1)
    BY <2>1 DEF InRound, InValues
  <2>6. val' \in [Var -> Mod \cup {None}] /\ called' \subseteq Mod
    BY <1>1, <2>1
  <2>7. RunInv'
    BY <1>2, <1>3, <1>4, <2>3, <2>4, <2>5, <2>6, ComputeRuns
  <2>8. QED
    BY <2>2, <2>7
<1>6. CASE status.code = "MODCALL"
  BY <1>6, Called
<1>7. CASE status.code = "VREF"
  <2>1. /\ val' = val /\ called' = called
        /\ pc' # "error" =>
              pc' = IF V # <<>> THEN "args" ELSE IF Len(X) > 1 THEN "shadow" ELSE "givens"
    BY <1>7 DEF Continue, Error
  <2>2. Answers'
    BY <1>2, <2>1, AnswersKept
  <2>3. ASSUME pc' # "error" PROVE RunInv'
    <3>1. \/ V # <<>> /\ pc' = "args"
          \/ V = <<>> /\ Len(X) > 1 /\ Len(X) # 1 /\ pc' = "shadow"
          \/ V = <<>> /\ Len(X) = 1 /\ ~(Len(X) > 1) /\ pc' = "givens"
      <4>1. PICK l \in Nat : l = Len(X) /\ l >= 1
        BY <1>3
      <4>2. (l > 1 /\ l # 1) \/ (l = 1 /\ ~(l > 1))
        BY <4>1
      <4>3. QED
        BY <2>1, <2>3, <4>1, <4>2, Zenon
    <3>2. ValueInv'
      <4>1. pc \notin {"value", "unpack"} /\ pc' # "unpack" /\ pc' # "value" /\ pc' # "yield"
        BY <1>1, <3>1
      <4>2. QED
        BY <1>2, <2>1, <4>1, ValuesKept
    <3>3. Where'
      BY <1>2, <1>3, <3>1 DEF Where, Searching, Passing
    <3>4. /\ InRound /\ (InGivens => InGivens') /\ (InValues' => InValues) /\ pc' # "collect"
      BY <1>1, <1>2, <1>3, <1>7, <3>1 DEF InRound, InGivens, InValues
    <3>5. Len(X) > 1 => pc' \in {"args", "shadow"}
      BY <3>1
    <3>6. Len(X) > 1 =>
             /\ pc \in {"value", "args", "unpack", "yield"}
             /\ pc' \in {"value", "args", "unpack", "yield", "shadow", "check"}
             /\ pc' # "value" /\ pc' # "check"
      BY <1>1, <3>5
    <3>7. val' \in [Var -> Mod \cup {None}] /\ called' \subseteq Mod
      BY <1>1, <2>1
    <3>8. QED
      BY <1>2, <1>3, <1>4, <3>2, <3>3, <3>4, <3>6, <3>7, ComputeRuns
  <2>4. QED
    BY <2>2, <2>3
<1>8. QED
  BY <1>1, <1>5, <1>6, <1>7

(* What remains to be shown of a step of the driver or of S_solve.         *)
LEMMA PassRuns ==
    ASSUME RunInv, G' = G, UNCHANGED <<X, sp, mp, sw, V, val, called>>,
           have \subseteq have', have' \subseteq Given, cur' \in [num : Nat, i : Nat, j : Nat],
           arg' \in [x : Var \cup {None}, beta : Int, cost : Int],
           pc \in Passing \cup {"yield"}, Where', RootInv',
           pc' # "unpack", pc' = "value" => V = <<>>,
           pc' = "yield" /\ status'.code = "MODCALL" => pc = "yield" /\ status' = status,
           Len(X) > 1 => pc = "yield" /\ pc' = "yield"
    PROVE  RunInv'
<1>1. RankInv /\ ChainInv /\ ValueInv
  BY DEF RunInv
<1>2. TypeInv'
  <2>1. Var' = Var /\ Mod' = Mod /\ Link' = Link /\ VarState' = VarState
        /\ Activation' = Activation
    BY DEF Var, Mod, Link, VarState, Activation
  <2>2. QED
    BY <2>1 DEF RunInv, TypeInv
<1>3. StackInv'
  <2>1. ASSUME Len(X) > 1, V' # <<>> PROVE AtShadow(Top, V'[1].x)
    BY <2>1 DEF RunInv, StackInv, TopInv
  <2>2. QED
    BY <2>1, StackWaits
<1>4. ChainInv'
  <2>1. /\ Var' = Var /\ Mod' = Mod /\ (\A k : Returned(k)' = Returned(k))
        /\ \A k, y : IsParam(k, y)' = IsParam(k, y)
    BY DEF Var, Mod, Returned, IsParam
  <2>2. QED
    BY <1>1, <2>1 DEF ChainInv
<1>5. RankInv'
  BY <1>1, RankKept
<1>6. ValueInv'
  <2>1. pc \notin {"value", "unpack"}
    BY DEF Passing
  <2>2. pc' = "yield" /\ status'.code = "MODCALL" =>
           /\ status'.of = Act.m /\ Act.edge > Len(G.mod[Act.m].params)
           /\ Range(G.mod[Act.m].given) \subseteq have'
    BY <1>1 DEF ValueInv
  <2>3. QED
    BY <2>1, <2>2, ValuesKept
<1>7. QED
  BY <1>2, <1>3, <1>4, <1>5, <1>6 DEF RunInv

LEMMA YieldKept ==
    ASSUME RunInv, pc = "yield", pc' = pc, status' = status, G' = G, X' = X, V' = V
    PROVE  Where'
  BY DEF RunInv, Where, Searching, Passing

LEMMA DoSetValue ==
    ASSUME RunInv, Answers, NEW y \in G.given, SetValue(y)
    PROVE  Answers' /\ (pc' # "error" => RunInv')
<1>1. /\ G \in Graphs /\ pc = "yield" /\ sp \in [Var -> VarState] /\ have \subseteq Given
      /\ arg \in [x : Var \cup {None}, beta : Int, cost : Int] /\ RootInv
      /\ cur \in [num : Nat, i : Nat, j : Nat]
  BY DEF SetValue, Suspended, RunInv, TypeInv
<1>2. /\ G' = G /\ UNCHANGED <<X, sp, mp, sw, arg, V, val, called>> /\ UNCHANGED root_vars
      /\ UNCHANGED <<cur, r_buf>>
  BY DEF SetValue, graph_vars, search_vars, value_vars, root_vars
<1>3. have \subseteq have' /\ have' \subseteq Given
  <2>1. y \in Given
    BY <1>1, VarIs
  <2>2. QED
    BY <1>1, <2>1 DEF SetValue
<1>4. Answers'
  BY <1>1, <1>2, <1>3, AnswersGrow
<1>5. ASSUME pc' # "error" PROVE RunInv'
  <2>1. pc' = pc /\ status' = status
    BY <1>5 DEF SetValue, Error
  <2>2. Where'
    BY <1>1, <1>2, <2>1, YieldKept
  <2>3. pc' # "collect"
    BY <1>1, <2>1
  <2>4. RootInv'
    <3>1. /\ sp' \in [Var -> VarState] /\ (InRound' => InRound)
          /\ (InRound' /\ InGivens => InGivens') /\ (InValues' => InValues)
          /\ \A x \in Var : sp[x].value = TRUE => sp'[x].value = TRUE
      BY <1>1, <1>2, <2>1 DEF InRound, InGivens, InValues
    <3>2. QED
      BY <1>1, <1>2, <1>3, <2>3, <3>1, RootsKept
  <2>5. /\ pc \in Passing \cup {"yield"} /\ pc' # "unpack" /\ pc' # "value"
        /\ (pc' = "yield" /\ status'.code = "MODCALL" => pc = "yield" /\ status' = status)
        /\ (Len(X) > 1 => pc = "yield" /\ pc' = "yield")
    BY <1>1, <2>1
  <2>6. /\ cur' \in [num : Nat, i : Nat, j : Nat]
        /\ arg' \in [x : Var \cup {None}, beta : Int, cost : Int]
    BY <1>1, <1>2
  <2>7. QED
    BY <1>2, <1>3, <2>2, <2>4, <2>5, <2>6, PassRuns
<1>6. QED
  BY <1>4, <1>5

LEMMA DoSetRoot ==
    ASSUME RunInv, Answers, NEW r \in G.roots, SetRoot(r) PROVE RunInv' /\ Answers'
<1>1. /\ G \in Graphs /\ pc = "yield" /\ sp \in [Var -> VarState] /\ have \subseteq Given
      /\ arg \in [x : Var \cup {None}, beta : Int, cost : Int] /\ RootInv
      /\ cur \in [num : Nat, i : Nat, j : Nat]
  BY DEF SetRoot, Suspended, RunInv, TypeInv
<1>2. /\ G' = G /\ UNCHANGED <<X, sp, mp, sw, arg, V, val, called, have, pc, status, cur, answered>>
      /\ asked' = Append(asked, r) /\ r_buf' = Append(r_buf, r)
  BY DEF SetRoot, graph_vars, search_vars, value_vars
<1>3. /\ r_buf \in Seq(G.roots) /\ asked \in Seq(G.roots) /\ answered \in Seq(G.roots)
      /\ asked = answered \o r_buf
  BY DEF Answers
<1>4. Answers'
  <2>1. Append(r_buf, r) \in Seq(G.roots) /\ Append(asked, r) \in Seq(G.roots)
    BY <1>3
  <2>2. Append(answered \o r_buf, r) = answered \o Append(r_buf, r)
    <3>1. PICK R : R = G.roots
      OBVIOUS
    <3>2. r_buf \in Seq(R) /\ answered \in Seq(R) /\ r \in R
      BY <1>3, <3>1
    <3>3. QED
      BY <3>2, SMTT(30)
  <2>3. r_buf' \in Seq(G.roots) /\ asked' \in Seq(G.roots) /\ asked' = answered \o r_buf'
    BY <1>2, <1>3, <2>1, <2>2
  <2>4. QED
    BY <1>2, <1>3, <2>3 DEF Answers
<1>5. Where'
  BY <1>1, <1>2, YieldKept
<1>6. RootInv'
  <2>1. /\ Len(r_buf) \in Nat /\ Len(r_buf') = Len(r_buf) + 1
        /\ \A k \in 1 .. Len(r_buf) : r_buf'[k] = r_buf[k]
    BY <1>2, <1>3
  <2>2. (InRound' => InRound) /\ InGivens' = InGivens /\ InValues' = InValues
        /\ (\A k, l : Before(k, l)' = Before(k, l)) /\ \A x : HasValue(x)' = HasValue(x)
    BY <1>2 DEF InRound, InGivens, InValues, Before, HasValue
  <2>3. ASSUME InRound
        PROVE  /\ cur.num <= Len(r_buf') /\ cur.i >= 1 /\ cur.j >= 1
               /\ cur.i <= cur.num => cur.j <= Len(r_buf'[cur.i])
               /\ \A k \in 1 .. cur.num : r_buf'[k] = r_buf[k]
    <3>1. /\ cur.num <= Len(r_buf) /\ cur.i >= 1 /\ cur.j >= 1
          /\ cur.i <= cur.num => cur.j <= Len(r_buf[cur.i])
      BY <1>1, <2>3 DEF RootInv
    <3>2. cur.num \in Nat /\ cur.i \in Nat
      BY <1>1
    <3>3. \A k \in 1 .. cur.num : k \in 1 .. Len(r_buf)
      BY <2>1, <3>1, <3>2
    <3>4. \A k \in 1 .. cur.num : r_buf'[k] = r_buf[k]
      BY <2>1, <3>3
    <3>5. cur.i <= cur.num => cur.i \in 1 .. cur.num
      BY <3>1, <3>2
    <3>6. QED
      BY <2>1, <3>1, <3>2, <3>4, <3>5
  <2>4. ASSUME InRound, NEW k \in 1 .. cur.num, NEW l \in DOMAIN r_buf[k]
        PROVE  /\ r_buf[k][l] \in Given /\ (InGivens => Before(k, l)) => r_buf[k][l] \in have
               /\ InValues /\ Before(k, l) => HasValue(r_buf[k][l])
    BY <1>1, <2>4 DEF RootInv
  <2>5. ASSUME InRound', NEW k \in 1 .. cur.num, NEW l \in DOMAIN r_buf'[k]
        PROVE  /\ r_buf'[k][l] \in Given /\ (InGivens' => Before(k, l)') => r_buf'[k][l] \in have'
               /\ InValues' /\ Before(k, l)' => HasValue(r_buf[k][l])'
    <3>1. PICK y : y = r_buf'[k][l] /\ y = r_buf[k][l]
      BY <2>2, <2>3, <2>5
    <3>2. l \in DOMAIN r_buf[k]
      BY <2>2, <2>3, <2>5
    <3>3. /\ y \in Given /\ (InGivens => Before(k, l)) => y \in have
          /\ InValues /\ Before(k, l) => HasValue(y)
      BY <2>2, <2>4, <2>5, <3>1, <3>2
    <3>4. HasValue(r_buf[k][l])' = HasValue(y)'
      BY <3>1 DEF HasValue
    <3>5. QED
      BY <1>2, <2>2, <3>1, <3>3, <3>4
  <2>6. pc' # "collect"
    BY <1>1, <1>2
  <2>7. QED
    BY <1>2, <2>2, <2>3, <2>5, <2>6 DEF RootInv
<1>7. /\ pc \in Passing \cup {"yield"} /\ pc' # "unpack" /\ pc' # "value"
      /\ (pc' = "yield" /\ status'.code = "MODCALL" => pc = "yield" /\ status' = status)
      /\ (Len(X) > 1 => pc = "yield" /\ pc' = "yield")
      /\ cur' \in [num : Nat, i : Nat, j : Nat] /\ have \subseteq have' /\ have' \subseteq Given
      /\ arg' \in [x : Var \cup {None}, beta : Int, cost : Int]
  BY <1>1, <1>2
<1>8. RunInv'
  BY <1>2, <1>5, <1>6, <1>7, PassRuns
<1>9. QED
  BY <1>4, <1>8

-----------------------------------------------------------------------------
(* Steps of S_solve.                                                       *)

LEMMA RoundIs ==
    ASSUME RunInv, Answers, pc \in {"givens", "chains", "values", "collect"}
    PROVE  /\ G \in Graphs /\ Len(X) = 1 /\ ~(Len(X) > 1) /\ V = <<>> /\ InRound
           /\ cur \in [num : Nat, i : Nat, j : Nat] /\ cur.num \in Nat /\ cur.i \in Nat /\ cur.j \in Nat
           /\ Len(r_buf) \in Nat /\ cur.num <= Len(r_buf) /\ cur.i >= 1 /\ cur.j >= 1
           /\ \A k \in 1 .. cur.num :
                 /\ r_buf[k] \in G.roots /\ Len(r_buf[k]) \in Nat /\ Len(r_buf[k]) >= 1
                 /\ DOMAIN r_buf[k] = 1 .. Len(r_buf[k])
                 /\ \A l \in DOMAIN r_buf[k] : r_buf[k][l] \in Var \cup Given
           /\ cur.i <= cur.num => /\ cur.i \in 1 .. cur.num /\ cur.j \in DOMAIN Root
                                  /\ Root[cur.j] \in Var \cup Given
           /\ \A k \in 1 .. cur.num : \A l \in DOMAIN r_buf[k] :
                 /\ r_buf[k][l] \in Given /\ (InGivens => Before(k, l)) => r_buf[k][l] \in have
                 /\ InValues /\ Before(k, l) => HasValue(r_buf[k][l])
           /\ arg \in [x : Var \cup {None}, beta : Int, cost : Int] /\ have \subseteq Given
           /\ sp \in [Var -> VarState] /\ RootInv
<1>1. /\ G \in Graphs /\ cur \in [num : Nat, i : Nat, j : Nat] /\ RootInv /\ sp \in [Var -> VarState]
      /\ arg \in [x : Var \cup {None}, beta : Int, cost : Int] /\ have \subseteq Given
  BY DEF RunInv, TypeInv
<1>2. Len(X) = 1 /\ V = <<>> /\ ~(Len(X) > 1)
  <2>1. Len(X) = 1 /\ V = <<>>
    BY DEF RunInv, Where, Passing
  <2>2. ~(1 > 1)
    OBVIOUS
  <2>3. QED
    BY <2>1, <2>2, Zenon
<1>3. InRound
  BY DEF InRound
<1>4. cur.num \in Nat /\ cur.i \in Nat /\ cur.j \in Nat
  BY <1>1
<1>5. r_buf \in Seq(G.roots) /\ Len(r_buf) \in Nat
  BY DEF Answers
<1>6. /\ cur.num <= Len(r_buf) /\ cur.i >= 1 /\ cur.j >= 1
      /\ cur.i <= cur.num => cur.j <= Len(r_buf[cur.i])
      /\ \A k \in 1 .. cur.num : \A l \in DOMAIN r_buf[k] :
            /\ r_buf[k][l] \in Given /\ (InGivens => Before(k, l)) => r_buf[k][l] \in have
            /\ InValues /\ Before(k, l) => HasValue(r_buf[k][l])
  BY <1>1, <1>3 DEF RootInv
<1>7. ASSUME NEW k \in 1 .. cur.num
      PROVE  /\ r_buf[k] \in G.roots /\ Len(r_buf[k]) \in Nat /\ Len(r_buf[k]) >= 1
             /\ DOMAIN r_buf[k] = 1 .. Len(r_buf[k])
             /\ \A l \in DOMAIN r_buf[k] : r_buf[k][l] \in Var \cup Given
  <2>1. k \in 1 .. Len(r_buf)
    BY <1>4, <1>5, <1>6
  <2>2. r_buf[k] \in G.roots
    BY <1>5, <2>1
  <2>3. QED
    BY <1>1, <2>2, RootIs
<1>8. ASSUME cur.i <= cur.num
      PROVE  cur.i \in 1 .. cur.num /\ cur.j \in DOMAIN Root /\ Root[cur.j] \in Var \cup Given
  <2>1. cur.i \in 1 .. cur.num
    BY <1>4, <1>6, <1>8
  <2>2. Len(Root) \in Nat /\ DOMAIN Root = 1 .. Len(Root) /\ cur.j <= Len(Root)
    BY <1>6, <1>7, <1>8, <2>1 DEF Root
  <2>3. cur.j \in DOMAIN Root
    BY <1>4, <1>6, <2>2
  <2>4. QED
    BY <1>7, <2>1, <2>3 DEF Root
<1>9. QED
  BY <1>1, <1>2, <1>3, <1>4, <1>5, <1>6, <1>7, <1>8

LEMMA NextIs ==
    ASSUME RunInv, Answers, pc \in {"givens", "chains", "values"}, ~PassOver, cur' = NextInst
    PROVE  /\ cur' \in [num : Nat, i : Nat, j : Nat] /\ cur'.num = cur.num
           /\ cur'.i >= 1 /\ cur'.j >= 1
           /\ cur'.i <= cur.num => cur'.j <= Len(r_buf[cur'.i])
           /\ \A k \in 1 .. cur.num : \A l \in DOMAIN r_buf[k] :
                 Before(k, l)' => Before(k, l) \/ (k = cur.i /\ l = cur.j)
<1>1. /\ cur \in [num : Nat, i : Nat, j : Nat] /\ cur.num \in Nat /\ cur.i \in Nat /\ cur.j \in Nat
      /\ cur.i >= 1 /\ cur.j >= 1
      /\ \A k \in 1 .. cur.num : /\ Len(r_buf[k]) \in Nat /\ Len(r_buf[k]) >= 1
                                 /\ DOMAIN r_buf[k] = 1 .. Len(r_buf[k])
  BY RoundIs
<1>2. cur.i \in 1 .. cur.num
  BY <1>1 DEF PassOver
<1>3. PICK n \in Nat : n = Len(Root) /\ n = Len(r_buf[cur.i])
  BY <1>1, <1>2 DEF Root
<1>4. CASE cur.j < n
  <2>1. cur' = [cur EXCEPT !.j = cur.j + 1]
    BY <1>3, <1>4 DEF NextInst
  <2>2. cur.j + 1 \in Nat
    BY <1>1
  <2>3. /\ cur' \in [num : Nat, i : Nat, j : Nat] /\ cur'.num = cur.num /\ cur'.i = cur.i
        /\ cur'.j = cur.j + 1
    BY <1>1, <2>1, <2>2
  <2>4. ASSUME NEW k \in 1 .. cur.num, NEW l \in DOMAIN r_buf[k], Before(k, l)'
        PROVE  Before(k, l) \/ (k = cur.i /\ l = cur.j)
    <3>1. l \in Nat
      BY <1>1
    <3>2. k < cur.i \/ (k = cur.i /\ l < cur.j + 1)
      BY <2>3, <2>4 DEF Before
    <3>3. QED
      BY <1>1, <3>1, <3>2 DEF Before
  <2>5. cur'.i >= 1 /\ cur'.j >= 1 /\ cur'.j <= Len(r_buf[cur'.i])
    <3>1. Len(r_buf[cur'.i]) = n
      BY <1>3, <2>3
    <3>2. QED
      BY <1>1, <1>4, <2>3, <3>1
  <2>6. QED
    BY <2>3, <2>4, <2>5
<1>5. CASE ~(cur.j < n)
  <2>1. cur' = [cur EXCEPT !.i = cur.i + 1, !.j = 1]
    BY <1>3, <1>5 DEF NextInst
  <2>2. cur.i + 1 \in Nat
    BY <1>1
  <2>3. /\ cur' \in [num : Nat, i : Nat, j : Nat] /\ cur'.num = cur.num /\ cur'.i = cur.i + 1
        /\ cur'.j = 1
    <3>1. cur' = [num |-> cur.num, i |-> cur.i + 1, j |-> 1]
      BY <1>1, <2>1
    <3>2. QED
      BY <1>1, <2>2, <3>1
  <2>4. ASSUME NEW k \in 1 .. cur.num, NEW l \in DOMAIN r_buf[k], Before(k, l)'
        PROVE  Before(k, l) \/ (k = cur.i /\ l = cur.j)
    <3>1. PICK len \in Nat : len = Len(r_buf[k]) /\ DOMAIN r_buf[k] = 1 .. len
      BY <1>1
    <3>2. l \in Nat /\ l >= 1 /\ l <= len
      BY <3>1
    <3>3. k < cur.i + 1 \/ (k = cur.i + 1 /\ l < 1)
      BY <2>3, <2>4 DEF Before
    <3>4. k < cur.i \/ k = cur.i
      BY <1>1, <3>2, <3>3
    <3>5. k = cur.i => len = n
      BY <1>3, <3>1
    <3>6. k = cur.i => l < cur.j \/ l = cur.j
      BY <1>1, <1>5, <3>2, <3>5
    <3>7. QED
      BY <3>4, <3>6 DEF Before
  <2>5. cur'.i >= 1 /\ cur'.j >= 1 /\ (cur'.i <= cur.num => cur'.j <= Len(r_buf[cur'.i]))
    <3>1. PICK p \in Nat : p = cur'.i
      BY <1>1, <2>3
    <3>2. p <= cur.num => p \in 1 .. cur.num
      BY <1>1, <2>3, <3>1
    <3>3. p <= cur.num => Len(r_buf[p]) >= 1
      BY <1>1, <3>2
    <3>4. QED
      BY <1>1, <2>3, <3>1, <3>3
  <2>6. QED
    BY <2>3, <2>4, <2>5
<1>6. QED
  BY <1>4, <1>5

(* A pass moves on to the next instance, which it has treated.             *)
LEMMA PassMoves ==
    ASSUME RunInv, Answers, pc \in {"givens", "chains", "values"}, ~PassOver, cur' = NextInst,
           G' = G, UNCHANGED <<pc, status, r_buf, have, sp, X, V>>,
           pc = "givens" => Root[cur.j] \notin Given \ have,
           pc = "values" => HasValue(Root[cur.j])
    PROVE  RootInv'
<1>1. /\ cur'.num = cur.num /\ cur'.i >= 1 /\ cur'.j >= 1
      /\ cur'.i <= cur.num => cur'.j <= Len(r_buf[cur'.i])
      /\ \A k \in 1 .. cur.num : \A l \in DOMAIN r_buf[k] :
            Before(k, l)' => Before(k, l) \/ (k = cur.i /\ l = cur.j)
  BY NextIs
<1>2. /\ cur.num <= Len(r_buf)
      /\ \A k \in 1 .. cur.num : \A l \in DOMAIN r_buf[k] :
            /\ r_buf[k][l] \in Given /\ (InGivens => Before(k, l)) => r_buf[k][l] \in have
            /\ InValues /\ Before(k, l) => HasValue(r_buf[k][l])
  BY RoundIs
<1>3. /\ InGivens = (pc = "givens") /\ InValues = (pc = "values")
      /\ InGivens' = (pc = "givens") /\ InValues' = (pc = "values") /\ pc' # "collect"
  BY DEF InGivens, InValues
<1>4. ASSUME NEW k \in 1 .. cur.num, NEW l \in DOMAIN r_buf[k]
      PROVE  /\ r_buf[k][l] \in Given /\ (InGivens' => Before(k, l)') => r_buf[k][l] \in have
             /\ InValues' /\ Before(k, l)' => HasValue(r_buf[k][l])
  <2>1. k = cur.i /\ l = cur.j => r_buf[k][l] = Root[cur.j]
    BY DEF Root
  <2>2. Before(k, l)' => Before(k, l) \/ (k = cur.i /\ l = cur.j)
    BY <1>1
  <2>3. /\ r_buf[k][l] \in Given /\ (InGivens => Before(k, l)) => r_buf[k][l] \in have
        /\ InValues /\ Before(k, l) => HasValue(r_buf[k][l])
    BY <1>2
  <2>4. QED
    BY <1>3, <2>1, <2>2, <2>3
<1>5. \A y : HasValue(y)' = HasValue(y)
  BY DEF HasValue
<1>6. \A k, l : HasValue(r_buf[k][l])' = HasValue(r_buf[k][l])
  BY DEF HasValue
<1>7. QED
  BY <1>1, <1>2, <1>3, <1>4, <1>6 DEF RootInv

(* A pass is over and the next one starts from the first root.             *)
LEMMA PassEnds ==
    ASSUME RunInv, Answers, pc \in {"givens", "chains"}, PassOver, cur' = First,
           G' = G, UNCHANGED <<r_buf, have, sp, X, V>>, pc' \in {"chains", "values"}
    PROVE  RootInv' /\ cur' \in [num : Nat, i : Nat, j : Nat]
<1>1. /\ cur \in [num : Nat, i : Nat, j : Nat] /\ cur.num \in Nat /\ cur.i \in Nat /\ cur.j \in Nat
      /\ \A k \in 1 .. cur.num : /\ Len(r_buf[k]) \in Nat /\ Len(r_buf[k]) >= 1
                                 /\ DOMAIN r_buf[k] = 1 .. Len(r_buf[k])
      /\ cur.num <= Len(r_buf)
      /\ \A k \in 1 .. cur.num : \A l \in DOMAIN r_buf[k] :
            r_buf[k][l] \in Given /\ (InGivens => Before(k, l)) => r_buf[k][l] \in have
  BY RoundIs
<1>2. /\ cur' \in [num : Nat, i : Nat, j : Nat] /\ cur'.num = cur.num /\ cur'.i = 1 /\ cur'.j = 1
  BY <1>1 DEF First
<1>3. cur.i > cur.num
  BY DEF PassOver
<1>4. ASSUME NEW k \in 1 .. cur.num, NEW l \in DOMAIN r_buf[k]
      PROVE  /\ r_buf[k][l] \in Given => r_buf[k][l] \in have
             /\ ~Before(k, l)'
  <2>1. Before(k, l)
    BY <1>1, <1>3 DEF Before
  <2>2. l \in Nat /\ l >= 1
    BY <1>1
  <2>3. ~(k < 1 \/ (k = 1 /\ l < 1))
    BY <1>1, <2>2
  <2>4. ~Before(k, l)'
    BY <1>2, <2>3 DEF Before
  <2>5. QED
    BY <1>1, <2>1, <2>4
<1>5. 1 <= cur.num => 1 <= Len(r_buf[1])
  <2>1. 1 <= cur.num => 1 \in 1 .. cur.num
    BY <1>1
  <2>2. QED
    BY <1>1, <2>1
<1>6. cur'.i >= 1 /\ cur'.j >= 1 /\ pc' # "collect"
      /\ (cur'.i <= cur'.num => cur'.j <= Len(r_buf[cur'.i]))
  BY <1>2, <1>5
<1>7. QED
  BY <1>1, <1>2, <1>4, <1>6 DEF RootInv

LEMMA DoStart == ASSUME RunInv, Answers, Start PROVE RunInv' /\ Answers'
<1>1. /\ G \in Graphs /\ pc = "start" /\ Len(X) = 1 /\ V = <<>>
      /\ cur \in [num : Nat, i : Nat, j : Nat] /\ have \subseteq Given
      /\ arg \in [x : Var \cup {None}, beta : Int, cost : Int]
  BY DEF Start, RunInv, TypeInv, Where, Passing
<1>2. /\ G' = G /\ UNCHANGED <<X, sp, mp, sw, arg, V, val, called, have, r_buf, asked, answered>>
  BY DEF Start, graph_vars, search_vars, value_vars
<1>3. Answers'
  BY <1>2 DEF Answers
<1>4. r_buf \in Seq(G.roots) /\ Len(r_buf) \in Nat
  BY DEF Answers
<1>5. ~(Len(X) > 1) /\ Len(X') = 1
  <2>1. ~(1 > 1)
    OBVIOUS
  <2>2. QED
    BY <1>1, <1>2, <2>1, Zenon
<1>6. CASE r_buf = <<>>
  <2>1. pc' = "yield" /\ status'.code = "OK" /\ cur' = cur
    BY <1>6 DEF Start
  <2>2. Where'
    BY <1>1, <1>2, <1>5, <2>1 DEF Where, Searching, Passing
  <2>3. RootInv'
    BY <2>1 DEF RootInv, InRound
  <2>4. /\ have \subseteq have' /\ have' \subseteq Given /\ cur' \in [num : Nat, i : Nat, j : Nat]
        /\ arg' \in [x : Var \cup {None}, beta : Int, cost : Int]
        /\ pc \in Passing \cup {"yield"} /\ pc' # "unpack" /\ pc' # "value"
        /\ status'.code # "MODCALL"
    BY <1>1, <1>2, <2>1 DEF Passing
  <2>5. RunInv'
    BY <1>2, <1>5, <2>2, <2>3, <2>4, PassRuns
  <2>6. QED
    BY <1>3, <2>5
<1>7. CASE r_buf # <<>>
  <2>1. pc' = "givens" /\ cur' = [num |-> Len(r_buf), i |-> 1, j |-> 1]
    BY <1>7 DEF Start
  <2>2. Where'
    BY <1>1, <1>2, <1>5, <2>1 DEF Where, Searching, Passing
  <2>3. cur' \in [num : Nat, i : Nat, j : Nat] /\ cur'.num = Len(r_buf) /\ cur'.i = 1 /\ cur'.j = 1
    BY <1>4, <2>1
  <2>4. RootInv'
    <3>1. \A k \in 1 .. Len(r_buf) : /\ Len(r_buf[k]) \in Nat /\ Len(r_buf[k]) >= 1
                                     /\ DOMAIN r_buf[k] = 1 .. Len(r_buf[k])
      BY <1>1, <1>4, RootIs
    <3>2. 1 \in 1 .. Len(r_buf)
      BY <1>4, <1>7
    <3>3. 1 <= Len(r_buf[1])
      BY <3>1, <3>2
    <3>4. ASSUME NEW k \in 1 .. Len(r_buf), NEW l \in DOMAIN r_buf[k] PROVE ~Before(k, l)'
      <4>1. l \in Nat /\ l >= 1
        BY <3>1
      <4>2. ~(k < 1 \/ (k = 1 /\ l < 1))
        BY <1>4, <4>1
      <4>3. QED
        BY <2>3, <4>2 DEF Before
    <3>5. InGivens' /\ pc' # "collect"
      BY <2>1 DEF InGivens
    <3>6. cur'.i >= 1 /\ cur'.j >= 1 /\ cur'.num <= Len(r_buf)
      BY <1>4, <2>3
    <3>7. QED
      BY <1>2, <2>3, <3>3, <3>4, <3>5, <3>6 DEF RootInv
  <2>5. /\ have \subseteq have' /\ have' \subseteq Given
        /\ arg' \in [x : Var \cup {None}, beta : Int, cost : Int]
        /\ pc \in Passing \cup {"yield"} /\ pc' # "unpack" /\ pc' # "value" /\ pc' # "yield"
    BY <1>1, <1>2, <2>1 DEF Passing
  <2>6. RunInv'
    BY <1>2, <1>5, <2>2, <2>3, <2>4, <2>5, PassRuns
  <2>7. QED
    BY <1>3, <2>6
<1>8. QED
  BY <1>6, <1>7

(* A step of a pass that leaves the roots alone.                           *)
LEMMA PassAlone ==
    ASSUME RunInv, Answers, pc \in {"givens", "chains", "values"}, G' = G,
           UNCHANGED <<r_buf, cur, have, sp, X, V>>,
           \/ pc = "givens" /\ pc' = "yield" /\ status'.code = "VREF"
           \/ pc = "chains" /\ pc' = "solve"
           \/ pc = "values" /\ pc' = "value"
    PROVE  RootInv'
<1>1. /\ G \in Graphs /\ Len(X) = 1 /\ V = <<>> /\ InRound /\ sp \in [Var -> VarState] /\ RootInv
      /\ cur \in [num : Nat, i : Nat, j : Nat]
  BY RoundIs
<1>2. /\ InRound' => InRound
      /\ (InRound' /\ InGivens => InGivens') /\ (InValues' => InValues) /\ pc' # "collect"
  BY <1>1 DEF InGivens, InValues
<1>3. /\ sp' \in [Var -> VarState] /\ have \subseteq have'
      /\ \A x \in Var : sp[x].value = TRUE => sp'[x].value = TRUE
  BY <1>1
<1>4. QED
  BY <1>1, <1>2, <1>3, RootsKept

LEMMA DoGivens == ASSUME RunInv, Answers, Givens PROVE RunInv' /\ Answers'
<1>1. pc = "givens"
  BY DEF Givens
<1>2. /\ Len(X) = 1 /\ ~(Len(X) > 1) /\ V = <<>> /\ have \subseteq Given
      /\ arg \in [x : Var \cup {None}, beta : Int, cost : Int]
      /\ cur \in [num : Nat, i : Nat, j : Nat]
  BY <1>1, RoundIs
<1>3. /\ G' = G /\ UNCHANGED <<X, sp, mp, sw, arg, V, val, called, have, r_buf, asked, answered>>
  BY DEF Givens, graph_vars, search_vars, value_vars
<1>4. Answers'
  BY <1>3 DEF Answers
<1>5. /\ \/ pc' \in {"givens", "chains"} \/ (pc' = "yield" /\ status'.code = "VREF")
      /\ RootInv' /\ cur' \in [num : Nat, i : Nat, j : Nat]
  <2>1. CASE PassOver
    <3>1. pc' = "chains" /\ cur' = First
      BY <2>1 DEF Givens
    <3>2. QED
      BY <1>1, <1>3, <2>1, <3>1, PassEnds
  <2>2. CASE ~PassOver /\ Root[cur.j] \in Given \ have
    <3>1. pc' = "yield" /\ status'.code = "VREF" /\ cur' = cur
      BY <2>2 DEF Givens, Vref
    <3>2. RootInv'
      BY <1>1, <1>3, <3>1, PassAlone
    <3>3. QED
      BY <1>2, <3>1, <3>2
  <2>3. CASE ~PassOver /\ Root[cur.j] \notin Given \ have
    <3>1. pc' = pc /\ status' = status /\ cur' = NextInst
      BY <2>3 DEF Givens
    <3>2. RootInv'
      BY <1>1, <1>3, <2>3, <3>1, PassMoves
    <3>3. cur' \in [num : Nat, i : Nat, j : Nat]
      BY <1>1, <2>3, <3>1, NextIs
    <3>4. QED
      BY <1>1, <3>1, <3>2, <3>3
  <2>4. QED
    BY <2>1, <2>2, <2>3
<1>6. Where'
  <2>1. Len(X') = 1 /\ V' = <<>>
    BY <1>2, <1>3
  <2>2. QED
    BY <1>5, <2>1 DEF Where, Searching, Passing
<1>7. /\ have \subseteq have' /\ have' \subseteq Given
      /\ arg' \in [x : Var \cup {None}, beta : Int, cost : Int]
      /\ pc \in Passing \cup {"yield"} /\ pc' # "unpack" /\ pc' # "value"
      /\ ~(pc' = "yield" /\ status'.code = "MODCALL")
  BY <1>1, <1>2, <1>3, <1>5 DEF Passing
<1>8. RunInv'
  BY <1>2, <1>3, <1>5, <1>6, <1>7, PassRuns
<1>9. QED
  BY <1>4, <1>8

LEMMA DoChains == ASSUME RunInv, Answers, Chains PROVE RunInv' /\ Answers'
<1>1. pc = "chains"
  BY DEF Chains
<1>2. /\ Len(X) = 1 /\ ~(Len(X) > 1) /\ V = <<>> /\ have \subseteq Given
      /\ arg \in [x : Var \cup {None}, beta : Int, cost : Int]
      /\ cur \in [num : Nat, i : Nat, j : Nat] /\ sp \in [Var -> VarState]
      /\ cur.i \in Nat /\ cur.num \in Nat
      /\ cur.i <= cur.num => Root[cur.j] \in Var \cup Given
  BY <1>1, RoundIs
<1>3. /\ G' = G /\ UNCHANGED <<X, sp, mp, sw, V, val, called, have, r_buf, asked, answered, status>>
  BY DEF Chains, graph_vars, value_vars
<1>4. Answers'
  BY <1>3 DEF Answers
<1>5. /\ \/ pc' \in {"chains", "values"}
         \/ pc' = "solve" /\ arg'.x \in Var /\ sp[arg'.x].chain = None /\ arg'.beta <= MaxCost
      /\ RootInv' /\ cur' \in [num : Nat, i : Nat, j : Nat]
      /\ arg' \in [x : Var \cup {None}, beta : Int, cost : Int]
  <2>1. CASE PassOver
    <3>1. pc' = "values" /\ cur' = First /\ arg' = arg
      BY <2>1 DEF Chains
    <3>2. QED
      BY <1>1, <1>2, <1>3, <2>1, <3>1, PassEnds
  <2>2. CASE ~PassOver /\ (Root[cur.j] \in Given \/ SpDone(Root[cur.j]))
    <3>1. pc' = pc /\ cur' = NextInst /\ arg' = arg
      BY <2>2 DEF Chains
    <3>2. RootInv'
      BY <1>1, <1>3, <2>2, <3>1, PassMoves
    <3>3. cur' \in [num : Nat, i : Nat, j : Nat]
      BY <1>1, <2>2, <3>1, NextIs
    <3>4. QED
      BY <1>1, <1>2, <3>1, <3>2, <3>3
  <2>3. CASE ~PassOver /\ ~(Root[cur.j] \in Given \/ SpDone(Root[cur.j]))
    <3>1. pc' = "solve" /\ cur' = cur /\ arg' = [arg EXCEPT !.x = Root[cur.j], !.beta = MaxCost]
      BY <2>3 DEF Chains
    <3>2. RootInv'
      BY <1>1, <1>3, <3>1, PassAlone
    <3>3. Root[cur.j] \in Var
      BY <1>2, <2>3 DEF PassOver
    <3>4. MaxCost \in Int /\ MaxCost <= MaxCost
      BY SolverAssumption
    <3>5. /\ arg' \in [x : Var \cup {None}, beta : Int, cost : Int] /\ arg'.x = Root[cur.j]
          /\ arg'.beta = MaxCost
      <4>1. arg' = [x |-> Root[cur.j], beta |-> MaxCost, cost |-> arg.cost]
        BY <1>2, <3>1
      <4>2. QED
        BY <1>2, <3>3, <3>4, <4>1
    <3>6. sp[Root[cur.j]].chain = None
      BY <2>3 DEF SpDone
    <3>7. QED
      BY <1>2, <3>1, <3>2, <3>3, <3>4, <3>5, <3>6
  <2>4. QED
    BY <2>1, <2>2, <2>3
<1>6. Where'
  <2>1. Len(X') = 1 /\ V' = <<>> /\ Var' = Var
    BY <1>2, <1>3 DEF Var
  <2>2. QED
    BY <1>3, <1>5, <2>1 DEF Where, Searching, Passing
<1>7. /\ have \subseteq have' /\ have' \subseteq Given
      /\ pc \in Passing \cup {"yield"} /\ pc' # "unpack" /\ pc' # "value" /\ pc' # "yield"
  BY <1>1, <1>2, <1>3, <1>5 DEF Passing
<1>8. RunInv'
  BY <1>2, <1>3, <1>5, <1>6, <1>7, PassRuns
<1>9. QED
  BY <1>4, <1>8

LEMMA DoValues == ASSUME RunInv, Answers, Values PROVE RunInv' /\ Answers'
<1>1. pc = "values"
  BY DEF Values
<1>2. /\ Len(X) = 1 /\ ~(Len(X) > 1) /\ V = <<>> /\ have \subseteq Given
      /\ arg \in [x : Var \cup {None}, beta : Int, cost : Int]
      /\ cur \in [num : Nat, i : Nat, j : Nat] /\ RootInv /\ InRound
      /\ cur.i \in Nat /\ cur.num \in Nat
      /\ cur.i <= cur.num =>
            cur.i \in 1 .. cur.num /\ cur.j \in DOMAIN Root /\ Root[cur.j] \in Var \cup Given
  BY <1>1, RoundIs
<1>3. /\ G' = G /\ UNCHANGED <<X, sp, mp, sw, V, val, called, have, r_buf, asked, answered, status>>
  BY DEF Values, graph_vars, value_vars
<1>4. Answers'
  BY <1>3 DEF Answers
<1>5. /\ \/ pc' \in {"values", "collect"}
         \/ pc' = "value" /\ arg'.x \in Var
      /\ RootInv' /\ cur' \in [num : Nat, i : Nat, j : Nat]
      /\ arg' \in [x : Var \cup {None}, beta : Int, cost : Int]
  <2>1. CASE PassOver
    <3>1. pc' = "collect" /\ cur' = cur /\ arg' = arg
      BY <2>1 DEF Values
    <3>2. /\ InValues /\ ~InGivens /\ ~InGivens' /\ cur.i > cur.num
          /\ (\A k, l : Before(k, l)' = Before(k, l))
          /\ \A k, l : HasValue(r_buf[k][l])' = HasValue(r_buf[k][l])
      BY <1>1, <1>3, <2>1, <3>1 DEF InValues, InGivens, PassOver, Before, HasValue
    <3>3. RootInv'
      <4>1. /\ cur.num <= Len(r_buf) /\ cur.i >= 1 /\ cur.j >= 1
            /\ cur.i <= cur.num => cur.j <= Len(r_buf[cur.i])
        BY <1>2 DEF RootInv
      <4>2. ASSUME NEW k \in 1 .. cur.num, NEW l \in DOMAIN r_buf[k]
            PROVE  /\ r_buf[k][l] \in Given => r_buf[k][l] \in have
                   /\ Before(k, l) => HasValue(r_buf[k][l])
        BY <1>2, <3>2 DEF RootInv
      <4>3. QED
        BY <1>3, <3>1, <3>2, <4>1, <4>2 DEF RootInv
    <3>4. QED
      BY <1>2, <3>1, <3>3
  <2>2. CASE ~PassOver /\ HasValue(Root[cur.j])
    <3>1. pc' = pc /\ cur' = NextInst /\ arg' = arg
      BY <2>2 DEF Values
    <3>2. RootInv'
      BY <1>1, <1>3, <2>2, <3>1, PassMoves
    <3>3. cur' \in [num : Nat, i : Nat, j : Nat]
      BY <1>1, <2>2, <3>1, NextIs
    <3>4. QED
      BY <1>1, <1>2, <3>1, <3>2, <3>3
  <2>3. CASE ~PassOver /\ ~HasValue(Root[cur.j])
    <3>1. pc' = "value" /\ cur' = cur /\ arg' = [arg EXCEPT !.x = Root[cur.j]]
      BY <2>3 DEF Values
    <3>2. RootInv'
      BY <1>1, <1>3, <3>1, PassAlone
    <3>3. cur.i \in 1 .. cur.num /\ cur.j \in DOMAIN Root /\ Root[cur.j] \in Var \cup Given
      BY <1>2, <2>3 DEF PassOver
    <3>4. Root[cur.j] \in Given => Root[cur.j] \in have
      <4>1. ~InGivens
        BY <1>1 DEF InGivens
      <4>2. QED
        BY <1>2, <3>3, <4>1 DEF RootInv, Root
    <3>5. Root[cur.j] \in Var
      BY <2>3, <3>3, <3>4 DEF HasValue
    <3>6. arg' \in [x : Var \cup {None}, beta : Int, cost : Int] /\ arg'.x = Root[cur.j]
      BY <1>2, <3>1, <3>5
    <3>7. QED
      BY <1>2, <3>1, <3>2, <3>5, <3>6
  <2>4. QED
    BY <2>1, <2>2, <2>3
<1>6. Where'
  <2>1. Len(X') = 1 /\ V' = <<>> /\ Var' = Var
    BY <1>2, <1>3 DEF Var
  <2>2. QED
    BY <1>3, <1>5, <2>1 DEF Where, Searching, Passing
<1>7. /\ have \subseteq have' /\ have' \subseteq Given
      /\ pc \in Passing \cup {"yield"} /\ pc' # "unpack" /\ pc' # "yield"
  BY <1>1, <1>2, <1>3, <1>5 DEF Passing
<1>8. RunInv'
  BY <1>2, <1>3, <1>5, <1>6, <1>7, PassRuns
<1>9. QED
  BY <1>4, <1>8

Joins(whole, front, back) == whole = front \o back

LEMMA SplitQueue ==
    ASSUME NEW R, NEW p \in Seq(R), NEW r \in Seq(R), NEW k \in Nat, k <= Len(r)
    PROVE  p \o r = (p \o SubSeq(r, 1, k)) \o SubSeq(r, k + 1, Len(r))
<1>1. PICK n \in Nat : n = Len(r) /\ k <= n
  OBVIOUS
<1>2. SubSeq(r, 1, k) \in Seq(R) /\ SubSeq(r, k + 1, n) \in Seq(R)
  <2>1. 1 \in Int /\ k \in Int /\ k + 1 \in Int /\ n \in Int
    OBVIOUS
  <2>2. (\A i \in 1 .. k : r[i] \in R) /\ \A i \in k + 1 .. n : r[i] \in R
    BY <1>1
  <2>3. QED
    BY <2>1, <2>2, SubSeqProperties
<1>3. SubSeq(r, 1, k) \o SubSeq(r, k + 1, n) = r
  <2>1. 1 \in 1 .. n + 1 /\ k \in 1 - 1 .. n /\ n \in k .. n
    BY <1>1
  <2>2. SubSeq(r, 1, k) \o SubSeq(r, k + 1, n) = SubSeq(r, 1, n)
    BY <1>1, <2>1, ConcatAdjacentSubSeq
  <2>3. SubSeq(r, 1, Len(r)) = r
    BY SubSeqFull
  <2>4. QED
    BY <1>1, <2>2, <2>3
<1>4. PICK a \in Seq(R) : a = SubSeq(r, 1, k)
  BY <1>2
<1>5. PICK b \in Seq(R) : b = SubSeq(r, k + 1, n)
  BY <1>2
<1>6. Joins(r, a, b)
  BY <1>3, <1>4, <1>5, Zenon DEF Joins
<1>7. (p \o a) \o b = p \o r
  BY <1>6, ConcatAssociative, SMTT(30) DEF Joins
<1>8. QED
  BY <1>1, <1>4, <1>5, <1>7, Zenon

(* The round is over: the roots that it took from the queue have values.   *)
LEMMA DoCollect == ASSUME RunInv, Answers, Collect PROVE RunInv' /\ Answers'
<1>1. pc = "collect" /\ pc' = "start"
  BY DEF Collect
<1>2. /\ Len(X) = 1 /\ ~(Len(X) > 1) /\ V = <<>> /\ have \subseteq Given /\ G \in Graphs
      /\ arg \in [x : Var \cup {None}, beta : Int, cost : Int]
      /\ cur \in [num : Nat, i : Nat, j : Nat] /\ RootInv /\ InRound
      /\ cur.i \in Nat /\ cur.num \in Nat /\ Len(r_buf) \in Nat /\ cur.num <= Len(r_buf)
      /\ \A k \in 1 .. cur.num : \A l \in DOMAIN r_buf[k] : r_buf[k][l] \in Var \cup Given
      /\ sp \in [Var -> VarState]
  BY <1>1, RoundIs
<1>3. /\ G' = G /\ UNCHANGED <<X, sp, mp, sw, arg, V, val, called, have, cur, asked, status>>
  BY DEF Collect, graph_vars, search_vars, value_vars
<1>4. PICK num \in Nat : num = cur.num /\ num <= Len(r_buf)
  BY <1>2
<1>5. ASSUME NEW k \in 1 .. num, NEW l \in DOMAIN r_buf[k]
      PROVE  IF r_buf[k][l] \in Given THEN r_buf[k][l] \in have ELSE val[r_buf[k][l]] # None
  <2>1. ~InGivens /\ InValues /\ cur.i > cur.num
    BY <1>1, <1>2 DEF InGivens, InValues, RootInv
  <2>2. Before(k, l)
    BY <1>2, <1>4, <2>1 DEF Before
  <2>3. /\ r_buf[k][l] \in Given => r_buf[k][l] \in have
        /\ HasValue(r_buf[k][l]) /\ r_buf[k][l] \in Var \cup Given
    BY <1>2, <1>4, <2>1, <2>2 DEF RootInv
  <2>4. r_buf[k][l] \notin Given => r_buf[k][l] \in Var /\ sp[r_buf[k][l]].value = TRUE
    BY <1>2, <2>3 DEF HasValue, VarState
  <2>5. \A x \in Var : sp[x].value = TRUE => val[x] # None
    BY <1>2 DEF RunInv, ValueInv
  <2>6. QED
    BY <2>3, <2>4, <2>5
<1>6. Answers'
  <2>1. PICK R : R = G.roots
    OBVIOUS
  <2>2. r_buf \in Seq(R) /\ answered \in Seq(R) /\ asked \in Seq(R) /\ asked = answered \o r_buf
    BY <2>1 DEF Answers
  <2>3. PICK len \in Nat : len = Len(r_buf) /\ num <= len /\ \A k \in 1 .. len : r_buf[k] \in R
    BY <1>4, <2>2
  <2>4. PICK a \in Seq(R) :
           a = SubSeq(r_buf, 1, num) /\ Len(a) = num /\ \A k \in 1 .. num : a[k] = r_buf[k]
    <3>1. 1 \in Int /\ num \in Int /\ \A k \in 1 .. num : r_buf[k] \in R
      BY <2>3
    <3>2. /\ SubSeq(r_buf, 1, num) \in Seq(R)
          /\ Len(SubSeq(r_buf, 1, num)) = IF 1 <= num THEN num - 1 + 1 ELSE 0
          /\ \A k \in 1 .. num - 1 + 1 : SubSeq(r_buf, 1, num)[k] = r_buf[1 + k - 1]
      BY <3>1, SubSeqProperties
    <3>3. PICK z \in Seq(R) : z = SubSeq(r_buf, 1, num)
      BY <3>2
    <3>4. num - 1 + 1 = num /\ (1 <= num \/ num = 0) /\ \A k \in 1 .. num : 1 + k - 1 = k
      OBVIOUS
    <3>5. Len(z) = num /\ \A k \in 1 .. num : z[k] = r_buf[k]
      BY <3>2, <3>3, <3>4
    <3>6. QED
      BY <3>3, <3>5
  <2>5. PICK b \in Seq(R) : b = SubSeq(r_buf, num + 1, Len(r_buf))
    <3>1. num + 1 \in Int /\ len \in Int /\ \A k \in num + 1 .. len : r_buf[k] \in R
      BY <2>3
    <3>2. SubSeq(r_buf, num + 1, len) \in Seq(R)
      BY <3>1, SubSeqProperties
    <3>3. QED
      BY <2>3, <3>2
  <2>6. asked = (answered \o a) \o b
    <3>1. PICK p \in Seq(R) : p = answered
      BY <2>2
    <3>2. PICK r \in Seq(R) : r = r_buf
      BY <2>2
    <3>3. num <= Len(r)
      BY <1>4, <3>2
    <3>4. p \o r = (p \o SubSeq(r, 1, num)) \o SubSeq(r, num + 1, Len(r))
      BY <3>3, SplitQueue, Zenon
    <3>5. QED
      BY <2>2, <2>4, <2>5, <3>1, <3>2, <3>4, Zenon
  <2>7. r_buf' = b /\ answered' = answered \o a
    BY <1>4, <2>4, <2>5 DEF Collect, Waiting
  <2>8. answered' \in Seq(R) /\ r_buf' \in Seq(R) /\ asked' \in Seq(R) /\ asked' = answered' \o r_buf'
    BY <1>3, <2>2, <2>6, <2>7
  <2>9. ASSUME NEW i \in DOMAIN answered'
        PROVE  \/ i \in DOMAIN answered /\ answered'[i] = answered[i]
               \/ \E k \in 1 .. num : answered'[i] = r_buf[k]
    <3>1. PICK n \in Nat : n = Len(answered)
      BY <2>2
    <3>2. i \in 1 .. n + num /\ answered'[i] = IF i <= n THEN answered[i] ELSE a[i - n]
      BY <2>2, <2>4, <2>7, <3>1, SMTT(30)
    <3>3. i <= n => i \in DOMAIN answered
      BY <2>2, <3>1, <3>2
    <3>4. ~(i <= n) => i - n \in 1 .. num
      BY <3>2
    <3>5. QED
      BY <2>4, <3>2, <3>3, <3>4
  <2>10. ASSUME NEW i \in DOMAIN answered', NEW l \in DOMAIN answered'[i]
         PROVE  IF answered'[i][l] \in Given THEN answered'[i][l] \in have
                ELSE val[answered'[i][l]] # None
    BY <1>5, <2>9 DEF Answers
  <2>11. QED
    BY <1>3, <2>1, <2>8, <2>10 DEF Answers
<1>7. Where'
  <2>1. Len(X') = 1 /\ V' = <<>>
    BY <1>2, <1>3
  <2>2. QED
    BY <1>1, <2>1 DEF Where, Searching, Passing
<1>8. RootInv'
  BY <1>1 DEF RootInv, InRound
<1>9. /\ have \subseteq have' /\ have' \subseteq Given
      /\ arg' \in [x : Var \cup {None}, beta : Int, cost : Int]
      /\ cur' \in [num : Nat, i : Nat, j : Nat]
      /\ pc \in Passing \cup {"yield"} /\ pc' # "unpack" /\ pc' # "value" /\ pc' # "yield"
  BY <1>1, <1>2, <1>3 DEF Passing
<1>10. RunInv'
  BY <1>2, <1>3, <1>7, <1>8, <1>9, PassRuns
<1>11. QED
  BY <1>6, <1>10

-----------------------------------------------------------------------------
(* The invariant holds, and what follows.                                  *)

LEMMA Initially == Init => IInv
<1> SUFFICES ASSUME Init PROVE IInv
  OBVIOUS
<1>1. /\ G \in Graphs /\ pc = "start" /\ V = <<>> /\ X = <<Base>>
      /\ r_buf = <<>> /\ asked = <<>> /\ answered = <<>> /\ have = {} /\ called = {}
      /\ sp = [x \in Var |-> [cost |-> 0, chain |-> None, value |-> FALSE]]
      /\ mp = [m \in Mod |-> [cost |-> G.mod[m].cmin, chain |-> FALSE, value |-> FALSE]]
      /\ sw = [w \in DOMAIN G.shadow |-> "none"]
      /\ arg = [x |-> None, beta |-> 0, cost |-> 0]
      /\ cur = [num |-> 0, i |-> 1, j |-> 1] /\ val = [x \in Var |-> None]
  BY DEF Init, Base
<1>2. Len(X) = 1 /\ X[1] = Base /\ X \in Seq(Frame \cup {Base}) /\ ~(1 > 1) /\ 1 >= 1
  BY <1>1
<1>3. Answers
  <2>1. <<>> \in Seq(G.roots) /\ <<>> \o <<>> = <<>> /\ DOMAIN <<>> = {}
    OBVIOUS
  <2>2. QED
    BY <1>1, <2>1 DEF Answers
<1>4. TypeInv
  <2>1. sp \in [Var -> VarState]
    <3>1. [cost |-> 0, chain |-> None, value |-> FALSE] \in VarState
      BY DEF VarState
    <3>2. QED
      BY <1>1, <3>1
  <2>2. mp \in [Mod -> ModState]
    <3>1. ASSUME NEW m \in Mod
          PROVE  [cost |-> G.mod[m].cmin, chain |-> FALSE, value |-> FALSE] \in ModState
      <4>1. G.mod[m].cmin \in Int
        BY <1>1, ModIs
      <4>2. QED
        BY <4>1 DEF ModState
    <3>2. QED
      BY <1>1, <3>1
  <2>3. sw \in [DOMAIN G.shadow -> {"none", "pass", "fail"}] /\ val \in [Var -> Mod \cup {None}]
    BY <1>1
  <2>4. arg \in [x : Var \cup {None}, beta : Int, cost : Int] /\ cur \in [num : Nat, i : Nat, j : Nat]
    BY <1>1
  <2>5. V \in Seq(Activation) /\ have \subseteq Given /\ called \subseteq Mod
    BY <1>1
  <2>6. QED
    BY <1>1, <2>1, <2>2, <2>3, <2>4, <2>5 DEF TypeInv
<1>5. Where
  BY <1>1, <1>2 DEF Where, Searching, Passing
<1>6. StackInv
  <2>1. \A i : i \notin 2 .. Len(X) /\ i \notin 2 .. Len(X) - 1
    BY <1>2
  <2>2. ~(Len(X) > 1) /\ Len(X) >= 1
    BY <1>2
  <2>3. QED
    BY <1>2, <2>1, <2>2 DEF StackInv, Stacked
<1>7. /\ \A x \in Var : sp[x].chain = None /\ sp[x].value = FALSE
      /\ \A m \in Mod : mp[m].chain = FALSE /\ mp[m].value = FALSE
      /\ DOMAIN V = {}
  BY <1>1
<1>8. ChainInv
  BY <1>7 DEF ChainInv
<1>9. RankInv
  <2>1. PICK rank \in [Mod -> Nat] : rank = [m \in Mod |-> 0]
    OBVIOUS
  <2>2. Ranked(rank, 0, sp, mp, V)
    BY <1>7 DEF Ranked
  <2>3. 0 \in Nat
    OBVIOUS
  <2>4. QED
    BY <2>2, <2>3 DEF RankInv
<1>10. ValueInv
  BY <1>1, <1>7 DEF ValueInv
<1>11. RootInv
  BY <1>1 DEF RootInv, InRound
<1>12. QED
  BY <1>3, <1>4, <1>5, <1>6, <1>8, <1>9, <1>10, <1>11 DEF IInv, RunInv

LEMMA Stutters == ASSUME IInv, UNCHANGED vars PROVE IInv'
<1>1. /\ G' = G /\ sp' = sp /\ mp' = mp /\ sw' = sw /\ X' = X /\ pc' = pc /\ arg' = arg /\ V' = V
      /\ r_buf' = r_buf /\ cur' = cur /\ have' = have /\ val' = val /\ called' = called
      /\ asked' = asked /\ answered' = answered /\ status' = status
  BY DEF vars, graph_vars
<1>2. Answers'
  BY <1>1 DEF IInv, Answers
<1>3. ASSUME pc' # "error" PROVE RunInv'
  <2>1. RunInv
    BY <1>1, <1>3 DEF IInv
  <2>2. TypeInv'
    BY <1>1, <2>1 DEF RunInv, TypeInv, Var, Mod, VarState, ModState, Link, Activation
  <2>3. Where'
    BY <1>1, <2>1 DEF RunInv, Where, Var
  <2>4. StackInv'
    <3>1. Stacked(X, sp, mp, sw)'
      <4>1. Stacked(X', sp', mp', sw')
        BY <1>1, <2>1 DEF RunInv, StackInv
      <4>2. QED
        BY <1>1, <4>1, StackPrimes
    <3>2. ASSUME Len(X') > 1 PROVE TopInv'
      <4>1. TopInv /\ Top' = Top /\ ShadowOf(Top)' = ShadowOf(Top)
        BY <1>1, <2>1, <3>2 DEF RunInv, StackInv, Top, ShadowOf
      <4>2. Ready(Top, pc, X, sp, mp, sw)'
        <5>1. Ready(Top', pc', X', sp', mp', sw')
          BY <1>1, <4>1 DEF TopInv
        <5>2. QED
          BY <1>1, <5>1, ReadyPrimes
      <4>4. pc' = "solve" => Waits(Top, arg.x, sw)'
        <5>1. pc' = "solve" => Waits(Top, arg.x, sw)
          BY <1>1, <4>1 DEF TopInv
        <5>2. QED
          BY <1>1, <4>1, <5>1 DEF Waits, AtShadow
      <4>5. pc' = "check" => /\ AtShadow(Top, G.shadow[ShadowOf(Top)].x)'
                             /\ HasValue(G.shadow[ShadowOf(Top)].x)'
        <5>1. pc' = "check" => /\ AtShadow(Top, G.shadow[ShadowOf(Top)].x)
                               /\ HasValue(G.shadow[ShadowOf(Top)].x)
          BY <1>1, <4>1 DEF TopInv
        <5>2. QED
          BY <1>1, <4>1, <5>1 DEF AtShadow, HasValue
      <4>6. /\ (pc' = "value" /\ V' = <<>> => AtShadow(Top, arg.x)')
            /\ (V' # <<>> => AtShadow(Top, V[1].x)')
        <5>1. /\ (pc' = "value" /\ V' = <<>> => AtShadow(Top, arg.x))
              /\ (V' # <<>> => AtShadow(Top, V[1].x))
          BY <1>1, <4>1 DEF TopInv
        <5>2. QED
          BY <1>1, <4>1, <5>1 DEF AtShadow
      <4>7. /\ IF pc' = "chosen" THEN sp'[Top'.x].chain # None ELSE sp'[Top'.x].chain = None
            /\ pc' \in {"chosen", "bound"} => Top'.m \in Mod'
        BY <1>1, <4>1 DEF TopInv, Mod
      <4>8. QED
        BY <4>2, <4>4, <4>5, <4>6, <4>7 DEF TopInv
    <3>3. QED
      BY <3>1, <3>2 DEF StackInv
  <2>5. ChainInv'
    BY <1>1, <2>1 DEF RunInv, ChainInv, Var, Mod, Returned, IsParam
  <2>6. RankInv'
    BY <1>1, <2>1, RankKept, Zenon DEF RunInv
  <2>7. ValueInv'
    BY <1>1, <2>1 DEF RunInv, ValueInv, Activated, Argued, Act, IsParam, Mod, Var, RetBuf, Returned
  <2>8. RootInv'
    BY <1>1, <2>1 DEF RunInv, RootInv, InRound, InGivens, InValues, Before, HasValue
  <2>9. QED
    BY <2>2, <2>3, <2>4, <2>5, <2>6, <2>7, <2>8 DEF RunInv
<1>4. QED
  BY <1>2, <1>3 DEF IInv

(* After an error nothing changes any more.                                *)
LEMMA ErrorStays == ASSUME pc = "error", Next PROVE UNCHANGED vars
<1>1. /\ ~XSolve /\ ~Candidate /\ ~ShadowsDone /\ ~ShadowEdgePassed /\ ~Shadow /\ ~Check
      /\ ~Param /\ ~ParamEdgeDone /\ ~ChainSolved /\ ~XChosen /\ ~XFailed /\ ~XBound
  BY DEF XSolve, Candidate, ShadowsDone, ShadowEdgePassed, Shadow, Check, Param, ParamEdgeDone,
         ChainSolved, XChosen, XFailed, XBound
<1>2. /\ ~ComputeValue /\ ~Args /\ ~Modcall /\ ~Unpack
      /\ ~Start /\ ~Givens /\ ~Chains /\ ~Values /\ ~Collect /\ ~Continue
  BY DEF ComputeValue, Args, Modcall, Unpack, Start, Givens, Chains, Values, Collect, Continue,
         Suspended
<1>3. (\A r : ~SetRoot(r)) /\ \A y : ~SetValue(y)
  BY DEF SetRoot, SetValue, Suspended
<1>4. ContinueError
  BY <1>1, <1>2, <1>3 DEF Next, Solver, SelectChain, Compute, Solve
<1>5. QED
  BY <1>4 DEF ContinueError

LEMMA Preserved == IInv /\ [Next]_vars => IInv'
<1> SUFFICES ASSUME IInv, [Next]_vars PROVE IInv'
  OBVIOUS
<1>1. CASE UNCHANGED vars
  BY <1>1, Stutters
<1>2. CASE Next /\ pc = "error"
  BY <1>2, ErrorStays, Stutters
<1>3. CASE Next /\ pc # "error"
  <2>1. RunInv /\ Answers
    BY <1>3 DEF IInv
  <2>2. SUFFICES Answers' /\ (pc' # "error" => RunInv')
    BY DEF IInv
  <2>3. CASE SelectChain
    <3>1. CASE XSolve
      BY <2>1, <3>1, DoXSolve
    <3>2. CASE Candidate
      BY <2>1, <3>2, DoCandidate
    <3>3. CASE ShadowsDone
      BY <2>1, <3>3, DoShadowsDone
    <3>4. CASE ShadowEdgePassed
      BY <2>1, <3>4, DoShadowEdgePassed
    <3>5. CASE Shadow
      BY <2>1, <3>5, DoShadow
    <3>6. CASE Check
      BY <2>1, <3>6, DoCheck
    <3>7. CASE Param
      BY <2>1, <3>7, DoParam
    <3>8. CASE ParamEdgeDone
      BY <2>1, <3>8, DoParamEdgeDone
    <3>9. CASE ChainSolved
      BY <2>1, <3>9, DoChainSolved
    <3>10. CASE XChosen
      BY <2>1, <3>10, DoXChosen
    <3>11. CASE XFailed
      BY <2>1, <3>11, DoXFailed
    <3>12. CASE XBound
      BY <2>1, <3>12, DoXBound
    <3>13. QED
      BY <2>3, <3>1, <3>2, <3>3, <3>4, <3>5, <3>6, <3>7, <3>8, <3>9, <3>10, <3>11, <3>12
         DEF SelectChain
  <2>4. CASE Compute
    <3>1. CASE ComputeValue
      BY <2>1, <3>1, DoComputeValue
    <3>2. CASE Args
      BY <2>1, <3>2, DoArgs
    <3>3. CASE Modcall
      BY <2>1, <3>3, DoModcall
    <3>4. CASE Unpack
      BY <2>1, <3>4, DoUnpack
    <3>5. QED
      BY <2>4, <3>1, <3>2, <3>3, <3>4 DEF Compute
  <2>5. CASE Solve
    <3>1. CASE Start
      BY <2>1, <3>1, DoStart
    <3>2. CASE Givens
      BY <2>1, <3>2, DoGivens
    <3>3. CASE Chains
      BY <2>1, <3>3, DoChains
    <3>4. CASE Values
      BY <2>1, <3>4, DoValues
    <3>5. CASE Collect
      BY <2>1, <3>5, DoCollect
    <3>6. QED
      BY <2>5, <3>1, <3>2, <3>3, <3>4, <3>5 DEF Solve
  <2>6. CASE \E r \in G.roots : SetRoot(r)
    BY <2>1, <2>6, DoSetRoot
  <2>7. CASE \E y \in G.given : SetValue(y)
    BY <2>1, <2>7, DoSetValue
  <2>8. CASE Continue
    BY <2>1, <2>8, DoContinue
  <2>9. ~ContinueError
    BY <1>3 DEF ContinueError
  <2>10. QED
    BY <1>3, <2>3, <2>4, <2>5, <2>6, <2>7, <2>8, <2>9 DEF Next, Solver
<1>4. QED
  BY <1>1, <1>2, <1>3

(* Whatever the graph, the order of the driver's calls and the errors, the *)
(* invariant of the solver's stacks, chains, values and roots holds        *)
(* throughout fhk_continue, S_solve, S_select_chain and S_compute_value.   *)
THEOREM SolverInvariant == Spec => []IInv
<1>1. QED
  BY Initially, Preserved, PTL DEF Spec

(* For every graph: S_solve answers the roots that fhkS_setroot queued in  *)
(* their order, loses none of those queued during a yield in the middle of *)
(* a round, and every value of an answered root exists.                    *)
THEOREM RootsAnsweredInOrder == Spec => []AnsweredInOrder
<1>1. ASSUME IInv PROVE AnsweredInOrder
  <2>1. Answers
    BY <1>1 DEF IInv
  <2>2. asked = answered \o r_buf
    BY <2>1 DEF Answers
  <2>3. ASSUME NEW r \in Range(answered), NEW x \in Range(r)
        PROVE  IF x \in Given THEN x \in have ELSE val[x] # None
    <3>1. PICK i \in DOMAIN answered : answered[i] = r
      BY DEF Range
    <3>2. PICK l \in DOMAIN answered[i] : answered[i][l] = x
      BY <3>1 DEF Range
    <3>3. QED
      BY <2>1, <3>2 DEF Answers
  <2>4. QED
    BY <2>2, <2>3 DEF AnsweredInOrder
<1>2. QED
  BY <1>1, SolverInvariant, PTL

(* For every graph: when S_compute_value asks the driver to call a model   *)
(* (J_modcall), that model has not been called before, for this or another *)
(* variable it returns, and all its computed and given parameters have     *)
(* values.                                                                 *)
THEOREM ModelsCalledReady == Spec => []CallsReady
<1>1. ASSUME IInv PROVE CallsReady
  <2> SUFFICES ASSUME Suspended, status.code = "MODCALL"
               PROVE  /\ status.of \notin called
                      /\ \A e \in Range(G.mod[status.of].params) : \A y \in Range(e) : val[y] # None
                      /\ Range(G.mod[status.of].given) \subseteq have
    BY DEF CallsReady
  <2>1. RunInv /\ pc = "yield"
    BY <1>1 DEF IInv, Suspended
  <2>2. ValueInv /\ V # <<>>
    BY <2>1 DEF RunInv, Where
  <2>3. PICK n \in DOMAIN V : n = Len(V) /\ V[n] \in Activation
    BY <2>1, <2>2, ActIs
  <2>4. PICK m : m = V[n].m
    OBVIOUS
  <2>5. /\ status.of = m /\ V[n].edge > Len(G.mod[m].params)
        /\ Range(G.mod[m].given) \subseteq have /\ Activated(n)
    BY <2>1, <2>2, <2>3, <2>4 DEF ValueInv, Act
  <2>6. m \notin called
    BY <2>1, <2>4, <2>5 DEF Activated
  <2>7. G.mod[m].params \in Seq(Seq(Var)) /\ V[n].edge \in Nat
    <3>1. m \in Mod /\ V[n].edge \in Nat
      BY <2>3, <2>4 DEF Activation
    <3>2. G \in Graphs
      BY <2>1 DEF RunInv, TypeInv
    <3>3. QED
      BY <3>1, <3>2, ModIs
  <2>8. ASSUME NEW e \in DOMAIN G.mod[m].params, NEW k \in DOMAIN G.mod[m].params[e]
        PROVE  val[G.mod[m].params[e][k]] # None
    <3>1. e < V[n].edge
      BY <2>5, <2>7
    <3>2. Argued(n, G.mod[m].params[e][k])
      BY <2>4, <2>5, <3>1 DEF Activated
    <3>3. ~(n < Len(V)) /\ pc # "value"
      <4>1. Len(V) \in Nat
        BY <2>1, <2>2, ActIs
      <4>2. QED
        BY <2>1, <2>3, <4>1
    <3>4. QED
      BY <3>2, <3>3 DEF Argued
  <2>9. ASSUME NEW e \in Range(G.mod[m].params), NEW y \in Range(e) PROVE val[y] # None
    <3>1. PICK i \in DOMAIN G.mod[m].params : G.mod[m].params[i] = e
      BY DEF Range
    <3>2. PICK k \in DOMAIN G.mod[m].params[i] : G.mod[m].params[i][k] = y
      BY <3>1 DEF Range
    <3>3. QED
      BY <2>8, <3>2
  <2>10. QED
    BY <2>5, <2>6, <2>9
<1>2. QED
  BY <1>1, SolverInvariant, PTL

-----------------------------------------------------------------------------
(* Whose results are stored.                                               *)

(* A value was written for the model of the variable's chain, or by a      *)
(* direct model that is in the chain of something else it returns.         *)
Owned(x) ==
    val[x] # None =>
        /\ val[x] \in Mod
        /\ \/ sp[x].chain # None /\ sp[x].chain.m = val[x]
           \/ /\ ~RetBuf(val[x]) /\ x \in Returned(val[x])
              /\ \E y \in Returned(val[x]) : sp[y].chain # None /\ sp[y].chain.m = val[x]
Held(x) ==
    /\ sp[x].value \in BOOLEAN
    /\ sp[x].chain # None => sp[x].chain.m \in Mod /\ x \in Returned(sp[x].chain.m)
    /\ sp[x].value = TRUE =>
          sp[x].chain # None /\ (val[x] # None \/ \E i \in DOMAIN V : V[i].x = x)
OwnInv ==
    /\ G \in Graphs /\ \A x \in Var : Owned(x)
    /\ pc = "error" => \A x \in Var : Held(x)

(* No step replaces a chain, and those that end in an error leave chains   *)
(* and values alone.                                                       *)
SameChains == \A x \in Var : sp'[x].chain = sp[x].chain
SameValues == V' = V /\ val' = val /\ \A x \in Var : sp'[x].value = sp[x].value
KeepsChains == \A x \in Var : sp[x].chain # None => sp'[x].chain = sp[x].chain

LEMMA CostAlone ==
    ASSUME sp \in [Var -> VarState], NEW x \in Var, NEW c, sp' = [sp EXCEPT ![x].cost = c]
    PROVE  SameChains /\ \A y \in Var : sp'[y].value = sp[y].value
<1>1. ASSUME NEW y \in Var PROVE sp'[y].chain = sp[y].chain /\ sp'[y].value = sp[y].value
  BY DEF VarState
<1>2. QED
  BY <1>1 DEF SameChains

LEMMA ChainAlone ==
    ASSUME sp \in [Var -> VarState], NEW x \in Var, NEW c, sp' = [sp EXCEPT ![x].chain = c],
           sp[x].chain = None
    PROVE  KeepsChains
<1>1. ASSUME NEW y \in Var, sp[y].chain # None PROVE sp'[y].chain = sp[y].chain
  BY <1>1 DEF VarState
<1>2. QED
  BY <1>1 DEF KeepsChains

LEMMA SelectKeeps ==
    ASSUME RunInv, SelectChain
    PROVE  G' = G /\ val' = val /\ KeepsChains /\ (pc' = "error" => SameChains /\ SameValues)
<1>1. sp \in [Var -> VarState] /\ G \in Graphs
  BY DEF RunInv, TypeInv
<1>2. G' = G /\ val' = val /\ V' = V
  <2>1. UNCHANGED value_vars => val' = val /\ V' = V
    BY DEF value_vars
  <2>2. CASE XSolve \/ Candidate \/ ShadowsDone \/ ShadowEdgePassed \/ Shadow \/ Check
    BY <2>1, <2>2 DEF XSolve, Candidate, ShadowsDone, ShadowEdgePassed, Shadow, Check, graph_vars
  <2>3. CASE Param \/ ParamEdgeDone \/ ChainSolved \/ XChosen \/ XFailed \/ XBound
    BY <2>1, <2>3 DEF Param, ParamEdgeDone, ChainSolved, XChosen, XFailed, XBound, graph_vars
  <2>4. QED
    BY <2>2, <2>3 DEF SelectChain
<1>3. SameChains => KeepsChains
  BY DEF SameChains, KeepsChains
<1>4. ASSUME sp' = sp PROVE SameChains /\ \A y \in Var : sp'[y].value = sp[y].value
  BY <1>4 DEF SameChains
<1>5. ASSUME NEW x \in Var, NEW c, sp' = [sp EXCEPT ![x].cost = c]
      PROVE  SameChains /\ \A y \in Var : sp'[y].value = sp[y].value
  BY <1>1, <1>5, CostAlone
<1>6. ASSUME NEW x \in Var, NEW c, sp' = [sp EXCEPT ![x].chain = c], sp[x].chain = None
      PROVE  KeepsChains
  BY <1>1, <1>6, ChainAlone
<1>7. Len(X) > 1 => Top.x \in Var
  BY <1>1, TopFrame DEF Frame
<1>8. CASE XSolve
  <2>1. arg.x \in Var
    BY <1>8 DEF XSolve, RunInv, Where
  <2>2. sp' = sp \/ sp' = [sp EXCEPT ![arg.x].cost = -1]
    BY <1>8 DEF XSolve
  <2>3. QED
    BY <1>2, <1>3, <1>4, <1>5, <2>1, <2>2 DEF SameValues
<1>9. CASE Candidate
  <2>1. Len(X) > 1 /\ pc = "candidate"
    BY <1>9 DEF Candidate, RunInv, Where, Searching
  <2>2. sp[Top.x].chain = None /\ Top.x \in Var
    BY <1>7, <2>1 DEF RunInv, StackInv, TopInv
  <2>3. pc' # "error" /\ (sp' = sp \/ \E c : sp' = [sp EXCEPT ![Top.x].chain = c])
    BY <1>9 DEF Candidate
  <2>4. QED
    BY <1>2, <1>3, <1>4, <1>6, <2>2, <2>3
<1>10. CASE ChainSolved
  <2>1. Len(X) > 1 /\ pc = "param"
    BY <1>10 DEF ChainSolved, RunInv, Where, Searching
  <2>2. sp[Top.x].chain = None /\ Top.x \in Var
    BY <1>7, <2>1 DEF RunInv, StackInv, TopInv
  <2>3. pc' # "error" /\ \E c : sp' = [sp EXCEPT ![Top.x].chain = c]
    BY <1>10 DEF ChainSolved
  <2>4. QED
    BY <1>2, <1>6, <2>2, <2>3
<1>11. CASE XChosen \/ XFailed
  <2>1. Len(X) > 1
    BY <1>11 DEF XChosen, XFailed, RunInv, Where, Searching
  <2>2. \E c : sp' = [sp EXCEPT ![Top.x].cost = c]
    BY <1>11 DEF XChosen, XFailed
  <2>3. QED
    BY <1>2, <1>3, <1>5, <1>7, <2>1, <2>2 DEF SameValues
<1>12. CASE ShadowsDone \/ ShadowEdgePassed \/ Shadow \/ Check \/ Param \/ ParamEdgeDone \/ XBound
  <2>1. sp' = sp
    BY <1>12 DEF ShadowsDone, ShadowEdgePassed, Shadow, Check, Param, ParamEdgeDone, XBound
  <2>2. QED
    BY <1>2, <1>3, <1>4, <2>1 DEF SameValues
<1>13. QED
  BY <1>8, <1>9, <1>10, <1>11, <1>12 DEF SelectChain

LEMMA HeldNow == ASSUME RunInv, NEW x \in Var PROVE Held(x)
<1>1. sp[x].value \in BOOLEAN
  <2>1. sp \in [Var -> VarState]
    BY DEF RunInv, TypeInv
  <2>2. QED
    BY <2>1 DEF VarState
<1>2. sp[x].value = TRUE => sp[x].chain # None
  BY DEF RunInv, ChainInv
<1>3. sp[x].value = TRUE => (val[x] # None \/ \E i \in DOMAIN V : V[i].x = x)
  BY DEF RunInv, ValueInv
<1>4. sp[x].chain # None => sp[x].chain.m \in Mod /\ x \in Returned(sp[x].chain.m)
  <2>1. sp[x] \in VarState
    BY DEF RunInv, TypeInv
  <2>2. sp[x].chain # None => sp[x].chain \in Link
    BY <2>1 DEF VarState
  <2>3. QED
    BY <2>2 DEF RunInv, ChainInv, Link
<1>5. QED
  BY <1>1, <1>2, <1>3, <1>4, Zenon DEF Held

LEMMA HeldKept ==
    ASSUME G' = G, SameChains, SameValues, NEW x \in Var, Held(x) PROVE Held(x)'
<1>1. V' = V /\ val' = val /\ sp'[x].value = sp[x].value /\ sp'[x].chain = sp[x].chain
  BY DEF SameChains, SameValues
<1>2. Mod' = Mod /\ \A m : Returned(m)' = Returned(m)
  BY DEF Mod, Returned
<1>3. PICK c : c = sp[x].chain
  OBVIOUS
<1>4. sp'[x].chain = c /\ Returned(c.m)' = Returned(c.m)
  BY <1>1, <1>2, <1>3
<1>5. QED
  BY <1>1, <1>2, <1>3, <1>4, Zenon DEF Held

LEMMA OwnedKept ==
    ASSUME G \in Graphs, G' = G, KeepsChains, NEW x \in Var, val'[x] = val[x], Owned(x)
    PROVE  Owned(x)'
<1> SUFFICES ASSUME val[x] # None
             PROVE  /\ val[x] \in Mod
                    /\ \/ sp'[x].chain # None /\ sp'[x].chain.m = val[x]
                       \/ /\ ~RetBuf(val[x]) /\ x \in Returned(val[x])
                          /\ \E y \in Returned(val[x]) : sp'[y].chain # None /\ sp'[y].chain.m = val[x]
  <2>1. Mod' = Mod /\ (\A m : RetBuf(m)' <=> RetBuf(m)) /\ (\A m : Returned(m)' = Returned(m))
    BY DEF Mod, RetBuf, Returned
  <2>2. PICK v : v = val[x]
    OBVIOUS
  <2>3. val'[x] = v
    BY <2>2
  <2>4. /\ (v \in Mod)' <=> v \in Mod
        /\ RetBuf(v)' <=> RetBuf(v)
        /\ Returned(v)' = Returned(v)
    BY <2>1
  <2>5. QED
    BY <2>1, <2>2, <2>3, Zenon DEF Owned
<1>1. val[x] \in Mod
  BY DEF Owned
<1>2. CASE sp[x].chain # None /\ sp[x].chain.m = val[x]
  BY <1>1, <1>2 DEF KeepsChains
<1>3. CASE /\ ~RetBuf(val[x]) /\ x \in Returned(val[x])
           /\ \E y \in Returned(val[x]) : sp[y].chain # None /\ sp[y].chain.m = val[x]
  <2>1. PICK y \in Returned(val[x]) : sp[y].chain # None /\ sp[y].chain.m = val[x]
    BY <1>3
  <2>2. y \in Var
    BY <1>1, ReturnedIs
  <2>3. sp'[y].chain # None /\ sp'[y].chain.m = val[x]
    BY <2>1, <2>2 DEF KeepsChains
  <2>4. QED
    BY <1>1, <1>3, <2>3
<1>4. QED
  BY <1>2, <1>3 DEF Owned

(* The value of a model m that returns x.                                  *)
LEMMA OwnedNew ==
    ASSUME G' = G, NEW x \in Var, NEW m \in Mod, NEW z \in Returned(m), val'[x] = m,
           sp'[z].chain # None, sp'[z].chain.m = m,
           x = z \/ (~RetBuf(m) /\ x \in Returned(m))
    PROVE  Owned(x)'
<1>1. Mod' = Mod /\ (RetBuf(m)' <=> RetBuf(m)) /\ Returned(m)' = Returned(m)
  BY DEF Mod, RetBuf, Returned
<1>2. m \in Mod'
  BY <1>1
<1>3. QED
  BY <1>1, <1>2, Zenon DEF Owned

LEMMA SpKept ==
    ASSUME G \in Graphs, G' = G, sp' = sp, val' = val, \A x \in Var : Owned(x)
    PROVE  \A x \in Var : Owned(x)'
<1>1. KeepsChains
  BY DEF KeepsChains
<1>2. QED
  BY <1>1, OwnedKept

LEMMA ActiveIs ==
    ASSUME RunInv, V # <<>>
    PROVE  /\ Act.m \in Mod /\ Act.x \in Var /\ Act.x \in Returned(Act.m)
           /\ sp[Act.x].chain # None /\ sp[Act.x].chain.m = Act.m
<1>1. Act.m \in Mod /\ Act.x \in Var /\ Len(V) \in DOMAIN V
  BY ActIs
<1>2. Activated(Len(V))
  BY <1>1 DEF RunInv, ValueInv
<1>3. sp[Act.x].chain # None /\ sp[Act.x].chain.m = Act.m
  BY <1>2 DEF Activated, Act
<1>4. QED
  BY <1>1, <1>3 DEF RunInv, ChainInv

LEMMA ComputeOwns ==
    ASSUME RunInv, \A x \in Var : Owned(x), Compute
    PROVE  (\A x \in Var : Owned(x)') /\ (pc' = "error" => SameChains /\ SameValues)
<1>1. sp \in [Var -> VarState] /\ G \in Graphs /\ val \in [Var -> Mod \cup {None}]
  BY DEF RunInv, TypeInv
<1>2. G' = G
  BY DEF Compute, ComputeValue, Args, Modcall, Unpack, graph_vars
<1>3. CASE ComputeValue
  <2>1. arg.x \in Var
    BY <1>3 DEF ComputeValue, RunInv, Where
  <2>2. val' = val
    BY <1>3 DEF ComputeValue
  <2>3. sp' = sp \/ sp' = [sp EXCEPT ![arg.x].value = TRUE]
    BY <1>3 DEF ComputeValue
  <2>4. \A y \in Var : sp'[y].chain = sp[y].chain
    <3>1. ASSUME NEW y \in Var PROVE sp'[y].chain = sp[y].chain
      BY <1>1, <2>1, <2>3 DEF VarState
    <3>2. QED
      BY <3>1
  <2>5. KeepsChains
    BY <2>4 DEF KeepsChains
  <2>6. ASSUME pc' = "error" PROVE SameChains /\ SameValues
    <3>1. sp' = sp /\ V' = V
      BY <1>3, <2>6 DEF ComputeValue
    <3>2. QED
      BY <2>2, <3>1 DEF SameChains, SameValues
  <2>7. QED
    BY <1>1, <1>2, <2>2, <2>5, <2>6, OwnedKept
<1>4. CASE Args \/ Modcall
  <2>1. sp' = sp /\ val' = val
    BY <1>4 DEF Args, Modcall, value_vars
  <2>2. pc' # "error"
    BY <1>4 DEF Args, Modcall, Vref
  <2>3. QED
    BY <1>1, <1>2, <2>1, <2>2, SpKept
<1>5. CASE Unpack
  <2>1. V # <<>> /\ pc' # "error" /\ sp' = sp
    BY <1>5 DEF Unpack, RunInv, Where
  <2>2. PICK m \in Mod, z \in Var :
           /\ m = Act.m /\ z = Act.x /\ z \in Returned(m) /\ sp[z].chain # None /\ sp[z].chain.m = m
    BY <2>1, ActiveIs
  <2>3. val' = val \/ val' = [val EXCEPT ![z] = m]
    BY <1>5, <2>2 DEF Unpack
  <2>4. KeepsChains
    BY <2>1 DEF KeepsChains
  <2>5. ASSUME NEW x \in Var PROVE Owned(x)'
    <3>1. CASE val'[x] = val[x]
      BY <1>1, <1>2, <2>4, <3>1, OwnedKept
    <3>2. CASE val'[x] # val[x]
      <4>1. x = z /\ val'[x] = m
        BY <1>1, <2>3, <3>2
      <4>2. QED
        BY <1>2, <2>1, <2>2, <4>1, OwnedNew
    <3>3. QED
      BY <3>1, <3>2
  <2>6. QED
    BY <2>1, <2>5
<1>6. QED
  BY <1>3, <1>4, <1>5 DEF Compute

LEMMA ContinueOwns ==
    ASSUME RunInv, \A x \in Var : Owned(x), Continue
    PROVE  (\A x \in Var : Owned(x)') /\ (pc' = "error" => SameChains /\ SameValues)
<1>1. G \in Graphs /\ G' = G /\ sp' = sp /\ V' = V
  BY DEF RunInv, TypeInv, Continue, graph_vars
<1>2. /\ pc = "yield"
      /\ \/ status.code = "OK"
         \/ status.code = "MODCALL" /\ V # <<>>
         \/ status.code = "VREF"
  BY DEF Continue, Suspended, RunInv, Where
<1>3. CASE status.code # "MODCALL"
  <2>1. val' = val
    BY <1>2, <1>3 DEF Continue
  <2>2. QED
    BY <1>1, <2>1, SpKept DEF SameChains, SameValues
<1>4. CASE status.code = "MODCALL"
  <2>1. V # <<>> /\ status.of = Act.m /\ pc' # "error"
    BY <1>2, <1>4 DEF Continue, RunInv, ValueInv
  <2>2. PICK m \in Mod, z \in Var :
           /\ m = Act.m /\ z = Act.x /\ z \in Returned(m) /\ sp[z].chain # None /\ sp[z].chain.m = m
    BY <2>1, ActiveIs
  <2>3. val' = [x \in Var |-> IF ~RetBuf(m) /\ x \in Returned(m) THEN m ELSE val[x]]
    BY <1>4, <2>1, <2>2 DEF Continue
  <2>4. KeepsChains
    BY <1>1 DEF KeepsChains
  <2>5. ASSUME NEW x \in Var PROVE Owned(x)'
    <3>1. CASE ~RetBuf(m) /\ x \in Returned(m)
      <4>1. val'[x] = m
        BY <2>3, <3>1
      <4>2. QED
        BY <1>1, <2>2, <3>1, <4>1, OwnedNew
    <3>2. CASE ~(~RetBuf(m) /\ x \in Returned(m))
      <4>1. val'[x] = val[x]
        BY <2>3, <3>2
      <4>2. QED
        BY <1>1, <2>4, <4>1, OwnedKept
    <3>3. QED
      BY <3>1, <3>2
  <2>6. QED
    BY <2>1, <2>5
<1>5. QED
  BY <1>3, <1>4

LEMMA OthersOwn ==
    ASSUME RunInv, \A x \in Var : Owned(x),
           Solve \/ (\E r \in G.roots : SetRoot(r)) \/ (\E y \in G.given : SetValue(y))
    PROVE  (\A x \in Var : Owned(x)') /\ (pc' = "error" => SameChains /\ SameValues)
<1>1. G \in Graphs
  BY DEF RunInv, TypeInv
<1>2. G' = G /\ sp' = sp /\ val' = val /\ V' = V
  <2>1. CASE Solve
    BY <2>1 DEF Solve, Start, Givens, Chains, Values, Collect, graph_vars, value_vars
  <2>2. CASE (\E r \in G.roots : SetRoot(r)) \/ (\E y \in G.given : SetValue(y))
    BY <2>2 DEF SetRoot, SetValue, graph_vars, value_vars
  <2>3. QED
    BY <2>1, <2>2
<1>3. QED
  BY <1>1, <1>2, SpKept DEF SameChains, SameValues

LEMMA OwnInitially == Init => OwnInv
<1> SUFFICES ASSUME Init PROVE OwnInv
  OBVIOUS
<1>1. G \in Graphs /\ pc = "start" /\ val = [x \in Var |-> None]
  BY DEF Init
<1>2. QED
  BY <1>1 DEF OwnInv, Owned

LEMMA OwnPreserved == IInv /\ OwnInv /\ [Next]_vars => OwnInv'
<1> SUFFICES ASSUME IInv, OwnInv, [Next]_vars PROVE OwnInv'
  OBVIOUS
<1>1. G \in Graphs /\ \A x \in Var : Owned(x)
  BY DEF OwnInv
<1>2. CASE UNCHANGED vars
  <2>1. G' = G /\ pc' = pc /\ sp' = sp /\ val' = val /\ V' = V /\ Var' = Var
    BY <1>2 DEF vars, graph_vars, Var
  <2>2. \A x \in Var : Owned(x)'
    BY <1>1, <2>1, SpKept
  <2>3. ASSUME pc = "error", NEW x \in Var PROVE Held(x)'
    <3>1. SameChains /\ SameValues
      BY <2>1 DEF SameChains, SameValues
    <3>2. Held(x)
      BY <2>3 DEF OwnInv
    <3>3. QED
      BY <2>1, <3>1, <3>2, HeldKept
  <2>4. QED
    BY <1>1, <2>1, <2>2, <2>3 DEF OwnInv
<1>3. CASE Next /\ pc = "error"
  BY <1>2, <1>3, ErrorStays
<1>4. CASE Next /\ pc # "error"
  <2>1. RunInv
    BY <1>4 DEF IInv
  <2>2. (\A x \in Var : Owned(x)') /\ (pc' = "error" => SameChains /\ SameValues)
    <3>1. CASE SelectChain
      <4>1. G' = G /\ val' = val /\ KeepsChains /\ (pc' = "error" => SameChains /\ SameValues)
        BY <2>1, <3>1, SelectKeeps
      <4>2. QED
        BY <1>1, <4>1, OwnedKept
    <3>2. CASE Compute
      BY <1>1, <2>1, <3>2, ComputeOwns
    <3>3. CASE Continue
      BY <1>1, <2>1, <3>3, ContinueOwns
    <3>4. CASE Solve \/ (\E r \in G.roots : SetRoot(r)) \/ (\E y \in G.given : SetValue(y))
      BY <1>1, <2>1, <3>4, OthersOwn
    <3>5. ~ContinueError
      BY <1>4 DEF ContinueError
    <3>6. QED
      BY <1>4, <3>1, <3>2, <3>3, <3>4, <3>5 DEF Next, Solver
  <2>3. G' = G
    <3>1. CASE SelectChain
      BY <2>1, <3>1, SelectKeeps
    <3>2. CASE Compute \/ Continue
      BY <3>2 DEF Compute, ComputeValue, Args, Modcall, Unpack, Continue, graph_vars
    <3>3. CASE Solve \/ (\E r \in G.roots : SetRoot(r)) \/ (\E y \in G.given : SetValue(y))
      BY <3>3 DEF Solve, Start, Givens, Chains, Values, Collect, SetRoot, SetValue, graph_vars
    <3>4. ~ContinueError
      BY <1>4 DEF ContinueError
    <3>5. QED
      BY <1>4, <3>1, <3>2, <3>3, <3>4 DEF Next, Solver
  <2>4. Var' = Var /\ G' \in Graphs
    BY <1>1, <2>3 DEF Var
  <2>5. ASSUME pc' = "error", NEW x \in Var PROVE Held(x)'
    BY <2>1, <2>2, <2>3, <2>5, HeldNow, HeldKept
  <2>6. QED
    BY <2>2, <2>4, <2>5 DEF OwnInv
<1>5. QED
  BY <1>2, <1>3, <1>4

LEMMA OwnInvariant == Spec => []OwnInv
<1>1. QED
  BY OwnInitially, OwnPreserved, SolverInvariant, PTL DEF Spec

(* For every graph: as long as a model that returns directly into the      *)
(* variables is the choice of all of them (what g_mretbuf relies on when   *)
(* it gives the model no buffer), the value stored for a variable is the   *)
(* result of the model of its chain, whichever models are called in which  *)
(* order.                                                                  *)
THEOREM ValuesFromOwnModels == Spec => [](DirectModelsAlwaysChosen => ValuesFromChain)
<1>1. ASSUME IInv, OwnInv PROVE DirectModelsAlwaysChosen => ValuesFromChain
  <2> SUFFICES ASSUME DirectModelsAlwaysChosen,
                      NEW x \in Var, sp[x].value /\ \A i \in DOMAIN V : V[i].x # x
               PROVE  val[x] = sp[x].chain.m
    BY DEF ValuesFromChain
  <2>1. Held(x)
    BY <1>1, HeldNow DEF IInv, OwnInv
  <2>2. sp[x].chain # None /\ val[x] # None
    BY <2>1 DEF Held
  <2>3. PICK m \in Mod : m = val[x]
    BY <1>1, <2>2 DEF OwnInv, Owned
  <2>4. CASE ~RetBuf(m) /\ x \in Returned(m)
             /\ \E y \in Returned(m) : sp[y].chain # None /\ sp[y].chain.m = m
    BY <2>2, <2>3, <2>4 DEF DirectModelsAlwaysChosen
  <2>5. CASE sp[x].chain # None /\ sp[x].chain.m = m
    BY <2>3, <2>5
  <2>6. QED
    BY <1>1, <2>2, <2>3, <2>4, <2>5 DEF OwnInv, Owned
<1>2. QED
  BY <1>1, OwnInvariant, SolverInvariant, PTL

(* A direct model returns one instance only, or nothing that another model *)
(* instance returns as well.                                               *)
DirectModelsAlone ==
    \A m \in Mod : ~RetBuf(m) =>
        \/ \A x, y \in Returned(m) : x = y
        \/ \A n \in Mod : n # m => Returned(n) \cap Returned(m) = {}

(* For every graph: where the two cases of g_mretbuf hold for instances,   *)
(* not only for models, values come from the model of their chain.         *)
THEOREM ValuesWhereDirectAlone == Spec => [](DirectModelsAlone => ValuesFromChain)
<1>1. ASSUME IInv, OwnInv, DirectModelsAlone PROVE DirectModelsAlwaysChosen
  <2> SUFFICES ASSUME NEW m \in Mod, ~RetBuf(m),
                      NEW y \in Returned(m), sp[y].chain # None, sp[y].chain.m = m,
                      NEW x \in Returned(m), sp[x].chain # None
               PROVE  sp[x].chain.m = m
    BY DEF DirectModelsAlwaysChosen
  <2>1. x \in Var
    BY <1>1, ReturnedIs DEF OwnInv
  <2>2. Held(x)
    BY <1>1, <2>1, HeldNow DEF IInv, OwnInv
  <2>3. PICK n \in Mod : n = sp[x].chain.m /\ x \in Returned(n)
    BY <2>2 DEF Held
  <2>4. (\A z, u \in Returned(m) : z = u) \/ (n # m => Returned(n) \cap Returned(m) = {})
    BY <1>1 DEF DirectModelsAlone
  <2>5. CASE \A z, u \in Returned(m) : z = u
    <3>1. x = y
      BY <2>5
    <3>2. QED
      BY <3>1
  <2>6. CASE n # m => Returned(n) \cap Returned(m) = {}
    BY <2>3, <2>6
  <2>7. QED
    BY <2>4, <2>5, <2>6
<1>2. QED
  BY <1>1, ValuesFromOwnModels, OwnInvariant, SolverInvariant, PTL

=============================================================================
