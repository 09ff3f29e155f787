---------------------------- MODULE PruneProofs ----------------------------
(***************************************************************************)
(* Proofs about Prune, for all graphs: the heap stays ordered, the bounds  *)
(* that are taken from it are the exact least costs, and what is selected  *)
(* can be computed, but for parameters behind user maps.                   *)
(***************************************************************************)
EXTENDS Prune, WellFoundedInduction, FiniteSetTheorems, SequenceTheorems, TLAPS

-----------------------------------------------------------------------------
(* The least-number principle, for proofs by a least counterexample where  *)
(* an induction would be needed.                                           *)

(* A set of numbers has an element below which, in any well-founded        *)
(* relation that agrees with <, there is none.                             *)
LEMMA LeastByRelation ==
    ASSUME NEW R, IsWellFoundedOn(R, Nat), \A x, y \in Nat : <<y, x>> \in R <=> y < x,
           NEW T, T \subseteq Nat, T # {}
    PROVE  \E x \in T : \A y \in T : x <= y
<1>1. PICK x \in T : \A y \in T : ~(<<y, x>> \in R)
  BY WFMin
<1>2. x \in Nat /\ \A y \in T : y \in Nat /\ ~(y < x)
  BY <1>1, Zenon
<1>3. \A y \in T : x <= y
  BY <1>2
<1>4. QED
  BY <1>3

(* Every nonempty set of natural numbers has a least element.              *)
LEMMA LeastNatural ==
    ASSUME NEW T, T \subseteq Nat, T # {}
    PROVE  \E x \in T : \A y \in T : x <= y
<1>1. \A x, y \in Nat : <<y, x>> \in OpToRel(<, Nat) <=> y < x
  BY DEF OpToRel
<1>2. QED
  BY <1>1, NatLessThanWellFounded, LeastByRelation

-----------------------------------------------------------------------------
(* Functions defined by recursion on 0 .. n, one step at a time: they      *)
(* exist, and their values stay in a set that every step stays in.         *)

Recursive(f, n, base, step) ==
    f = [i \in 0 .. n |-> IF i = 0 THEN base ELSE step[<<i, f[i - 1]>>]]

LEMMA RecursionType ==
    ASSUME NEW S, NEW n \in Nat, NEW base \in S, NEW step,
           \A i \in 1 .. n : \A s \in S : step[<<i, s>>] \in S,
           NEW f, Recursive(f, n, base, step)
    PROVE  f \in [0 .. n -> S]
<1> DEFINE T == {m \in Nat : m <= n /\ f[m] \notin S}
<1>1. /\ DOMAIN f = 0 .. n /\ f[0] = base
      /\ \A i \in 1 .. n : f[i] = step[<<i, f[i - 1]>>]
  <2>1. PICK g : g = f
    OBVIOUS
  <2>2. f = [i \in 0 .. n |-> IF i = 0 THEN base ELSE step[<<i, g[i - 1]>>]]
    BY <2>1, Zenon DEF Recursive
  <2>3. /\ DOMAIN f = 0 .. n
        /\ \A i \in 0 .. n : f[i] = IF i = 0 THEN base ELSE step[<<i, g[i - 1]>>]
    BY <2>2
  <2>4. 0 \in 0 .. n /\ \A i \in 1 .. n : i \in 0 .. n /\ i # 0
    OBVIOUS
  <2>5. f[0] = base /\ \A i \in 1 .. n : f[i] = step[<<i, g[i - 1]>>]
    BY <2>3, <2>4, Zenon
  <2>6. QED
    BY <2>1, <2>3, <2>5, Zenon
<1>2. T = {}
  <2> SUFFICES ASSUME T # {} PROVE FALSE
    OBVIOUS
  <2>1. PICK x \in T : \A y \in T : x <= y
    BY LeastNatural
  <2>2. x # 0
    BY <1>1, <2>1
  <2>3. x - 1 \in Nat /\ x - 1 <= n /\ ~(x <= x - 1) /\ x \in 1 .. n
    BY <2>1, <2>2
  <2>4. f[x - 1] \in S
    BY <2>1, <2>3
  <2>5. QED
    BY <1>1, <2>1, <2>3, <2>4
<1>3. \A m \in 0 .. n : f[m] \in S
  BY <1>2
<1>4. f = [i \in 0 .. n |-> f[i]]
  BY DEF Recursive
<1>5. QED
  BY <1>3, <1>4

LEMMA RecursionExists ==
    ASSUME NEW S, NEW n \in Nat, NEW base \in S, NEW step,
           \A i \in 1 .. n : \A s \in S : step[<<i, s>>] \in S
    PROVE  \E f : Recursive(f, n, base, step)
<1> DEFINE Exists(m) == \E f : Recursive(f, m, base, step)
           T == {m \in Nat : m <= n /\ ~Exists(m)}
<1> HIDE DEF Exists
<1> SUFFICES ASSUME T # {} PROVE FALSE
  <2>1. Exists(n)
    OBVIOUS
  <2>2. QED
    BY <2>1 DEF Exists
<1>1. PICK x \in T : \A y \in T : x <= y
  BY LeastNatural
<1>2. x # 0
  <2>1. Recursive([i \in 0 .. 0 |-> base], 0, base, step)
    BY DEF Recursive
  <2>2. Exists(0)
    BY <2>1 DEF Exists
  <2>3. QED
    BY <1>1, <2>2
<1>3. x \in Nat /\ x - 1 \in Nat /\ x - 1 <= n /\ ~(x <= x - 1)
  BY <1>1, <1>2
<1>4. x - 1 \notin T
  BY <1>1, <1>3
<1>5. Exists(x - 1)
  BY <1>3, <1>4
<1>6. PICK f : Recursive(f, x - 1, base, step)
  BY <1>5 DEF Exists
<1> DEFINE g == [i \in 0 .. x |-> IF i = x THEN step[<<x, f[x - 1]>>] ELSE f[i]]
<1>7. f[0] = base /\ \A i \in 1 .. x - 1 : f[i] = step[<<i, f[i - 1]>>]
  BY <1>3, <1>6 DEF Recursive
<1>8. \A i \in 0 .. x : g[i] = IF i = 0 THEN base ELSE step[<<i, g[i - 1]>>]
  <2> SUFFICES ASSUME NEW i \in 0 .. x
               PROVE  g[i] = IF i = 0 THEN base ELSE step[<<i, g[i - 1]>>]
    OBVIOUS
  <2>1. CASE i = 0
    BY <1>2, <1>3, <1>7, <2>1
  <2>2. CASE i # 0
    <3>1. g[i - 1] = f[i - 1]
      BY <1>3, <2>2
    <3>2. g[i] = step[<<i, f[i - 1]>>]
      <4>1. CASE i = x
        BY <4>1
      <4>2. CASE i # x
        <5>1. i \in 1 .. x - 1 /\ g[i] = f[i]
          BY <1>3, <2>2, <4>2
        <5>2. QED
          BY <1>7, <5>1
      <4>3. QED
        BY <4>1, <4>2
    <3> HIDE DEF g
    <3>3. QED
      BY <2>2, <3>1, <3>2
  <2>3. QED
    BY <2>1, <2>2
<1>9. g = [i \in 0 .. x |-> g[i]]
  OBVIOUS
<1> HIDE DEF g
<1>10. Recursive(g, x, base, step)
  BY <1>8, <1>9 DEF Recursive
<1>11. QED
  BY <1>1, <1>10 DEF Exists

-----------------------------------------------------------------------------
(* Loops and sums.                                                         *)

Runs(D, S, n, base, step) ==
    /\ D \in [0 .. n -> S] /\ D[0] = base
    /\ \A i \in 1 .. n : D[i] = step[<<i, D[i - 1]>>]

LEMMA UpTo ==
    ASSUME NEW n \in Nat, NEW A, 0 \in A, \A i \in 1 .. n : i - 1 \in A => i \in A
    PROVE  \A i \in 0 .. n : i \in A
<1> DEFINE T == {i \in Nat : i <= n /\ i \notin A}
<1>1. T = {}
  <2> SUFFICES ASSUME T # {} PROVE FALSE
    OBVIOUS
  <2>1. PICK k \in T : \A j \in T : k <= j
    BY LeastNatural
  <2>2. k # 0
    BY <2>1
  <2>3. k \in 1 .. n /\ k - 1 \in Nat /\ k - 1 <= n /\ ~(k <= k - 1)
    BY <2>1, <2>2
  <2>4. k - 1 \in A
    BY <2>1, <2>3
  <2>5. QED
    BY <2>1, <2>3, <2>4
<1>2. QED
  BY <1>1

LEMMA LoopRuns ==
    ASSUME NEW S, NEW n \in Nat, NEW base \in S, NEW step,
           \A i \in 1 .. n : \A s \in S : step[<<i, s>>] \in S
    PROVE  \E D : Runs(D, S, n, base, step)
<1>1. \E f : Recursive(f, n, base, step)
  BY RecursionExists
<1>2. PICK f : Recursive(f, n, base, step)
  BY <1>1
<1>3. f \in [0 .. n -> S]
  BY <1>2, RecursionType
<1>4. f[0] = base /\ \A i \in 1 .. n : f[i] = step[<<i, f[i - 1]>>]
  <2>1. f[0] = base
    BY <1>2 DEF Recursive
  <2>2. ASSUME NEW i \in 1 .. n PROVE f[i] = step[<<i, f[i - 1]>>]
    <3>1. i \in 0 .. n /\ i # 0
      OBVIOUS
    <3>2. QED
      BY <1>2, <3>1, Zenon DEF Recursive
  <2>3. QED
    BY <2>1, <2>2
<1>5. QED
  BY <1>3, <1>4 DEF Runs

(* Two descriptions of a loop agree when they do on the states it reaches. *)
LEMMA LoopTyped ==
    ASSUME NEW S, NEW n \in Nat, NEW base \in S, NEW step,
           \A i \in 1 .. n : \A s \in S : step[<<i, s>>] \in S,
           NEW D, D = [i \in 0 .. n |-> D[i]], D[0] = base,
           \A i \in 1 .. n : D[i - 1] \in S => D[i] = step[<<i, D[i - 1]>>]
    PROVE  Runs(D, S, n, base, step)
<1> DEFINE A == {i \in 0 .. n : D[i] \in S}
<1>1. 0 \in A
  OBVIOUS
<1>2. ASSUME NEW i \in 1 .. n, i - 1 \in A PROVE i \in A
  <2>1. D[i - 1] \in S
    BY <1>2
  <2>2. D[i] = step[<<i, D[i - 1]>>]
    BY <2>1
  <2>3. D[i] \in S
    BY <2>1, <2>2
  <2>4. QED
    BY <2>3
<1> HIDE DEF A
<1>3. \A i \in 0 .. n : i \in A
  BY <1>1, <1>2, UpTo
<1>4. \A i \in 0 .. n : D[i] \in S
  BY <1>3 DEF A
<1>5. D \in [0 .. n -> S]
  BY <1>4
<1>6. \A i \in 1 .. n : D[i] = step[<<i, D[i - 1]>>]
  <2> SUFFICES ASSUME NEW i \in 1 .. n PROVE D[i] = step[<<i, D[i - 1]>>]
    OBVIOUS
  <2>1. i - 1 \in 0 .. n
    OBVIOUS
  <2>2. QED
    BY <1>4, <2>1
<1>7. QED
  BY <1>5, <1>6 DEF Runs

-----------------------------------------------------------------------------
(* The heap.                                                               *)

HNode == [cost : Nat, color : {"GRAY", "BLACK"}, xi : Int]

LEMMA LessOrder ==
    ASSUME NEW a \in HNode, NEW b \in HNode
    PROVE  /\ ~Less(a, a)
           /\ Less(a, b) => ~Less(b, a)
           /\ ~Less(b, a) => a.cost <= b.cost
           /\ \A c \in HNode : ~Less(b, a) /\ ~Less(c, b) => ~Less(c, a)
BY DEF HNode, Less, ColorNum

LEMMA LessTransitive ==
    ASSUME NEW a \in HNode, NEW b \in HNode, NEW c \in HNode, Less(a, b), Less(b, c)
    PROVE  Less(a, c)
BY SMTT(30) DEF HNode, Less, ColorNum

Ordered(h) == \A i \in 2 .. Len(h) : ~Less(h[i], h[i \div 2])

Spot(n) == [h : {h \in Seq(HNode) : Len(h) = n}, pos : 1 .. n]

LEMMA Halves ==
    ASSUME NEW i \in Nat, i >= 2
    PROVE  /\ i \div 2 \in Nat /\ i \div 2 >= 1 /\ i \div 2 < i
           /\ \A p \in Nat : i \div 2 = p <=> i = 2 * p \/ i = 2 * p + 1
OBVIOUS

LEMMA SwapIs ==
    ASSUME NEW h \in Seq(HNode), NEW a \in 1 .. Len(h), NEW b \in 1 .. Len(h)
    PROVE  /\ Swap(h, a, b) \in Seq(HNode) /\ Len(Swap(h, a, b)) = Len(h)
           /\ \A i \in 1 .. Len(h) :
                 Swap(h, a, b)[i] = IF i = b THEN h[a] ELSE IF i = a THEN h[b] ELSE h[i]
           /\ Range(Swap(h, a, b)) = Range(h)
<1>0. PICK n \in Nat : n = Len(h) /\ h \in [1 .. n -> HNode] /\ a \in 1 .. n /\ b \in 1 .. n
  OBVIOUS
<1>1. h \in [1 .. n -> HNode]
  BY <1>0
<1>2. Swap(h, a, b) \in [1 .. n -> HNode]
  BY <1>0, <1>1 DEF Swap
<1>3. \A i \in 1 .. n : Swap(h, a, b)[i] = IF i = b THEN h[a] ELSE IF i = a THEN h[b] ELSE h[i]
  BY <1>0, <1>1 DEF Swap
<1>4. Swap(h, a, b) \in Seq(HNode) /\ Len(Swap(h, a, b)) = n
  BY <1>2
<1> DEFINE w == Swap(h, a, b)
<1> HIDE DEF w
<1>5. DOMAIN h = 1 .. n /\ DOMAIN w = 1 .. n
  BY <1>1, <1>2 DEF w
<1>6. \A i \in 1 .. n : w[i] = IF i = b THEN h[a] ELSE IF i = a THEN h[b] ELSE h[i]
  BY <1>3 DEF w
<1>7. \A i \in 1 .. n : \E j \in 1 .. n : w[i] = h[j]
  BY <1>0, <1>6
<1>8. \A i \in 1 .. n : \E j \in 1 .. n : h[i] = w[j]
  <2> SUFFICES ASSUME NEW i \in 1 .. n PROVE \E j \in 1 .. n : h[i] = w[j]
    OBVIOUS
  <2>1. CASE i = a
    BY <1>0, <1>6, <2>1
  <2>2. CASE i = b
    BY <1>0, <1>6, <2>2
  <2>3. CASE i # a /\ i # b
    BY <1>6, <2>3
  <2>4. QED
    BY <2>1, <2>2, <2>3
<1>9. Range(w) = Range(h)
  <2>1. \A y : y \in Range(w) <=> \E i \in 1 .. n : y = w[i]
    BY <1>5, Zenon DEF Range
  <2>2. \A y : y \in Range(h) <=> \E i \in 1 .. n : y = h[i]
    BY <1>5, Zenon DEF Range
  <2>3. \A y : y \in Range(w) <=> y \in Range(h)
    <3>1. ASSUME NEW y, y \in Range(w) PROVE y \in Range(h)
      BY <1>7, <2>1, <2>2, <3>1
    <3>2. ASSUME NEW y, y \in Range(h) PROVE y \in Range(w)
      <4>1. PICK i \in 1 .. n : y = h[i]
        BY <2>2, <3>2
      <4>2. \E j \in 1 .. n : h[i] = w[j]
        BY <1>8
      <4>3. QED
        BY <2>1, <4>1, <4>2
    <3>3. QED
      BY <3>1, <3>2, Zenon
  <2>4. QED
    BY <2>3, Zenon
<1>10. QED
  BY <1>0, <1>3, <1>4, <1>9 DEF w

(* The node that heap_insert lifts: everything else is in order, and its   *)
(* children are not below its parent.                                      *)
Rising(s, heap, node, n) ==
    /\ s \in Spot(n) /\ s.h[s.pos] = node
    /\ \A i \in 2 .. n : i # s.pos => ~Less(s.h[i], s.h[i \div 2])
    /\ \A i \in 2 .. n : i \div 2 = s.pos /\ s.pos > 1 => ~Less(s.h[i], s.h[s.pos \div 2])
    /\ Range(s.h) = Range(heap) \cup {node}

Rested(s, node) == s.pos = 1 \/ Less(s.h[s.pos \div 2], node)
UpOne(s, node) == IF s.pos = 1 \/ Less(s.h[s.pos \div 2], node) THEN s
                  ELSE [h |-> Swap(s.h, s.pos, s.pos \div 2), pos |-> s.pos \div 2]

LEMMA UpTyped ==
    ASSUME NEW n \in Nat, NEW s \in Spot(n), NEW node
    PROVE  UpOne(s, node) \in Spot(n)
<1>1. s.h \in Seq(HNode) /\ Len(s.h) = n /\ s.pos \in 1 .. n
  BY DEF Spot
<1>2. CASE s.pos = 1 \/ Less(s.h[s.pos \div 2], node)
  BY <1>2 DEF UpOne
<1>3. CASE ~(s.pos = 1 \/ Less(s.h[s.pos \div 2], node))
  <2>1. s.pos \div 2 \in 1 .. n
    BY <1>1, <1>3, Halves
  <2>2. Swap(s.h, s.pos, s.pos \div 2) \in Seq(HNode) /\ Len(Swap(s.h, s.pos, s.pos \div 2)) = n
    BY <1>1, <2>1, SwapIs
  <2>3. UpOne(s, node) = [h |-> Swap(s.h, s.pos, s.pos \div 2), pos |-> s.pos \div 2]
    BY <1>3 DEF UpOne
  <2>4. QED
    BY <2>1, <2>2, <2>3 DEF Spot
<1>4. QED
  BY <1>2, <1>3

LEMMA UpRising ==
    ASSUME NEW n \in Nat, NEW heap, NEW node \in HNode, NEW s, Rising(s, heap, node, n),
           ~Rested(s, node)
    PROVE  Rising(UpOne(s, node), heap, node, n) /\ UpOne(s, node).pos < s.pos
<1>1. PICK h \in Seq(HNode) : h = s.h /\ Len(h) = n
  BY DEF Rising, Spot
<1>2. PICK p \in 1 .. n : p = s.pos
  BY DEF Rising, Spot
<1>3. PICK u \in Nat : u = p \div 2
  BY <1>2, Halves
<1>4. p >= 2 /\ u \in 1 .. n /\ u < p /\ (p = 2 * u \/ p = 2 * u + 1)
  BY <1>2, <1>3, Halves DEF Rested
<1>5. ~Less(h[u], node)
  BY <1>1, <1>2, <1>3 DEF Rested
<1>6. PICK w : w = Swap(h, p, u)
  OBVIOUS
<1>7. UpOne(s, node) = [h |-> w, pos |-> u]
  BY <1>1, <1>2, <1>3, <1>6 DEF UpOne, Rested
<1>8. w \in Seq(HNode) /\ Len(w) = n /\ Range(w) = Range(h)
      /\ \A i \in 1 .. n : w[i] = IF i = u THEN h[p] ELSE IF i = p THEN h[u] ELSE h[i]
  <2>1. p \in 1 .. Len(h) /\ u \in 1 .. Len(h)
    BY <1>1, <1>4
  <2>2. /\ w \in Seq(HNode) /\ Len(w) = Len(h) /\ Range(w) = Range(h)
        /\ \A i \in 1 .. Len(h) : w[i] = IF i = u THEN h[p] ELSE IF i = p THEN h[u] ELSE h[i]
    <3>1. /\ Swap(h, p, u) \in Seq(HNode) /\ Len(Swap(h, p, u)) = Len(h)
          /\ \A i \in 1 .. Len(h) :
                Swap(h, p, u)[i] = IF i = u THEN h[p] ELSE IF i = p THEN h[u] ELSE h[i]
          /\ Range(Swap(h, p, u)) = Range(h)
      BY <2>1, SwapIs
    <3>2. QED
      BY <1>6, <3>1, Zenon
  <2>3. QED
    BY <1>1, <2>2
<1>9. /\ h[p] = node
      /\ \A i \in 2 .. n : i # p => ~Less(h[i], h[i \div 2])
      /\ \A i \in 2 .. n : i \div 2 = p => ~Less(h[i], h[u])
      /\ Range(h) = Range(heap) \cup {node}
  BY <1>1, <1>2, <1>3, <1>4 DEF Rising
<1>10. \A i \in 1 .. n : h[i] \in HNode
  BY <1>1
<1>11. ASSUME NEW i \in 2 .. n, i # u PROVE ~Less(w[i], w[i \div 2])
  <2>1. PICK j \in 1 .. n : j = i \div 2
    BY Halves
  <2>2. i \in 1 .. n /\ j < i /\ (i = 2 * j \/ i = 2 * j + 1)
    BY <2>1, Halves
  <2>3. CASE i = p
    <3>1. j = u /\ w[i] = h[u] /\ w[j] = node
      BY <1>3, <1>4, <1>8, <1>9, <2>1, <2>3
    <3>2. QED
      BY <1>5, <2>1, <3>1
  <2>4. CASE j = p
    <3>1. w[i] = h[i] /\ w[j] = h[u]
      BY <1>4, <1>8, <1>11, <2>2, <2>4
    <3>2. ~Less(h[i], h[u])
      BY <1>9, <2>1, <2>4
    <3>3. QED
      BY <2>1, <3>1, <3>2
  <2>5. CASE j = u /\ i # p
    <3>1. w[i] = h[i] /\ w[j] = node
      BY <1>4, <1>8, <1>9, <1>11, <2>2, <2>5
    <3>2. ~Less(h[i], h[u])
      BY <1>9, <2>1, <2>5
    <3>3. ~Less(h[i], node)
      BY <1>4, <1>5, <1>10, <2>2, <3>2, LessOrder
    <3>4. QED
      BY <2>1, <3>1, <3>3
  <2>6. CASE i # p /\ j # p /\ j # u
    <3>1. w[i] = h[i] /\ w[j] = h[j]
      BY <1>8, <1>11, <2>2, <2>6
    <3>2. QED
      BY <1>9, <2>1, <2>6, <3>1
  <2>7. QED
    BY <2>3, <2>4, <2>5, <2>6
<1>12. ASSUME NEW i \in 2 .. n, i \div 2 = u, u > 1 PROVE ~Less(w[i], w[u \div 2])
  <2>1. PICK v \in 1 .. n : v = u \div 2 /\ v < u
    BY <1>4, <1>12, Halves
  <2>2. w[v] = h[v]
    BY <1>4, <1>8, <2>1
  <2>3. u \in 2 .. n /\ ~Less(h[u], h[v])
    BY <1>4, <1>9, <1>12, <2>1
  <2>4. i \in 1 .. n /\ i # u
    BY <1>12, Halves
  <2>5. CASE i = p
    BY <1>8, <2>1, <2>2, <2>3, <2>4, <2>5
  <2>6. CASE i # p
    <3>1. w[i] = h[i] /\ ~Less(h[i], h[u])
      BY <1>8, <1>9, <1>12, <2>4, <2>6
    <3>2. ~Less(h[i], h[v])
      BY <1>4, <1>10, <2>1, <2>3, <2>4, <3>1, LessOrder
    <3>3. QED
      BY <2>1, <2>2, <3>1, <3>2
  <2>7. QED
    BY <2>5, <2>6
<1>13. w[u] = node
  BY <1>4, <1>8, <1>9
<1>14. [h |-> w, pos |-> u] \in Spot(n)
  BY <1>4, <1>8 DEF Spot
<1> DEFINE t == [h |-> w, pos |-> u]
<1>15. t.h = w /\ t.pos = u /\ t \in Spot(n)
  BY <1>14
<1> HIDE DEF t
<1>16. Rising(t, heap, node, n)
  BY <1>8, <1>9, <1>11, <1>12, <1>13, <1>15 DEF Rising
<1>17. QED
  BY <1>2, <1>4, <1>7, <1>15, <1>16 DEF t

LEMMA RisenOrdered ==
    ASSUME NEW n \in Nat, NEW heap, NEW node \in HNode, NEW s, Rising(s, heap, node, n),
           Rested(s, node)
    PROVE  Ordered(s.h) /\ s.h \in Seq(HNode) /\ Range(s.h) = Range(heap) \cup {node}
<1>1. s.h \in Seq(HNode) /\ Len(s.h) = n /\ s.pos \in 1 .. n
  BY DEF Rising, Spot
<1>2. ASSUME NEW i \in 2 .. n PROVE ~Less(s.h[i], s.h[i \div 2])
  <2>1. CASE i # s.pos
    BY <2>1 DEF Rising
  <2>2. CASE i = s.pos
    <3>1. Less(s.h[i \div 2], node) /\ s.h[i] = node
      BY <2>2 DEF Rested, Rising
    <3>2. i \div 2 \in 1 .. n
      BY Halves
    <3>3. s.h[i \div 2] \in HNode
      BY <1>1, <3>2
    <3>4. QED
      BY <3>1, <3>3, LessOrder
  <2>3. QED
    BY <2>1, <2>2
<1>3. QED
  BY <1>1, <1>2 DEF Ordered, Rising

LEMMA RisingRuns ==
    ASSUME NEW n \in Nat, NEW heap, NEW node \in HNode, NEW D, NEW s \in Spot(n),
           Rising(s, heap, node, n), D \in [0 .. n -> Spot(n)], D[0] = s,
           \A i \in 1 .. n : D[i] = UpOne(D[i - 1], node)
    PROVE  Rising(D[n], heap, node, n) /\ Rested(D[n], node)
<1> DEFINE A == {i \in 0 .. n : /\ Rising(D[i], heap, node, n)
                                /\ Rested(D[i], node) \/ D[i].pos <= n - i}
<1>1. 0 \in A
  <2>1. D[0].pos <= n - 0
    BY DEF Spot
  <2>2. QED
    BY <2>1
<1>2. ASSUME NEW i \in 1 .. n, i - 1 \in A PROVE i \in A
  <2>1. PICK t : t = D[i - 1]
    OBVIOUS
  <2>2. D[i] = UpOne(t, node)
    BY <2>1
  <2>3. Rising(t, heap, node, n) /\ (Rested(t, node) \/ t.pos <= n - (i - 1))
    BY <1>2, <2>1
  <2>4. CASE Rested(t, node)
    <3>1. UpOne(t, node) = t
      BY <2>4 DEF UpOne, Rested
    <3>2. QED
      BY <2>2, <2>3, <2>4, <3>1
  <2>5. CASE ~Rested(t, node)
    <3>1. Rising(D[i], heap, node, n) /\ D[i].pos < t.pos
      BY <2>2, <2>3, <2>5, UpRising
    <3>2. D[i].pos \in Int /\ t.pos \in Int
      <4>1. D[i] \in Spot(n) /\ t \in Spot(n)
        BY <2>3, <3>1 DEF Rising
      <4>2. QED
        BY <4>1 DEF Spot
    <3>3. D[i].pos <= n - i
      BY <2>3, <2>5, <3>1, <3>2
    <3>4. QED
      BY <3>1, <3>3
  <2>6. QED
    BY <2>4, <2>5
<1> HIDE DEF A
<1>3. n \in A
  <2>1. \A i \in 0 .. n : i \in A
    BY <1>1, <1>2, UpTo
  <2>2. QED
    BY <2>1
<1>4. Rising(D[n], heap, node, n) /\ (Rested(D[n], node) \/ D[n].pos <= n - n)
  BY <1>3 DEF A
<1>5. D[n].pos \in 1 .. n
  BY <1>4 DEF Rising, Spot
<1>6. QED
  BY <1>4, <1>5

(* heap_insert.                                                            *)
LEMMA InsertIs ==
    ASSUME NEW heap \in Seq(HNode), Ordered(heap), NEW node \in HNode
    PROVE  /\ HeapInsert(heap, node) \in Seq(HNode) /\ Ordered(HeapInsert(heap, node))
           /\ Range(HeapInsert(heap, node)) = Range(heap) \cup {node}
<1> DEFINE n == Len(heap) + 1
           base == [h |-> Append(heap, node), pos |-> n]
           step == [z \in (1 .. n) \X Spot(n) |-> UpOne(z[2], node)]
           D == CHOOSE f : f = [i \in 0 .. n |-> IF i = 0 THEN base ELSE UpOne(f[i - 1], node)]
<1>1. n \in Nat /\ n >= 1
  OBVIOUS
<1>2. HeapInsert(heap, node) = D[n].h
  BY DEF HeapInsert, UpOne
<1>3. Append(heap, node) \in Seq(HNode) /\ Len(Append(heap, node)) = n
      /\ Append(heap, node)[n] = node /\ \A i \in 1 .. Len(heap) : Append(heap, node)[i] = heap[i]
  OBVIOUS
<1>4. base \in Spot(n) /\ base.h = Append(heap, node) /\ base.pos = n
  BY <1>1, <1>3 DEF Spot
<1>5. Range(Append(heap, node)) = Range(heap) \cup {node}
  <2>1. \A y : y \in Range(Append(heap, node)) <=> \E i \in 1 .. n : y = Append(heap, node)[i]
    <3>1. DOMAIN Append(heap, node) = 1 .. n
      BY <1>3
    <3>2. QED
      BY <3>1, Zenon DEF Range
  <2>2. \A y : y \in Range(heap) <=> \E i \in 1 .. Len(heap) : y = heap[i]
    <3>1. DOMAIN heap = 1 .. Len(heap)
      OBVIOUS
    <3>2. QED
      BY <3>1, Zenon DEF Range
  <2>3. \A i : i \in 1 .. n <=> i \in 1 .. Len(heap) \/ i = n
    OBVIOUS
  <2> HIDE DEF n
  <2>4. \A y : y \in Range(Append(heap, node)) <=> y \in Range(heap) \cup {node}
    BY <1>3, <2>1, <2>2, <2>3
  <2>5. QED
    BY <2>4, Zenon
<1>6. Rising(base, heap, node, n)
  <2>1. ASSUME NEW i \in 2 .. n, i # n
        PROVE  ~Less(Append(heap, node)[i], Append(heap, node)[i \div 2])
    <3>1. i \in 2 .. Len(heap) /\ i \in 1 .. Len(heap) /\ i \div 2 \in 1 .. Len(heap)
      BY <2>1, Halves
    <3>2. ~Less(heap[i], heap[i \div 2])
      BY <3>1 DEF Ordered
    <3>3. QED
      BY <1>3, <3>1, <3>2
  <2>2. \A i \in 2 .. n : i \div 2 # n
    BY Halves
  <2> HIDE DEF n, base
  <2>3. QED
    BY <1>3, <1>4, <1>5, <2>1, <2>2 DEF Rising
<1> HIDE DEF n, base
<1>7. \A i \in 1 .. n : \A t \in Spot(n) :
         step[<<i, t>>] = UpOne(t, node) /\ step[<<i, t>>] \in Spot(n)
  <2> SUFFICES ASSUME NEW i \in 1 .. n, NEW t \in Spot(n)
               PROVE  step[<<i, t>>] = UpOne(t, node) /\ step[<<i, t>>] \in Spot(n)
    OBVIOUS
  <2>1. step[<<i, t>>] = UpOne(t, node)
    OBVIOUS
  <2>2. UpOne(t, node) \in Spot(n)
    BY <1>1, UpTyped
  <2> HIDE DEF step
  <2>3. QED
    BY <2>1, <2>2
<1> HIDE DEF step
<1>8. \E f : Runs(f, Spot(n), n, base, step)
  BY <1>1, <1>4, <1>7, LoopRuns
<1>9. PICK g : Runs(g, Spot(n), n, base, step)
  BY <1>8
<1>10. g = [i \in 0 .. n |-> IF i = 0 THEN base ELSE UpOne(g[i - 1], node)]
  <2>1. g \in [0 .. n -> Spot(n)] /\ g[0] = base /\ \A i \in 1 .. n : g[i] = step[<<i, g[i - 1]>>]
    BY <1>9 DEF Runs
  <2>2. ASSUME NEW i \in 0 .. n PROVE g[i] = IF i = 0 THEN base ELSE UpOne(g[i - 1], node)
    <3>1. CASE i = 0
      BY <2>1, <3>1
    <3>2. CASE i # 0
      <4>1. i \in 1 .. n /\ i - 1 \in 0 .. n
        BY <1>1, <3>2
      <4>2. g[i] = step[<<i, g[i - 1]>>] /\ g[i - 1] \in Spot(n)
        BY <2>1, <4>1
      <4>3. g[i] = UpOne(g[i - 1], node)
        BY <1>7, <4>1, <4>2
      <4>4. QED
        BY <3>2, <4>3
    <3>3. QED
      BY <3>1, <3>2
  <2>3. QED
    BY <2>1, <2>2
<1>11. D = [i \in 0 .. n |-> IF i = 0 THEN base ELSE UpOne(D[i - 1], node)]
  BY <1>10, Zenon
<1> HIDE DEF D
<1>12. D[0] = base /\ \A i \in 1 .. n : D[i] = UpOne(D[i - 1], node)
  <2>1. D[0] = base
    BY <1>1, <1>11
  <2>2. ASSUME NEW i \in 1 .. n PROVE D[i] = UpOne(D[i - 1], node)
    <3>1. i \in 0 .. n /\ i # 0
      OBVIOUS
    <3>2. QED
      BY <1>11, <3>1, Zenon
  <2>3. QED
    BY <2>1, <2>2
<1>13. Runs(D, Spot(n), n, base, step)
  <2>1. D = [i \in 0 .. n |-> D[i]]
    BY <1>11
  <2>2. \A i \in 1 .. n : D[i - 1] \in Spot(n) => D[i] = step[<<i, D[i - 1]>>]
    BY <1>7, <1>12
  <2>3. QED
    BY <1>1, <1>4, <1>7, <1>12, <2>1, <2>2, LoopTyped
<1>14. D \in [0 .. n -> Spot(n)]
  BY <1>13 DEF Runs
<1>15. Rising(D[n], heap, node, n) /\ Rested(D[n], node)
  BY <1>1, <1>4, <1>6, <1>12, <1>14, RisingRuns
<1>16. Ordered(D[n].h) /\ D[n].h \in Seq(HNode) /\ Range(D[n].h) = Range(heap) \cup {node}
  <2>1. PICK t : t = D[n]
    OBVIOUS
  <2>2. Rising(t, heap, node, n) /\ Rested(t, node)
    BY <1>15, <2>1
  <2>3. Ordered(t.h) /\ t.h \in Seq(HNode)
    BY <1>1, <2>2, RisenOrdered
  <2>4. Range(t.h) = Range(heap) \cup {node}
    BY <2>2 DEF Rising
  <2>5. QED
    BY <2>1, <2>3, <2>4
<1>17. QED
  BY <1>2, <1>16

-----------------------------------------------------------------------------
(* The node that heap_remove sinks: everything but its children is in      *)
(* order, and they are not below its parent.                               *)
Sinking(s, R, n) ==
    /\ s \in Spot(n)
    /\ \A i \in 2 .. n : i \div 2 # s.pos => ~Less(s.h[i], s.h[i \div 2])
    /\ \A i \in 2 .. n : i \div 2 = s.pos /\ s.pos > 1 => ~Less(s.h[i], s.h[s.pos \div 2])
    /\ Range(s.h) = R

Settled(s, n) == \A i \in 2 .. n : i \div 2 = s.pos => ~Less(s.h[i], s.h[s.pos])
DownOne(s) == [h |-> Swap(s.h, s.pos, Smallest(s.h, s.pos)), pos |-> Smallest(s.h, s.pos)]

LEMMA SmallestIs ==
    ASSUME NEW n \in Nat, NEW h \in [1 .. n -> HNode], NEW p \in 1 .. n
    PROVE  /\ Smallest(h, p) \in 1 .. n
           /\ Smallest(h, p) \in {p, 2 * p, 2 * p + 1}
           /\ Smallest(h, p) # p => Less(h[Smallest(h, p)], h[p])
           /\ \A i \in 2 .. n : i \div 2 = p => ~Less(h[i], h[Smallest(h, p)])
           /\ (\A i \in 2 .. n : i \div 2 = p => ~Less(h[i], h[p])) => Smallest(h, p) = p
<1>1. PICK l : l = IF 2 * p \in DOMAIN h /\ Less(h[2 * p], h[p]) THEN 2 * p ELSE p
  OBVIOUS
<1>2. PICK c : c = IF 2 * p + 1 \in DOMAIN h /\ Less(h[2 * p + 1], h[l]) THEN 2 * p + 1 ELSE l
  OBVIOUS
<1>3. Smallest(h, p) = c
  BY <1>1, <1>2 DEF Smallest
<1>4. DOMAIN h = 1 .. n /\ \A i \in 1 .. n : h[i] \in HNode
  OBVIOUS
<1>5. l \in 1 .. n /\ l \in {p, 2 * p} /\ (l # p => Less(h[l], h[p]))
  BY <1>1, <1>4
<1>6. 2 * p \in 1 .. n => ~Less(h[2 * p], h[l])
  <2>1. CASE l = p
    BY <1>1, <1>4, <2>1
  <2>2. CASE l # p
    BY <1>4, <1>5, <2>2, LessOrder
  <2>3. QED
    BY <2>1, <2>2
<1>7. c \in 1 .. n /\ c \in {l, 2 * p + 1} /\ (c # l => Less(h[c], h[l]))
  BY <1>2, <1>4, <1>5
<1>8. ~Less(h[l], h[c])
  BY <1>4, <1>5, <1>7, LessOrder
<1>9. 2 * p + 1 \in 1 .. n => ~Less(h[2 * p + 1], h[c])
  <2>1. CASE c = l
    BY <1>2, <1>4, <1>5, <2>1
  <2>2. CASE c # l
    BY <1>4, <1>7, <2>2, LessOrder
  <2>3. QED
    BY <2>1, <2>2
<1>10. 2 * p \in 1 .. n => ~Less(h[2 * p], h[c])
  BY <1>4, <1>5, <1>6, <1>7, <1>8, LessOrder
<1>11. ~Less(h[p], h[c])
  BY <1>4, <1>5, <1>7, <1>8, LessOrder
<1>12. c # p => Less(h[c], h[p])
  <2>1. CASE c = l
    BY <1>5, <2>1
  <2>2. CASE c # l /\ l = p
    BY <1>7, <2>2
  <2>3. CASE c # l /\ l # p
    <3>1. Less(h[c], h[l]) /\ Less(h[l], h[p])
      BY <1>5, <1>7, <2>3
    <3>2. h[c] \in HNode /\ h[l] \in HNode /\ h[p] \in HNode
      BY <1>4, <1>5, <1>7
    <3>3. QED
      BY <3>1, <3>2, LessTransitive
  <2>4. QED
    BY <2>1, <2>2, <2>3
<1>13. ASSUME NEW i \in 2 .. n, i \div 2 = p PROVE (i = 2 * p \/ i = 2 * p + 1) /\ i \in 1 .. n
  BY <1>13, Halves
<1>14. \A i \in 2 .. n : i \div 2 = p => ~Less(h[i], h[c])
  BY <1>9, <1>10, <1>13
<1>15. ASSUME \A i \in 2 .. n : i \div 2 = p => ~Less(h[i], h[p]) PROVE c = p
  <2>1. SUFFICES ASSUME c # p PROVE FALSE
    OBVIOUS
  <2>2. c \in 2 .. n /\ c \div 2 = p
    BY <1>5, <1>7, <2>1, Halves
  <2>3. QED
    BY <1>12, <1>15, <2>1, <2>2
<1>16. QED
  BY <1>3, <1>5, <1>7, <1>12, <1>14, <1>15

LEMMA DownTyped ==
    ASSUME NEW n \in Nat, NEW s \in Spot(n)
    PROVE  DownOne(s) \in Spot(n)
<1>1. PICK h \in Seq(HNode) : h = s.h /\ Len(h) = n
  BY DEF Spot
<1>2. PICK p \in 1 .. n : p = s.pos
  BY DEF Spot
<1>3. PICK c : c = Smallest(h, p)
  OBVIOUS
<1>4. c \in 1 .. n
  <2>1. h \in [1 .. n -> HNode]
    BY <1>1
  <2>2. QED
    BY <1>3, <2>1, SmallestIs
<1>5. Swap(h, p, c) \in Seq(HNode) /\ Len(Swap(h, p, c)) = n
  BY <1>1, <1>4, SwapIs
<1>6. DownOne(s) = [h |-> Swap(h, p, c), pos |-> c]
  BY <1>1, <1>2, <1>3 DEF DownOne
<1>7. QED
  BY <1>4, <1>5, <1>6 DEF Spot

LEMMA DownSinking ==
    ASSUME NEW n \in Nat, NEW R, NEW s, Sinking(s, R, n)
    PROVE  /\ Sinking(DownOne(s), R, n)
           /\ Settled(s, n) => Settled(DownOne(s), n)
           /\ Settled(DownOne(s), n) \/ DownOne(s).pos > s.pos
<1>1. PICK h \in Seq(HNode) : h = s.h /\ Len(h) = n
  BY DEF Sinking, Spot
<1>2. PICK p \in 1 .. n : p = s.pos
  BY DEF Sinking, Spot
<1>3. PICK c : c = Smallest(h, p)
  OBVIOUS
<1>4. /\ c \in 1 .. n /\ c \in {p, 2 * p, 2 * p + 1}
      /\ c # p => Less(h[c], h[p])
      /\ \A i \in 2 .. n : i \div 2 = p => ~Less(h[i], h[c])
      /\ (\A i \in 2 .. n : i \div 2 = p => ~Less(h[i], h[p])) => c = p
  <2>1. h \in [1 .. n -> HNode]
    BY <1>1
  <2>2. QED
    BY <1>3, <2>1, SmallestIs
<1>5. PICK w : w = Swap(h, p, c)
  OBVIOUS
<1>6. DownOne(s) = [h |-> w, pos |-> c]
  BY <1>1, <1>2, <1>3, <1>5 DEF DownOne
<1>7. w \in Seq(HNode) /\ Len(w) = n /\ Range(w) = Range(h)
      /\ \A i \in 1 .. n : w[i] = IF i = c THEN h[p] ELSE IF i = p THEN h[c] ELSE h[i]
  <2>1. p \in 1 .. Len(h) /\ c \in 1 .. Len(h)
    BY <1>1, <1>4
  <2>2. /\ Swap(h, p, c) \in Seq(HNode) /\ Len(Swap(h, p, c)) = Len(h)
        /\ \A i \in 1 .. Len(h) :
              Swap(h, p, c)[i] = IF i = c THEN h[p] ELSE IF i = p THEN h[c] ELSE h[i]
        /\ Range(Swap(h, p, c)) = Range(h)
    BY <2>1, SwapIs
  <2>3. /\ w \in Seq(HNode) /\ Len(w) = Len(h) /\ Range(w) = Range(h)
        /\ \A i \in 1 .. Len(h) : w[i] = IF i = c THEN h[p] ELSE IF i = p THEN h[c] ELSE h[i]
    BY <1>5, <2>2, Zenon
  <2>4. QED
    BY <1>1, <2>3
<1>8. /\ \A i \in 2 .. n : i \div 2 # p => ~Less(h[i], h[i \div 2])
      /\ \A i \in 2 .. n : i \div 2 = p /\ p > 1 => ~Less(h[i], h[p \div 2])
      /\ Range(h) = R
  BY <1>1, <1>2 DEF Sinking
<1>9. \A i \in 1 .. n : h[i] \in HNode
  BY <1>1
<1> DEFINE t == [h |-> w, pos |-> c]
<1>10. t.h = w /\ t.pos = c /\ t \in Spot(n)
  BY <1>4, <1>7 DEF Spot
<1> HIDE DEF t
<1>11. DownOne(s) = t
  BY <1>6 DEF t
<1>12. CASE c = p
  <2>1. \A i \in 1 .. n : w[i] = h[i]
    BY <1>7, <1>12
  <2>2. \A i \in 2 .. n : i \in 1 .. n /\ i \div 2 \in 1 .. n
    BY Halves
  <2>3. ASSUME NEW i \in 2 .. n PROVE i \div 2 # p => ~Less(w[i], w[i \div 2])
    <3>1. w[i] = h[i] /\ w[i \div 2] = h[i \div 2]
      BY <2>1, <2>2
    <3>2. QED
      BY <1>8, <3>1
  <2>4. ASSUME NEW i \in 2 .. n, i \div 2 = p, p > 1 PROVE ~Less(w[i], w[p \div 2])
    <3>1. p \div 2 \in 1 .. n
      BY <2>2, <2>4
    <3>2. w[i] = h[i] /\ w[p \div 2] = h[p \div 2]
      BY <2>1, <2>2, <3>1
    <3>3. QED
      BY <1>8, <2>4, <3>2
  <2>5. ASSUME NEW i \in 2 .. n, i \div 2 = p PROVE ~Less(w[i], w[p])
    <3>1. w[i] = h[i] /\ w[p] = h[p]
      BY <2>1, <2>2
    <3>2. QED
      BY <1>4, <1>12, <2>5, <3>1
  <2>6. Sinking(t, R, n)
    BY <1>7, <1>8, <1>10, <1>12, <2>3, <2>4 DEF Sinking
  <2>7. Settled(t, n)
    BY <1>10, <1>12, <2>5 DEF Settled
  <2>8. QED
    BY <1>11, <2>6, <2>7
<1>13. CASE c # p
  <2>1. Less(h[c], h[p]) /\ p < c /\ c \in 2 .. n /\ c \div 2 = p
    BY <1>4, <1>13, Halves
  <2>2. ASSUME NEW i \in 2 .. n, i \div 2 # c PROVE ~Less(w[i], w[i \div 2])
    <3>1. PICK j \in 1 .. n : j = i \div 2
      BY Halves
    <3>2. i \in 1 .. n /\ j < i
      BY <3>1, Halves
    <3>3. CASE i = c
      <4>1. w[i] = h[p] /\ w[j] = h[c]
        BY <1>7, <1>13, <2>1, <3>1, <3>2, <3>3
      <4>2. ~Less(h[p], h[c])
        BY <1>4, <1>9, <2>1, LessOrder
      <4>3. QED
        BY <3>1, <4>1, <4>2
    <3>4. CASE i # c /\ j = p
      <4>1. w[i] = h[i] /\ w[j] = h[c]
        BY <1>7, <1>13, <3>1, <3>2, <3>4
      <4>2. ~Less(h[i], h[c])
        BY <1>4, <3>1, <3>4
      <4>3. QED
        BY <3>1, <4>1, <4>2
    <3>5. CASE i = p
      <4>1. w[i] = h[c] /\ w[j] = h[j]
        BY <1>7, <1>13, <2>1, <2>2, <3>1, <3>2, <3>5
      <4>2. p > 1
        BY <3>5
      <4>3. ~Less(h[c], h[j])
        BY <1>8, <2>1, <3>1, <3>5, <4>2
      <4>4. QED
        BY <3>1, <4>1, <4>3
    <3>6. CASE i # c /\ j # p /\ i # p
      <4>1. w[i] = h[i] /\ w[j] = h[j]
        BY <1>7, <2>2, <3>1, <3>2, <3>6
      <4>2. ~Less(h[i], h[j])
        BY <1>8, <3>1, <3>6
      <4>3. QED
        BY <3>1, <4>1, <4>2
    <3>7. QED
      BY <3>3, <3>4, <3>5, <3>6
  <2>3. ASSUME NEW i \in 2 .. n, i \div 2 = c, c > 1 PROVE ~Less(w[i], w[c \div 2])
    <3>1. i > c /\ i \in 1 .. n
      BY <2>3, Halves
    <3>2. w[i] = h[i] /\ w[c \div 2] = h[c]
      BY <1>7, <1>13, <2>1, <3>1
    <3>3. ~Less(h[i], h[c])
      BY <1>8, <1>13, <2>3
    <3>4. QED
      BY <3>2, <3>3
  <2>4. Sinking(t, R, n)
    BY <1>7, <1>8, <1>10, <2>2, <2>3 DEF Sinking
  <2>5. ~Settled(s, n)
    <3>1. s.h = h /\ s.pos = p
      BY <1>1, <1>2
    <3>2. QED
      BY <2>1, <3>1 DEF Settled
  <2>6. t.pos > s.pos
    BY <1>2, <1>10, <2>1
  <2>7. QED
    BY <1>11, <2>4, <2>5, <2>6
<1>14. QED
  BY <1>12, <1>13

LEMMA SinkingRuns ==
    ASSUME NEW n \in Nat, NEW R, NEW D, NEW s \in Spot(n), s.pos = 1,
           Sinking(s, R, n), D \in [0 .. n -> Spot(n)], D[0] = s,
           \A i \in 1 .. n : D[i] = DownOne(D[i - 1])
    PROVE  Sinking(D[n], R, n) /\ Settled(D[n], n)
<1> DEFINE A == {i \in 0 .. n : /\ Sinking(D[i], R, n)
                                /\ Settled(D[i], n) \/ D[i].pos > i}
<1>1. 0 \in A
  OBVIOUS
<1>2. ASSUME NEW i \in 1 .. n, i - 1 \in A PROVE i \in A
  <2>1. PICK t : t = D[i - 1]
    OBVIOUS
  <2>2. D[i] = DownOne(t)
    BY <2>1
  <2>3. Sinking(t, R, n) /\ (Settled(t, n) \/ t.pos > i - 1)
    BY <1>2, <2>1
  <2>4. /\ Sinking(D[i], R, n)
        /\ Settled(t, n) => Settled(D[i], n)
        /\ Settled(D[i], n) \/ D[i].pos > t.pos
    BY <2>2, <2>3, DownSinking
  <2>5. D[i].pos \in Int /\ t.pos \in Int
    <3>1. D[i] \in Spot(n) /\ t \in Spot(n)
      BY <2>3, <2>4 DEF Sinking
    <3>2. QED
      BY <3>1 DEF Spot
  <2>6. Settled(D[i], n) \/ D[i].pos > i
    BY <2>3, <2>4, <2>5
  <2>7. QED
    BY <2>4, <2>6
<1> HIDE DEF A
<1>3. n \in A
  <2>1. \A i \in 0 .. n : i \in A
    BY <1>1, <1>2, UpTo
  <2>2. QED
    BY <2>1
<1>4. Sinking(D[n], R, n) /\ (Settled(D[n], n) \/ D[n].pos > n)
  BY <1>3 DEF A
<1>5. D[n].pos \in 1 .. n
  BY <1>4 DEF Sinking, Spot
<1>6. QED
  BY <1>4, <1>5

LEMMA SettledOrdered ==
    ASSUME NEW n \in Nat, NEW R, NEW s, Sinking(s, R, n), Settled(s, n)
    PROVE  Ordered(s.h) /\ s.h \in Seq(HNode)
<1>1. s.h \in Seq(HNode) /\ Len(s.h) = n
  BY DEF Sinking, Spot
<1>2. ASSUME NEW i \in 2 .. n PROVE ~Less(s.h[i], s.h[i \div 2])
  <2>1. CASE i \div 2 # s.pos
    BY <2>1 DEF Sinking
  <2>2. CASE i \div 2 = s.pos
    BY <2>2 DEF Settled
  <2>3. QED
    BY <2>1, <2>2
<1>3. QED
  BY <1>1, <1>2 DEF Ordered

(* heap_remove.                                                            *)
LEMMA SinkRuns ==
    ASSUME NEW n \in Nat, NEW base \in Spot(n)
    PROVE  LET D == CHOOSE f : f = [i \in 0 .. n |-> IF i = 0 THEN base ELSE DownOne(f[i - 1])]
           IN /\ D \in [0 .. n -> Spot(n)] /\ D[0] = base
              /\ \A i \in 1 .. n : D[i] = DownOne(D[i - 1])
<1> DEFINE step == [z \in (1 .. n) \X Spot(n) |-> DownOne(z[2])]
           D == CHOOSE f : f = [i \in 0 .. n |-> IF i = 0 THEN base ELSE DownOne(f[i - 1])]
<1>1. \A i \in 1 .. n : \A t \in Spot(n) :
         step[<<i, t>>] = DownOne(t) /\ step[<<i, t>>] \in Spot(n)
  <2> SUFFICES ASSUME NEW i \in 1 .. n, NEW t \in Spot(n)
               PROVE  step[<<i, t>>] = DownOne(t) /\ step[<<i, t>>] \in Spot(n)
    OBVIOUS
  <2>1. step[<<i, t>>] = DownOne(t)
    OBVIOUS
  <2>2. DownOne(t) \in Spot(n)
    BY DownTyped
  <2> HIDE DEF step
  <2>3. QED
    BY <2>1, <2>2
<1> HIDE DEF step
<1>2. \E f : Runs(f, Spot(n), n, base, step)
  BY <1>1, LoopRuns
<1>3. PICK g : Runs(g, Spot(n), n, base, step)
  BY <1>2
<1>4. g = [i \in 0 .. n |-> IF i = 0 THEN base ELSE DownOne(g[i - 1])]
  <2>1. g \in [0 .. n -> Spot(n)] /\ g[0] = base /\ \A i \in 1 .. n : g[i] = step[<<i, g[i - 1]>>]
    BY <1>3 DEF Runs
  <2>2. ASSUME NEW i \in 0 .. n PROVE g[i] = IF i = 0 THEN base ELSE DownOne(g[i - 1])
    <3>1. CASE i = 0
      BY <2>1, <3>1
    <3>2. CASE i # 0
      <4>1. i \in 1 .. n /\ i - 1 \in 0 .. n
        BY <3>2
      <4>2. g[i] = step[<<i, g[i - 1]>>] /\ g[i - 1] \in Spot(n)
        BY <2>1, <4>1
      <4>3. g[i] = DownOne(g[i - 1])
        BY <1>1, <4>1, <4>2
      <4>4. QED
        BY <3>2, <4>3
    <3>3. QED
      BY <3>1, <3>2
  <2>3. QED
    BY <2>1, <2>2
<1>5. D = [i \in 0 .. n |-> IF i = 0 THEN base ELSE DownOne(D[i - 1])]
  BY <1>4, Zenon
<1> HIDE DEF D
<1>6. D[0] = base /\ \A i \in 1 .. n : D[i] = DownOne(D[i - 1])
  <2>1. D[0] = base
    BY <1>5
  <2>2. ASSUME NEW i \in 1 .. n PROVE D[i] = DownOne(D[i - 1])
    <3>1. i \in 0 .. n /\ i # 0
      OBVIOUS
    <3>2. QED
      BY <1>5, <3>1, Zenon
  <2>3. QED
    BY <2>1, <2>2
<1>7. Runs(D, Spot(n), n, base, step)
  <2>1. D = [i \in 0 .. n |-> D[i]]
    BY <1>5
  <2>2. \A i \in 1 .. n : D[i - 1] \in Spot(n) => D[i] = step[<<i, D[i - 1]>>]
    BY <1>1, <1>6
  <2>3. QED
    BY <1>1, <1>6, <2>1, <2>2, LoopTyped
<1>8. D \in [0 .. n -> Spot(n)]
  BY <1>7 DEF Runs
<1>9. QED
  BY <1>6, <1>8 DEF D

LEMMA RemoveIs ==
    ASSUME NEW heap \in Seq(HNode), Ordered(heap), heap # <<>>
    PROVE  /\ HeapRemove(heap) \in Seq(HNode) /\ Ordered(HeapRemove(heap))
           /\ Range(HeapRemove(heap)) = {heap[j] : j \in 2 .. Len(heap)}
<1>1. PICK n \in Nat : n = Len(heap) - 1
  <2>1. Len(heap) \in Nat /\ Len(heap) # 0
    OBVIOUS
  <2>2. QED
    BY <2>1
<1>2. CASE n = 0
  <2>1. HeapRemove(heap) = <<>>
    BY <1>1, <1>2 DEF HeapRemove
  <2>2. Range(<<>>) = {}
    BY DEF Range
  <2>3. {heap[j] : j \in 2 .. Len(heap)} = {}
    BY <1>1, <1>2
  <2>4. Ordered(<<>>)
    BY DEF Ordered
  <2>5. <<>> \in Seq(HNode)
    OBVIOUS
  <2>6. QED
    BY <2>1, <2>2, <2>3, <2>4, <2>5, Zenon
<1>3. CASE n # 0
  <2> DEFINE sub == SubSeq([heap EXCEPT ![1] = heap[n + 1]], 1, n)
             base == [h |-> sub, pos |-> 1]
             D == CHOOSE f : f = [i \in 0 .. n |-> IF i = 0 THEN base ELSE DownOne(f[i - 1])]
  <2>1. HeapRemove(heap) = D[n].h
    BY <1>1, <1>3 DEF HeapRemove, DownOne
  <2>2. sub \in Seq(HNode) /\ Len(sub) = n
        /\ \A i \in 1 .. n : sub[i] = IF i = 1 THEN heap[n + 1] ELSE heap[i]
    <3>1. PICK e : e = [heap EXCEPT ![1] = heap[n + 1]]
      OBVIOUS
    <3>2. heap \in [1 .. n + 1 -> HNode]
      BY <1>1
    <3>3. e \in [1 .. n + 1 -> HNode]
          /\ \A i \in 1 .. n + 1 : e[i] = IF i = 1 THEN heap[n + 1] ELSE heap[i]
      BY <3>1, <3>2
    <3>4. e \in Seq(HNode) /\ Len(e) = n + 1
      BY <3>3
    <3>5. sub = SubSeq(e, 1, n)
      BY <3>1
    <3> HIDE DEF sub
    <3>6. sub = [i \in 1 .. n |-> e[i]]
      BY <3>4, <3>5
    <3>7. \A i \in 1 .. n : sub[i] = e[i]
      BY <3>6
    <3>8. sub \in [1 .. n -> HNode]
      BY <3>3, <3>6
    <3>9. QED
      BY <3>3, <3>7, <3>8
  <2> HIDE DEF sub
  <2>3. base \in Spot(n) /\ base.h = sub /\ base.pos = 1
    BY <1>3, <2>2 DEF Spot
  <2>4. Range(sub) = {heap[j] : j \in 2 .. Len(heap)}
    <3>1. \A y : y \in Range(sub) <=> \E i \in 1 .. n : y = sub[i]
      <4>1. DOMAIN sub = 1 .. n
        BY <2>2
      <4>2. QED
        BY <4>1, Zenon DEF Range
    <3>2. ASSUME NEW i \in 1 .. n PROVE \E j \in 2 .. Len(heap) : sub[i] = heap[j]
      <4>1. CASE i = 1
        <5>1. sub[i] = heap[n + 1] /\ n + 1 \in 2 .. Len(heap)
          BY <1>1, <1>3, <2>2, <4>1
        <5>2. QED
          BY <5>1
      <4>2. CASE i # 1
        <5>1. sub[i] = heap[i] /\ i \in 2 .. Len(heap)
          BY <1>1, <2>2, <4>2
        <5>2. QED
          BY <5>1
      <4>3. QED
        BY <4>1, <4>2
    <3>3. ASSUME NEW j \in 2 .. Len(heap) PROVE \E i \in 1 .. n : heap[j] = sub[i]
      <4>1. CASE j = n + 1
        <5>1. sub[1] = heap[j] /\ 1 \in 1 .. n
          BY <1>3, <2>2, <4>1
        <5>2. QED
          BY <5>1
      <4>2. CASE j # n + 1
        <5>1. sub[j] = heap[j] /\ j \in 1 .. n
          BY <1>1, <2>2, <4>2
        <5>2. QED
          BY <5>1
      <4>3. QED
        BY <4>1, <4>2
    <3>4. \A y : y \in Range(sub) <=> y \in {heap[j] : j \in 2 .. Len(heap)}
      <4>1. ASSUME NEW y, y \in Range(sub) PROVE y \in {heap[j] : j \in 2 .. Len(heap)}
        BY <3>1, <3>2, <4>1
      <4>2. ASSUME NEW y, y \in {heap[j] : j \in 2 .. Len(heap)} PROVE y \in Range(sub)
        BY <3>1, <3>3, <4>2
      <4>3. QED
        BY <4>1, <4>2, Zenon
    <3>5. QED
      BY <3>4, Zenon
  <2>5. Sinking(base, {heap[j] : j \in 2 .. Len(heap)}, n)
    <3>1. ASSUME NEW i \in 2 .. n, i \div 2 # 1 PROVE ~Less(sub[i], sub[i \div 2])
      <4>1. i \div 2 \in 2 .. n /\ i \in 1 .. n /\ i \in 2 .. Len(heap)
        BY <1>1, <3>1, Halves
      <4>2. sub[i] = heap[i] /\ sub[i \div 2] = heap[i \div 2]
        BY <2>2, <4>1
      <4>3. ~Less(heap[i], heap[i \div 2])
        BY <4>1 DEF Ordered
      <4>4. QED
        BY <4>2, <4>3
    <3> HIDE DEF base
    <3>2. QED
      BY <2>3, <2>4, <3>1 DEF Sinking
  <2> HIDE DEF base
  <2>6. D \in [0 .. n -> Spot(n)] /\ D[0] = base /\ \A i \in 1 .. n : D[i] = DownOne(D[i - 1])
    BY <2>3, SinkRuns
  <2> HIDE DEF D
  <2>7. Sinking(D[n], {heap[j] : j \in 2 .. Len(heap)}, n) /\ Settled(D[n], n)
    BY <2>3, <2>5, <2>6, SinkingRuns
  <2>8. PICK t : t = D[n]
    OBVIOUS
  <2>9. Ordered(t.h) /\ t.h \in Seq(HNode)
    BY <2>7, <2>8, SettledOrdered
  <2>10. Range(t.h) = {heap[j] : j \in 2 .. Len(heap)}
    BY <2>7, <2>8 DEF Sinking
  <2>11. QED
    BY <2>1, <2>8, <2>9, <2>10
<1>4. QED
  BY <1>2, <1>3

(* What is taken from the heap is its least node.                          *)
LEMMA HeadIsLeast ==
    ASSUME NEW heap \in Seq(HNode), Ordered(heap), heap # <<>>
    PROVE  /\ heap[1] \in HNode
           /\ \A e \in Range(heap) : heap[1].cost <= e.cost
           /\ Range(heap) = {heap[1]} \cup Range(HeapRemove(heap))
<1>1. PICK n \in Nat : n = Len(heap) /\ n >= 1
  <2>1. Len(heap) \in Nat /\ Len(heap) # 0
    OBVIOUS
  <2>2. QED
    BY <2>1
<1>2. \A i \in 1 .. n : heap[i] \in HNode
  BY <1>1
<1> DEFINE T == {i \in Nat : i \in 1 .. n /\ heap[i].cost < heap[1].cost}
<1>3. T = {}
  <2> SUFFICES ASSUME T # {} PROVE FALSE
    OBVIOUS
  <2>1. PICK k \in T : \A j \in T : k <= j
    BY LeastNatural
  <2>2. k \in 1 .. n /\ heap[k].cost < heap[1].cost /\ heap[k] \in HNode /\ heap[1] \in HNode
    BY <1>1, <1>2, <2>1
  <2>3. k # 1
    BY <2>2 DEF HNode
  <2>4. k \in 2 .. n /\ k \div 2 \in 1 .. n /\ k \div 2 < k /\ k \div 2 \in Nat
    BY <2>2, <2>3, Halves
  <2>5. ~Less(heap[k], heap[k \div 2])
    BY <1>1, <2>4 DEF Ordered
  <2>6. heap[k \div 2] \in HNode
    BY <1>2, <2>4
  <2>7. heap[k \div 2].cost <= heap[k].cost
    BY <2>2, <2>5, <2>6, LessOrder
  <2>8. heap[k \div 2].cost < heap[1].cost
    BY <2>2, <2>6, <2>7, SMTT(30) DEF HNode
  <2>9. k \div 2 \in T
    BY <2>4, <2>8
  <2>10. QED
    BY <2>1, <2>4, <2>9
<1>4. ASSUME NEW i \in 1 .. n PROVE heap[1].cost <= heap[i].cost
  <2>1. heap[i] \in HNode /\ heap[1] \in HNode
    BY <1>1, <1>2
  <2>2. ~(heap[i].cost < heap[1].cost)
    BY <1>3
  <2>3. QED
    BY <2>1, <2>2 DEF HNode
<1>5. \A y : y \in Range(heap) <=> \E i \in 1 .. n : y = heap[i]
  <2>1. DOMAIN heap = 1 .. n
    BY <1>1
  <2>2. QED
    BY <2>1, Zenon DEF Range
<1>6. Range(HeapRemove(heap)) = {heap[j] : j \in 2 .. n}
  BY <1>1, RemoveIs
<1>7. \A i \in Nat : i \in 1 .. n <=> i = 1 \/ i \in 2 .. n
  BY <1>1
<1>8. \A y : y \in Range(heap) <=> y \in {heap[1]} \cup {heap[j] : j \in 2 .. n}
  BY <1>5, <1>7
<1>9. Range(heap) = {heap[1]} \cup {heap[j] : j \in 2 .. n}
  BY <1>8, Zenon
<1>10. heap[1] \in HNode
  BY <1>1, <1>2
<1>11. \A e \in Range(heap) : heap[1].cost <= e.cost
  BY <1>4, <1>5
<1>12. QED
  BY <1>6, <1>9, <1>10, <1>11

-----------------------------------------------------------------------------
(* Sums and iterations.                                                    *)

LEMMA MinIs ==
    ASSUME NEW S, S \subseteq Nat, S # {}
    PROVE  Min(S) \in S /\ \A y \in S : Min(S) <= y
<1>1. \E x \in S : \A y \in S : x <= y
  BY LeastNatural
<1>2. QED
  BY <1>1, Zenon DEF Min

Iterates(f, S, step, base, n) ==
    /\ f \in [0 .. n -> S] /\ f[0] = base /\ \A i \in 1 .. n : f[i] = step[f[i - 1]]
    /\ Iterated(step, base, n) = f[n]

LEMMA IteratedIs ==
    ASSUME NEW S, NEW n \in Nat, NEW base \in S, NEW step \in [S -> S]
    PROVE  \E f : Iterates(f, S, step, base, n)
<1> DEFINE next == [z \in (1 .. n) \X S |-> step[z[2]]]
           D == CHOOSE f : f = [i \in 0 .. n |-> IF i = 0 THEN base ELSE step[f[i - 1]]]
<1>1. \A i \in 1 .. n : \A b \in S : next[<<i, b>>] = step[b] /\ next[<<i, b>>] \in S
  OBVIOUS
<1>2. Iterated(step, base, n) = D[n]
  BY DEF Iterated
<1> HIDE DEF next
<1>3. PICK g : Recursive(g, n, base, next)
  <2>1. \E g : Recursive(g, n, base, next)
    BY <1>1, RecursionExists
  <2>2. QED
    BY <2>1
<1>4. g \in [0 .. n -> S]
  BY <1>1, <1>3, RecursionType
<1>5. g = [i \in 0 .. n |-> IF i = 0 THEN base ELSE step[g[i - 1]]]
  <2>1. ASSUME NEW i \in 0 .. n PROVE g[i] = IF i = 0 THEN base ELSE step[g[i - 1]]
    <3>1. g[i] = IF i = 0 THEN base ELSE next[<<i, g[i - 1]>>]
      BY <1>3 DEF Recursive
    <3>2. CASE i = 0
      BY <3>1, <3>2
    <3>3. CASE i # 0
      <4>1. i \in 1 .. n /\ i - 1 \in 0 .. n
        BY <3>3
      <4>2. next[<<i, g[i - 1]>>] = step[g[i - 1]]
        BY <1>1, <1>4, <4>1
      <4>3. QED
        BY <3>1, <3>3, <4>2
    <3>4. QED
      BY <3>2, <3>3
  <2>2. QED
    BY <1>4, <2>1
<1>6. D = [i \in 0 .. n |-> IF i = 0 THEN base ELSE step[D[i - 1]]]
  BY <1>5
<1> HIDE DEF D
<1>7. D[0] = base /\ \A i \in 1 .. n : D[i] = step[D[i - 1]]
  <2>1. D[0] = base
    BY <1>6
  <2>2. ASSUME NEW i \in 1 .. n PROVE D[i] = step[D[i - 1]]
    <3>1. i \in 0 .. n /\ i # 0
      OBVIOUS
    <3>2. QED
      BY <1>6, <3>1, Zenon
  <2>3. QED
    BY <2>1, <2>2
<1> DEFINE T == {i \in Nat : i <= n /\ D[i] \notin S}
<1>8. T = {}
  <2> SUFFICES ASSUME T # {} PROVE FALSE
    OBVIOUS
  <2>1. PICK k \in T : \A j \in T : k <= j
    BY LeastNatural
  <2>2. k # 0
    BY <1>7, <2>1
  <2>3. k \in 1 .. n /\ k - 1 \in Nat /\ k - 1 <= n /\ ~(k <= k - 1)
    BY <2>1, <2>2
  <2>4. D[k - 1] \in S
    BY <2>1, <2>3
  <2>5. QED
    BY <1>7, <2>1, <2>3, <2>4
<1>9. D \in [0 .. n -> S]
  <2>1. \A i \in 0 .. n : D[i] \in S
    BY <1>8
  <2>2. DOMAIN D = 0 .. n /\ D = [i \in 0 .. n |-> D[i]]
    BY <1>6
  <2>3. QED
    BY <2>1, <2>2
<1>10. Iterates(D, S, step, base, n)
  BY <1>2, <1>7, <1>9 DEF Iterates
<1>11. QED
  BY <1>10

LEMMA SumsIs ==
    ASSUME NEW n \in Nat, NEW c \in [1 .. n -> Nat]
    PROVE  /\ Sums(c) \in [0 .. n -> Nat] /\ Sums(c)[0] = 0 /\ Total(c) = Sums(c)[n]
           /\ \A i \in 1 .. n : Sums(c)[i] = Sums(c)[i - 1] + c[i]
<1> DEFINE next == [z \in (1 .. n) \X Nat |-> z[2] + c[z[1]]]
           D == CHOOSE f : f = [i \in 0 .. n |-> IF i = 0 THEN 0 ELSE f[i - 1] + c[i]]
<1>1. \A i \in 1 .. n : \A b \in Nat : next[<<i, b>>] = b + c[i] /\ next[<<i, b>>] \in Nat
  OBVIOUS
<1>l. Len(c) = n
  OBVIOUS
<1>2. Sums(c) = D
  BY <1>l DEF Sums
<1> HIDE DEF next
<1>3. PICK g : Recursive(g, n, 0, next)
  <2>1. \E g : Recursive(g, n, 0, next)
    BY <1>1, RecursionExists
  <2>2. QED
    BY <2>1
<1>4. g \in [0 .. n -> Nat]
  BY <1>1, <1>3, RecursionType
<1>5. g = [i \in 0 .. n |-> IF i = 0 THEN 0 ELSE g[i - 1] + c[i]]
  <2>1. ASSUME NEW i \in 0 .. n PROVE g[i] = IF i = 0 THEN 0 ELSE g[i - 1] + c[i]
    <3>1. g[i] = IF i = 0 THEN 0 ELSE next[<<i, g[i - 1]>>]
      BY <1>3 DEF Recursive
    <3>2. CASE i = 0
      BY <3>1, <3>2
    <3>3. CASE i # 0
      <4>1. i \in 1 .. n /\ i - 1 \in 0 .. n
        BY <3>3
      <4>2. next[<<i, g[i - 1]>>] = g[i - 1] + c[i]
        BY <1>1, <1>4, <4>1
      <4>3. QED
        BY <3>1, <3>3, <4>2
    <3>4. QED
      BY <3>2, <3>3
  <2>2. QED
    BY <1>4, <2>1
<1>6. D = [i \in 0 .. n |-> IF i = 0 THEN 0 ELSE D[i - 1] + c[i]]
  BY <1>5
<1> HIDE DEF D
<1>7. D[0] = 0 /\ \A i \in 1 .. n : D[i] = D[i - 1] + c[i]
  <2>1. D[0] = 0
    BY <1>6
  <2>2. ASSUME NEW i \in 1 .. n PROVE D[i] = D[i - 1] + c[i]
    <3>1. i \in 0 .. n /\ i # 0
      OBVIOUS
    <3>2. QED
      BY <1>6, <3>1, Zenon
  <2>3. QED
    BY <2>1, <2>2
<1> DEFINE T == {i \in Nat : i <= n /\ D[i] \notin Nat}
<1>8. T = {}
  <2> SUFFICES ASSUME T # {} PROVE FALSE
    OBVIOUS
  <2>1. PICK k \in T : \A j \in T : k <= j
    BY LeastNatural
  <2>2. k # 0
    BY <1>7, <2>1
  <2>3. k \in 1 .. n /\ k - 1 \in Nat /\ k - 1 <= n /\ ~(k <= k - 1)
    BY <2>1, <2>2
  <2>4. D[k - 1] \in Nat
    BY <2>1, <2>3
  <2>5. QED
    BY <1>7, <2>1, <2>3, <2>4
<1>9. D \in [0 .. n -> Nat]
  <2>1. \A i \in 0 .. n : D[i] \in Nat
    BY <1>8
  <2>2. DOMAIN D = 0 .. n /\ D = [i \in 0 .. n |-> D[i]]
    BY <1>6
  <2>3. QED
    BY <2>1, <2>2
<1>10. QED
  BY <1>2, <1>7, <1>9, <1>l DEF Total

LEMMA TotalType ==
    ASSUME NEW n \in Nat, NEW c \in [1 .. n -> Nat]
    PROVE  Total(c) \in Nat
<1>1. Sums(c) \in [0 .. n -> Nat] /\ Total(c) = Sums(c)[n]
  BY SumsIs
<1>2. QED
  BY <1>1

LEMMA TotalsOrdered ==
    ASSUME NEW n \in Nat, NEW c \in [1 .. n -> Nat], NEW d \in [1 .. n -> Nat],
           \A i \in 1 .. n : c[i] <= d[i]
    PROVE  Total(c) <= Total(d) /\ Total(c) \in Nat /\ Total(d) \in Nat
<1>1. PICK f \in [0 .. n -> Nat] :
          f[0] = 0 /\ Total(c) = f[n] /\ \A k \in 1 .. n : f[k] = f[k - 1] + c[k]
  BY SumsIs
<1>2. PICK h \in [0 .. n -> Nat] :
          h[0] = 0 /\ Total(d) = h[n] /\ \A k \in 1 .. n : h[k] = h[k - 1] + d[k]
  BY SumsIs
<1> DEFINE T == {j \in Nat : j <= n /\ ~(f[j] <= h[j])}
<1>3. T = {}
  <2> SUFFICES ASSUME T # {} PROVE FALSE
    OBVIOUS
  <2>1. PICK k \in T : \A j \in T : k <= j
    BY LeastNatural
  <2>2. k # 0
    BY <1>1, <1>2, <2>1
  <2>3. k \in 1 .. n /\ k - 1 \in Nat /\ k - 1 <= n /\ ~(k <= k - 1)
        /\ k - 1 \in 0 .. n /\ k \in 0 .. n
    BY <2>1, <2>2
  <2>4. f[k - 1] <= h[k - 1]
    BY <2>1, <2>3
  <2>5. f[k] = f[k - 1] + c[k] /\ h[k] = h[k - 1] + d[k] /\ c[k] <= d[k] /\ c[k] \in Nat /\ d[k] \in Nat
    BY <1>1, <1>2, <2>3
  <2>6. QED
    BY <2>1, <2>3, <2>4, <2>5
<1>4. f[n] <= h[n]
  <2>1. ~(n \in Nat /\ n <= n /\ ~(f[n] <= h[n]))
    BY <1>3, Zenon
  <2>2. n <= n
    OBVIOUS
  <2>3. QED
    BY <2>1, <2>2
<1>5. QED
  BY <1>1, <1>2, <1>4

LEMMA TotalZero ==
    ASSUME NEW n \in Nat, NEW c \in [1 .. n -> Nat], \A i \in 1 .. n : c[i] = 0
    PROVE  Total(c) = 0
<1>1. PICK f \in [0 .. n -> Nat] :
          f[0] = 0 /\ Total(c) = f[n] /\ \A k \in 1 .. n : f[k] = f[k - 1] + c[k]
  BY SumsIs
<1> DEFINE A == {i \in 0 .. n : f[i] = 0}
<1>2. 0 \in A
  BY <1>1
<1>3. ASSUME NEW i \in 1 .. n, i - 1 \in A PROVE i \in A
  BY <1>1, <1>3
<1> HIDE DEF A
<1>4. \A i \in 0 .. n : i \in A
  BY <1>2, <1>3, UpTo
<1>5. QED
  BY <1>1, <1>4 DEF A

(* A sum in which one item grows.                                          *)
LEMMA TotalBump ==
    ASSUME NEW n \in Nat, NEW c \in [1 .. n -> Nat], NEW d \in [1 .. n -> Nat], NEW j \in 1 .. n,
           \A i \in 1 .. n : i # j => d[i] = c[i]
    PROVE  Total(d) = Total(c) + d[j] - c[j] /\ Total(c) \in Nat /\ Total(d) \in Nat
<1>1. PICK f \in [0 .. n -> Nat] :
          f[0] = 0 /\ Total(c) = f[n] /\ \A k \in 1 .. n : f[k] = f[k - 1] + c[k]
  BY SumsIs
<1>2. PICK h \in [0 .. n -> Nat] :
          h[0] = 0 /\ Total(d) = h[n] /\ \A k \in 1 .. n : h[k] = h[k - 1] + d[k]
  BY SumsIs
<1> DEFINE A == {i \in 0 .. n : (i < j => h[i] = f[i]) /\ (i >= j => h[i] = f[i] + (d[j] - c[j]))}
<1>3. 0 \in A
  <2>1. f[0] = 0 /\ h[0] = 0
    BY <1>1, <1>2, Zenon
  <2>2. QED
    BY <2>1
<1>4. ASSUME NEW i \in 1 .. n, i - 1 \in A PROVE i \in A
  <2>1. f[i] = f[i - 1] + c[i] /\ h[i] = h[i - 1] + d[i] /\ c[i] \in Nat /\ d[i] \in Nat
        /\ f[i - 1] \in Nat /\ h[i - 1] \in Nat /\ c[j] \in Nat /\ d[j] \in Nat
    <3>1. i - 1 \in 0 .. n
      OBVIOUS
    <3>2. f[i] = f[i - 1] + c[i] /\ h[i] = h[i - 1] + d[i]
      BY <1>1, <1>2, Zenon
    <3>3. c[i] \in Nat /\ d[i] \in Nat /\ c[j] \in Nat /\ d[j] \in Nat
      OBVIOUS
    <3>4. f[i - 1] \in Nat /\ h[i - 1] \in Nat
      BY <3>1
    <3>5. QED
      BY <3>2, <3>3, <3>4
  <2>2. (i - 1 < j => h[i - 1] = f[i - 1]) /\ (i - 1 >= j => h[i - 1] = f[i - 1] + (d[j] - c[j]))
    BY <1>4
  <2>3. CASE i < j
    <3>1. d[i] = c[i] /\ h[i - 1] = f[i - 1]
      BY <2>2, <2>3
    <3>2. h[i] = f[i]
      BY <2>1, <3>1
    <3>3. QED
      BY <2>3, <3>2
  <2>4. CASE i = j
    <3>1. h[i - 1] = f[i - 1]
      BY <2>2, <2>4
    <3>2. h[i] = f[i] + (d[j] - c[j])
      BY <2>1, <2>4, <3>1
    <3>3. QED
      BY <2>4, <3>2
  <2>5. CASE i > j
    <3>1. d[i] = c[i] /\ h[i - 1] = f[i - 1] + (d[j] - c[j])
      BY <2>2, <2>5
    <3>2. PICK a \in Nat, u \in Nat, z \in Int : a = f[i - 1] /\ u = c[i] /\ z = d[j] - c[j]
      <4>1. d[j] - c[j] \in Int
        BY <2>1
      <4>2. QED
        BY <2>1, <4>1, Zenon
    <3>3. f[i] = a + u /\ h[i] = (a + z) + u
      BY <2>1, <3>1, <3>2, Zenon
    <3>4. (a + z) + u = (a + u) + z
      OBVIOUS
    <3>5. h[i] = f[i] + (d[j] - c[j])
      BY <3>2, <3>3, <3>4, Zenon
    <3>6. QED
      BY <2>5, <3>5
  <2>6. QED
    BY <2>3, <2>4, <2>5
<1> HIDE DEF A
<1>5. \A i \in 0 .. n : i \in A
  BY <1>3, <1>4, UpTo
<1>6. h[n] = f[n] + d[j] - c[j]
  <2>1. n \in A
    BY <1>5
  <2>2. f[n] \in Nat /\ h[n] \in Nat /\ c[j] \in Nat /\ d[j] \in Nat
    BY <1>1, <1>2
  <2>3. QED
    BY <2>1, <2>2 DEF A
<1>7. QED
  BY <1>1, <1>2, <1>6

LEMMA TotalItem ==
    ASSUME NEW n \in Nat, NEW c \in [1 .. n -> Nat], NEW j \in 1 .. n
    PROVE  c[j] <= Total(c) /\ Total(c) \in Nat
<1> DEFINE z == [i \in 1 .. n |-> IF i = j THEN c[j] ELSE 0]
           o == [i \in 1 .. n |-> 0]
<1>1. z \in [1 .. n -> Nat] /\ o \in [1 .. n -> Nat] /\ z[j] = c[j] /\ o[j] = 0
  OBVIOUS
<1>2. \A i \in 1 .. n : z[i] <= c[i]
  OBVIOUS
<1>3. \A i \in 1 .. n : i # j => z[i] = o[i]
  OBVIOUS
<1>4. \A i \in 1 .. n : o[i] = 0
  OBVIOUS
<1> HIDE DEF z, o
<1>5. Total(o) = 0
  BY <1>1, <1>4, TotalZero
<1>6. Total(z) = Total(o) + z[j] - o[j] /\ Total(z) \in Nat
  BY <1>1, <1>3, TotalBump
<1>7. Total(z) <= Total(c) /\ Total(c) \in Nat
  BY <1>1, <1>2, TotalsOrdered
<1>8. QED
  BY <1>1, <1>5, <1>6, <1>7

LEMMA Weighed ==
    ASSUME NEW k \in Nat, NEW c \in Nat, c >= 1, NEW a \in Nat, NEW b \in Nat, a <= b
    PROVE  k + c * a \in Nat /\ k + c * a <= k + c * b /\ a <= k + c * a
<1>1. PICK d \in Nat : b = a + d
  <2>1. b - a \in Nat /\ b = a + (b - a)
    OBVIOUS
  <2>2. QED
    BY <2>1
<1>2. PICK e \in Nat : c = 1 + e
  <2>1. c - 1 \in Nat /\ c = 1 + (c - 1)
    OBVIOUS
  <2>2. QED
    BY <2>1
<1>3. c * b = c * a + c * d /\ c * a \in Nat /\ c * d \in Nat
  BY <1>1
<1>4. c * a = a + e * a /\ e * a \in Nat
  BY <1>2
<1>5. QED
  BY <1>3, <1>4

(* What a function does at each step, it does over several.                *)
LEMMA Rises ==
    ASSUME NEW n \in Nat, NEW f \in [0 .. n -> Nat], \A i \in 1 .. n : f[i - 1] <= f[i]
    PROVE  \A i, j \in 0 .. n : i <= j => f[i] <= f[j]
<1> SUFFICES ASSUME NEW i \in 0 .. n PROVE \A j \in 0 .. n : i <= j => f[i] <= f[j]
  OBVIOUS
<1> DEFINE T == {j \in Nat : j <= n /\ i <= j /\ ~(f[i] <= f[j])}
<1>1. T = {}
  <2> SUFFICES ASSUME T # {} PROVE FALSE
    OBVIOUS
  <2>1. PICK k \in T : \A j \in T : k <= j
    BY LeastNatural
  <2>2. k # i
    BY <2>1
  <2>3. k \in 1 .. n /\ k - 1 \in Nat /\ k - 1 <= n /\ i <= k - 1 /\ ~(k <= k - 1)
        /\ k - 1 \in 0 .. n /\ k \in 0 .. n
    BY <2>1, <2>2
  <2>4. f[i] <= f[k - 1]
    BY <2>1, <2>3
  <2>5. f[k - 1] <= f[k]
    BY <2>3
  <2>6. QED
    BY <2>1, <2>3, <2>4, <2>5
<1>2. \A j \in 0 .. n : j \in Nat /\ j <= n
  OBVIOUS
<1>3. QED
  BY <1>1, <1>2

-----------------------------------------------------------------------------
(* Graphs.                                                                 *)

LEMMA SeqIs ==
    ASSUME NEW S, NEW s \in Seq(S)
    PROVE  /\ Len(s) \in Nat /\ DOMAIN s = 1 .. Len(s)
           /\ \A j \in DOMAIN s : s[j] \in S
OBVIOUS

LEMMA GraphIs ==
    ASSUME G \in Graphs
    PROVE  /\ G.nv \in Nat /\ G.nm \in Nat /\ Inf \in Nat /\ Inf >= 1
           /\ Vars \subseteq Int /\ Models \subseteq Int
           /\ \A n : n \in Nodes <=> n \in Vars \/ n \in Models
           /\ \A n \in Vars : n \notin Models
           /\ G.given \subseteq Vars /\ G.skip \subseteq Vars /\ G.select \subseteq Vars
           /\ IsFiniteSet(Vars) /\ Cardinality(Vars) = G.nv
<1>1. IsGraph(G) /\ Inf \in Nat \ {0}
  BY GraphsAssumption
<1>2. G.nv \in Nat /\ G.nm \in Nat
  BY <1>1 DEF IsGraph
<1>3. G.given \subseteq Vars /\ G.skip \subseteq Vars /\ G.select \subseteq Vars
  BY <1>1 DEF IsGraph, Vars, VarsOf
<1>4. IsFiniteSet(Vars) /\ Cardinality(Vars) = G.nv
  <2>1. PICK n \in Nat : n = G.nv
    BY <1>2
  <2>2. 0 \in Int /\ n - 1 \in Int
    BY <2>1
  <2>3. IsFiniteSet(0 .. n - 1) /\ Cardinality(0 .. n - 1) = IF 0 > n - 1 THEN 0 ELSE n - 1 - 0 + 1
    BY <2>2, FS_Interval
  <2>4. Cardinality(0 .. n - 1) = n
    BY <2>1, <2>3
  <2>5. QED
    BY <2>1, <2>3, <2>4 DEF Vars, VarsOf
<1>5. /\ Vars \subseteq Int /\ Models \subseteq Int
      /\ \A n : n \in Nodes <=> n \in Vars \/ n \in Models
      /\ \A n \in Vars : n \notin Models
  BY <1>2 DEF Vars, VarsOf, Models, ModelsIn, Nodes
<1>6. QED
  BY <1>1, <1>2, <1>3, <1>4, <1>5

LEMMA ModelIs ==
    ASSUME G \in Graphs, NEW mi \in Models
    PROVE  LET m == Model(mi) IN
           /\ m.k \in Nat /\ m.c \in Nat /\ m.c >= 1
           /\ Len(m.params) \in Nat /\ DOMAIN m.params = 1 .. Len(m.params)
           /\ \A j \in DOMAIN m.params : m.params[j].x \in Vars /\ m.params[j].user \in BOOLEAN
           /\ Len(m.returns) \in Nat /\ DOMAIN m.returns = 1 .. Len(m.returns)
           /\ \A j \in DOMAIN m.returns : m.returns[j].x \in Vars /\ m.returns[j].user \in BOOLEAN
           /\ Len(m.shadows) \in Nat /\ DOMAIN m.shadows = 1 .. Len(m.shadows)
           /\ \A j \in DOMAIN m.shadows : m.shadows[j].x \in Vars /\ m.shadows[j].penalty \in Nat
<1>1. IsGraph(G)
  BY GraphsAssumption
<1>2. PICK i : i = -mi
  OBVIOUS
<1>3. i \in 1 .. G.nm
  BY <1>1, <1>2 DEF IsGraph, Models, ModelsIn
<1>4. PICK m : m = G.model[i]
  OBVIOUS
<1>5. Model(mi) = m
  BY <1>2, <1>4 DEF Model
<1>6. /\ m.k \in Nat /\ m.c \in Nat /\ m.c >= 1
      /\ m.params \in Seq([x : Vars, user : BOOLEAN])
      /\ m.returns \in Seq([x : Vars, user : BOOLEAN])
      /\ m.shadows \in Seq([x : Vars, penalty : Nat])
  BY <1>1, <1>3, <1>4 DEF IsGraph, Vars
<1>7. /\ Len(m.params) \in Nat /\ DOMAIN m.params = 1 .. Len(m.params)
      /\ \A j \in DOMAIN m.params : m.params[j] \in [x : Vars, user : BOOLEAN]
  BY <1>6, SeqIs, Zenon
<1>8. /\ Len(m.returns) \in Nat /\ DOMAIN m.returns = 1 .. Len(m.returns)
      /\ \A j \in DOMAIN m.returns : m.returns[j] \in [x : Vars, user : BOOLEAN]
  BY <1>6, SeqIs, Zenon
<1>9. /\ Len(m.shadows) \in Nat /\ DOMAIN m.shadows = 1 .. Len(m.shadows)
      /\ \A j \in DOMAIN m.shadows : m.shadows[j] \in [x : Vars, penalty : Nat]
  BY <1>6, SeqIs, Zenon
<1>10. QED
  BY <1>5, <1>6, <1>7, <1>8, <1>9

(* The edge lists of a variable.                                           *)
LEMMA ListIs ==
    ASSUME G \in Graphs, NEW x \in Vars
    PROVE  /\ Len(G.models[x]) \in Nat /\ DOMAIN G.models[x] = 1 .. Len(G.models[x])
           /\ \A i \in 1 .. Len(G.models[x]) :
                 LET e == G.models[x][i] IN
                 e[1] \in Models /\ e[2] \in DOMAIN Model(e[1]).returns
                 /\ Model(e[1]).returns[e[2]].x = x
           /\ \A mi \in Models : \A j \in DOMAIN Model(mi).returns :
                 Model(mi).returns[j].x = x =>
                 \E i \in 1 .. Len(G.models[x]) : G.models[x][i] = <<mi, j>>
           /\ Len(G.fwds[x]) \in Nat /\ DOMAIN G.fwds[x] = 1 .. Len(G.fwds[x])
           /\ \A i \in 1 .. Len(G.fwds[x]) :
                 LET e == G.fwds[x][i] IN
                 /\ e = <<e[1], e[2]>> /\ e[1] \in Models /\ e[2] \in DOMAIN Model(e[1]).params
                 /\ Model(e[1]).params[e[2]].x = x
           /\ \A mi \in Models : \A j \in DOMAIN Model(mi).params :
                 Model(mi).params[j].x = x =>
                 \E i \in 1 .. Len(G.fwds[x]) : G.fwds[x][i] = <<mi, j>>
           /\ \A i, j \in 1 .. Len(G.fwds[x]) : G.fwds[x][i] = G.fwds[x][j] => i = j
<1>1. IsGraph(G)
  BY GraphsAssumption
<1> DEFINE rets == [mi \in Models |-> Model(mi).returns]
           pars == [mi \in Models |-> Model(mi).params]
<1>2. ListsEdges(G.models[x], x, rets) /\ ListsEdges(G.fwds[x], x, pars)
  BY <1>1 DEF IsGraph, Vars, Models, Model
<1>3. ASSUME NEW list, NEW edges, DOMAIN edges = Models, ListsEdges(list, x, edges)
      PROVE  /\ Len(list) \in Nat /\ DOMAIN list = 1 .. Len(list)
             /\ \A i \in 1 .. Len(list) :
                   /\ list[i] = <<list[i][1], list[i][2]>> /\ list[i][1] \in Models
                   /\ list[i][2] \in DOMAIN edges[list[i][1]]
                   /\ edges[list[i][1]][list[i][2]].x = x
             /\ \A mi \in Models : \A j \in DOMAIN edges[mi] :
                   edges[mi][j].x = x => \E i \in 1 .. Len(list) : list[i] = <<mi, j>>
             /\ \A i, j \in 1 .. Len(list) : list[i] = list[j] => i = j
  <2>1. list \in Seq(Models \X Nat) /\ IsInjective(list)
    BY <1>3 DEF ListsEdges
  <2>2. Len(list) \in Nat /\ DOMAIN list = 1 .. Len(list)
        /\ \A i \in 1 .. Len(list) : list[i] \in Models \X Nat
    BY <2>1
  <2>3. \A i, j \in 1 .. Len(list) : list[i] = list[j] => i = j
    BY <2>1, <2>2 DEF IsInjective
  <2>4. \A y : y \in Range(list) <=> \E i \in 1 .. Len(list) : y = list[i]
    BY <2>2, Zenon DEF Range
  <2>5. /\ \A e \in Range(list) : e[2] \in DOMAIN edges[e[1]]
        /\ \A mi \in Models : \A j \in DOMAIN edges[mi] :
              <<mi, j>> \in Range(list) <=> edges[mi][j].x = x
    BY <1>3 DEF ListsEdges
  <2>6. ASSUME NEW i \in 1 .. Len(list)
        PROVE  /\ list[i] = <<list[i][1], list[i][2]>> /\ list[i][1] \in Models
               /\ list[i][2] \in DOMAIN edges[list[i][1]]
               /\ edges[list[i][1]][list[i][2]].x = x
    <3>1. PICK mi \in Models, j \in Nat : list[i] = <<mi, j>>
      BY <2>2
    <3>2. <<mi, j>> \in Range(list)
      BY <2>4, <3>1
    <3>3. j \in DOMAIN edges[mi]
      BY <2>5, <3>2
    <3>4. edges[mi][j].x = x
      BY <2>5, <3>2, <3>3
    <3>5. QED
      BY <3>1, <3>3, <3>4
  <2>7. ASSUME NEW mi \in Models, NEW j \in DOMAIN edges[mi], edges[mi][j].x = x
        PROVE  \E i \in 1 .. Len(list) : list[i] = <<mi, j>>
    <3>1. <<mi, j>> \in Range(list)
      BY <2>5, <2>7
    <3>2. QED
      BY <2>4, <3>1
  <2>8. QED
    BY <2>2, <2>3, <2>6, <2>7
<1>4. DOMAIN rets = Models /\ DOMAIN pars = Models
      /\ \A mi \in Models : rets[mi] = Model(mi).returns /\ pars[mi] = Model(mi).params
  OBVIOUS
<1> HIDE DEF rets, pars
<1>5. PICK ml, fl : ml = G.models[x] /\ fl = G.fwds[x]
  OBVIOUS
<1>6. ListsEdges(ml, x, rets) /\ ListsEdges(fl, x, pars)
  BY <1>2, <1>5
<1>7. /\ Len(ml) \in Nat /\ DOMAIN ml = 1 .. Len(ml)
      /\ \A i \in 1 .. Len(ml) :
            /\ ml[i] = <<ml[i][1], ml[i][2]>> /\ ml[i][1] \in Models
            /\ ml[i][2] \in DOMAIN rets[ml[i][1]]
            /\ rets[ml[i][1]][ml[i][2]].x = x
      /\ \A mi \in Models : \A j \in DOMAIN rets[mi] :
            rets[mi][j].x = x => \E i \in 1 .. Len(ml) : ml[i] = <<mi, j>>
  BY <1>3, <1>4, <1>6
<1>8. /\ Len(fl) \in Nat /\ DOMAIN fl = 1 .. Len(fl)
      /\ \A i \in 1 .. Len(fl) :
            /\ fl[i] = <<fl[i][1], fl[i][2]>> /\ fl[i][1] \in Models
            /\ fl[i][2] \in DOMAIN pars[fl[i][1]]
            /\ pars[fl[i][1]][fl[i][2]].x = x
      /\ \A mi \in Models : \A j \in DOMAIN pars[mi] :
            pars[mi][j].x = x => \E i \in 1 .. Len(fl) : fl[i] = <<mi, j>>
      /\ \A i, j \in 1 .. Len(fl) : fl[i] = fl[j] => i = j
  BY <1>3, <1>4, <1>6
<1>9. /\ \A i \in 1 .. Len(ml) :
            LET e == ml[i] IN
            e[1] \in Models /\ e[2] \in DOMAIN Model(e[1]).returns
            /\ Model(e[1]).returns[e[2]].x = x
      /\ \A mi \in Models : \A j \in DOMAIN Model(mi).returns :
            Model(mi).returns[j].x = x => \E i \in 1 .. Len(ml) : ml[i] = <<mi, j>>
  BY <1>4, <1>7
<1>10. /\ \A i \in 1 .. Len(fl) :
             LET e == fl[i] IN
             /\ e = <<e[1], e[2]>> /\ e[1] \in Models /\ e[2] \in DOMAIN Model(e[1]).params
             /\ Model(e[1]).params[e[2]].x = x
       /\ \A mi \in Models : \A j \in DOMAIN Model(mi).params :
             Model(mi).params[j].x = x => \E i \in 1 .. Len(fl) : fl[i] = <<mi, j>>
  BY <1>4, <1>8
<1>11. QED
  BY <1>5, <1>7, <1>8, <1>9, <1>10

-----------------------------------------------------------------------------
(* What the operations do to the state.                                    *)

Names == {"GIVEN", "SKIP", "SELECT", "GRAY", "BLACK"}
Heaps == {h \in Seq(HNode) : Ordered(h)}
PStates == [flags : [Nodes -> SUBSET Names], bound : [Nodes -> [Colors -> Nat]],
            miss : [Models -> [Colors -> Int]], heap : Heaps]

LEMMA PStateIs ==
    ASSUME NEW p \in PStates
    PROVE  /\ p.flags \in [Nodes -> SUBSET Names] /\ p.bound \in [Nodes -> [Colors -> Nat]]
           /\ p.miss \in [Models -> [Colors -> Int]]
           /\ p.heap \in Seq(HNode) /\ Ordered(p.heap)
BY DEF PStates, Heaps

LEMMA FlagIs ==
    ASSUME NEW p \in PStates, NEW S, NEW f \in Names
    PROVE  /\ Flag(p, S, f) \in PStates
           /\ Flag(p, S, f).bound = p.bound /\ Flag(p, S, f).miss = p.miss
           /\ Flag(p, S, f).heap = p.heap
           /\ \A n \in Nodes : Flag(p, S, f).flags[n] = IF n \in S THEN p.flags[n] \cup {f} ELSE p.flags[n]
<1>1. PICK fl : fl = [n \in Nodes |-> IF n \in S THEN p.flags[n] \cup {f} ELSE p.flags[n]]
  OBVIOUS
<1>2. fl \in [Nodes -> SUBSET Names]
  <2>1. ASSUME NEW n \in Nodes PROVE fl[n] \in SUBSET Names
    <3>1. p.flags[n] \in SUBSET Names
      BY PStateIs
    <3>2. fl[n] = IF n \in S THEN p.flags[n] \cup {f} ELSE p.flags[n]
      BY <1>1
    <3>3. QED
      BY <3>1, <3>2
  <2>2. QED
    BY <1>1, <2>1
<1>3. Flag(p, S, f) = [p EXCEPT !.flags = fl]
  BY <1>1 DEF Flag
<1>4. [p EXCEPT !.flags = fl] \in PStates
  BY <1>2 DEF PStates
<1>5. /\ [p EXCEPT !.flags = fl].flags = fl
      /\ [p EXCEPT !.flags = fl].bound = p.bound /\ [p EXCEPT !.flags = fl].miss = p.miss
      /\ [p EXCEPT !.flags = fl].heap = p.heap
  BY DEF PStates
<1>6. QED
  BY <1>1, <1>3, <1>4, <1>5

Flagged(p, q, S, f) ==
    /\ q.bound = p.bound /\ q.miss = p.miss /\ q.heap = p.heap
    /\ \A n \in Nodes : q.flags[n] = IF n \in S THEN p.flags[n] \cup {f} ELSE p.flags[n]

LEMMA FlagFlags ==
    ASSUME NEW p \in PStates, NEW S, NEW f \in Names
    PROVE  Flagged(p, Flag(p, S, f), S, f)
<1>1. PICK q : q = Flag(p, S, f)
  OBVIOUS
<1>2. /\ q.bound = p.bound /\ q.miss = p.miss /\ q.heap = p.heap
      /\ \A n \in Nodes : q.flags[n] = IF n \in S THEN p.flags[n] \cup {f} ELSE p.flags[n]
  BY <1>1, FlagIs
<1>3. Flagged(p, q, S, f)
  BY <1>2, Zenon DEF Flagged
<1>4. QED
  BY <1>1, <1>3, Zenon

LEMMA InsertVarIs ==
    ASSUME NEW p \in PStates, NEW x \in Int, NEW k \in Nat, NEW c \in Colors
    PROVE  /\ InsertVar(p, x, k, c) \in PStates
           /\ InsertVar(p, x, k, c).flags = p.flags /\ InsertVar(p, x, k, c).bound = p.bound
           /\ InsertVar(p, x, k, c).miss = p.miss
           /\ Range(InsertVar(p, x, k, c).heap) = Range(p.heap) \cup {[cost |-> k, color |-> c, xi |-> x]}
<1>1. PICK e : e = [cost |-> k, color |-> c, xi |-> x]
  OBVIOUS
<1>2. e \in HNode
  BY <1>1 DEF HNode, Colors
<1>3. PICK h : h = HeapInsert(p.heap, e)
  OBVIOUS
<1>4. h \in Heaps /\ Range(h) = Range(p.heap) \cup {e}
  <2>1. p.heap \in Seq(HNode) /\ Ordered(p.heap)
    BY PStateIs
  <2>2. /\ HeapInsert(p.heap, e) \in Seq(HNode) /\ Ordered(HeapInsert(p.heap, e))
        /\ Range(HeapInsert(p.heap, e)) = Range(p.heap) \cup {e}
    BY <1>2, <2>1, InsertIs
  <2>3. QED
    BY <1>3, <2>2 DEF Heaps
<1>5. InsertVar(p, x, k, c) = [p EXCEPT !.heap = h]
  BY <1>1, <1>3 DEF InsertVar
<1>6. [p EXCEPT !.heap = h] \in PStates
  BY <1>4 DEF PStates
<1>7. /\ [p EXCEPT !.heap = h].flags = p.flags /\ [p EXCEPT !.heap = h].bound = p.bound
      /\ [p EXCEPT !.heap = h].miss = p.miss /\ [p EXCEPT !.heap = h].heap = h
  BY DEF PStates
<1>8. QED
  BY <1>1, <1>4, <1>5, <1>6, <1>7

(* The cost that prune_bound_model gives a model.                          *)
Counted(p, mi, c) ==
    Total([j \in DOMAIN Model(mi).shadows |->
              IF c = "BLACK" \/ "SKIP" \in p.flags[Model(mi).shadows[j].x]
              THEN Model(mi).shadows[j].penalty ELSE 0])
NewBound(p, mi, c) == Cap(Model(mi).k + Model(mi).c * (p.bound[mi][c] + Counted(p, mi, c)))

HeapNode(k, c, x) == [cost |-> k, color |-> c, xi |-> x]

LEMMA NewBoundIs ==
    ASSUME G \in Graphs, NEW p \in PStates, NEW mi \in Models, NEW c \in Colors
    PROVE  NewBound(p, mi, c) \in Nat /\ Counted(p, mi, c) \in Nat
<1>1. PICK m : m = Model(mi)
  OBVIOUS
<1>2. /\ m.k \in Nat /\ m.c \in Nat /\ m.c >= 1
      /\ Len(m.shadows) \in Nat /\ DOMAIN m.shadows = 1 .. Len(m.shadows)
      /\ \A j \in DOMAIN m.shadows : m.shadows[j].penalty \in Nat
  BY <1>1, ModelIs
<1> DEFINE s == [j \in DOMAIN m.shadows |->
                    IF c = "BLACK" \/ "SKIP" \in p.flags[m.shadows[j].x]
                    THEN m.shadows[j].penalty ELSE 0]
<1>3. Counted(p, mi, c) = Total(s)
  BY <1>1 DEF Counted
<1>4. s \in [1 .. Len(m.shadows) -> Nat]
  BY <1>2
<1> HIDE DEF s
<1>5. Total(s) \in Nat
  BY <1>2, <1>4, TotalsOrdered, SMTT(30)
<1>6. p.bound[mi][c] \in Nat
  <2>1. mi \in Nodes
    BY GraphIs
  <2>2. QED
    BY <2>1, PStateIs
<1>7. m.c * (p.bound[mi][c] + Total(s)) \in Nat
  BY <1>2, <1>5, <1>6
<1>8. PICK cost \in Nat : cost = m.k + m.c * (p.bound[mi][c] + Total(s))
  BY <1>2, <1>7
<1>9. Cap(cost) \in Nat
  BY GraphIs DEF Cap
<1>10. QED
  BY <1>1, <1>3, <1>5, <1>8, <1>9 DEF NewBound

(* A model is given a bound: only its own bound and flag change, and the   *)
(* variables it yields go to the heap.                                     *)
GivesBound(p, q, mi, c, k) ==
    /\ q \in PStates /\ q.miss = p.miss
    /\ \A n \in Nodes : q.flags[n] = IF n = mi THEN p.flags[n] \cup {c} ELSE p.flags[n]
    /\ \A n \in Nodes : \A d \in Colors :
          q.bound[n][d] = IF n = mi /\ d = c THEN k ELSE p.bound[n][d]

Yielded(mi, c, k, n) ==
    {HeapNode(k, c, Model(mi).returns[j].x) : j \in {j \in 1 .. n : Yields(mi, j, c)}}

LEMMA BoundModelIs ==
    ASSUME G \in Graphs, NEW p \in PStates, NEW mi \in Models, NEW c \in Colors,
           "SKIP" \notin p.flags[mi]
    PROVE  LET q == BoundModel(p, mi, c) IN
           /\ GivesBound(p, q, mi, c, NewBound(p, mi, c))
           /\ Range(q.heap) = Range(p.heap) \cup Yielded(mi, c, NewBound(p, mi, c), Len(Model(mi).returns))
<1>1. PICK m : m = Model(mi)
  OBVIOUS
<1>2. PICK n \in Nat : n = Len(m.returns)
  BY <1>1, ModelIs
<1>3. \A j \in 1 .. n : m.returns[j].x \in Int
  BY <1>1, <1>2, ModelIs, GraphIs
<1>4. PICK k \in Nat : k = NewBound(p, mi, c)
  BY NewBoundIs
<1> DEFINE base == [Flag(p, {mi}, c) EXCEPT !.bound[mi][c] = k]
           Round(i, s) == IF Yields(mi, i, c) THEN InsertVar(s, m.returns[i].x, k, c) ELSE s
           step == [z \in (1 .. n) \X PStates |-> Round(z[1], z[2])]
           D == CHOOSE f : f = [i \in 0 .. n |-> IF i = 0 THEN base ELSE Round(i, f[i - 1])]
<1>5. BoundModel(p, mi, c) = D[n]
  BY <1>1, <1>2, <1>4 DEF BoundModel, NewBound, Counted
<1>6. GivesBound(p, base, mi, c, k) /\ base.heap = p.heap
  <2>1. PICK r \in PStates : r = Flag(p, {mi}, c)
    BY FlagIs DEF Names, Colors
  <2>2. r.bound = p.bound /\ r.miss = p.miss /\ r.heap = p.heap
        /\ \A x \in Nodes : r.flags[x] = IF x \in {mi} THEN p.flags[x] \cup {c} ELSE p.flags[x]
    <3>1. c \in Names
      BY DEF Names, Colors
    <3>2. /\ Flag(p, {mi}, c).bound = p.bound /\ Flag(p, {mi}, c).miss = p.miss
          /\ Flag(p, {mi}, c).heap = p.heap
          /\ \A x \in Nodes : Flag(p, {mi}, c).flags[x] =
                               IF x \in {mi} THEN p.flags[x] \cup {c} ELSE p.flags[x]
      BY <3>1, FlagIs
    <3>3. QED
      BY <2>1, <3>2, Zenon
  <2>3. mi \in Nodes
    BY GraphIs
  <2>4. PICK b : b = [r.bound EXCEPT ![mi][c] = k]
    OBVIOUS
  <2>5. /\ b \in [Nodes -> [Colors -> Nat]]
        /\ \A x \in Nodes : \A d \in Colors : b[x][d] = IF x = mi /\ d = c THEN k ELSE r.bound[x][d]
    <3>1. r.bound \in [Nodes -> [Colors -> Nat]]
      BY PStateIs
    <3>2. QED
      BY <2>3, <2>4, <3>1
  <2>6. base = [r EXCEPT !.bound = b]
    BY <2>1, <2>4 DEF PStates
  <2> HIDE DEF base
  <2>7. base \in PStates /\ base.bound = b /\ base.miss = r.miss /\ base.heap = r.heap
        /\ base.flags = r.flags
    BY <2>5, <2>6 DEF PStates
  <2>8. QED
    BY <2>2, <2>5, <2>7, ZenonT(40) DEF GivesBound
<1> HIDE DEF base
<1>7. base \in PStates
  BY <1>6 DEF GivesBound
<1>8. \A i \in 1 .. n : \A s \in PStates : Round(i, s) \in PStates
  BY <1>3, InsertVarIs
<1> HIDE DEF Round
<1>9. \A i \in 1 .. n : \A s \in PStates : step[<<i, s>>] = Round(i, s) /\ step[<<i, s>>] \in PStates
  BY <1>8
<1> HIDE DEF step
<1>10. Runs(D, PStates, n, base, step)
  <2>1. \E g : Runs(g, PStates, n, base, step)
    BY <1>7, <1>9, LoopRuns
  <2>2. PICK g : Runs(g, PStates, n, base, step)
    BY <2>1
  <2>3. g = [i \in 0 .. n |-> IF i = 0 THEN base ELSE Round(i, g[i - 1])]
    <3>1. g \in [0 .. n -> PStates] /\ g[0] = base /\ \A i \in 1 .. n : g[i] = step[<<i, g[i - 1]>>]
      BY <2>2 DEF Runs
    <3>2. ASSUME NEW i \in 0 .. n PROVE g[i] = IF i = 0 THEN base ELSE Round(i, g[i - 1])
      <4>1. CASE i = 0
        BY <3>1, <4>1
      <4>2. CASE i # 0
        <5>1. i \in 1 .. n /\ i - 1 \in 0 .. n
          BY <4>2
        <5>2. g[i] = step[<<i, g[i - 1]>>] /\ g[i - 1] \in PStates
          BY <3>1, <5>1
        <5>3. g[i] = Round(i, g[i - 1])
          BY <1>9, <5>1, <5>2
        <5>4. QED
          BY <4>2, <5>3
      <4>3. QED
        BY <4>1, <4>2
    <3>3. QED
      BY <3>1, <3>2
  <2>4. D = [i \in 0 .. n |-> IF i = 0 THEN base ELSE Round(i, D[i - 1])]
    BY <2>3, Zenon
  <2> HIDE DEF D
  <2>5. D[0] = base
    BY <2>4
  <2>6. ASSUME NEW i \in 1 .. n, D[i - 1] \in PStates PROVE D[i] = step[<<i, D[i - 1]>>]
    <3>1. i \in 0 .. n /\ i # 0
      OBVIOUS
    <3>2. D[i] = Round(i, D[i - 1])
      BY <2>4, <3>1, Zenon
    <3>3. QED
      BY <1>9, <2>6, <3>2
  <2>7. D = [i \in 0 .. n |-> D[i]]
    BY <2>4
  <2>8. QED
    BY <1>7, <1>9, <2>5, <2>6, <2>7, LoopTyped
<1> HIDE DEF D
<1>11. D \in [0 .. n -> PStates] /\ D[0] = base /\ \A i \in 1 .. n : D[i] = step[<<i, D[i - 1]>>]
  BY <1>10 DEF Runs
<1> DEFINE A == {i \in 0 .. n : GivesBound(p, D[i], mi, c, k)
                                /\ Range(D[i].heap) = Range(p.heap) \cup Yielded(mi, c, k, i)}
<1>12. 0 \in A
  <2>1. Yielded(mi, c, k, 0) = {}
    BY DEF Yielded
  <2>2. QED
    BY <1>6, <1>11, <2>1
<1>13. ASSUME NEW i \in 1 .. n, i - 1 \in A PROVE i \in A
  <2>1. PICK r \in PStates : r = D[i - 1]
    BY <1>11
  <2>2. GivesBound(p, r, mi, c, k) /\ Range(r.heap) = Range(p.heap) \cup Yielded(mi, c, k, i - 1)
    BY <1>13, <2>1
  <2>3. D[i] = Round(i, r)
    BY <1>9, <1>11, <2>1
  <2>4. Yielded(mi, c, k, i) = Yielded(mi, c, k, i - 1)
                               \cup (IF Yields(mi, i, c) THEN {HeapNode(k, c, m.returns[i].x)} ELSE {})
    <3>1. \A j : j \in 1 .. i <=> j \in 1 .. i - 1 \/ j = i
      OBVIOUS
    <3>2. QED
      BY <1>1, <3>1 DEF Yielded
  <2>5. CASE Yields(mi, i, c)
    <3>1. PICK t : t = InsertVar(r, m.returns[i].x, k, c)
      OBVIOUS
    <3>2. D[i] = t
      BY <2>3, <2>5, <3>1 DEF Round
    <3>3. t \in PStates /\ t.flags = r.flags /\ t.bound = r.bound /\ t.miss = r.miss
          /\ Range(t.heap) = Range(r.heap) \cup {HeapNode(k, c, m.returns[i].x)}
      <4>1. PICK x \in Int : x = m.returns[i].x
        BY <1>3
      <4>2. /\ InsertVar(r, x, k, c) \in PStates
            /\ InsertVar(r, x, k, c).flags = r.flags /\ InsertVar(r, x, k, c).bound = r.bound
            /\ InsertVar(r, x, k, c).miss = r.miss
            /\ Range(InsertVar(r, x, k, c).heap) = Range(r.heap) \cup {HeapNode(k, c, x)}
        BY InsertVarIs DEF HeapNode
      <4>3. QED
        BY <3>1, <4>1, <4>2, Zenon
    <3>4. GivesBound(p, t, mi, c, k)
      BY <2>2, <3>3 DEF GivesBound
    <3>5. Range(t.heap) = Range(p.heap) \cup Yielded(mi, c, k, i)
      BY <2>2, <2>4, <2>5, <3>3
    <3>6. QED
      BY <3>2, <3>4, <3>5
  <2>6. CASE ~Yields(mi, i, c)
    <3>1. D[i] = r
      BY <2>3, <2>6 DEF Round
    <3>2. QED
      BY <2>2, <2>4, <2>6, <3>1
  <2>7. QED
    BY <2>5, <2>6
<1> HIDE DEF A
<1>14. n \in A
  <2>1. \A i \in 0 .. n : i \in A
    BY <1>12, <1>13, UpTo
  <2>2. QED
    BY <2>1
<1>15. GivesBound(p, D[n], mi, c, k) /\ Range(D[n].heap) = Range(p.heap) \cup Yielded(mi, c, k, n)
  BY <1>14 DEF A
<1>16. QED
  BY <1>1, <1>2, <1>4, <1>5, <1>15

-----------------------------------------------------------------------------
(* What costs mean.                                                        *)

LEMMA ItemIs ==
    ASSUME G \in Graphs, NEW mi \in Models, NEW j
    PROVE  /\ j \in DOMAIN Model(mi).params /\ Model(mi).params[j].user
              => <<mi, "param", j>> \in Items(G)
           /\ j \in DOMAIN Model(mi).returns /\ Model(mi).returns[j].user
              => <<mi, "return", j>> \in Items(G)
           /\ j \in DOMAIN Model(mi).shadows => <<mi, "shadow", j>> \in Items(G)
<1> DEFINE m == G.model[-mi]
           I == {<<mi, "param", i>> : i \in {i \in DOMAIN m.params : m.params[i].user}}
                \cup {<<mi, "return", i>> : i \in {i \in DOMAIN m.returns : m.returns[i].user}}
                \cup {<<mi, "shadow", i>> : i \in DOMAIN m.shadows}
<1>1. I \subseteq Items(G)
  BY ZenonT(40) DEF Items, Models
<1>2. Model(mi) = m
  BY DEF Model
<1>3. ASSUME j \in DOMAIN m.params, m.params[j].user PROVE <<mi, "param", j>> \in I
  BY <1>3
<1>4. ASSUME j \in DOMAIN m.returns, m.returns[j].user PROVE <<mi, "return", j>> \in I
  BY <1>4
<1>5. ASSUME j \in DOMAIN m.shadows PROVE <<mi, "shadow", j>> \in I
  BY <1>5
<1> HIDE DEF I, m
<1>6. QED
  BY <1>1, <1>2, <1>3, <1>4, <1>5

LEMMA ScenarioIs ==
    ASSUME G \in Graphs, NEW mi \in Models, NEW c \in Colors
    PROVE  /\ \A j \in DOMAIN Model(mi).params : Takes(G, mi, j, Scenario(c)) <=> Waits(mi, j, c)
           /\ \A x : Returns(G, mi, x, Scenario(c)) <=>
                     \E j \in DOMAIN Model(mi).returns :
                        Yields(mi, j, c) /\ Model(mi).returns[j].x = x
           /\ \A j \in DOMAIN Model(mi).shadows :
                 Fails(G, mi, j, Scenario(c)) <=> c = "BLACK" \/ Model(mi).shadows[j].x \in G.skip
<1>1. Model(mi) = G.model[-mi]
  BY DEF Model
<1>2. c = "GRAY" \/ c = "BLACK"
  BY DEF Colors
<1>3. CASE c = "GRAY"
  <2>1. Scenario(c) = Best(G)
    BY <1>3 DEF Scenario
  <2>2. ASSUME NEW j \in DOMAIN Model(mi).params PROVE <<mi, "param", j>> \notin Best(G)
    BY DEF Best
  <2>3. ASSUME NEW j \in DOMAIN Model(mi).shadows PROVE <<mi, "shadow", j>> \notin Best(G)
    BY DEF Best
  <2>4. ASSUME NEW j \in DOMAIN Model(mi).returns, Model(mi).returns[j].user
        PROVE  <<mi, "return", j>> \in Best(G)
    BY <2>4, ItemIs DEF Best
  <2>5. \A j \in DOMAIN Model(mi).params : Takes(G, mi, j, Scenario(c)) <=> Waits(mi, j, c)
    BY <1>1, <1>3, <2>1, <2>2 DEF Takes, Waits
  <2>6. \A j \in DOMAIN Model(mi).shadows :
           Fails(G, mi, j, Scenario(c)) <=> c = "BLACK" \/ Model(mi).shadows[j].x \in G.skip
    BY <1>1, <1>3, <2>1, <2>3 DEF Fails
  <2>7. \A x : Returns(G, mi, x, Scenario(c)) <=>
               \E j \in DOMAIN Model(mi).returns : Yields(mi, j, c) /\ Model(mi).returns[j].x = x
    BY <1>1, <1>3, <2>1, <2>4 DEF Returns, Yields
  <2>8. QED
    BY <2>5, <2>6, <2>7
<1>4. CASE c = "BLACK"
  <2>1. Scenario(c) = Worst(G)
    BY <1>4 DEF Scenario
  <2>2. ASSUME NEW j \in DOMAIN Model(mi).params, Model(mi).params[j].user
        PROVE  <<mi, "param", j>> \in Worst(G)
    BY <2>2, ItemIs DEF Worst
  <2>3. ASSUME NEW j \in DOMAIN Model(mi).shadows PROVE <<mi, "shadow", j>> \in Worst(G)
    BY ItemIs DEF Worst
  <2>4. ASSUME NEW j \in DOMAIN Model(mi).returns PROVE <<mi, "return", j>> \notin Worst(G)
    BY DEF Worst
  <2>5. \A j \in DOMAIN Model(mi).params : Takes(G, mi, j, Scenario(c)) <=> Waits(mi, j, c)
    BY <1>1, <1>4, <2>1, <2>2 DEF Takes, Waits
  <2>6. \A j \in DOMAIN Model(mi).shadows :
           Fails(G, mi, j, Scenario(c)) <=> c = "BLACK" \/ Model(mi).shadows[j].x \in G.skip
    BY <1>1, <1>4, <2>1, <2>3 DEF Fails
  <2>7. \A x : Returns(G, mi, x, Scenario(c)) <=>
               \E j \in DOMAIN Model(mi).returns : Yields(mi, j, c) /\ Model(mi).returns[j].x = x
    BY <1>1, <1>4, <2>1, <2>4 DEF Returns, Yields
  <2>8. QED
    BY <2>5, <2>6, <2>7
<1>5. QED
  BY <1>2, <1>3, <1>4

Costs == [Vars -> 0 .. Inf]
Paid(mi, on, cost) ==
    Total([j \in DOMAIN Model(mi).params |->
              IF Takes(G, mi, j, on) THEN cost[Model(mi).params[j].x] ELSE 0])
Penal(mi, on) ==
    Total([j \in DOMAIN Model(mi).shadows |->
              IF Fails(G, mi, j, on) THEN Model(mi).shadows[j].penalty ELSE 0])

LEMMA CostIs ==
    ASSUME G \in Graphs, NEW mi \in Models, NEW on, NEW cost \in Costs
    PROVE  /\ Paid(mi, on, cost) \in Nat /\ Penal(mi, on) \in Nat
           /\ Model(mi).k + Model(mi).c * (Paid(mi, on, cost) + Penal(mi, on)) \in Nat
           /\ ModelCost(G, mi, on, cost) =
                 Cap(Model(mi).k + Model(mi).c * (Paid(mi, on, cost) + Penal(mi, on)))
           /\ ModelCost(G, mi, on, cost) \in 0 .. Inf
           /\ \A j \in DOMAIN Model(mi).params :
                 Takes(G, mi, j, on) => cost[Model(mi).params[j].x] <= ModelCost(G, mi, on, cost)
<1>1. PICK m : m = Model(mi)
  OBVIOUS
<1>2. m = G.model[-mi]
  BY <1>1 DEF Model
<1>3. /\ m.k \in Nat /\ m.c \in Nat /\ m.c >= 1
      /\ Len(m.params) \in Nat /\ DOMAIN m.params = 1 .. Len(m.params)
      /\ \A j \in DOMAIN m.params : m.params[j].x \in Vars
      /\ Len(m.shadows) \in Nat /\ DOMAIN m.shadows = 1 .. Len(m.shadows)
      /\ \A j \in DOMAIN m.shadows : m.shadows[j].penalty \in Nat
  BY <1>1, ModelIs
<1> DEFINE a == [j \in DOMAIN m.params |-> IF Takes(G, mi, j, on) THEN cost[m.params[j].x] ELSE 0]
           b == [j \in DOMAIN m.shadows |-> IF Fails(G, mi, j, on) THEN m.shadows[j].penalty ELSE 0]
<1>4. Paid(mi, on, cost) = Total(a) /\ Penal(mi, on) = Total(b)
  BY <1>1 DEF Paid, Penal
<1>5. ModelCost(G, mi, on, cost) = Cap(m.k + m.c * (Total(a) + Total(b)))
  BY <1>2 DEF ModelCost
<1>i. Inf \in Nat
  BY GraphIs
<1>6. \A x \in Vars : cost[x] \in Nat /\ cost[x] <= Inf
  BY <1>i DEF Costs
<1>7. a \in [1 .. Len(m.params) -> Nat] /\ b \in [1 .. Len(m.shadows) -> Nat]
  BY <1>3, <1>6
<1>8. \A j \in DOMAIN m.params : Takes(G, mi, j, on) => a[j] = cost[m.params[j].x]
  OBVIOUS
<1> HIDE DEF a, b
<1>9. Total(a) \in Nat /\ \A j \in DOMAIN m.params : a[j] <= Total(a)
  <2>1. Total(a) \in Nat
    BY <1>3, <1>7, TotalType
  <2>2. QED
    BY <1>3, <1>7, <2>1, TotalItem
<1>10. Total(b) \in Nat
  BY <1>3, <1>7, TotalType
<1>11. PICK s \in Nat : s = Total(a) + Total(b)
  BY <1>9, <1>10
<1>12. m.k + m.c * s \in Nat /\ s <= m.k + m.c * s
  <2>1. PICK k \in Nat, w \in Nat : k = m.k /\ w = m.c /\ w >= 1
    BY <1>3
  <2>2. k + w * s \in Nat /\ s <= k + w * s
    BY <2>1, Weighed
  <2>3. QED
    BY <2>1, <2>2
<1>13. Cap(m.k + m.c * s) \in 0 .. Inf
  BY <1>12, <1>i DEF Cap
<1>14. ASSUME NEW j \in DOMAIN m.params, Takes(G, mi, j, on)
       PROVE  cost[m.params[j].x] <= Cap(m.k + m.c * s)
  <2>1. PICK y \in Nat : y = cost[m.params[j].x] /\ y <= Inf
    BY <1>3, <1>6
  <2>2. y <= Total(a)
    BY <1>8, <1>9, <1>14, <2>1
  <2>3. y <= s
    BY <1>9, <1>10, <1>11, <2>2
  <2>4. y <= m.k + m.c * s
    BY <1>12, <2>3
  <2>5. QED
    BY <1>12, <1>i, <2>1, <2>4 DEF Cap
<1>15. QED
  BY <1>1, <1>4, <1>5, <1>9, <1>10, <1>11, <1>12, <1>13, <1>14

(* A scenario that takes and fails more, at higher costs, costs more.      *)
LEMMA CostRises ==
    ASSUME G \in Graphs, NEW mi \in Models, NEW on, NEW cost \in Costs,
           NEW on2, NEW cost2 \in Costs,
           \A j \in DOMAIN Model(mi).params : Takes(G, mi, j, on) =>
              Takes(G, mi, j, on2) /\ cost[Model(mi).params[j].x] <= cost2[Model(mi).params[j].x],
           \A j \in DOMAIN Model(mi).shadows : Fails(G, mi, j, on) => Fails(G, mi, j, on2)
    PROVE  ModelCost(G, mi, on, cost) <= ModelCost(G, mi, on2, cost2)
<1>1. PICK m : m = Model(mi)
  OBVIOUS
<1>3. /\ m.k \in Nat /\ m.c \in Nat /\ m.c >= 1
      /\ Len(m.params) \in Nat /\ DOMAIN m.params = 1 .. Len(m.params)
      /\ \A j \in DOMAIN m.params : m.params[j].x \in Vars
      /\ Len(m.shadows) \in Nat /\ DOMAIN m.shadows = 1 .. Len(m.shadows)
      /\ \A j \in DOMAIN m.shadows : m.shadows[j].penalty \in Nat
  BY <1>1, ModelIs
<1> DEFINE a == [j \in DOMAIN m.params |-> IF Takes(G, mi, j, on) THEN cost[m.params[j].x] ELSE 0]
           b == [j \in DOMAIN m.shadows |-> IF Fails(G, mi, j, on) THEN m.shadows[j].penalty ELSE 0]
           a2 == [j \in DOMAIN m.params |-> IF Takes(G, mi, j, on2) THEN cost2[m.params[j].x] ELSE 0]
           b2 == [j \in DOMAIN m.shadows |-> IF Fails(G, mi, j, on2) THEN m.shadows[j].penalty ELSE 0]
<1>i. Inf \in Nat
  BY GraphIs
<1>6. \A x \in Vars : cost[x] \in Nat /\ cost2[x] \in Nat
  BY <1>i DEF Costs
<1>7. a \in [1 .. Len(m.params) -> Nat] /\ b \in [1 .. Len(m.shadows) -> Nat]
  BY <1>3, <1>6
<1>8. a2 \in [1 .. Len(m.params) -> Nat] /\ b2 \in [1 .. Len(m.shadows) -> Nat]
  BY <1>3, <1>6
<1>9. \A j \in 1 .. Len(m.params) : a[j] <= a2[j]
  BY <1>1, <1>3, <1>6
<1>10. \A j \in 1 .. Len(m.shadows) : b[j] <= b2[j]
  BY <1>1, <1>3
<1>11. /\ Paid(mi, on, cost) = Total(a) /\ Penal(mi, on) = Total(b)
       /\ Paid(mi, on2, cost2) = Total(a2) /\ Penal(mi, on2) = Total(b2)
  BY <1>1 DEF Paid, Penal
<1> HIDE DEF a, b, a2, b2
<1>12. Total(a) <= Total(a2) /\ Total(a) \in Nat /\ Total(a2) \in Nat
  BY <1>3, <1>7, <1>8, <1>9, TotalsOrdered
<1>13. Total(b) <= Total(b2) /\ Total(b) \in Nat /\ Total(b2) \in Nat
  BY <1>3, <1>7, <1>8, <1>10, TotalsOrdered
<1>14. PICK s \in Nat, s2 \in Nat : s = Total(a) + Total(b) /\ s2 = Total(a2) + Total(b2) /\ s <= s2
  BY <1>12, <1>13
<1>15. m.k + m.c * s \in Nat /\ m.k + m.c * s2 \in Nat /\ m.k + m.c * s <= m.k + m.c * s2
  <2>1. PICK k \in Nat, w \in Nat : k = m.k /\ w = m.c /\ w >= 1
    BY <1>3
  <2>2. k + w * s \in Nat /\ k + w * s <= k + w * s2
    BY <1>14, <2>1, Weighed
  <2>3. s2 <= s2
    BY <1>14
  <2>4. k + w * s2 \in Nat
    BY <2>1, <2>3, Weighed
  <2>5. QED
    BY <2>1, <2>2, <2>4
<1>16. ModelCost(G, mi, on, cost) = Cap(m.k + m.c * s)
       /\ ModelCost(G, mi, on2, cost2) = Cap(m.k + m.c * s2)
  BY <1>1, <1>11, <1>14, CostIs
<1>17. QED
  BY <1>15, <1>16, <1>i DEF Cap

LEMMA UsableIs ==
    ASSUME NEW mi
    PROVE  mi \in Usable(G) <=>
              /\ mi \in Models
              /\ \A e \in Range(Model(mi).returns) : e.x \notin G.given \cup G.skip
              /\ \A e \in Range(Model(mi).params) : e.x \notin G.skip
BY DEF Usable, Models, Model

LEMMA RelaxIs ==
    ASSUME G \in Graphs, NEW on, NEW cost \in Costs
    PROVE  LET r == Relax(G, Usable(G), on, cost) IN
           /\ r \in Costs
           /\ \A x \in Vars :
                 /\ r[x] <= cost[x]
                 /\ \A mi \in Usable(G) : Returns(G, mi, x, on) => r[x] <= ModelCost(G, mi, on, cost)
                 /\ r[x] = cost[x] \/
                    \E mi \in Usable(G) : Returns(G, mi, x, on) /\ r[x] = ModelCost(G, mi, on, cost)
<1>1. PICK r : r = Relax(G, Usable(G), on, cost)
  OBVIOUS
<1> DEFINE Offers(x) == {cost[x]} \cup {ModelCost(G, mi, on, cost) :
                                          mi \in {mi \in Usable(G) : Returns(G, mi, x, on)}}
<1>2. r = [x \in Vars |-> Min(Offers(x))]
  BY <1>1 DEF Relax, Vars
<1>i. Inf \in Nat
  BY GraphIs
<1>3. ASSUME NEW x \in Vars PROVE Offers(x) \subseteq 0 .. Inf
  <2>1. cost[x] \in 0 .. Inf
    BY DEF Costs
  <2>2. ASSUME NEW mi \in Usable(G) PROVE ModelCost(G, mi, on, cost) \in 0 .. Inf
    BY UsableIs, CostIs
  <2>3. QED
    BY <2>1, <2>2
<1>4. ASSUME NEW x \in Vars
      PROVE  r[x] \in Offers(x) /\ \A y \in Offers(x) : r[x] <= y
  <2>1. Offers(x) # {}
    OBVIOUS
  <2>2. Offers(x) \subseteq Nat
    BY <1>3, <1>i
  <2> HIDE DEF Offers
  <2>3. r[x] = Min(Offers(x))
    BY <1>2
  <2>4. Min(Offers(x)) \in Offers(x) /\ \A y \in Offers(x) : Min(Offers(x)) <= y
    BY <2>1, <2>2, MinIs
  <2>5. QED
    BY <2>3, <2>4
<1>5. r \in Costs
  <2>1. \A x \in Vars : r[x] \in 0 .. Inf
    BY <1>3, <1>4
  <2> HIDE DEF Offers
  <2>2. QED
    BY <1>2, <2>1 DEF Costs
<1>6. ASSUME NEW x \in Vars
      PROVE  /\ r[x] <= cost[x]
             /\ \A mi \in Usable(G) : Returns(G, mi, x, on) => r[x] <= ModelCost(G, mi, on, cost)
             /\ r[x] = cost[x] \/
                \E mi \in Usable(G) : Returns(G, mi, x, on) /\ r[x] = ModelCost(G, mi, on, cost)
  <2>1. r[x] \in Offers(x) /\ \A y \in Offers(x) : r[x] <= y
    BY <1>4
  <2>2. r[x] <= cost[x]
    BY <2>1
  <2>3. ASSUME NEW mi \in Usable(G), Returns(G, mi, x, on)
        PROVE  r[x] <= ModelCost(G, mi, on, cost)
    <3>1. ModelCost(G, mi, on, cost) \in Offers(x)
      BY <2>3
    <3> HIDE DEF Offers
    <3>2. QED
      BY <2>1, <3>1
  <2>4. r[x] = cost[x] \/
        \E mi \in Usable(G) : Returns(G, mi, x, on) /\ r[x] = ModelCost(G, mi, on, cost)
    BY <2>1
  <2>5. QED
    BY <2>2, <2>3, <2>4
<1>7. QED
  BY <1>1, <1>5, <1>6

Least(on) == LeastCost(G, Usable(G), on)

(* The costs that chains of growing length reach.                          *)
ChainCosts(f, on) ==
    /\ f \in [0 .. G.nv -> Costs]
    /\ \A x \in Vars : f[0][x] = IF x \in G.given THEN 0 ELSE Inf
    /\ \A i \in 1 .. G.nv : f[i] = Relax(G, Usable(G), on, f[i - 1])
    /\ Least(on) = f[G.nv]

LEMMA ChainExists ==
    ASSUME G \in Graphs, NEW on
    PROVE  \E f : ChainCosts(f, on)
<1> DEFINE base == [x \in Vars |-> IF x \in G.given THEN 0 ELSE Inf]
           step == [cost \in Costs |-> Relax(G, Usable(G), on, cost)]
<1>1. Least(on) = Iterated(step, base, G.nv)
  BY DEF Least, LeastCost, Vars, Costs
<1>2. base \in Costs /\ \A x \in Vars : base[x] = IF x \in G.given THEN 0 ELSE Inf
  <2>1. Inf \in Nat
    BY GraphIs
  <2>2. QED
    BY <2>1 DEF Costs
<1>3. step \in [Costs -> Costs]
  BY RelaxIs
<1>4. \A cost \in Costs : step[cost] = Relax(G, Usable(G), on, cost)
  OBVIOUS
<1>5. G.nv \in Nat
  BY GraphIs
<1> HIDE DEF base, step
<1>6. \E f : Iterates(f, Costs, step, base, G.nv)
  BY <1>2, <1>3, <1>5, IteratedIs
<1>7. PICK f : Iterates(f, Costs, step, base, G.nv)
  BY <1>6
<1>8. /\ f \in [0 .. G.nv -> Costs] /\ f[0] = base
      /\ \A i \in 1 .. G.nv : f[i] = step[f[i - 1]]
      /\ Least(on) = f[G.nv]
  BY <1>1, <1>7 DEF Iterates
<1>9. ASSUME NEW i \in 1 .. G.nv PROVE f[i] = Relax(G, Usable(G), on, f[i - 1])
  <2>1. i - 1 \in 0 .. G.nv
    BY <1>5
  <2>2. f[i - 1] \in Costs
    BY <1>8, <2>1
  <2>3. QED
    BY <1>4, <1>8, <2>2
<1>10. ChainCosts(f, on)
  <2>1. \A x \in Vars : f[0][x] = IF x \in G.given THEN 0 ELSE Inf
    BY <1>2, <1>8
  <2>2. \A i \in 1 .. G.nv : f[i] = Relax(G, Usable(G), on, f[i - 1])
    BY <1>9
  <2>3. f \in [0 .. G.nv -> Costs] /\ Least(on) = f[G.nv]
    BY <1>8, Zenon
  <2>4. QED
    BY <2>1, <2>2, <2>3, Zenon DEF ChainCosts
<1>11. QED
  BY <1>10

LEMMA ChainFalls ==
    ASSUME G \in Graphs, NEW on, NEW f, ChainCosts(f, on)
    PROVE  /\ Least(on) \in Costs
           /\ \A i \in 0 .. G.nv : f[i] \in Costs /\ \A x \in Vars : Least(on)[x] <= f[i][x] /\ f[i][x] <= f[0][x]
<1>1. G.nv \in Nat /\ Inf \in Nat
  BY GraphIs
<1>2. f \in [0 .. G.nv -> Costs] /\ Least(on) = f[G.nv]
  BY DEF ChainCosts
<1>3. ASSUME NEW i \in 1 .. G.nv, NEW x \in Vars PROVE f[i][x] <= f[i - 1][x]
  <2>1. i - 1 \in 0 .. G.nv
    BY <1>1
  <2>2. f[i - 1] \in Costs
    BY <1>2, <2>1
  <2>3. f[i] = Relax(G, Usable(G), on, f[i - 1])
    BY DEF ChainCosts
  <2>4. Relax(G, Usable(G), on, f[i - 1])[x] <= f[i - 1][x]
    BY <2>2, RelaxIs
  <2>5. QED
    BY <2>3, <2>4
<1>4. ASSUME NEW x \in Vars, NEW i \in 0 .. G.nv PROVE f[G.nv][x] <= f[i][x] /\ f[i][x] <= f[0][x]
  <2> DEFINE h == [j \in 0 .. G.nv |-> Inf - f[j][x]]
  <2>1. \A j \in 0 .. G.nv : f[j][x] \in 0 .. Inf
    BY <1>2 DEF Costs
  <2>2. h \in [0 .. G.nv -> Nat]
    BY <1>1, <2>1
  <2>3. ASSUME NEW j \in 1 .. G.nv PROVE h[j - 1] <= h[j]
    <3>1. f[j][x] <= f[j - 1][x]
      BY <1>3
    <3>2. j \in 0 .. G.nv /\ j - 1 \in 0 .. G.nv
      BY <1>1
    <3>3. QED
      BY <1>1, <2>1, <3>1, <3>2
  <2>4. \A j \in 0 .. G.nv : h[j] = Inf - f[j][x]
    OBVIOUS
  <2> HIDE DEF h
  <2>5. \A j, k \in 0 .. G.nv : j <= k => h[j] <= h[k]
    BY <1>1, <2>2, <2>3, Rises
  <2>6. h[i] <= h[G.nv] /\ h[0] <= h[i]
    BY <1>1, <2>5
  <2>7. G.nv \in 0 .. G.nv /\ 0 \in 0 .. G.nv
    BY <1>1
  <2>8. QED
    BY <1>1, <2>1, <2>4, <2>6, <2>7
<1>5. G.nv \in 0 .. G.nv
  BY <1>1
<1>6. QED
  BY <1>2, <1>4, <1>5

-----------------------------------------------------------------------------
(* The state of the bounds of one color: col, the nodes that have a bound; *)
(* b, their bounds, and for a model without one the sum of the bounds of   *)
(* its parameters that reached it, which are those of the edges D; miss,   *)
(* how many it still waits for; and ent, the <<bound, variable>> entries   *)
(* of the heap.                                                            *)

LeastOf(c) == Least(Scenario(c))
Due(mi, c, D) == {j \in DOMAIN Model(mi).params : Waits(mi, j, c) /\ <<mi, j>> \notin D}
Arrived(mi, c, D) ==
    Total([j \in DOMAIN Model(mi).params |->
              IF Waits(mi, j, c) /\ <<mi, j>> \in D THEN LeastOf(c)[Model(mi).params[j].x] ELSE 0])

(* The bounds are the least costs; a model has one, if it may, as soon as  *)
(* nothing is missing (M: the models that have been looked at).            *)
Known(v, c) == \A x \in Vars : x \in v.col => v.b[x] = LeastOf(c)[x]
Priced(v, c) ==
    \A mi \in Models : mi \in v.col =>
        v.b[mi] = ModelCost(G, mi, Scenario(c), LeastOf(c))
Counting(v, c, D, M) ==
    \A mi \in Models :
        /\ v.miss[mi] = Cardinality(Due(mi, c, D))
        /\ mi \notin v.col => v.b[mi] = Arrived(mi, c, D)
        /\ mi \in v.col <=> mi \in M /\ mi \in Usable(G) /\ v.miss[mi] = 0
Reached(v, D) ==
    \A mi \in Models : \A j \in DOMAIN Model(mi).params :
        <<mi, j>> \in D => Model(mi).params[j].x \in v.col

(* The heap has what models with a bound yield, and nothing else, until    *)
(* the variable has a bound, which is then as low.                         *)
Sound(v, c) ==
    \A e \in v.ent :
        /\ e[1] \in Nat /\ e[2] \in Vars
        /\ \/ e[2] \in G.given /\ e[1] = 0
           \/ \E mi \in Models : mi \in v.col /\ Returns(G, mi, e[2], Scenario(c)) /\ e[1] = v.b[mi]
Complete(v, c) ==
    /\ \A x \in G.given : x \in v.col \/ <<0, x>> \in v.ent
    /\ \A mi \in Models : \A x \in Vars :
          mi \in v.col /\ Returns(G, mi, x, Scenario(c)) =>
             (x \in v.col /\ v.b[x] <= v.b[mi]) \/ <<v.b[mi], x>> \in v.ent

(* Bounds come in increasing order, each from a chain no longer than the   *)
(* number of variables that have one.                                      *)
InOrder(v) == \A x \in Vars : \A e \in v.ent : x \in v.col => v.b[x] <= e[1]
Deep(v, c) ==
    \A f : ChainCosts(f, Scenario(c)) =>
        \A x \in Vars : x \in v.col => f[Cardinality(Vars \cap v.col)][x] <= LeastOf(c)[x]

Typed(v) == v.b \in [Nodes -> Nat] /\ v.miss \in [Models -> Int]
Correct(v, c, D, M) ==
    /\ Typed(v) /\ Known(v, c) /\ Priced(v, c) /\ Counting(v, c, D, M) /\ Reached(v, D)
    /\ Sound(v, c) /\ Complete(v, c) /\ InOrder(v) /\ Deep(v, c)

LEMMA LeastIs ==
    ASSUME G \in Graphs, NEW c
    PROVE  LeastOf(c) \in Costs /\ \A x \in Vars : LeastOf(c)[x] \in Nat /\ LeastOf(c)[x] <= Inf
<1>1. \E f : ChainCosts(f, Scenario(c))
  BY ChainExists
<1>2. PICK f : ChainCosts(f, Scenario(c))
  BY <1>1
<1>3. LeastOf(c) \in Costs
  BY <1>2, ChainFalls DEF LeastOf
<1>4. Inf \in Nat
  BY GraphIs
<1>5. QED
  BY <1>3, <1>4 DEF Costs

LEMMA DueIs ==
    ASSUME G \in Graphs, NEW mi \in Models, NEW c \in Colors, NEW D
    PROVE  /\ IsFiniteSet(Due(mi, c, D)) /\ Cardinality(Due(mi, c, D)) \in Nat
           /\ Cardinality(Due(mi, c, D)) = 0 <=> Due(mi, c, D) = {}
           /\ Arrived(mi, c, D) \in Nat
           /\ Due(mi, c, D) = {} => Arrived(mi, c, D) = Paid(mi, Scenario(c), LeastOf(c))
<1>1. PICK m : m = Model(mi)
  OBVIOUS
<1>2. /\ Len(m.params) \in Nat /\ DOMAIN m.params = 1 .. Len(m.params)
      /\ \A j \in DOMAIN m.params : m.params[j].x \in Vars
  BY <1>1, ModelIs
<1>3. IsFiniteSet(Due(mi, c, D))
  <2>1. IsFiniteSet(1 .. Len(m.params))
    BY <1>2, FS_Interval
  <2>2. Due(mi, c, D) \subseteq 1 .. Len(m.params)
    BY <1>1, <1>2 DEF Due
  <2>3. QED
    BY <2>1, <2>2, FS_Subset
<1>4. Cardinality(Due(mi, c, D)) \in Nat
  BY <1>3, FS_CardinalityType
<1>5. Cardinality(Due(mi, c, D)) = 0 <=> Due(mi, c, D) = {}
  BY <1>3, FS_EmptySet
<1> DEFINE a == [j \in DOMAIN m.params |->
                    IF Waits(mi, j, c) /\ <<mi, j>> \in D THEN LeastOf(c)[m.params[j].x] ELSE 0]
           b == [j \in DOMAIN m.params |->
                    IF Takes(G, mi, j, Scenario(c)) THEN LeastOf(c)[m.params[j].x] ELSE 0]
<1>6. Arrived(mi, c, D) = Total(a)
  BY <1>1 DEF Arrived
<1>7. Paid(mi, Scenario(c), LeastOf(c)) = Total(b)
  BY <1>1 DEF Paid
<1>8. Total(a) \in Nat
  <2>1. a \in [1 .. Len(m.params) -> Nat]
    BY <1>2, LeastIs
  <2> HIDE DEF a
  <2>2. QED
    BY <1>2, <2>1, TotalType
<1>9. ASSUME Due(mi, c, D) = {} PROVE a = b
  <2>1. \A j \in DOMAIN m.params : Waits(mi, j, c) => <<mi, j>> \in D
    BY <1>1, <1>9 DEF Due
  <2>2. \A j \in DOMAIN m.params : Takes(G, mi, j, Scenario(c)) <=> Waits(mi, j, c)
    BY <1>1, ScenarioIs
  <2>3. \A j \in DOMAIN m.params : a[j] = b[j]
    BY <2>1, <2>2
  <2>4. QED
    BY <2>3
<1> HIDE DEF a, b
<1>10. QED
  BY <1>3, <1>4, <1>5, <1>6, <1>7, <1>8, <1>9

(* prune_bound_model on a model that waits for nothing more.               *)
Bounding(v, w, mi, c, k) ==
    /\ w.col = v.col \cup {mi} /\ w.miss = v.miss /\ w.b \in [Nodes -> Nat]
    /\ \A n \in Nodes : w.b[n] = IF n = mi THEN k ELSE v.b[n]
    /\ \A e : e \in w.ent <=> e \in v.ent \/ \E x \in Vars : Returns(G, mi, x, Scenario(c)) /\ e = <<k, x>>

LEMMA BoundIsCost ==
    ASSUME G \in Graphs, NEW v, NEW c \in Colors, NEW D, NEW M, Correct(v, c, D, M),
           NEW mi \in Usable(G), mi \notin M, v.miss[mi] = 0
    PROVE  /\ Cap(Model(mi).k + Model(mi).c * (v.b[mi] + Penal(mi, Scenario(c))))
                 = ModelCost(G, mi, Scenario(c), LeastOf(c))
           /\ ModelCost(G, mi, Scenario(c), LeastOf(c)) \in Nat
           /\ \A j \in DOMAIN Model(mi).params :
                 Waits(mi, j, c) =>
                    LeastOf(c)[Model(mi).params[j].x] <= ModelCost(G, mi, Scenario(c), LeastOf(c))
<1>1. mi \in Models
  BY UsableIs
<1>2. v.miss[mi] = Cardinality(Due(mi, c, D)) /\ mi \notin v.col /\ v.b[mi] = Arrived(mi, c, D)
  BY <1>1 DEF Correct, Counting
<1>3. Due(mi, c, D) = {} /\ v.b[mi] = Paid(mi, Scenario(c), LeastOf(c))
  BY <1>1, <1>2, DueIs
<1>4. LeastOf(c) \in Costs /\ Inf \in Nat
  BY LeastIs, GraphIs
<1>5. /\ ModelCost(G, mi, Scenario(c), LeastOf(c)) \in 0 .. Inf
      /\ ModelCost(G, mi, Scenario(c), LeastOf(c)) =
            Cap(Model(mi).k + Model(mi).c * (Paid(mi, Scenario(c), LeastOf(c)) + Penal(mi, Scenario(c))))
  BY <1>1, <1>4, CostIs
<1>6. \A j \in DOMAIN Model(mi).params : Waits(mi, j, c) =>
         LeastOf(c)[Model(mi).params[j].x] <= ModelCost(G, mi, Scenario(c), LeastOf(c))
  BY <1>1, <1>4, CostIs, ScenarioIs
<1>7. QED
  BY <1>3, <1>4, <1>5, <1>6

LEMMA CorrectBound ==
    ASSUME G \in Graphs, NEW v, NEW c \in Colors, NEW D, NEW M, Correct(v, c, D, M),
           NEW mi \in Usable(G), mi \notin M, v.miss[mi] = 0,
           NEW k, k = ModelCost(G, mi, Scenario(c), LeastOf(c)),
           \A x \in Vars : x \in v.col => v.b[x] <= k,
           NEW w, Bounding(v, w, mi, c, k)
    PROVE  Correct(w, c, D, M \cup {mi})
<1>1. mi \in Models /\ mi \in Nodes /\ mi \notin v.col
  BY UsableIs, GraphIs DEF Correct, Counting
<1>2. k \in Nat
  BY BoundIsCost
<1>3. \A n \in Vars : n \in Nodes /\ n # mi
  BY <1>1, GraphIs
<1>4. \A n \in Models : n \in Nodes
  BY GraphIs
<1>5. /\ w.col = v.col \cup {mi} /\ w.miss = v.miss /\ w.b \in [Nodes -> Nat]
      /\ \A n \in Nodes : w.b[n] = IF n = mi THEN k ELSE v.b[n]
  BY DEF Bounding
<1>6. \A e : e \in w.ent <=> e \in v.ent \/ \E x \in Vars : Returns(G, mi, x, Scenario(c)) /\ e = <<k, x>>
  BY DEF Bounding
<1>7. \A x \in Vars : w.b[x] = v.b[x] /\ (x \in w.col <=> x \in v.col)
  BY <1>3, <1>5
<1>8. w.b[mi] = k /\ mi \in w.col
      /\ \A n \in Models : n # mi => w.b[n] = v.b[n] /\ (n \in w.col <=> n \in v.col)
  BY <1>1, <1>4, <1>5
<1>9. Typed(w)
  BY <1>5 DEF Correct, Typed
<1>10. Known(w, c)
  BY <1>7 DEF Correct, Known
<1>11. Priced(w, c)
  <2>1. Priced(v, c)
    BY DEF Correct
  <2>2. QED
    BY <1>2, <1>8, <2>1 DEF Priced
<1>12. Counting(w, c, D, M \cup {mi})
  <2>1. Counting(v, c, D, M)
    BY DEF Correct
  <2> SUFFICES ASSUME NEW n \in Models
               PROVE  /\ w.miss[n] = Cardinality(Due(n, c, D))
                      /\ n \notin w.col => w.b[n] = Arrived(n, c, D)
                      /\ n \in w.col <=> n \in M \cup {mi} /\ n \in Usable(G) /\ w.miss[n] = 0
    BY DEF Counting
  <2>2. /\ v.miss[n] = Cardinality(Due(n, c, D))
        /\ n \notin v.col => v.b[n] = Arrived(n, c, D)
        /\ n \in v.col <=> n \in M /\ n \in Usable(G) /\ v.miss[n] = 0
    BY <2>1 DEF Counting
  <2>3. w.miss[n] = v.miss[n]
    BY <1>5
  <2>4. CASE n = mi
    BY <1>8, <2>2, <2>3, <2>4
  <2>5. CASE n # mi
    BY <1>8, <2>2, <2>3, <2>5
  <2>6. QED
    BY <2>4, <2>5
<1>13. Reached(w, D)
  BY <1>5 DEF Correct, Reached
<1>14. Sound(w, c)
  <2> SUFFICES ASSUME NEW e \in w.ent
               PROVE  /\ e[1] \in Nat /\ e[2] \in Vars
                      /\ \/ e[2] \in G.given /\ e[1] = 0
                         \/ \E n \in Models : n \in w.col /\ Returns(G, n, e[2], Scenario(c)) /\ e[1] = w.b[n]
    BY DEF Sound
  <2>1. CASE e \in v.ent
    <3>1. /\ e[1] \in Nat /\ e[2] \in Vars
          /\ \/ e[2] \in G.given /\ e[1] = 0
             \/ \E n \in Models : n \in v.col /\ Returns(G, n, e[2], Scenario(c)) /\ e[1] = v.b[n]
      BY <2>1 DEF Correct, Sound
    <3>2. \A n \in Models : n \in v.col => n \in w.col /\ w.b[n] = v.b[n]
      BY <1>1, <1>8
    <3>3. QED
      BY <3>1, <3>2
  <2>2. CASE \E x \in Vars : Returns(G, mi, x, Scenario(c)) /\ e = <<k, x>>
    <3>1. PICK x \in Vars : Returns(G, mi, x, Scenario(c)) /\ e = <<k, x>>
      BY <2>2
    <3>2. e[1] = k /\ e[2] = x
      BY <3>1
    <3>3. QED
      BY <1>1, <1>2, <1>8, <3>1, <3>2
  <2>3. QED
    BY <1>6, <2>1, <2>2
<1>15. Complete(w, c)
  <2>1. Complete(v, c)
    BY DEF Correct
  <2>2. ASSUME NEW x \in G.given PROVE x \in w.col \/ <<0, x>> \in w.ent
    <3>1. x \in v.col \/ <<0, x>> \in v.ent
      BY <2>1 DEF Complete
    <3>2. QED
      BY <1>5, <1>6, <3>1
  <2>3. ASSUME NEW n \in Models, NEW x \in Vars, n \in w.col, Returns(G, n, x, Scenario(c))
        PROVE  (x \in w.col /\ w.b[x] <= w.b[n]) \/ <<w.b[n], x>> \in w.ent
    <3>1. CASE n = mi
      BY <1>6, <1>8, <2>3, <3>1
    <3>2. CASE n # mi
      <4>1. n \in v.col /\ w.b[n] = v.b[n]
        BY <1>8, <2>3, <3>2
      <4>2. (x \in v.col /\ v.b[x] <= v.b[n]) \/ <<v.b[n], x>> \in v.ent
        BY <2>1, <2>3, <4>1 DEF Complete
      <4>3. QED
        BY <1>6, <1>7, <4>1, <4>2
    <3>3. QED
      BY <3>1, <3>2
  <2>4. QED
    BY <2>2, <2>3 DEF Complete
<1>16. InOrder(w)
  <2> SUFFICES ASSUME NEW x \in Vars, NEW e \in w.ent, x \in w.col PROVE w.b[x] <= e[1]
    BY DEF InOrder
  <2>1. x \in v.col /\ w.b[x] = v.b[x]
    BY <1>7
  <2>2. CASE e \in v.ent
    BY <2>1, <2>2 DEF Correct, InOrder
  <2>3. CASE \E y \in Vars : Returns(G, mi, y, Scenario(c)) /\ e = <<k, y>>
    BY <2>1, <2>3
  <2>4. QED
    BY <1>6, <2>2, <2>3
<1>17. Deep(w, c)
  <2>1. Vars \cap w.col = Vars \cap v.col
    BY <1>7
  <2>2. QED
    BY <1>7, <2>1 DEF Correct, Deep
<1>18. QED
  BY <1>9, <1>10, <1>11, <1>12, <1>13, <1>14, <1>15, <1>16, <1>17 DEF Correct

(* A model that has been looked at but is not given a bound.               *)
LEMMA CorrectCount ==
    ASSUME G \in Graphs, NEW v, NEW c \in Colors, NEW D, NEW M, Correct(v, c, D, M),
           NEW mi \in Models, mi \notin Usable(G) \/ v.miss[mi] # 0
    PROVE  Correct(v, c, D, M \cup {mi})
<1>1. Counting(v, c, D, M \cup {mi})
  <2>1. Counting(v, c, D, M)
    BY DEF Correct
  <2>2. QED
    BY <2>1 DEF Counting
<1>2. QED
  BY <1>1 DEF Correct

(* A bound arrives at a model over one of its edges.                       *)
Arriving(v, w, mi, k) ==
    /\ w.col = v.col /\ w.ent = v.ent
    /\ w.b \in [Nodes -> Nat] /\ w.miss \in [Models -> Int]
    /\ \A n \in Nodes : w.b[n] = IF n = mi THEN v.b[mi] + k ELSE v.b[n]
    /\ \A n \in Models : w.miss[n] = IF n = mi THEN v.miss[mi] - 1 ELSE v.miss[n]

LEMMA ArrivedIs ==
    ASSUME G \in Graphs, NEW mi \in Models, NEW c \in Colors, NEW D,
           NEW j \in DOMAIN Model(mi).params, <<mi, j>> \notin D
    PROVE  /\ \A n \in Models : n # mi =>
                 /\ Due(n, c, D \cup {<<mi, j>>}) = Due(n, c, D)
                 /\ Arrived(n, c, D \cup {<<mi, j>>}) = Arrived(n, c, D)
           /\ ~Waits(mi, j, c) =>
                 /\ Due(mi, c, D \cup {<<mi, j>>}) = Due(mi, c, D)
                 /\ Arrived(mi, c, D \cup {<<mi, j>>}) = Arrived(mi, c, D)
           /\ Waits(mi, j, c) =>
                 /\ Cardinality(Due(mi, c, D)) # 0
                 /\ Cardinality(Due(mi, c, D \cup {<<mi, j>>})) = Cardinality(Due(mi, c, D)) - 1
                 /\ Arrived(mi, c, D \cup {<<mi, j>>})
                       = Arrived(mi, c, D) + LeastOf(c)[Model(mi).params[j].x]
<1> DEFINE E == D \cup {<<mi, j>>}
<1>1. \A n, i : <<n, i>> \in E <=> <<n, i>> \in D \/ (n = mi /\ i = j)
  OBVIOUS
<1>2. ASSUME NEW n \in Models, \A i \in DOMAIN Model(n).params :
                Waits(n, i, c) => (<<n, i>> \in E <=> <<n, i>> \in D)
      PROVE  Due(n, c, E) = Due(n, c, D) /\ Arrived(n, c, E) = Arrived(n, c, D)
  <2> HIDE DEF E
  <2>1. Due(n, c, E) = Due(n, c, D)
    BY <1>2 DEF Due
  <2>2. [i \in DOMAIN Model(n).params |->
            IF Waits(n, i, c) /\ <<n, i>> \in E THEN LeastOf(c)[Model(n).params[i].x] ELSE 0]
        = [i \in DOMAIN Model(n).params |->
            IF Waits(n, i, c) /\ <<n, i>> \in D THEN LeastOf(c)[Model(n).params[i].x] ELSE 0]
    BY <1>2
  <2>3. QED
    BY <2>1, <2>2 DEF Arrived
<1>3. ASSUME NEW n \in Models, n # mi
      PROVE  Due(n, c, E) = Due(n, c, D) /\ Arrived(n, c, E) = Arrived(n, c, D)
  <2> HIDE DEF E
  <2>1. \A i \in DOMAIN Model(n).params : <<n, i>> \in E <=> <<n, i>> \in D
    BY <1>1, <1>3
  <2>2. QED
    BY <1>2, <2>1
<1>4. ASSUME ~Waits(mi, j, c)
      PROVE  Due(mi, c, E) = Due(mi, c, D) /\ Arrived(mi, c, E) = Arrived(mi, c, D)
  <2> HIDE DEF E
  <2>1. \A i \in DOMAIN Model(mi).params : Waits(mi, i, c) => (<<mi, i>> \in E <=> <<mi, i>> \in D)
    BY <1>1, <1>4
  <2>2. QED
    BY <1>2, <2>1
<1>5. ASSUME Waits(mi, j, c)
      PROVE  /\ Cardinality(Due(mi, c, D)) # 0
             /\ Cardinality(Due(mi, c, E)) = Cardinality(Due(mi, c, D)) - 1
             /\ Arrived(mi, c, E) = Arrived(mi, c, D) + LeastOf(c)[Model(mi).params[j].x]
  <2> HIDE DEF E
  <2>1. j \in Due(mi, c, D) /\ Due(mi, c, E) = Due(mi, c, D) \ {j}
    BY <1>1, <1>5 DEF Due
  <2>2. IsFiniteSet(Due(mi, c, D))
    BY DueIs
  <2>3. Cardinality(Due(mi, c, D)) # 0
    BY <2>1, <2>2, FS_EmptySet
  <2>4. Cardinality(Due(mi, c, D) \ {j}) = Cardinality(Due(mi, c, D)) - 1
    BY <2>1, <2>2, FS_RemoveElement
  <2>5. PICK m : m = Model(mi)
    OBVIOUS
  <2>6. /\ Len(m.params) \in Nat /\ DOMAIN m.params = 1 .. Len(m.params)
        /\ \A i \in DOMAIN m.params : m.params[i].x \in Vars
    BY <2>5, ModelIs
  <2> DEFINE a == [i \in DOMAIN m.params |->
                      IF Waits(mi, i, c) /\ <<mi, i>> \in D THEN LeastOf(c)[m.params[i].x] ELSE 0]
             b == [i \in DOMAIN m.params |->
                      IF Waits(mi, i, c) /\ <<mi, i>> \in E THEN LeastOf(c)[m.params[i].x] ELSE 0]
  <2>7. a \in [1 .. Len(m.params) -> Nat] /\ b \in [1 .. Len(m.params) -> Nat]
    BY <2>6, LeastIs
  <2>8. \A i \in 1 .. Len(m.params) : i # j => b[i] = a[i]
    BY <1>1, <2>6
  <2>9. j \in 1 .. Len(m.params) /\ a[j] = 0 /\ b[j] = LeastOf(c)[m.params[j].x]
    BY <1>1, <1>5, <2>5, <2>6
  <2>10. Arrived(mi, c, D) = Total(a) /\ Arrived(mi, c, E) = Total(b)
    BY <2>5 DEF Arrived
  <2> HIDE DEF a, b
  <2>11. Total(b) = Total(a) + b[j] - a[j] /\ Total(a) \in Nat /\ b[j] \in Nat
    BY <2>6, <2>7, <2>8, <2>9, TotalBump
  <2>12. Total(b) = Total(a) + b[j]
    BY <2>9, <2>11
  <2>13. QED
    BY <2>1, <2>3, <2>4, <2>5, <2>9, <2>10, <2>12
<1> HIDE DEF E
<1>6. QED
  BY <1>3, <1>4, <1>5 DEF E

LEMMA CorrectArrival ==
    ASSUME G \in Graphs, NEW v, NEW c \in Colors, NEW D, Correct(v, c, D, Models),
           NEW mi \in Models, NEW j \in DOMAIN Model(mi).params, <<mi, j>> \notin D,
           Model(mi).params[j].x \in v.col, Waits(mi, j, c),
           NEW w, Arriving(v, w, mi, LeastOf(c)[Model(mi).params[j].x])
    PROVE  /\ Correct(w, c, D \cup {<<mi, j>>}, Models \ {mi})
           /\ mi \notin v.col
<1>1. PICK k \in Nat : k = LeastOf(c)[Model(mi).params[j].x]
  BY ModelIs, LeastIs
<1>2. /\ w.col = v.col /\ w.ent = v.ent
      /\ w.b \in [Nodes -> Nat] /\ w.miss \in [Models -> Int]
      /\ \A n \in Nodes : w.b[n] = IF n = mi THEN v.b[mi] + k ELSE v.b[n]
      /\ \A n \in Models : w.miss[n] = IF n = mi THEN v.miss[mi] - 1 ELSE v.miss[n]
  BY <1>1 DEF Arriving
<1>3. Counting(v, c, D, Models)
  BY DEF Correct
<1>4. mi \notin v.col
  <2>1. v.miss[mi] # 0
    <3>1. Cardinality(Due(mi, c, D)) # 0
      BY ArrivedIs
    <3>2. v.miss[mi] = Cardinality(Due(mi, c, D))
      BY <1>3 DEF Counting
    <3>3. QED
      BY <3>1, <3>2
  <2>2. QED
    BY <1>3, <2>1 DEF Counting
<1>5. \A n \in Nodes : n \in v.col => w.b[n] = v.b[n]
  BY <1>2, <1>4
<1>6. (\A n \in Vars : n \in Nodes) /\ (\A n \in Models : n \in Nodes)
  BY GraphIs
<1>7. Counting(w, c, D \cup {<<mi, j>>}, Models \ {mi})
  <2> SUFFICES ASSUME NEW n \in Models
               PROVE  /\ w.miss[n] = Cardinality(Due(n, c, D \cup {<<mi, j>>}))
                      /\ n \notin w.col => w.b[n] = Arrived(n, c, D \cup {<<mi, j>>})
                      /\ n \in w.col <=> n \in Models \ {mi} /\ n \in Usable(G) /\ w.miss[n] = 0
    BY DEF Counting
  <2>1. /\ v.miss[n] = Cardinality(Due(n, c, D))
        /\ n \notin v.col => v.b[n] = Arrived(n, c, D)
        /\ n \in v.col <=> n \in Models /\ n \in Usable(G) /\ v.miss[n] = 0
    BY <1>3 DEF Counting
  <2>2. CASE n = mi
    <3>1. w.miss[mi] = v.miss[mi] - 1 /\ w.b[mi] = v.b[mi] + k
      BY <1>2, <1>6
    <3>2. /\ Cardinality(Due(mi, c, D \cup {<<mi, j>>})) = Cardinality(Due(mi, c, D)) - 1
          /\ Arrived(mi, c, D \cup {<<mi, j>>}) = Arrived(mi, c, D) + LeastOf(c)[Model(mi).params[j].x]
      BY ArrivedIs
    <3>3. QED
      BY <1>1, <1>2, <1>4, <2>1, <2>2, <3>1, <3>2
  <2>3. CASE n # mi
    <3>1. w.miss[n] = v.miss[n] /\ w.b[n] = v.b[n]
      BY <1>2, <1>6, <2>3
    <3>2. /\ Due(n, c, D \cup {<<mi, j>>}) = Due(n, c, D)
          /\ Arrived(n, c, D \cup {<<mi, j>>}) = Arrived(n, c, D)
      BY <2>3, ArrivedIs, SMTT(30)
    <3>3. QED
      BY <1>2, <2>1, <2>3, <3>1, <3>2
  <2>4. QED
    BY <2>2, <2>3
<1>8. Known(w, c) /\ Priced(w, c) /\ InOrder(w) /\ Deep(w, c)
  <2>1. Known(w, c)
    BY <1>2, <1>5, <1>6 DEF Correct, Known
  <2>2. Priced(w, c)
    BY <1>2, <1>5, <1>6 DEF Correct, Priced
  <2>3. InOrder(w)
    BY <1>2, <1>5, <1>6 DEF Correct, InOrder
  <2>4. Deep(w, c)
    BY <1>2 DEF Correct, Deep
  <2>5. QED
    BY <2>1, <2>2, <2>3, <2>4
<1>9. Reached(w, D \cup {<<mi, j>>})
  BY <1>2 DEF Correct, Reached
<1>10. Sound(w, c)
  <2>1. Sound(v, c)
    BY DEF Correct
  <2>2. QED
    BY <1>2, <1>5, <1>6, <2>1 DEF Sound
<1>11. Complete(w, c)
  <2>1. Complete(v, c)
    BY DEF Correct
  <2>2. ASSUME NEW n \in Models, NEW x \in Vars, n \in w.col, Returns(G, n, x, Scenario(c))
        PROVE  (x \in w.col /\ w.b[x] <= w.b[n]) \/ <<w.b[n], x>> \in w.ent
    <3>1. (x \in v.col /\ v.b[x] <= v.b[n]) \/ <<v.b[n], x>> \in v.ent
      BY <1>2, <2>1, <2>2 DEF Complete
    <3>2. w.b[n] = v.b[n]
      BY <1>2, <1>5, <1>6, <2>2
    <3>3. x \in v.col => w.b[x] = v.b[x]
      BY <1>5, <1>6
    <3>4. QED
      BY <1>2, <3>1, <3>2, <3>3
  <2>3. QED
    BY <1>2, <2>1, <2>2 DEF Complete
<1>12. Typed(w)
  BY <1>2 DEF Typed
<1>13. QED
  BY <1>4, <1>7, <1>8, <1>9, <1>10, <1>11, <1>12 DEF Correct

(* An edge that the model does not wait for.                               *)
LEMMA CorrectPass ==
    ASSUME G \in Graphs, NEW v, NEW c \in Colors, NEW D, Correct(v, c, D, Models),
           NEW mi \in Models, NEW j \in DOMAIN Model(mi).params, <<mi, j>> \notin D,
           Model(mi).params[j].x \in v.col, ~Waits(mi, j, c)
    PROVE  Correct(v, c, D \cup {<<mi, j>>}, Models)
<1>1. \A n \in Models : /\ Due(n, c, D \cup {<<mi, j>>}) = Due(n, c, D)
                        /\ Arrived(n, c, D \cup {<<mi, j>>}) = Arrived(n, c, D)
  <2> SUFFICES ASSUME NEW n \in Models
               PROVE  /\ Due(n, c, D \cup {<<mi, j>>}) = Due(n, c, D)
                      /\ Arrived(n, c, D \cup {<<mi, j>>}) = Arrived(n, c, D)
    OBVIOUS
  <2>1. CASE n = mi
    <3>1. /\ Due(mi, c, D \cup {<<mi, j>>}) = Due(mi, c, D)
          /\ Arrived(mi, c, D \cup {<<mi, j>>}) = Arrived(mi, c, D)
      BY ArrivedIs
    <3>2. QED
      BY <2>1, <3>1
  <2>2. CASE n # mi
    <3>1. \A i \in Models : i # mi =>
             /\ Due(i, c, D \cup {<<mi, j>>}) = Due(i, c, D)
             /\ Arrived(i, c, D \cup {<<mi, j>>}) = Arrived(i, c, D)
      BY ArrivedIs
    <3>2. QED
      BY <2>2, <3>1
  <2>3. QED
    BY <2>1, <2>2
<1>2. Counting(v, c, D \cup {<<mi, j>>}, Models)
  <2>1. Counting(v, c, D, Models)
    BY DEF Correct
  <2>2. QED
    BY <1>1, <2>1 DEF Counting
<1>3. Reached(v, D \cup {<<mi, j>>})
  BY DEF Correct, Reached
<1>4. QED
  BY <1>2, <1>3 DEF Correct

(* The edges over which the bounds of variables have arrived.              *)
Done(v) == {e \in Models \X Nat : /\ e[2] \in DOMAIN Model(e[1]).params
                                  /\ Model(e[1]).params[e[2]].x \in v.col}

LEMMA DoneIs ==
    ASSUME G \in Graphs, NEW v, NEW mi \in Models, NEW j \in DOMAIN Model(mi).params
    PROVE  <<mi, j>> \in Done(v) <=> Model(mi).params[j].x \in v.col
<1>1. j \in Nat
  BY ModelIs
<1>2. <<mi, j>> \in Models \X Nat /\ <<mi, j>>[1] = mi /\ <<mi, j>>[2] = j
  BY <1>1
<1>3. QED
  BY <1>2 DEF Done

(* A variable without a bound costs no less than what is next in the heap. *)
LEMMA LowCosts ==
    ASSUME G \in Graphs, NEW v, NEW c \in Colors, Correct(v, c, Done(v), Models),
           NEW low \in 0 .. Inf, \A e \in v.ent : low <= e[1],
           NEW f, ChainCosts(f, Scenario(c))
    PROVE  \A i \in 0 .. G.nv : \A x \in Vars : x \notin v.col => low <= f[i][x]
<1>1. G.nv \in Nat /\ Inf \in Nat
  BY GraphIs
<1> DEFINE A == {i \in 0 .. G.nv : \A x \in Vars : x \notin v.col => low <= f[i][x]}
<1>2. 0 \in A
  <2>1. ASSUME NEW x \in Vars, x \notin v.col PROVE low <= f[0][x]
    <3>1. CASE x \in G.given
      <4>1. <<0, x>> \in v.ent
        BY <2>1, <3>1 DEF Correct, Complete
      <4>2. low <= <<0, x>>[1]
        BY <4>1
      <4>3. f[0][x] = 0
        BY <3>1 DEF ChainCosts
      <4>4. QED
        BY <4>2, <4>3
    <3>2. CASE x \notin G.given
      <4>1. f[0][x] = Inf
        BY <3>2 DEF ChainCosts
      <4>2. QED
        BY <1>1, <4>1
    <3>3. QED
      BY <3>1, <3>2
  <2>2. QED
    BY <1>1, <2>1
<1>3. ASSUME NEW i \in 1 .. G.nv, i - 1 \in A PROVE i \in A
  <2>1. i \in 0 .. G.nv /\ i - 1 \in 0 .. G.nv
    BY <1>1
  <2>2. PICK cost \in Costs : cost = f[i - 1]
    BY <2>1, ChainFalls
  <2>3. \A y \in Vars : y \notin v.col => low <= cost[y]
    BY <1>3, <2>2
  <2>4. f[i] = Relax(G, Usable(G), Scenario(c), cost)
    BY <2>2 DEF ChainCosts
  <2>5. LeastOf(c) \in Costs /\ \A y \in Vars : LeastOf(c)[y] <= cost[y]
    BY <2>1, <2>2, ChainFalls DEF LeastOf
  <2>6. ASSUME NEW x \in Vars, x \notin v.col,
               NEW mi \in Usable(G), Returns(G, mi, x, Scenario(c))
        PROVE  low <= ModelCost(G, mi, Scenario(c), cost)
    <3>1. mi \in Models
      BY UsableIs
    <3>2. ModelCost(G, mi, Scenario(c), cost) \in 0 .. Inf
      BY <3>1, CostIs
    <3>3. CASE mi \in v.col
      <4>1. <<v.b[mi], x>> \in v.ent
        BY <2>6, <3>1, <3>3 DEF Correct, Complete
      <4>2. low <= v.b[mi]
        <5>1. <<v.b[mi], x>>[1] = v.b[mi]
          OBVIOUS
        <5>2. QED
          BY <4>1, <5>1
      <4>3. v.b[mi] = ModelCost(G, mi, Scenario(c), LeastOf(c))
        BY <3>1, <3>3 DEF Correct, Priced
      <4>4. \A j \in DOMAIN Model(mi).params : LeastOf(c)[Model(mi).params[j].x] <= cost[Model(mi).params[j].x]
        BY <2>5, <3>1, ModelIs
      <4>5. ModelCost(G, mi, Scenario(c), LeastOf(c)) <= ModelCost(G, mi, Scenario(c), cost)
        BY <2>5, <3>1, <4>4, CostRises
      <4>6. ModelCost(G, mi, Scenario(c), LeastOf(c)) \in 0 .. Inf
        BY <2>5, <3>1, CostIs
      <4>7. QED
        BY <1>1, <3>2, <4>2, <4>3, <4>5, <4>6
    <3>4. CASE mi \notin v.col
      <4>1. v.miss[mi] # 0 /\ v.miss[mi] = Cardinality(Due(mi, c, Done(v)))
        BY <3>1, <3>4 DEF Correct, Counting
      <4>2. Due(mi, c, Done(v)) # {}
        BY <3>1, <4>1, DueIs
      <4>3. PICK j \in DOMAIN Model(mi).params : Waits(mi, j, c) /\ <<mi, j>> \notin Done(v)
        BY <4>2 DEF Due
      <4>4. PICK y \in Vars : y = Model(mi).params[j].x
        BY <3>1, ModelIs
      <4>5. y \notin v.col
        BY <3>1, <4>3, <4>4, DoneIs
      <4>6. low <= cost[y]
        BY <2>3, <4>5
      <4>7. Takes(G, mi, j, Scenario(c))
        BY <3>1, <4>3, ScenarioIs
      <4>8. cost[y] <= ModelCost(G, mi, Scenario(c), cost)
        BY <3>1, <4>4, <4>7, CostIs
      <4>9. cost[y] \in 0 .. Inf
        BY DEF Costs
      <4>10. QED
        BY <1>1, <3>2, <4>6, <4>8, <4>9
    <3>5. QED
      BY <3>3, <3>4
  <2>7. ASSUME NEW x \in Vars, x \notin v.col PROVE low <= f[i][x]
    <3>1. PICK r : r = Relax(G, Usable(G), Scenario(c), cost)
      OBVIOUS
    <3>2. r[x] = cost[x] \/
          \E mi \in Usable(G) : Returns(G, mi, x, Scenario(c)) /\ r[x] = ModelCost(G, mi, Scenario(c), cost)
      BY <3>1, RelaxIs
    <3>3. CASE r[x] = cost[x]
      BY <2>3, <2>4, <2>7, <3>1, <3>3
    <3>4. CASE \E mi \in Usable(G) : Returns(G, mi, x, Scenario(c)) /\ r[x] = ModelCost(G, mi, Scenario(c), cost)
      BY <2>4, <2>6, <2>7, <3>1, <3>4
    <3>5. QED
      BY <3>2, <3>3, <3>4
  <2>8. QED
    BY <2>1, <2>7
<1> HIDE DEF A
<1>4. \A i \in 0 .. G.nv : i \in A
  BY <1>1, <1>2, <1>3, UpTo
<1>5. QED
  BY <1>4 DEF A

(* prune_propagate: the least entry of the heap, for a variable without a  *)
(* bound, is its least cost.                                               *)
LEMMA NextIsLeast ==
    ASSUME G \in Graphs, NEW v, NEW c \in Colors, Correct(v, c, Done(v), Models),
           NEW k, NEW x, <<k, x>> \in v.ent, \A e \in v.ent : k <= e[1], x \notin v.col
    PROVE  /\ x \in Vars /\ k \in Nat /\ LeastOf(c)[x] = k
           /\ \A f : ChainCosts(f, Scenario(c)) =>
                 /\ Cardinality(Vars \cap v.col) + 1 \in 0 .. G.nv
                 /\ f[Cardinality(Vars \cap v.col) + 1][x] <= k
<1>1. G.nv \in Nat /\ Inf \in Nat /\ Inf >= 1
  BY GraphIs
<1>2. /\ k \in Nat /\ x \in Vars
      /\ \/ x \in G.given /\ k = 0
         \/ \E mi \in Models : mi \in v.col /\ Returns(G, mi, x, Scenario(c)) /\ k = v.b[mi]
  <2>1. <<k, x>>[1] = k /\ <<k, x>>[2] = x
    OBVIOUS
  <2>2. QED
    BY <2>1 DEF Correct, Sound
<1>3. k <= Inf
  <2>1. \A mi \in Models : ModelCost(G, mi, Scenario(c), LeastOf(c)) \in 0 .. Inf
    BY LeastIs, CostIs
  <2>2. \A mi \in Models : mi \in v.col => v.b[mi] \in 0 .. Inf
    BY <2>1 DEF Correct, Priced
  <2>3. QED
    BY <1>1, <1>2, <2>2
<1> DEFINE n == Cardinality(Vars \cap v.col)
<1>4. n \in Nat /\ n + 1 <= G.nv
  <2>1. IsFiniteSet(Vars) /\ Cardinality(Vars) = G.nv
    BY GraphIs
  <2>2. Vars \cap v.col \subseteq Vars \ {x}
    OBVIOUS
  <2>3. IsFiniteSet(Vars \ {x}) /\ Cardinality(Vars \ {x}) = G.nv - 1
    BY <1>2, <2>1, FS_RemoveElement
  <2>4. IsFiniteSet(Vars \cap v.col) /\ n <= G.nv - 1
    BY <2>2, <2>3, FS_Subset
  <2>5. n \in Nat
    BY <2>4, FS_CardinalityType
  <2>6. QED
    BY <1>1, <2>4, <2>5
<1> HIDE DEF n
<1>5. ASSUME NEW f, ChainCosts(f, Scenario(c)) PROVE f[n + 1][x] <= k
  <2>1. n \in 0 .. G.nv /\ n + 1 \in 1 .. G.nv /\ n + 1 \in 0 .. G.nv
    BY <1>1, <1>4
  <2>2. CASE x \in G.given /\ k = 0
    <3>1. f[n + 1][x] <= f[0][x]
      BY <1>2, <1>5, <2>1, ChainFalls
    <3>2. f[0][x] = 0
      BY <1>2, <1>5, <2>2 DEF ChainCosts
    <3>3. QED
      BY <2>2, <3>1, <3>2
  <2>3. CASE \E mi \in Models : mi \in v.col /\ Returns(G, mi, x, Scenario(c)) /\ k = v.b[mi]
    <3>1. PICK mi \in Models : mi \in v.col /\ Returns(G, mi, x, Scenario(c)) /\ k = v.b[mi]
      BY <2>3
    <3>2. PICK cost \in Costs : cost = f[n]
      BY <1>5, <2>1, ChainFalls
    <3>3. f[n + 1] = Relax(G, Usable(G), Scenario(c), cost)
      <4>1. f[n + 1] = Relax(G, Usable(G), Scenario(c), f[n + 1 - 1])
        BY <1>5, <2>1 DEF ChainCosts
      <4>2. n + 1 - 1 = n
        BY <1>4
      <4>3. QED
        BY <3>2, <4>1, <4>2
    <3>4. mi \in Usable(G) /\ v.miss[mi] = 0 /\ v.miss[mi] = Cardinality(Due(mi, c, Done(v)))
      BY <3>1 DEF Correct, Counting
    <3>5. Due(mi, c, Done(v)) = {}
      BY <3>4, DueIs
    <3>6. LeastOf(c) \in Costs
      BY LeastIs
    <3>7. ASSUME NEW j \in DOMAIN Model(mi).params, Takes(G, mi, j, Scenario(c))
          PROVE  cost[Model(mi).params[j].x] <= LeastOf(c)[Model(mi).params[j].x]
      <4>1. Waits(mi, j, c)
        BY <3>7, ScenarioIs
      <4>2. <<mi, j>> \in Done(v)
        BY <3>5, <4>1 DEF Due
      <4>3. PICK y \in Vars : y = Model(mi).params[j].x
        BY ModelIs
      <4>4. y \in v.col
        BY <4>2, <4>3, DoneIs
      <4>5. f[n][y] <= LeastOf(c)[y]
        BY <1>5, <4>4 DEF Correct, Deep, n
      <4>6. QED
        BY <3>2, <4>3, <4>5
    <3>8. ModelCost(G, mi, Scenario(c), cost) <= ModelCost(G, mi, Scenario(c), LeastOf(c))
      BY <3>6, <3>7, CostRises
    <3>9. v.b[mi] = ModelCost(G, mi, Scenario(c), LeastOf(c))
      BY <3>1 DEF Correct, Priced
    <3>10. f[n + 1][x] <= ModelCost(G, mi, Scenario(c), cost)
      BY <1>2, <3>1, <3>3, <3>4, RelaxIs
    <3>11. f[n + 1][x] \in 0 .. Inf
      <4>1. f[n + 1] \in Costs
        BY <1>5, <2>1, ChainFalls
      <4>2. QED
        BY <1>2, <4>1 DEF Costs
    <3>12. ModelCost(G, mi, Scenario(c), cost) \in 0 .. Inf
      BY CostIs
    <3>13. QED
      BY <1>1, <1>2, <3>1, <3>8, <3>9, <3>10, <3>11, <3>12
  <2>4. QED
    BY <1>2, <2>2, <2>3
<1>6. LeastOf(c)[x] = k
  <2>1. \E f : ChainCosts(f, Scenario(c))
    BY ChainExists
  <2>2. PICK f : ChainCosts(f, Scenario(c))
    BY <2>1
  <2>3. f[n + 1][x] <= k /\ n + 1 \in 0 .. G.nv /\ G.nv \in 0 .. G.nv
    BY <1>1, <1>4, <1>5, <2>2
  <2>4. LeastOf(c)[x] <= f[n + 1][x] /\ f[n + 1] \in Costs
    BY <1>2, <2>2, <2>3, ChainFalls DEF LeastOf
  <2>5. LeastOf(c)[x] = f[G.nv][x]
    BY <2>2 DEF ChainCosts, LeastOf
  <2>6. k \in 0 .. Inf
    BY <1>1, <1>2, <1>3
  <2>7. k <= f[G.nv][x]
    BY <1>2, <2>2, <2>3, <2>6, LowCosts
  <2>8. LeastOf(c)[x] \in Nat /\ f[n + 1][x] \in 0 .. Inf
    BY <1>2, <2>4, LeastIs DEF Costs
  <2>9. QED
    BY <1>1, <1>2, <2>3, <2>4, <2>5, <2>7, <2>8
<1>7. n + 1 \in 0 .. G.nv
  BY <1>1, <1>4
<1>8. QED
  BY <1>2, <1>3, <1>5, <1>6, <1>7 DEF n

(* prune_bound_var: the bound of a variable is taken from the heap.        *)
LEMMA CorrectTake ==
    ASSUME G \in Graphs, NEW v, NEW c \in Colors, Correct(v, c, Done(v), Models),
           NEW k, NEW x, <<k, x>> \in v.ent, \A e \in v.ent : k <= e[1], x \notin v.col,
           NEW w, w.col = v.col \cup {x}, w.miss = v.miss, w.b \in [Nodes -> Nat],
           \A n \in Nodes : w.b[n] = IF n = x THEN k ELSE v.b[n],
           \A e : e \in v.ent <=> e \in w.ent \/ e = <<k, x>>
    PROVE  /\ Correct(w, c, Done(v), Models)
           /\ x \in Vars /\ LeastOf(c)[x] = k /\ k \in Nat
           /\ \A y \in Vars : y \in w.col => w.b[y] <= k
<1>1. /\ x \in Vars /\ k \in Nat /\ LeastOf(c)[x] = k
      /\ \A f : ChainCosts(f, Scenario(c)) =>
            /\ Cardinality(Vars \cap v.col) + 1 \in 0 .. G.nv
            /\ f[Cardinality(Vars \cap v.col) + 1][x] <= k
  BY NextIsLeast
<1>2. x \in Nodes /\ x \notin Models
  BY <1>1, GraphIs
<1>3. (\A n \in Vars : n \in Nodes) /\ (\A n \in Models : n \in Nodes /\ n # x)
  BY <1>2, GraphIs
<1>4. \A n \in Models : w.b[n] = v.b[n] /\ (n \in w.col <=> n \in v.col)
  BY <1>3
<1>5. w.b[x] = k /\ x \in w.col /\ \A n \in Vars : n # x => w.b[n] = v.b[n] /\ (n \in w.col <=> n \in v.col)
  BY <1>2, <1>3
<1>6. \A e \in w.ent : e \in v.ent
  OBVIOUS
<1>7. ASSUME NEW y \in Vars, y \in w.col PROVE w.b[y] <= k
  <2>1. CASE y = x
    BY <1>1, <1>5, <2>1
  <2>2. CASE y # x
    <3>1. y \in v.col /\ w.b[y] = v.b[y]
      BY <1>5, <1>7, <2>2
    <3>2. v.b[y] <= <<k, x>>[1]
      BY <3>1 DEF Correct, InOrder
    <3>3. QED
      BY <3>1, <3>2
  <2>3. QED
    BY <2>1, <2>2
<1>8. Known(w, c)
  <2>1. Known(v, c)
    BY DEF Correct
  <2>2. QED
    BY <1>1, <1>5, <2>1 DEF Known
<1>9. Priced(w, c)
  <2>1. Priced(v, c)
    BY DEF Correct
  <2>2. QED
    BY <1>4, <2>1 DEF Priced
<1>10. Counting(w, c, Done(v), Models)
  <2>1. Counting(v, c, Done(v), Models)
    BY DEF Correct
  <2>2. QED
    BY <1>4, <2>1 DEF Counting
<1>11. Reached(w, Done(v))
  <2>1. Reached(v, Done(v))
    BY DEF Correct
  <2>2. QED
    BY <2>1 DEF Reached
<1>12. Sound(w, c)
  <2>1. Sound(v, c)
    BY DEF Correct
  <2>2. QED
    BY <1>4, <1>6, <2>1 DEF Sound
<1>13. Complete(w, c)
  <2>1. Complete(v, c)
    BY DEF Correct
  <2>2. ASSUME NEW y \in G.given PROVE y \in w.col \/ <<0, y>> \in w.ent
    <3>1. y \in v.col \/ <<0, y>> \in v.ent
      BY <2>1 DEF Complete
    <3>2. y # x => <<0, y>> # <<k, x>>
      OBVIOUS
    <3>3. QED
      BY <1>5, <3>1, <3>2
  <2>3. ASSUME NEW n \in Models, NEW y \in Vars, n \in w.col, Returns(G, n, y, Scenario(c))
        PROVE  (y \in w.col /\ w.b[y] <= w.b[n]) \/ <<w.b[n], y>> \in w.ent
    <3>1. n \in v.col /\ w.b[n] = v.b[n]
      BY <1>4, <2>3
    <3>2. (y \in v.col /\ v.b[y] <= v.b[n]) \/ <<v.b[n], y>> \in v.ent
      BY <2>1, <2>3, <3>1 DEF Complete
    <3>3. CASE y = x
      <4>1. <<v.b[n], y>> \in v.ent
        BY <3>2, <3>3
      <4>2. k <= <<v.b[n], y>>[1]
        BY <4>1
      <4>3. w.b[y] <= w.b[n]
        BY <1>5, <3>1, <3>3, <4>2
      <4>4. QED
        BY <1>5, <3>3, <4>3
    <3>4. CASE y # x
      <4>1. <<v.b[n], y>> # <<k, x>>
        BY <3>4
      <4>2. QED
        BY <1>5, <3>1, <3>2, <3>4, <4>1
    <3>5. QED
      BY <3>3, <3>4
  <2>4. QED
    BY <2>2, <2>3 DEF Complete
<1>14. InOrder(w)
  <2> SUFFICES ASSUME NEW y \in Vars, NEW e \in w.ent, y \in w.col PROVE w.b[y] <= e[1]
    BY DEF InOrder
  <2>1. w.b[y] <= k /\ k <= e[1]
    BY <1>6, <1>7
  <2>2. e[1] \in Nat
    BY <1>6 DEF Correct, Sound
  <2>3. w.b[y] \in Nat
    BY <1>3
  <2>4. QED
    BY <1>1, <2>1, <2>2, <2>3
<1>15. Deep(w, c)
  <2> SUFFICES ASSUME NEW f, ChainCosts(f, Scenario(c)), NEW y \in Vars, y \in w.col
               PROVE  f[Cardinality(Vars \cap w.col)][y] <= LeastOf(c)[y]
    BY DEF Deep
  <2> DEFINE n == Cardinality(Vars \cap v.col)
  <2>1. n + 1 \in 0 .. G.nv /\ f[n + 1][x] <= k /\ G.nv \in Nat
    BY <1>1, GraphIs
  <2>2. IsFiniteSet(Vars \cap v.col)
    <3>1. IsFiniteSet(Vars)
      BY GraphIs
    <3>2. Vars \cap v.col \subseteq Vars
      OBVIOUS
    <3>3. QED
      BY <3>1, <3>2, FS_Subset
  <2>3. n \in Nat
    BY <2>2, FS_CardinalityType
  <2>4. Cardinality(Vars \cap w.col) = n + 1
    <3>1. Vars \cap w.col = (Vars \cap v.col) \cup {x} /\ x \notin Vars \cap v.col
      BY <1>1
    <3>2. QED
      BY <2>2, <3>1, FS_AddElement
  <2> HIDE DEF n
  <2>5. CASE y = x
    BY <1>1, <2>1, <2>4, <2>5
  <2>6. CASE y # x
    <3>1. y \in v.col
      BY <1>5, <2>6
    <3>2. f[n][y] <= LeastOf(c)[y]
      BY <3>1 DEF Correct, Deep, n
    <3>3. n \in 0 .. G.nv /\ n + 1 \in 1 .. G.nv
      BY <2>1, <2>3
    <3>4. f[n] \in Costs /\ f[n + 1] \in Costs
      BY <2>1, <3>3, ChainFalls
    <3>5. f[n + 1] = Relax(G, Usable(G), Scenario(c), f[n])
      <4>1. f[n + 1] = Relax(G, Usable(G), Scenario(c), f[n + 1 - 1])
        BY <3>3 DEF ChainCosts
      <4>2. n + 1 - 1 = n
        BY <2>3
      <4>3. QED
        BY <4>1, <4>2
    <3>6. f[n + 1][y] <= f[n][y]
      BY <3>4, <3>5, RelaxIs
    <3>7. f[n + 1][y] \in Nat /\ f[n][y] \in Nat /\ LeastOf(c)[y] \in Nat
      <4>1. Inf \in Nat
        BY GraphIs
      <4>2. QED
        BY <3>4, <4>1, LeastIs DEF Costs
    <3>8. QED
      BY <2>4, <3>2, <3>6, <3>7
  <2>7. QED
    BY <2>5, <2>6
<1>16. Typed(w)
  BY DEF Correct, Typed
<1>17. QED
  BY <1>1, <1>7, <1>8, <1>9, <1>10, <1>11, <1>12, <1>13, <1>14, <1>15, <1>16 DEF Correct

(* An entry for a variable that has a bound is dropped.                    *)
LEMMA CorrectDrop ==
    ASSUME G \in Graphs, NEW v, NEW c \in Colors, Correct(v, c, Done(v), Models),
           NEW k, NEW x, <<k, x>> \in v.ent, x \in v.col,
           NEW w, w.col = v.col, w.miss = v.miss, w.b = v.b,
           \A e : e \in v.ent <=> e \in w.ent \/ e = <<k, x>>
    PROVE  Correct(w, c, Done(w), Models)
<1>1. \A e \in w.ent : e \in v.ent
  OBVIOUS
<1>2. Done(w) = Done(v)
  BY DEF Done
<1>3. x \in Vars /\ v.b[x] <= k
  <2>1. <<k, x>>[1] = k /\ <<k, x>>[2] = x
    OBVIOUS
  <2>2. x \in Vars
    BY <2>1 DEF Correct, Sound
  <2>3. QED
    BY <2>1, <2>2 DEF Correct, InOrder
<1>4. Known(w, c) /\ Priced(w, c) /\ Deep(w, c) /\ Typed(w)
  BY DEF Correct, Known, Priced, Deep, Typed
<1>5. Counting(w, c, Done(v), Models) /\ Reached(w, Done(v))
  BY DEF Correct, Counting, Reached
<1>6. Sound(w, c)
  <2>1. Sound(v, c)
    BY DEF Correct
  <2>2. QED
    BY <1>1, <2>1 DEF Sound
<1>7. InOrder(w)
  BY <1>1 DEF Correct, InOrder
<1>8. Complete(w, c)
  <2>1. Complete(v, c)
    BY DEF Correct
  <2>2. ASSUME NEW y \in G.given PROVE y \in w.col \/ <<0, y>> \in w.ent
    <3>1. y \in v.col \/ <<0, y>> \in v.ent
      BY <2>1 DEF Complete
    <3>2. y # x => <<0, y>> # <<k, x>>
      OBVIOUS
    <3>3. QED
      BY <3>1, <3>2
  <2>3. ASSUME NEW n \in Models, NEW y \in Vars, n \in w.col, Returns(G, n, y, Scenario(c))
        PROVE  (y \in w.col /\ w.b[y] <= w.b[n]) \/ <<w.b[n], y>> \in w.ent
    <3>1. (y \in v.col /\ v.b[y] <= v.b[n]) \/ <<v.b[n], y>> \in v.ent
      BY <2>1, <2>3 DEF Complete
    <3>2. CASE <<v.b[n], y>> = <<k, x>>
      BY <1>3, <3>2
    <3>3. CASE <<v.b[n], y>> # <<k, x>>
      BY <3>1, <3>3
    <3>4. QED
      BY <3>2, <3>3
  <2>4. QED
    BY <2>2, <2>3 DEF Complete
<1>9. QED
  BY <1>2, <1>4, <1>5, <1>6, <1>7, <1>8 DEF Correct

(* prune_insert_given.                                                     *)
LEMMA CorrectStart ==
    ASSUME G \in Graphs, NEW v, NEW c \in Colors, Typed(v), v.col = {},
           \A mi \in Models : v.b[mi] = 0 /\ v.miss[mi] = Cardinality(Due(mi, c, {})),
           \A e : e \in v.ent <=> \E x \in G.given : e = <<0, x>>
    PROVE  Correct(v, c, {}, {})
<1>1. Known(v, c) /\ Priced(v, c) /\ Deep(v, c)
  BY DEF Known, Priced, Deep
<1>2. Counting(v, c, {}, {})
  <2>1. ASSUME NEW mi \in Models PROVE Arrived(mi, c, {}) = 0
    <3>1. PICK m : m = Model(mi)
      OBVIOUS
    <3>2. Len(m.params) \in Nat /\ DOMAIN m.params = 1 .. Len(m.params)
      BY <3>1, ModelIs
    <3> DEFINE a == [j \in DOMAIN m.params |->
                        IF Waits(mi, j, c) /\ <<mi, j>> \in {} THEN LeastOf(c)[m.params[j].x] ELSE 0]
    <3>3. Arrived(mi, c, {}) = Total(a)
      BY <3>1 DEF Arrived
    <3>4. a \in [1 .. Len(m.params) -> Nat] /\ \A j \in 1 .. Len(m.params) : a[j] = 0
      BY <3>2
    <3> HIDE DEF a
    <3>5. QED
      BY <3>2, <3>3, <3>4, TotalZero
  <2>2. QED
    BY <2>1 DEF Counting
<1>3. Reached(v, {})
  BY DEF Reached
<1>4. Sound(v, c)
  <2> SUFFICES ASSUME NEW e \in v.ent
               PROVE  e[1] \in Nat /\ e[2] \in Vars /\ e[2] \in G.given /\ e[1] = 0
    BY DEF Sound
  <2>1. PICK x \in G.given : e = <<0, x>>
    OBVIOUS
  <2>2. QED
    BY <2>1, GraphIs
<1>5. Complete(v, c) /\ InOrder(v)
  BY DEF Complete, InOrder
<1>6. QED
  BY <1>1, <1>2, <1>3, <1>4, <1>5 DEF Correct

(* When the heap is empty, what has no bound cannot be computed.           *)
LEMMA CorrectEnd ==
    ASSUME G \in Graphs, NEW v, NEW c \in Colors, Correct(v, c, Done(v), Models), v.ent = {}
    PROVE  /\ \A x \in Vars : x \notin v.col => LeastOf(c)[x] = Inf
           /\ \A mi \in Usable(G) : mi \notin v.col => ModelCost(G, mi, Scenario(c), LeastOf(c)) = Inf
           /\ \A mi \in Models : \A x \in Vars :
                 mi \in v.col /\ Returns(G, mi, x, Scenario(c)) => x \in v.col /\ v.b[x] <= v.b[mi]
<1>1. Inf \in Nat /\ Inf \in 0 .. Inf /\ G.nv \in Nat /\ G.nv \in 0 .. G.nv
  BY GraphIs
<1>2. \E f : ChainCosts(f, Scenario(c))
  BY ChainExists
<1>3. PICK f : ChainCosts(f, Scenario(c))
  BY <1>2
<1>4. \A i \in 0 .. G.nv : \A x \in Vars : x \notin v.col => Inf <= f[i][x]
  BY <1>1, <1>3, LowCosts
<1>5. LeastOf(c) = f[G.nv]
  BY <1>3 DEF ChainCosts, LeastOf
<1>6. ASSUME NEW x \in Vars, x \notin v.col PROVE LeastOf(c)[x] = Inf
  <2>1. Inf <= LeastOf(c)[x]
    BY <1>1, <1>4, <1>5, <1>6
  <2>2. LeastOf(c)[x] \in Nat /\ LeastOf(c)[x] <= Inf
    BY LeastIs
  <2>3. QED
    BY <1>1, <2>1, <2>2
<1>7. ASSUME NEW mi \in Usable(G), mi \notin v.col
      PROVE  ModelCost(G, mi, Scenario(c), LeastOf(c)) = Inf
  <2>1. mi \in Models
    BY UsableIs
  <2>2. v.miss[mi] # 0 /\ v.miss[mi] = Cardinality(Due(mi, c, Done(v)))
    BY <1>7, <2>1 DEF Correct, Counting
  <2>3. Due(mi, c, Done(v)) # {}
    BY <2>1, <2>2, DueIs
  <2>4. PICK j \in DOMAIN Model(mi).params : Waits(mi, j, c) /\ <<mi, j>> \notin Done(v)
    BY <2>3 DEF Due
  <2>5. PICK y \in Vars : y = Model(mi).params[j].x
    BY <2>1, ModelIs
  <2>6. y \notin v.col
    BY <2>1, <2>4, <2>5, DoneIs
  <2>7. Takes(G, mi, j, Scenario(c))
    BY <2>1, <2>4, ScenarioIs
  <2>8. LeastOf(c) \in Costs
    BY LeastIs
  <2>9. LeastOf(c)[y] <= ModelCost(G, mi, Scenario(c), LeastOf(c))
        /\ ModelCost(G, mi, Scenario(c), LeastOf(c)) \in 0 .. Inf
    BY <2>1, <2>5, <2>7, <2>8, CostIs
  <2>10. QED
    BY <1>1, <1>6, <2>6, <2>9
<1>8. \A mi \in Models : \A x \in Vars :
         mi \in v.col /\ Returns(G, mi, x, Scenario(c)) => x \in v.col /\ v.b[x] <= v.b[mi]
  BY DEF Correct, Complete
<1>9. QED
  BY <1>6, <1>7, <1>8

-----------------------------------------------------------------------------
(* The bounds of one color in the state of the pruner.                     *)

View(p, c) == [col |-> {n \in Nodes : c \in p.flags[n]},
               b |-> [n \in Nodes |-> p.bound[n][c]],
               miss |-> [mi \in Models |-> p.miss[mi][c]],
               ent |-> {<<h.cost, h.xi>> : h \in {h \in Range(p.heap) : h.color = c}}]

(* The flags that hold after prune_mark_given and prune_mark_skips.        *)
Marked(p) ==
    \A n \in Nodes :
        /\ "SKIP" \in p.flags[n] <=> n \in G.skip \/ (n \in Models /\ n \notin Usable(G))
        /\ "GIVEN" \in p.flags[n] <=> n \in G.given
        /\ "SELECT" \in p.flags[n] <=> n \in G.select

LEMMA ViewIs ==
    ASSUME G \in Graphs, NEW p \in PStates, NEW c \in Colors
    PROVE  /\ View(p, c).col \subseteq Nodes
           /\ \A n \in Nodes : n \in View(p, c).col <=> c \in p.flags[n]
           /\ View(p, c).b \in [Nodes -> Nat] /\ View(p, c).miss \in [Models -> Int]
           /\ \A n \in Nodes : View(p, c).b[n] = p.bound[n][c]
           /\ \A n \in Models : View(p, c).miss[n] = p.miss[n][c]
           /\ \A e : e \in View(p, c).ent <=> \E h \in Range(p.heap) : h.color = c /\ e = <<h.cost, h.xi>>
<1>1. \A n \in Nodes : p.bound[n][c] \in Nat
  BY PStateIs
<1>2. \A n \in Models : p.miss[n][c] \in Int
  BY PStateIs
<1>3. View(p, c).ent = {<<h.cost, h.xi>> : h \in {h \in Range(p.heap) : h.color = c}}
  BY DEF View
<1>4. \A e : e \in View(p, c).ent <=> \E h \in Range(p.heap) : h.color = c /\ e = <<h.cost, h.xi>>
  BY <1>3
<1>5. QED
  BY <1>1, <1>2, <1>4 DEF View

(* States that a color does not tell apart.                                *)
LEMMA SameView ==
    ASSUME G \in Graphs, NEW p \in PStates, NEW q \in PStates, NEW d \in Colors,
           \A n \in Nodes : (d \in q.flags[n] <=> d \in p.flags[n]) /\ q.bound[n][d] = p.bound[n][d],
           \A n \in Models : q.miss[n][d] = p.miss[n][d],
           \A h : h \in Range(q.heap) /\ h.color = d <=> h \in Range(p.heap) /\ h.color = d
    PROVE  View(q, d) = View(p, d)
<1>1. {n \in Nodes : d \in q.flags[n]} = {n \in Nodes : d \in p.flags[n]}
  OBVIOUS
<1>2. [n \in Nodes |-> q.bound[n][d]] = [n \in Nodes |-> p.bound[n][d]]
  OBVIOUS
<1>3. [mi \in Models |-> q.miss[mi][d]] = [mi \in Models |-> p.miss[mi][d]]
  OBVIOUS
<1>4. {h \in Range(q.heap) : h.color = d} = {h \in Range(p.heap) : h.color = d}
  OBVIOUS
<1>5. QED
  BY <1>1, <1>2, <1>3, <1>4, Zenon DEF View

LEMMA BoundModelView ==
    ASSUME G \in Graphs, NEW p \in PStates, Marked(p), NEW mi \in Usable(G), NEW c \in Colors
    PROVE  LET q == BoundModel(p, mi, c) IN
           /\ q \in PStates /\ Marked(q)
           /\ \A d \in Colors : d # c => View(q, d) = View(p, d)
           /\ Bounding(View(p, c), View(q, c), mi, c,
                       Cap(Model(mi).k + Model(mi).c * (View(p, c).b[mi] + Penal(mi, Scenario(c)))))
<1>1. mi \in Models /\ mi \in Nodes
  BY UsableIs, GraphIs
<1>2. "SKIP" \notin p.flags[mi]
  <2>1. mi \notin G.skip
    BY <1>1, GraphIs
  <2>2. QED
    BY <1>1, <2>1 DEF Marked
<1>3. PICK q : q = BoundModel(p, mi, c)
  OBVIOUS
<1>4. PICK k : k = NewBound(p, mi, c)
  OBVIOUS
<1>5. GivesBound(p, q, mi, c, k)
      /\ Range(q.heap) = Range(p.heap) \cup Yielded(mi, c, k, Len(Model(mi).returns))
  <2>1. GivesBound(p, BoundModel(p, mi, c), mi, c, NewBound(p, mi, c))
        /\ Range(BoundModel(p, mi, c).heap)
              = Range(p.heap) \cup Yielded(mi, c, NewBound(p, mi, c), Len(Model(mi).returns))
    BY <1>1, <1>2, BoundModelIs
  <2>2. QED
    BY <1>3, <1>4, <2>1, Zenon
<1>6. /\ q \in PStates /\ q.miss = p.miss
      /\ \A n \in Nodes : q.flags[n] = IF n = mi THEN p.flags[n] \cup {c} ELSE p.flags[n]
      /\ \A n \in Nodes : \A d \in Colors :
            q.bound[n][d] = IF n = mi /\ d = c THEN k ELSE p.bound[n][d]
  BY <1>5 DEF GivesBound
<1>7. \A n \in Nodes : \A f : f # c => (f \in q.flags[n] <=> f \in p.flags[n])
  BY <1>6
<1>8. Marked(q)
  BY <1>7 DEF Marked, Colors
<1>9. \A h : h \in Yielded(mi, c, k, Len(Model(mi).returns)) <=>
             \E x \in Vars : Returns(G, mi, x, Scenario(c)) /\ h = HeapNode(k, c, x)
  <2>1. /\ DOMAIN Model(mi).returns = 1 .. Len(Model(mi).returns)
        /\ \A j \in DOMAIN Model(mi).returns : Model(mi).returns[j].x \in Vars
    BY <1>1, ModelIs
  <2>2. \A x : Returns(G, mi, x, Scenario(c)) <=>
               \E j \in DOMAIN Model(mi).returns : Yields(mi, j, c) /\ Model(mi).returns[j].x = x
    BY <1>1, ScenarioIs
  <2>3. ASSUME NEW h PROVE h \in Yielded(mi, c, k, Len(Model(mi).returns)) <=>
                            \E j \in DOMAIN Model(mi).returns :
                               Yields(mi, j, c) /\ h = HeapNode(k, c, Model(mi).returns[j].x)
    BY <2>1 DEF Yielded
  <2>4. QED
    BY <2>1, <2>2, <2>3
<1>10. ASSUME NEW d \in Colors, d # c PROVE View(q, d) = View(p, d)
  <2>1. \A n \in Nodes : (d \in q.flags[n] <=> d \in p.flags[n]) /\ q.bound[n][d] = p.bound[n][d]
    BY <1>6, <1>7, <1>10
  <2>2. \A n \in Models : q.miss[n][d] = p.miss[n][d]
    BY <1>6
  <2>3. ASSUME NEW h PROVE h \in Range(q.heap) /\ h.color = d <=> h \in Range(p.heap) /\ h.color = d
    <3>1. h \in Yielded(mi, c, k, Len(Model(mi).returns)) => h.color = c
      BY <1>9 DEF HeapNode
    <3>2. QED
      BY <1>5, <1>10, <3>1
  <2>4. QED
    BY <1>6, <2>1, <2>2, <2>3, SameView
<1>11. k = Cap(Model(mi).k + Model(mi).c * (View(p, c).b[mi] + Penal(mi, Scenario(c))))
  <2>1. View(p, c).b[mi] = p.bound[mi][c]
    BY <1>1, ViewIs
  <2>2. \A j \in DOMAIN Model(mi).shadows :
           Fails(G, mi, j, Scenario(c)) <=> c = "BLACK" \/ "SKIP" \in p.flags[Model(mi).shadows[j].x]
    <3>1. ASSUME NEW j \in DOMAIN Model(mi).shadows
          PROVE  "SKIP" \in p.flags[Model(mi).shadows[j].x] <=> Model(mi).shadows[j].x \in G.skip
      <4>1. PICK x \in Vars : x = Model(mi).shadows[j].x
        BY <1>1, ModelIs
      <4>2. x \in Nodes /\ x \notin Models
        BY GraphIs
      <4>3. QED
        BY <4>1, <4>2 DEF Marked
    <3>2. QED
      BY <1>1, <3>1, ScenarioIs
  <2>3. [j \in DOMAIN Model(mi).shadows |->
            IF c = "BLACK" \/ "SKIP" \in p.flags[Model(mi).shadows[j].x]
            THEN Model(mi).shadows[j].penalty ELSE 0]
        = [j \in DOMAIN Model(mi).shadows |->
              IF Fails(G, mi, j, Scenario(c)) THEN Model(mi).shadows[j].penalty ELSE 0]
    BY <2>2
  <2>4. Counted(p, mi, c) = Penal(mi, Scenario(c))
    BY <2>3, Zenon DEF Counted, Penal
  <2>5. QED
    BY <1>4, <2>1, <2>4 DEF NewBound
<1>12. Bounding(View(p, c), View(q, c), mi, c, k)
  <2>1. View(q, c).col = View(p, c).col \cup {mi}
    <3>1. \A n \in Nodes : n \in View(q, c).col <=> n \in View(p, c).col \/ n = mi
      BY <1>6, ViewIs
    <3>2. View(q, c).col \subseteq Nodes /\ View(p, c).col \subseteq Nodes
      BY <1>6, ViewIs
    <3>3. QED
      BY <1>1, <3>1, <3>2
  <2>2. View(q, c).miss = View(p, c).miss
    BY <1>6 DEF View
  <2>3. View(q, c).b \in [Nodes -> Nat]
    BY <1>6, ViewIs
  <2>4. \A n \in Nodes : View(q, c).b[n] = IF n = mi THEN k ELSE View(p, c).b[n]
    BY <1>6, ViewIs
  <2>5. ASSUME NEW e
        PROVE  e \in View(q, c).ent <=>
               e \in View(p, c).ent \/ \E x \in Vars : Returns(G, mi, x, Scenario(c)) /\ e = <<k, x>>
    <3>1. e \in View(q, c).ent <=> \E h \in Range(q.heap) : h.color = c /\ e = <<h.cost, h.xi>>
      BY <1>6, ViewIs
    <3>2. e \in View(p, c).ent <=> \E h \in Range(p.heap) : h.color = c /\ e = <<h.cost, h.xi>>
      BY ViewIs
    <3>3. \A h : h \in Range(q.heap) <=> h \in Range(p.heap) \/
                 \E x \in Vars : Returns(G, mi, x, Scenario(c)) /\ h = HeapNode(k, c, x)
      BY <1>5, <1>9
    <3>4. \A x : HeapNode(k, c, x).color = c /\ HeapNode(k, c, x).cost = k /\ HeapNode(k, c, x).xi = x
      BY DEF HeapNode
    <3>5. QED
      BY <3>1, <3>2, <3>3, <3>4
  <2>6. QED
    BY <2>1, <2>2, <2>3, <2>4, <2>5 DEF Bounding
<1>13. QED
  BY <1>3, <1>6, <1>8, <1>10, <1>11, <1>12

(* What an operation on one color leaves alone: the marks, the other       *)
(* color, and the variables of its own.                                    *)
Leaves(p, q, c) ==
    /\ q \in PStates /\ Marked(q)
    /\ \A d \in Colors : d # c => View(q, d) = View(p, d)
    /\ \A x \in Vars : /\ x \in View(q, c).col <=> x \in View(p, c).col
                       /\ View(q, c).b[x] = View(p, c).b[x]

(* prune_bound_model, once nothing is missing.                             *)
LEMMA BoundModelStep ==
    ASSUME G \in Graphs, NEW p \in PStates, Marked(p), NEW c \in Colors,
           NEW D, NEW M, Correct(View(p, c), c, D, M),
           NEW mi \in Models, mi \notin M, View(p, c).miss[mi] = 0,
           mi \in Usable(G) =>
              \A x \in Vars : x \in View(p, c).col =>
                 View(p, c).b[x] <= ModelCost(G, mi, Scenario(c), LeastOf(c))
    PROVE  /\ Leaves(p, BoundModel(p, mi, c), c)
           /\ Correct(View(BoundModel(p, mi, c), c), c, D, M \cup {mi})
<1>1. PICK q : q = BoundModel(p, mi, c)
  OBVIOUS
<1>2. PICK v : v = View(p, c)
  OBVIOUS
<1>3. mi \in Nodes /\ \A x \in Vars : x \in Nodes /\ x # mi
  BY GraphIs
<1>4. CASE mi \in Usable(G)
  <2>1. PICK k : k = Cap(Model(mi).k + Model(mi).c * (v.b[mi] + Penal(mi, Scenario(c))))
    OBVIOUS
  <2>2. PICK w : w = View(q, c)
    OBVIOUS
  <2>3. /\ q \in PStates /\ Marked(q)
        /\ \A d \in Colors : d # c => View(q, d) = View(p, d)
        /\ Bounding(v, w, mi, c, k)
    <3>1. /\ BoundModel(p, mi, c) \in PStates /\ Marked(BoundModel(p, mi, c))
          /\ \A d \in Colors : d # c => View(BoundModel(p, mi, c), d) = View(p, d)
          /\ Bounding(View(p, c), View(BoundModel(p, mi, c), c), mi, c,
                      Cap(Model(mi).k + Model(mi).c * (View(p, c).b[mi] + Penal(mi, Scenario(c)))))
      BY <1>4, BoundModelView
    <3>2. QED
      BY <1>1, <1>2, <2>1, <2>2, <3>1, Zenon
  <2>4. Correct(v, c, D, M) /\ v.miss[mi] = 0
    BY <1>2
  <2>5. k = ModelCost(G, mi, Scenario(c), LeastOf(c))
    BY <1>4, <2>1, <2>4, BoundIsCost
  <2>6. \A x \in Vars : x \in v.col => v.b[x] <= k
    BY <1>2, <1>4, <2>5
  <2>7. Correct(w, c, D, M \cup {mi})
    BY <1>4, <2>3, <2>4, <2>5, <2>6, CorrectBound
  <2>8. \A x \in Vars : (x \in w.col <=> x \in v.col) /\ w.b[x] = v.b[x]
    BY <1>3, <2>3 DEF Bounding
  <2>9. Leaves(p, q, c)
    BY <1>2, <2>2, <2>3, <2>8 DEF Leaves
  <2>10. QED
    BY <1>1, <2>2, <2>7, <2>9
<1>5. CASE mi \notin Usable(G)
  <2>1. "SKIP" \in p.flags[mi]
    BY <1>3, <1>5 DEF Marked
  <2>2. q = p
    BY <1>1, <2>1 DEF BoundModel
  <2>3. Correct(v, c, D, M \cup {mi})
    BY <1>2, <1>5, CorrectCount
  <2>4. Leaves(p, p, c)
    BY DEF Leaves
  <2>5. QED
    BY <1>1, <1>2, <2>2, <2>3, <2>4
<1>6. QED
  BY <1>4, <1>5

(* The bound of a variable arrives at a model, which may then get its own. *)
LEMMA BoundParamStep ==
    ASSUME G \in Graphs, NEW p \in PStates, Marked(p), NEW c \in Colors,
           NEW D, Correct(View(p, c), c, D, Models),
           NEW mi \in Models, NEW j \in DOMAIN Model(mi).params, <<mi, j>> \notin D,
           Waits(mi, j, c), NEW x, x = Model(mi).params[j].x, x \in View(p, c).col,
           NEW k, k = LeastOf(c)[x],
           \A y \in Vars : y \in View(p, c).col => View(p, c).b[y] <= k
    PROVE  /\ Leaves(p, BoundParam(p, mi, k, c), c)
           /\ Correct(View(BoundParam(p, mi, k, c), c), c, D \cup {<<mi, j>>}, Models)
<1>0. x \in Vars /\ k \in Nat
  BY ModelIs, LeastIs
<1>1. mi \in Nodes /\ (\A y \in Vars : y \in Nodes /\ y # mi) /\ \A n \in Models : n \in Nodes
  BY GraphIs
<1>2. PICK q : q = [p EXCEPT !.bound[mi][c] = @ + k, !.miss[mi][c] = @ - 1]
  OBVIOUS
<1>3. BoundParam(p, mi, k, c) = IF q.miss[mi][c] = 0 THEN BoundModel(q, mi, c) ELSE q
  BY <1>2 DEF BoundParam
<1>4. /\ q \in PStates /\ q.flags = p.flags /\ q.heap = p.heap
      /\ \A n \in Nodes : \A d \in Colors :
            q.bound[n][d] = IF n = mi /\ d = c THEN p.bound[mi][c] + k ELSE p.bound[n][d]
      /\ \A n \in Models : \A d \in Colors :
            q.miss[n][d] = IF n = mi /\ d = c THEN p.miss[mi][c] - 1 ELSE p.miss[n][d]
  <2>1. p.bound \in [Nodes -> [Colors -> Nat]] /\ p.miss \in [Models -> [Colors -> Int]]
    BY PStateIs
  <2>2. PICK b : b = [p.bound EXCEPT ![mi][c] = p.bound[mi][c] + k]
    OBVIOUS
  <2>3. PICK m : m = [p.miss EXCEPT ![mi][c] = p.miss[mi][c] - 1]
    OBVIOUS
  <2>4. p.bound[mi][c] \in Nat /\ p.miss[mi][c] \in Int
    BY <1>1, <2>1
  <2>5. /\ b \in [Nodes -> [Colors -> Nat]]
        /\ \A n \in Nodes : \A d \in Colors :
              b[n][d] = IF n = mi /\ d = c THEN p.bound[mi][c] + k ELSE p.bound[n][d]
    <3>1. PICK s \in Nat : s = p.bound[mi][c] + k
      BY <1>0, <2>4
    <3>2. b = [p.bound EXCEPT ![mi][c] = s]
      BY <2>2, <3>1
    <3>3. QED
      BY <1>1, <2>1, <3>1, <3>2
  <2>6. /\ m \in [Models -> [Colors -> Int]]
        /\ \A n \in Models : \A d \in Colors :
              m[n][d] = IF n = mi /\ d = c THEN p.miss[mi][c] - 1 ELSE p.miss[n][d]
    <3>1. PICK s \in Int : s = p.miss[mi][c] - 1
      BY <2>4
    <3>2. m = [p.miss EXCEPT ![mi][c] = s]
      BY <2>3, <3>1
    <3>3. QED
      BY <1>1, <2>1, <3>1, <3>2
  <2>7. q = [p EXCEPT !.bound = b, !.miss = m]
    BY <1>2, <2>2, <2>3 DEF PStates
  <2>8. q \in PStates /\ q.flags = p.flags /\ q.heap = p.heap /\ q.bound = b /\ q.miss = m
    BY <2>5, <2>6, <2>7 DEF PStates
  <2>9. QED
    BY <2>5, <2>6, <2>8
<1>5. Marked(q)
  BY <1>4 DEF Marked
<1>6. PICK v : v = View(p, c)
  OBVIOUS
<1>7. PICK w : w = View(q, c)
  OBVIOUS
<1>8. Arriving(v, w, mi, k)
  <2>1. w.col = v.col /\ w.ent = v.ent
    BY <1>4, <1>6, <1>7 DEF View
  <2>2. w.b \in [Nodes -> Nat] /\ w.miss \in [Models -> Int]
    BY <1>4, <1>7, ViewIs
  <2>3. \A n \in Nodes : w.b[n] = IF n = mi THEN v.b[mi] + k ELSE v.b[n]
    BY <1>1, <1>4, <1>6, <1>7, ViewIs
  <2>4. \A n \in Models : w.miss[n] = IF n = mi THEN v.miss[mi] - 1 ELSE v.miss[n]
    BY <1>1, <1>4, <1>6, <1>7, ViewIs
  <2>5. QED
    BY <2>1, <2>2, <2>3, <2>4 DEF Arriving
<1>9. ASSUME NEW d \in Colors, d # c PROVE View(q, d) = View(p, d)
  <2>1. \A n \in Nodes : (d \in q.flags[n] <=> d \in p.flags[n]) /\ q.bound[n][d] = p.bound[n][d]
    BY <1>4, <1>9
  <2>2. \A n \in Models : q.miss[n][d] = p.miss[n][d]
    BY <1>4, <1>9
  <2>3. \A h : h \in Range(q.heap) /\ h.color = d <=> h \in Range(p.heap) /\ h.color = d
    BY <1>4
  <2>4. QED
    BY <1>4, <2>1, <2>2, <2>3, SameView
<1>10. Correct(w, c, D \cup {<<mi, j>>}, Models \ {mi}) /\ mi \notin v.col
  <2>1. Correct(v, c, D, Models) /\ Model(mi).params[j].x \in v.col
    BY <1>6
  <2>2. Arriving(v, w, mi, LeastOf(c)[Model(mi).params[j].x])
    BY <1>8
  <2>3. QED
    BY <2>1, <2>2, CorrectArrival
<1>11. \A y \in Vars : (y \in w.col <=> y \in v.col) /\ w.b[y] = v.b[y]
  BY <1>1, <1>8 DEF Arriving
<1>12. q.miss[mi][c] = w.miss[mi]
  BY <1>4, <1>7, ViewIs
<1>13. (Models \ {mi}) \cup {mi} = Models
  OBVIOUS
<1>14. CASE w.miss[mi] = 0
  <2>1. PICK r : r = BoundModel(q, mi, c)
    OBVIOUS
  <2>2. mi \in Usable(G) => \A y \in Vars : y \in w.col =>
                               w.b[y] <= ModelCost(G, mi, Scenario(c), LeastOf(c))
    <3> SUFFICES ASSUME mi \in Usable(G), NEW y \in Vars, y \in w.col
                 PROVE  w.b[y] <= ModelCost(G, mi, Scenario(c), LeastOf(c))
      OBVIOUS
    <3>1. /\ ModelCost(G, mi, Scenario(c), LeastOf(c)) \in Nat
          /\ \A i \in DOMAIN Model(mi).params : Waits(mi, i, c) =>
                LeastOf(c)[Model(mi).params[i].x] <= ModelCost(G, mi, Scenario(c), LeastOf(c))
      BY <1>10, <1>14, BoundIsCost
    <3>2. k <= ModelCost(G, mi, Scenario(c), LeastOf(c))
      BY <3>1
    <3>3. w.b[y] <= k /\ w.b[y] \in Nat
      BY <1>1, <1>6, <1>8, <1>11 DEF Arriving
    <3>4. QED
      BY <1>0, <3>1, <3>2, <3>3
  <2>3. /\ Leaves(q, BoundModel(q, mi, c), c)
        /\ Correct(View(BoundModel(q, mi, c), c), c, D \cup {<<mi, j>>}, (Models \ {mi}) \cup {mi})
    <3>1. Correct(View(q, c), c, D \cup {<<mi, j>>}, Models \ {mi}) /\ View(q, c).miss[mi] = 0
      BY <1>7, <1>10, <1>14
    <3>2. mi \in Usable(G) => \A y \in Vars : y \in View(q, c).col =>
                                View(q, c).b[y] <= ModelCost(G, mi, Scenario(c), LeastOf(c))
      BY <1>7, <2>2
    <3>3. QED
      BY <1>4, <1>5, <3>1, <3>2, BoundModelStep
  <2>4. Leaves(q, r, c) /\ Correct(View(r, c), c, D \cup {<<mi, j>>}, Models)
    BY <1>13, <2>1, <2>3
  <2>5. Leaves(p, r, c)
    <3>1. \A y \in Vars : (y \in View(r, c).col <=> y \in w.col) /\ View(r, c).b[y] = w.b[y]
      BY <1>7, <2>4 DEF Leaves
    <3>2. \A y \in Vars : (y \in View(r, c).col <=> y \in v.col) /\ View(r, c).b[y] = v.b[y]
      BY <1>11, <3>1
    <3>3. \A d \in Colors : d # c => View(r, d) = View(p, d)
      BY <1>9, <2>4 DEF Leaves
    <3>4. QED
      BY <1>6, <2>4, <3>2, <3>3 DEF Leaves
  <2>6. BoundParam(p, mi, k, c) = r
    BY <1>3, <1>12, <1>14, <2>1
  <2>7. QED
    BY <2>4, <2>5, <2>6
<1>15. CASE w.miss[mi] # 0
  <2>1. Correct(w, c, D \cup {<<mi, j>>}, (Models \ {mi}) \cup {mi})
    BY <1>10, <1>15, CorrectCount
  <2>2. BoundParam(p, mi, k, c) = q
    BY <1>3, <1>12, <1>15
  <2>3. Leaves(p, q, c)
    BY <1>4, <1>5, <1>6, <1>7, <1>9, <1>11 DEF Leaves
  <2>4. QED
    BY <1>7, <1>13, <2>1, <2>2, <2>3
<1>16. QED
  BY <1>14, <1>15

LEMMA BoundModelType ==
    ASSUME G \in Graphs, NEW p \in PStates, NEW mi \in Models, NEW c \in Colors
    PROVE  BoundModel(p, mi, c) \in PStates
<1>1. CASE "SKIP" \in p.flags[mi]
  <2>1. BoundModel(p, mi, c) = p
    BY <1>1 DEF BoundModel
  <2>2. QED
    BY <2>1
<1>2. CASE "SKIP" \notin p.flags[mi]
  <2>1. GivesBound(p, BoundModel(p, mi, c), mi, c, NewBound(p, mi, c))
    BY <1>2, BoundModelIs
  <2>2. QED
    BY <2>1 DEF GivesBound
<1>3. QED
  BY <1>1, <1>2

LEMMA BoundParamType ==
    ASSUME G \in Graphs, NEW p \in PStates, NEW mi \in Models, NEW k \in Nat, NEW c \in Colors
    PROVE  BoundParam(p, mi, k, c) \in PStates
<1>1. PICK q : q = [p EXCEPT !.bound[mi][c] = @ + k, !.miss[mi][c] = @ - 1]
  OBVIOUS
<1>2. BoundParam(p, mi, k, c) = IF q.miss[mi][c] = 0 THEN BoundModel(q, mi, c) ELSE q
  BY <1>1 DEF BoundParam
<1>3. mi \in Nodes
  BY GraphIs
<1>4. p.bound \in [Nodes -> [Colors -> Nat]] /\ p.miss \in [Models -> [Colors -> Int]]
  BY PStateIs
<1>5. PICK b : b = [p.bound EXCEPT ![mi][c] = p.bound[mi][c] + k]
  OBVIOUS
<1>6. PICK m : m = [p.miss EXCEPT ![mi][c] = p.miss[mi][c] - 1]
  OBVIOUS
<1>7. b \in [Nodes -> [Colors -> Nat]]
  <2>1. PICK s \in Nat : s = p.bound[mi][c] + k
    BY <1>3, <1>4
  <2>2. b = [p.bound EXCEPT ![mi][c] = s]
    BY <1>5, <2>1
  <2>3. QED
    BY <1>3, <1>4, <2>2
<1>8. m \in [Models -> [Colors -> Int]]
  <2>1. PICK s \in Int : s = p.miss[mi][c] - 1
    BY <1>4
  <2>2. m = [p.miss EXCEPT ![mi][c] = s]
    BY <1>6, <2>1
  <2>3. QED
    BY <1>4, <2>2
<1>9. q = [p EXCEPT !.bound = b, !.miss = m]
  BY <1>1, <1>5, <1>6 DEF PStates
<1>10. q \in PStates
  BY <1>7, <1>8, <1>9 DEF PStates
<1>11. BoundModel(q, mi, c) \in PStates
  BY <1>10, BoundModelType
<1>12. QED
  BY <1>2, <1>10, <1>11

(* prune_bound_var takes (k, x) off the heap of one color.                 *)
TakesOff(v, w, k, x) ==
    /\ w.col = v.col /\ w.miss = v.miss /\ w.b = v.b
    /\ \A e : e \in v.ent <=> e \in w.ent \/ e = <<k, x>>

Colored(p, x, c, k) == [Flag(p, {x}, c) EXCEPT !.bound[x][c] = k]

LEMMA BoundVarBase ==
    ASSUME G \in Graphs, NEW p \in PStates, Marked(p), NEW c \in Colors, NEW x \in Vars, NEW k \in Nat
    PROVE  LET q == Colored(p, x, c, k) IN
           /\ q \in PStates /\ Marked(q)
           /\ \A d \in Colors : d # c => View(q, d) = View(p, d)
           /\ View(q, c).col = View(p, c).col \cup {x}
           /\ View(q, c).miss = View(p, c).miss /\ View(q, c).ent = View(p, c).ent
           /\ View(q, c).b \in [Nodes -> Nat]
           /\ \A n \in Nodes : View(q, c).b[n] = IF n = x THEN k ELSE View(p, c).b[n]
<1>1. PICK q : q = Colored(p, x, c, k)
  OBVIOUS
<1>2. x \in Nodes
  BY GraphIs
<1>3. c \in Names
  BY DEF Names, Colors
<1>4. PICK r \in PStates : r = Flag(p, {x}, c)
  BY <1>3, FlagIs
<1>5. /\ r.bound = p.bound /\ r.miss = p.miss /\ r.heap = p.heap
      /\ \A n \in Nodes : r.flags[n] = IF n \in {x} THEN p.flags[n] \cup {c} ELSE p.flags[n]
  <2>1. Flagged(p, Flag(p, {x}, c), {x}, c)
    BY <1>3, FlagFlags, Zenon
  <2>2. Flagged(p, r, {x}, c)
    BY <1>4, <2>1, Zenon
  <2>3. QED
    BY <2>2, Zenon DEF Flagged
<1>6. PICK b : b = [r.bound EXCEPT ![x][c] = k]
  OBVIOUS
<1>7. /\ b \in [Nodes -> [Colors -> Nat]]
      /\ \A n \in Nodes : \A d \in Colors : b[n][d] = IF n = x /\ d = c THEN k ELSE r.bound[n][d]
  <2>1. r.bound \in [Nodes -> [Colors -> Nat]]
    BY PStateIs
  <2>2. QED
    BY <1>2, <1>6, <2>1
<1>8. q = [r EXCEPT !.bound = b]
  BY <1>1, <1>4, <1>6 DEF PStates, Colored
<1>9. q \in PStates /\ q.bound = b /\ q.miss = p.miss /\ q.heap = p.heap /\ q.flags = r.flags
  BY <1>5, <1>7, <1>8 DEF PStates
<1>10. /\ \A n \in Nodes : q.flags[n] = IF n = x THEN p.flags[n] \cup {c} ELSE p.flags[n]
       /\ \A n \in Nodes : \A d \in Colors :
             q.bound[n][d] = IF n = x /\ d = c THEN k ELSE p.bound[n][d]
  BY <1>5, <1>7, <1>9, ZenonT(40)
<1>11. \A n \in Nodes : \A f : f # c => (f \in q.flags[n] <=> f \in p.flags[n])
  BY <1>10
<1>12. Marked(q)
  BY <1>11 DEF Marked, Colors
<1>13. ASSUME NEW d \in Colors, d # c PROVE View(q, d) = View(p, d)
  <2>1. \A n \in Nodes : (d \in q.flags[n] <=> d \in p.flags[n]) /\ q.bound[n][d] = p.bound[n][d]
    BY <1>10, <1>11, <1>13
  <2>2. \A n \in Models : q.miss[n][d] = p.miss[n][d]
    BY <1>9
  <2>3. \A h : h \in Range(q.heap) /\ h.color = d <=> h \in Range(p.heap) /\ h.color = d
    BY <1>9
  <2>4. QED
    BY <1>9, <2>1, <2>2, <2>3, SameView
<1>14. View(q, c).col = View(p, c).col \cup {x}
  <2>1. \A n \in Nodes : n \in View(q, c).col <=> n \in View(p, c).col \/ n = x
    BY <1>9, <1>10, ViewIs
  <2>2. View(q, c).col \subseteq Nodes /\ View(p, c).col \subseteq Nodes
    BY <1>9, ViewIs
  <2>3. QED
    BY <1>2, <2>1, <2>2
<1>15. View(q, c).miss = View(p, c).miss /\ View(q, c).ent = View(p, c).ent
  BY <1>9 DEF View
<1>16. View(q, c).b \in [Nodes -> Nat]
  BY <1>9, ViewIs
<1>17. \A n \in Nodes : View(q, c).b[n] = IF n = x THEN k ELSE View(p, c).b[n]
  BY <1>9, <1>10, ViewIs
<1>18. QED
  BY <1>1, <1>9, <1>12, <1>13, <1>14, <1>15, <1>16, <1>17

(* The edges that a loop over the first i parameter edges of x has passed. *)
Passed(v, x, i) == Done(v) \cup {G.fwds[x][j] : j \in 1 .. i}

LEMMA PassedIs ==
    ASSUME G \in Graphs, NEW v, NEW x \in Vars, x \notin v.col
    PROVE  /\ Passed(v, x, 0) = Done(v)
           /\ \A i \in 1 .. Len(G.fwds[x]) :
                 LET e == G.fwds[x][i] IN
                 /\ Passed(v, x, i) = Passed(v, x, i - 1) \cup {<<e[1], e[2]>>}
                 /\ <<e[1], e[2]>> \notin Passed(v, x, i - 1)
           /\ \A w : (\A y \in Vars : y \in w.col <=> y \in v.col \/ y = x) =>
                     Passed(v, x, Len(G.fwds[x])) = Done(w)
<1>1. PICK n \in Nat : n = Len(G.fwds[x])
  BY ListIs
<1>2. /\ \A i \in 1 .. n : /\ G.fwds[x][i] = <<G.fwds[x][i][1], G.fwds[x][i][2]>>
                           /\ G.fwds[x][i][1] \in Models
                           /\ G.fwds[x][i][2] \in DOMAIN Model(G.fwds[x][i][1]).params
                           /\ Model(G.fwds[x][i][1]).params[G.fwds[x][i][2]].x = x
      /\ \A mi \in Models : \A j \in DOMAIN Model(mi).params :
            Model(mi).params[j].x = x => \E i \in 1 .. n : G.fwds[x][i] = <<mi, j>>
      /\ \A i, j \in 1 .. n : G.fwds[x][i] = G.fwds[x][j] => i = j
  BY <1>1, ListIs
<1>3. Passed(v, x, 0) = Done(v)
  BY DEF Passed
<1>4. ASSUME NEW i \in 1 .. n
      PROVE  /\ Passed(v, x, i) = Passed(v, x, i - 1) \cup {<<G.fwds[x][i][1], G.fwds[x][i][2]>>}
             /\ <<G.fwds[x][i][1], G.fwds[x][i][2]>> \notin Passed(v, x, i - 1)
  <2>1. PICK e : e = G.fwds[x][i]
    OBVIOUS
  <2>2. e = <<e[1], e[2]>> /\ e[1] \in Models /\ e[2] \in DOMAIN Model(e[1]).params
        /\ Model(e[1]).params[e[2]].x = x
    BY <1>2, <2>1
  <2>3. \A j : j \in 1 .. i <=> j \in 1 .. i - 1 \/ j = i
    OBVIOUS
  <2>4. Passed(v, x, i) = Passed(v, x, i - 1) \cup {e}
    BY <2>1, <2>3 DEF Passed
  <2>5. e \notin Done(v)
    <3>1. <<e[1], e[2]>> \in Done(v) <=> Model(e[1]).params[e[2]].x \in v.col
      BY <2>2, DoneIs
    <3>2. QED
      BY <2>2, <3>1
  <2>6. \A j \in 1 .. i - 1 : G.fwds[x][j] # e
    <3>1. \A j \in 1 .. i - 1 : j \in 1 .. n /\ j # i
      OBVIOUS
    <3>2. QED
      BY <1>2, <2>1, <3>1
  <2>7. e \notin Passed(v, x, i - 1)
    BY <2>5, <2>6 DEF Passed
  <2>8. QED
    BY <2>1, <2>2, <2>4, <2>7
<1>5. ASSUME NEW w, \A y \in Vars : y \in w.col <=> y \in v.col \/ y = x
      PROVE  Passed(v, x, n) = Done(w)
  <2>1. ASSUME NEW e, e \in Passed(v, x, n) PROVE e \in Done(w)
    <3>1. CASE e \in Done(v)
      <4>1. PICK mi \in Models, j \in Nat : e = <<mi, j>> /\ j \in DOMAIN Model(mi).params
                                            /\ Model(mi).params[j].x \in v.col
        BY <3>1 DEF Done
      <4>2. Model(mi).params[j].x \in Vars
        BY <4>1, ModelIs
      <4>3. Model(mi).params[j].x \in w.col
        BY <1>5, <4>1, <4>2
      <4>4. QED
        BY <4>1, <4>3, DoneIs
    <3>2. CASE e \notin Done(v)
      <4>1. PICK i \in 1 .. n : e = G.fwds[x][i]
        BY <2>1, <3>2 DEF Passed
      <4>2. e = <<e[1], e[2]>> /\ e[1] \in Models /\ e[2] \in DOMAIN Model(e[1]).params
            /\ Model(e[1]).params[e[2]].x = x
        BY <1>2, <4>1
      <4>3. x \in w.col
        BY <1>5
      <4>4. <<e[1], e[2]>> \in Done(w)
        BY <4>2, <4>3, DoneIs
      <4>5. QED
        BY <4>2, <4>4
    <3>3. QED
      BY <3>1, <3>2
  <2>2. ASSUME NEW e, e \in Done(w) PROVE e \in Passed(v, x, n)
    <3>1. PICK mi \in Models, j \in Nat : e = <<mi, j>> /\ j \in DOMAIN Model(mi).params
                                          /\ Model(mi).params[j].x \in w.col
      BY <2>2 DEF Done
    <3>2. Model(mi).params[j].x \in Vars
      BY <3>1, ModelIs
    <3>3. CASE Model(mi).params[j].x \in v.col
      <4>1. e \in Done(v)
        BY <3>1, <3>3, DoneIs
      <4>2. QED
        BY <4>1 DEF Passed
    <3>4. CASE Model(mi).params[j].x \notin v.col
      <4>1. Model(mi).params[j].x = x
        BY <1>5, <3>1, <3>2, <3>4
      <4>2. PICK i \in 1 .. n : G.fwds[x][i] = <<mi, j>>
        BY <1>2, <3>1, <4>1
      <4>3. QED
        BY <3>1, <4>2 DEF Passed
    <3>5. QED
      BY <3>3, <3>4
  <2>3. QED
    BY <2>1, <2>2
<1>6. QED
  BY <1>1, <1>3, <1>4, <1>5

(* One edge of the loop in prune_bound_var.                                *)
LEMMA BoundVarEdge ==
    ASSUME G \in Graphs, NEW p \in PStates, Marked(p), NEW c \in Colors,
           NEW D, Correct(View(p, c), c, D, Models),
           NEW mi \in Models, NEW j \in DOMAIN Model(mi).params, <<mi, j>> \notin D,
           NEW x, x = Model(mi).params[j].x, x \in View(p, c).col,
           NEW k, k = LeastOf(c)[x],
           \A y \in Vars : y \in View(p, c).col => View(p, c).b[y] <= k,
           NEW q, q = IF Waits(mi, j, c) THEN BoundParam(p, mi, k, c) ELSE p
    PROVE  Leaves(p, q, c) /\ Correct(View(q, c), c, D \cup {<<mi, j>>}, Models)
<1>1. CASE Waits(mi, j, c)
  <2>1. /\ Leaves(p, BoundParam(p, mi, k, c), c)
        /\ Correct(View(BoundParam(p, mi, k, c), c), c, D \cup {<<mi, j>>}, Models)
    BY <1>1, BoundParamStep
  <2>2. QED
    BY <1>1, <2>1, Zenon
<1>2. CASE ~Waits(mi, j, c)
  <2>1. Model(mi).params[j].x \in View(p, c).col
    OBVIOUS
  <2>2. Correct(View(p, c), c, D \cup {<<mi, j>>}, Models)
    BY <1>2, <2>1, CorrectPass
  <2>3. Leaves(p, p, c)
    BY DEF Leaves
  <2>4. QED
    BY <1>2, <2>2, <2>3, Zenon
<1>3. QED
  BY <1>1, <1>2

LEMMA LeavesTwice ==
    ASSUME NEW p, NEW q, NEW r, NEW c, Leaves(p, q, c), Leaves(q, r, c)
    PROVE  Leaves(p, r, c)
BY DEF Leaves

LEMMA BoundVarStep ==
    ASSUME G \in Graphs, NEW p \in PStates, Marked(p), NEW c \in Colors,
           NEW v, Correct(v, c, Done(v), Models), NEW k, NEW x, <<k, x>> \in v.ent,
           \A e \in v.ent : k <= e[1], TakesOff(v, View(p, c), k, x)
    PROVE  LET q == BoundVar(p, x, k, c) IN
           /\ q \in PStates /\ Marked(q)
           /\ \A d \in Colors : d # c => View(q, d) = View(p, d)
           /\ Correct(View(q, c), c, Done(View(q, c)), Models)
<1>1. x \in Vars /\ k \in Nat /\ x \in Nodes
  <2>1. <<k, x>>[1] = k /\ <<k, x>>[2] = x
    OBVIOUS
  <2>2. x \in Vars /\ k \in Nat
    BY <2>1 DEF Correct, Sound
  <2>3. QED
    BY <2>2, GraphIs
<1>2. PICK u : u = View(p, c)
  OBVIOUS
<1>3. u.col = v.col /\ u.miss = v.miss /\ u.b = v.b /\ \A e : e \in v.ent <=> e \in u.ent \/ e = <<k, x>>
  BY <1>2 DEF TakesOff
<1>4. c \in p.flags[x] <=> x \in v.col
  BY <1>1, <1>2, <1>3, ViewIs
<1>5. CASE x \in v.col
  <2>1. BoundVar(p, x, k, c) = p
    BY <1>4, <1>5 DEF BoundVar
  <2>2. Correct(u, c, Done(u), Models)
    BY <1>3, <1>5, CorrectDrop
  <2>3. QED
    BY <1>2, <2>1, <2>2
<1>6. CASE x \notin v.col
  <2>1. PICK n \in Nat : n = Len(G.fwds[x])
    BY <1>1, ListIs
  <2>2. ASSUME NEW i \in 1 .. n
        PROVE  /\ G.fwds[x][i][1] \in Models
               /\ G.fwds[x][i][2] \in DOMAIN Model(G.fwds[x][i][1]).params
               /\ Model(G.fwds[x][i][1]).params[G.fwds[x][i][2]].x = x
    BY <1>1, <2>1, ListIs
  <2> DEFINE base == Colored(p, x, c, k)
             Round(i, s) == IF Waits(G.fwds[x][i][1], G.fwds[x][i][2], c)
                            THEN BoundParam(s, G.fwds[x][i][1], k, c) ELSE s
             step == [z \in (1 .. n) \X PStates |-> Round(z[1], z[2])]
             D == CHOOSE f : f = [i \in 0 .. n |-> IF i = 0 THEN base ELSE Round(i, f[i - 1])]
  <2>3. BoundVar(p, x, k, c) = D[n]
    BY <1>4, <1>6, <2>1 DEF BoundVar, Colored
  <2>4. /\ base \in PStates /\ Marked(base)
        /\ \A d \in Colors : d # c => View(base, d) = View(p, d)
        /\ View(base, c).col = View(p, c).col \cup {x}
        /\ View(base, c).miss = View(p, c).miss /\ View(base, c).ent = View(p, c).ent
        /\ View(base, c).b \in [Nodes -> Nat]
        /\ \A m \in Nodes : View(base, c).b[m] = IF m = x THEN k ELSE View(p, c).b[m]
    BY <1>1, BoundVarBase
  <2> HIDE DEF base
  <2>5. PICK w : w = View(base, c)
    OBVIOUS
  <2>6. w.col = v.col \cup {x} /\ w.miss = v.miss /\ w.b \in [Nodes -> Nat]
        /\ (\A m \in Nodes : w.b[m] = IF m = x THEN k ELSE v.b[m])
        /\ w.ent = u.ent
    BY <1>2, <1>3, <2>4, <2>5
  <2>7. /\ Correct(w, c, Done(v), Models) /\ LeastOf(c)[x] = k
        /\ \A y \in Vars : y \in w.col => w.b[y] <= k
    <3>1. \A e : e \in v.ent <=> e \in w.ent \/ e = <<k, x>>
      BY <1>3, <2>6
    <3>2. QED
      BY <1>6, <2>6, <3>1, CorrectTake
  <2>8. \A i \in 1 .. n : \A s \in PStates : Round(i, s) \in PStates
    BY <1>1, <2>2, BoundParamType
  <2> HIDE DEF Round
  <2>9. \A i \in 1 .. n : \A s \in PStates : step[<<i, s>>] = Round(i, s) /\ step[<<i, s>>] \in PStates
    BY <2>8
  <2> HIDE DEF step
  <2>10. Runs(D, PStates, n, base, step)
    <3>1. \E g : Runs(g, PStates, n, base, step)
      BY <2>4, <2>9, LoopRuns
    <3>2. PICK g : Runs(g, PStates, n, base, step)
      BY <3>1
    <3>3. g = [i \in 0 .. n |-> IF i = 0 THEN base ELSE Round(i, g[i - 1])]
      <4>1. g \in [0 .. n -> PStates] /\ g[0] = base /\ \A i \in 1 .. n : g[i] = step[<<i, g[i - 1]>>]
        BY <3>2 DEF Runs
      <4>2. ASSUME NEW i \in 0 .. n PROVE g[i] = IF i = 0 THEN base ELSE Round(i, g[i - 1])
        <5>1. CASE i = 0
          BY <4>1, <5>1
        <5>2. CASE i # 0
          <6>1. i \in 1 .. n /\ i - 1 \in 0 .. n
            BY <5>2
          <6>2. g[i] = step[<<i, g[i - 1]>>] /\ g[i - 1] \in PStates
            BY <4>1, <6>1
          <6>3. g[i] = Round(i, g[i - 1])
            BY <2>9, <6>1, <6>2
          <6>4. QED
            BY <5>2, <6>3
        <5>3. QED
          BY <5>1, <5>2
      <4>3. QED
        BY <4>1, <4>2
    <3>4. D = [i \in 0 .. n |-> IF i = 0 THEN base ELSE Round(i, D[i - 1])]
      BY <3>3, Zenon
    <3> HIDE DEF D
    <3>5. D[0] = base
      BY <3>4
    <3>6. ASSUME NEW i \in 1 .. n, D[i - 1] \in PStates PROVE D[i] = step[<<i, D[i - 1]>>]
      <4>1. i \in 0 .. n /\ i # 0
        OBVIOUS
      <4>2. D[i] = Round(i, D[i - 1])
        BY <3>4, <4>1, Zenon
      <4>3. QED
        BY <2>9, <3>6, <4>2
    <3>7. D = [i \in 0 .. n |-> D[i]]
      BY <3>4
    <3>8. QED
      BY <2>4, <2>9, <3>5, <3>6, <3>7, LoopTyped
  <2> HIDE DEF D
  <2>11. D \in [0 .. n -> PStates] /\ D[0] = base /\ \A i \in 1 .. n : D[i] = step[<<i, D[i - 1]>>]
    BY <2>10 DEF Runs
  <2> DEFINE A == {i \in 0 .. n : Leaves(base, D[i], c)
                                  /\ Correct(View(D[i], c), c, Passed(v, x, i), Models)}
  <2>12. 0 \in A
    <3>1. Passed(v, x, 0) = Done(v)
      BY <1>1, <1>6, PassedIs
    <3>2. Leaves(base, base, c)
      BY <2>4 DEF Leaves
    <3>3. QED
      BY <2>5, <2>7, <2>11, <3>1, <3>2
  <2>13. ASSUME NEW i \in 1 .. n, i - 1 \in A PROVE i \in A
    <3>1. PICK r \in PStates : r = D[i - 1]
      BY <2>11
    <3>2. Leaves(base, r, c) /\ Correct(View(r, c), c, Passed(v, x, i - 1), Models)
      BY <2>13, <3>1
    <3>3. D[i] = Round(i, r)
      BY <2>9, <2>11, <3>1
    <3>4. PICK mi \in Models : mi = G.fwds[x][i][1]
      BY <2>2
    <3>5. PICK j \in DOMAIN Model(mi).params : j = G.fwds[x][i][2]
      BY <2>2, <3>4
    <3>6. PICK P1 : P1 = Passed(v, x, i - 1)
      OBVIOUS
    <3>7. Passed(v, x, i) = P1 \cup {<<mi, j>>} /\ <<mi, j>> \notin P1
      BY <1>1, <1>6, <2>1, <3>4, <3>5, <3>6, PassedIs, SMTT(30)
    <3>8. x = Model(mi).params[j].x
      BY <2>2, <3>4, <3>5
    <3>9. x \in View(r, c).col /\ \A y \in Vars : y \in View(r, c).col => View(r, c).b[y] <= k
      <4>1. \A y \in Vars : (y \in View(r, c).col <=> y \in w.col) /\ View(r, c).b[y] = w.b[y]
        BY <2>5, <3>2 DEF Leaves
      <4>2. QED
        BY <1>1, <2>6, <2>7, <4>1
    <3>10. PICK q : q = D[i]
      OBVIOUS
    <3>11. q = IF Waits(mi, j, c) THEN BoundParam(r, mi, k, c) ELSE r
      BY <3>3, <3>4, <3>5, <3>10 DEF Round
    <3>12. Marked(r)
      BY <3>2 DEF Leaves
    <3>13. Leaves(r, q, c) /\ Correct(View(q, c), c, P1 \cup {<<mi, j>>}, Models)
      <4>1. Correct(View(r, c), c, P1, Models)
        BY <3>2, <3>6
      <4>2. <<mi, j>> \notin P1 /\ k = LeastOf(c)[x]
        BY <2>7, <3>7
      <4>3. QED
        BY <3>8, <3>9, <3>11, <3>12, <4>1, <4>2, BoundVarEdge
    <3>14. Leaves(base, q, c)
      BY <3>2, <3>13, LeavesTwice
    <3>15. Leaves(base, D[i], c) /\ Correct(View(D[i], c), c, Passed(v, x, i), Models)
      BY <3>7, <3>10, <3>13, <3>14, Zenon
    <3>16. i \in 0 .. n
      OBVIOUS
    <3>17. QED
      BY <3>15, <3>16, Zenon
  <2> HIDE DEF A
  <2>14. n \in A
    <3>1. \A i \in 0 .. n : i \in A
      BY <2>12, <2>13, UpTo
    <3>2. QED
      BY <3>1
  <2>15. PICK q : q = D[n]
    OBVIOUS
  <2>16. Leaves(base, q, c) /\ Correct(View(q, c), c, Passed(v, x, n), Models)
    BY <2>14, <2>15 DEF A
  <2>17. Passed(v, x, n) = Done(View(q, c))
    <3>1. \A y \in Vars : y \in View(q, c).col <=> y \in v.col \/ y = x
      BY <2>5, <2>6, <2>16 DEF Leaves
    <3>2. QED
      BY <1>1, <1>6, <2>1, <3>1, PassedIs
  <2>18. /\ q \in PStates /\ Marked(q)
         /\ \A d \in Colors : d # c => View(q, d) = View(p, d)
    BY <2>4, <2>16 DEF Leaves
  <2>19. QED
    BY <2>3, <2>15, <2>16, <2>17, <2>18
<1>7. QED
  BY <1>5, <1>6

-----------------------------------------------------------------------------
(* prune_propagate.                                                        *)

Propagating(p) ==
    /\ p \in PStates /\ Marked(p)
    /\ \A c \in Colors : Correct(View(p, c), c, Done(View(p, c)), Models)

LEMMA PropagateStep ==
    ASSUME G \in Graphs, NEW p, Propagating(p), p.heap # <<>>,
           NEW next, next = p.heap[1],
           NEW q, q = BoundVar([p EXCEPT !.heap = HeapRemove(@)], next.xi, next.cost, next.color)
    PROVE  Propagating(q)
<1>1. p \in PStates /\ Marked(p)
  BY DEF Propagating
<1>2. PICK h \in Heaps : h = p.heap
  BY <1>1 DEF PStates
<1>3. h \in Seq(HNode) /\ Ordered(h) /\ h # <<>>
  BY <1>2 DEF Heaps
<1>4. PICK r : r = HeapRemove(h)
  OBVIOUS
<1>5. r \in Heaps
  BY <1>3, <1>4, RemoveIs DEF Heaps
<1>6. next \in HNode /\ (\A e \in Range(h) : next.cost <= e.cost) /\ Range(h) = {next} \cup Range(r)
  BY <1>2, <1>3, <1>4, HeadIsLeast
<1>7. PICK k \in Nat : k = next.cost
  BY <1>6 DEF HNode
<1>8. PICK c \in Colors : c = next.color
  BY <1>6 DEF HNode, Colors
<1>9. PICK x \in Int : x = next.xi
  BY <1>6 DEF HNode
<1>10. next = HeapNode(k, c, x)
  BY <1>6, <1>7, <1>8, <1>9 DEF HNode, HeapNode
<1>11. PICK s : s = [p EXCEPT !.heap = r]
  OBVIOUS
<1>12. s \in PStates /\ s.heap = r /\ s.flags = p.flags /\ s.bound = p.bound /\ s.miss = p.miss
  BY <1>1, <1>5, <1>11 DEF PStates
<1>13. q = BoundVar(s, x, k, c)
  BY <1>2, <1>4, <1>7, <1>8, <1>9, <1>11
<1>14. Marked(s)
  BY <1>1, <1>12 DEF Marked
<1>15. ASSUME NEW d \in Colors, d # c PROVE View(s, d) = View(p, d)
  <2>1. \A e : e \in Range(s.heap) /\ e.color = d <=> e \in Range(p.heap) /\ e.color = d
    BY <1>2, <1>6, <1>8, <1>12, <1>15
  <2>2. /\ \A n \in Nodes : (d \in s.flags[n] <=> d \in p.flags[n]) /\ s.bound[n][d] = p.bound[n][d]
        /\ \A n \in Models : s.miss[n][d] = p.miss[n][d]
    BY <1>12
  <2>3. QED
    BY <1>1, <1>12, <2>1, <2>2, SameView
<1>16. PICK v : v = View(p, c)
  OBVIOUS
<1>17. \A e : e \in v.ent <=> \E m \in Range(h) : m.color = c /\ e = <<m.cost, m.xi>>
  BY <1>1, <1>2, <1>16, ViewIs
<1>18. \A e : e \in View(s, c).ent <=> \E m \in Range(r) : m.color = c /\ e = <<m.cost, m.xi>>
  BY <1>12, ViewIs
<1>19. \A e : e \in v.ent <=> e \in View(s, c).ent \/ e = <<k, x>>
  BY <1>6, <1>7, <1>8, <1>9, <1>17, <1>18
<1>20. \A e \in v.ent : k <= e[1]
  <2>1. ASSUME NEW e \in v.ent PROVE k <= e[1]
    <3>1. PICK m \in Range(h) : e = <<m.cost, m.xi>>
      BY <1>17
    <3>2. e[1] = m.cost
      BY <3>1
    <3>3. QED
      BY <1>6, <1>7, <3>2
  <2>2. QED
    BY <2>1
<1>21. TakesOff(v, View(s, c), k, x)
  <2>1. View(s, c).col = v.col /\ View(s, c).miss = v.miss /\ View(s, c).b = v.b
    BY <1>12, <1>16 DEF View
  <2>2. QED
    BY <1>19, <2>1 DEF TakesOff
<1>22. <<k, x>> \in v.ent
  BY <1>19
<1>23. Correct(v, c, Done(v), Models)
  BY <1>16 DEF Propagating
<1>24. /\ q \in PStates /\ Marked(q)
       /\ \A d \in Colors : d # c => View(q, d) = View(s, d)
       /\ Correct(View(q, c), c, Done(View(q, c)), Models)
  <2>1. /\ BoundVar(s, x, k, c) \in PStates /\ Marked(BoundVar(s, x, k, c))
        /\ \A d \in Colors : d # c => View(BoundVar(s, x, k, c), d) = View(s, d)
        /\ Correct(View(BoundVar(s, x, k, c), c), c, Done(View(BoundVar(s, x, k, c), c)), Models)
    BY <1>12, <1>14, <1>20, <1>21, <1>22, <1>23, BoundVarStep
  <2>2. QED
    BY <1>13, <2>1, Zenon
<1>25. ASSUME NEW d \in Colors PROVE Correct(View(q, d), d, Done(View(q, d)), Models)
  <2>1. CASE d = c
    BY <1>24, <2>1
  <2>2. CASE d # c
    <3>1. View(q, d) = View(p, d)
      BY <1>15, <1>24, <2>2
    <3>2. Correct(View(p, d), d, Done(View(p, d)), Models)
      BY DEF Propagating
    <3>3. QED
      BY <3>1, <3>2, Zenon
  <2>3. QED
    BY <2>1, <2>2
<1>26. QED
  BY <1>24, <1>25 DEF Propagating

-----------------------------------------------------------------------------
(* prune_insert_given.                                                     *)

GivenIn(p, S) ==
    LET Both(s, x) == InsertVar(InsertVar(s, x, 0, "GRAY"), x, 0, "BLACK")
        Loop[i \in 0 .. G.nv] ==
            IF i = 0 THEN p
            ELSE IF i - 1 \in S THEN Both(Loop[i - 1], i - 1) ELSE Loop[i - 1]
    IN Loop[G.nv]

(* Two states that differ in their heaps only.                             *)
SameBut(p, q) == q \in PStates /\ q.flags = p.flags /\ q.bound = p.bound /\ q.miss = p.miss

LEMMA GivenInIs ==
    ASSUME G \in Graphs, NEW p \in PStates, p.heap = <<>>, NEW S, S \subseteq Vars
    PROVE  /\ SameBut(p, GivenIn(p, S))
           /\ Range(GivenIn(p, S).heap) = {HeapNode(0, c, x) : c \in Colors, x \in S}
<1>1. PICK n \in Nat : n = G.nv
  BY GraphIs
<1>2. Vars = 0 .. n - 1
  BY <1>1 DEF Vars, VarsOf
<1>20. \A x \in S : x \in Int /\ 0 <= x /\ x < n
  <2>1. \A x \in S : x \in 0 .. n - 1
    BY <1>2
  <2>2. QED
    BY <2>1
<1> DEFINE Both(s, x) == InsertVar(InsertVar(s, x, 0, "GRAY"), x, 0, "BLACK")
           Round(i, s) == IF i - 1 \in S THEN Both(s, i - 1) ELSE s
           step == [z \in (1 .. n) \X PStates |-> Round(z[1], z[2])]
           D == CHOOSE f : f = [i \in 0 .. n |-> IF i = 0 THEN p ELSE Round(i, f[i - 1])]
<1>3. GivenIn(p, S) = D[n]
  BY <1>1 DEF GivenIn
<1>4. ASSUME NEW s \in PStates, NEW x \in Int
      PROVE  /\ SameBut(s, Both(s, x))
             /\ Range(Both(s, x).heap) = Range(s.heap) \cup {HeapNode(0, c, x) : c \in Colors}
  <2>1. ASSUME NEW u \in PStates, NEW c \in Colors
        PROVE  /\ SameBut(u, InsertVar(u, x, 0, c))
               /\ Range(InsertVar(u, x, 0, c).heap) = Range(u.heap) \cup {HeapNode(0, c, x)}
    <3>1. PICK z \in Nat : z = 0
      OBVIOUS
    <3>2. /\ InsertVar(u, x, z, c) \in PStates
          /\ InsertVar(u, x, z, c).flags = u.flags /\ InsertVar(u, x, z, c).bound = u.bound
          /\ InsertVar(u, x, z, c).miss = u.miss
          /\ Range(InsertVar(u, x, z, c).heap) = Range(u.heap) \cup {HeapNode(z, c, x)}
      BY InsertVarIs DEF HeapNode
    <3>3. QED
      BY <3>1, <3>2, Zenon DEF SameBut
  <2>2. "GRAY" \in Colors /\ "BLACK" \in Colors
    BY DEF Colors
  <2>3. PICK t : t = InsertVar(s, x, 0, "GRAY")
    OBVIOUS
  <2>4. SameBut(s, t) /\ Range(t.heap) = Range(s.heap) \cup {HeapNode(0, "GRAY", x)}
    BY <2>1, <2>2, <2>3
  <2>5. PICK r : r = InsertVar(t, x, 0, "BLACK")
    OBVIOUS
  <2>6. SameBut(t, r) /\ Range(r.heap) = Range(t.heap) \cup {HeapNode(0, "BLACK", x)}
    BY <2>1, <2>2, <2>4, <2>5 DEF SameBut
  <2>61. {HeapNode(0, c, x) : c \in Colors} = {HeapNode(0, "GRAY", x), HeapNode(0, "BLACK", x)}
    BY DEF Colors
  <2>7. Both(s, x) = r
    BY <2>3, <2>5
  <2>8. QED
    BY <2>4, <2>6, <2>61, <2>7 DEF SameBut
<1> HIDE DEF Both
<1>5. \A i \in 1 .. n : \A s \in PStates : Round(i, s) \in PStates
  BY <1>4 DEF SameBut
<1> HIDE DEF Round
<1>6. \A i \in 1 .. n : \A s \in PStates : step[<<i, s>>] = Round(i, s) /\ step[<<i, s>>] \in PStates
  BY <1>5
<1> HIDE DEF step
<1>7. Runs(D, PStates, n, p, step)
  <2>1. \E g : Runs(g, PStates, n, p, step)
    BY <1>6, LoopRuns
  <2>2. PICK g : Runs(g, PStates, n, p, step)
    BY <2>1
  <2>3. g = [i \in 0 .. n |-> IF i = 0 THEN p ELSE Round(i, g[i - 1])]
    <3>1. g \in [0 .. n -> PStates] /\ g[0] = p /\ \A i \in 1 .. n : g[i] = step[<<i, g[i - 1]>>]
      BY <2>2 DEF Runs
    <3>2. ASSUME NEW i \in 0 .. n PROVE g[i] = IF i = 0 THEN p ELSE Round(i, g[i - 1])
      <4>1. CASE i = 0
        BY <3>1, <4>1
      <4>2. CASE i # 0
        <5>1. i \in 1 .. n /\ i - 1 \in 0 .. n
          BY <4>2
        <5>2. g[i] = step[<<i, g[i - 1]>>] /\ g[i - 1] \in PStates
          BY <3>1, <5>1
        <5>3. g[i] = Round(i, g[i - 1])
          BY <1>6, <5>1, <5>2
        <5>4. QED
          BY <4>2, <5>3
      <4>3. QED
        BY <4>1, <4>2
    <3>3. QED
      BY <3>1, <3>2
  <2>4. D = [i \in 0 .. n |-> IF i = 0 THEN p ELSE Round(i, D[i - 1])]
    BY <2>3, Zenon
  <2> HIDE DEF D
  <2>5. D[0] = p
    BY <2>4
  <2>6. ASSUME NEW i \in 1 .. n, D[i - 1] \in PStates PROVE D[i] = step[<<i, D[i - 1]>>]
    <3>1. i \in 0 .. n /\ i # 0
      OBVIOUS
    <3>2. D[i] = Round(i, D[i - 1])
      BY <2>4, <3>1, Zenon
    <3>3. QED
      BY <1>6, <2>6, <3>2
  <2>7. D = [i \in 0 .. n |-> D[i]]
    BY <2>4
  <2>8. QED
    BY <1>6, <2>5, <2>6, <2>7, LoopTyped
<1> HIDE DEF D
<1>8. D \in [0 .. n -> PStates] /\ D[0] = p /\ \A i \in 1 .. n : D[i] = step[<<i, D[i - 1]>>]
  BY <1>7 DEF Runs
<1> DEFINE Put(i) == {HeapNode(0, c, x) : c \in Colors, x \in {x \in S : x < i}}
           A == {i \in 0 .. n : SameBut(p, D[i]) /\ Range(D[i].heap) = Put(i)}
<1>9. 0 \in A
  <2>1. Range(p.heap) = {}
    BY DEF Range
  <2>2. {x \in S : x < 0} = {}
    BY <1>20
  <2>3. Put(0) = {}
    BY <2>2
  <2>4. SameBut(p, p)
    BY DEF SameBut
  <2>5. 0 \in 0 .. n
    OBVIOUS
  <2> HIDE DEF Put
  <2>6. QED
    BY <1>8, <2>1, <2>3, <2>4, <2>5
<1>10. ASSUME NEW i \in 1 .. n, i - 1 \in A PROVE i \in A
  <2>1. PICK r \in PStates : r = D[i - 1]
    BY <1>8
  <2>2. SameBut(p, r) /\ Range(r.heap) = Put(i - 1)
    BY <1>10, <2>1
  <2>3. D[i] = Round(i, r)
    BY <1>6, <1>8, <2>1
  <2>4. CASE i - 1 \in S
    <3>1. D[i] = Both(r, i - 1)
      BY <2>3, <2>4 DEF Round
    <3>2. SameBut(r, D[i]) /\ Range(D[i].heap) = Range(r.heap) \cup {HeapNode(0, c, i - 1) : c \in Colors}
      BY <1>4, <3>1
    <3>3. {x \in S : x < i} = {x \in S : x < i - 1} \cup {i - 1}
      BY <1>20, <2>4
    <3>4. Put(i) = Put(i - 1) \cup {HeapNode(0, c, i - 1) : c \in Colors}
      BY <3>3
    <3>5. SameBut(p, D[i])
      BY <2>2, <3>2 DEF SameBut
    <3> HIDE DEF Put
    <3>6. Range(D[i].heap) = Put(i)
      BY <2>2, <3>2, <3>4, Zenon
    <3>7. i \in 0 .. n
      OBVIOUS
    <3>8. QED
      BY <3>5, <3>6, <3>7, Zenon
  <2>5. CASE i - 1 \notin S
    <3>1. D[i] = r
      BY <2>3, <2>5 DEF Round
    <3>2. {x \in S : x < i} = {x \in S : x < i - 1}
      BY <1>20, <2>5
    <3>3. QED
      BY <2>2, <3>1, <3>2
  <2>6. QED
    BY <2>4, <2>5
<1> HIDE DEF A
<1>11. n \in A
  <2>1. \A i \in 0 .. n : i \in A
    BY <1>9, <1>10, UpTo
  <2>2. QED
    BY <2>1
<1>12. {x \in S : x < n} = S
  BY <1>20
<1>13. Put(n) = {HeapNode(0, c, x) : c \in Colors, x \in S}
  BY <1>12
<1>14. QED
  BY <1>3, <1>11, <1>13 DEF A

-----------------------------------------------------------------------------
(* prune_insert_constmods.                                                 *)

ConstIn(p) ==
    LET Ready(s, mi, color) == IF p.miss[mi][color] = 0 THEN BoundModel(s, mi, color) ELSE s
        Loop[i \in 0 .. G.nm] ==
            IF i = 0 THEN p ELSE Ready(Ready(Loop[i - 1], -i, "GRAY"), -i, "BLACK")
    IN Loop[G.nm]

(* Models up to the m-th have been looked at; no variable has a bound.     *)
Looked(p, q, c, m) ==
    /\ Correct(View(q, c), c, {}, {mi \in Models : mi >= -m})
    /\ \A x \in Vars : x \notin View(q, c).col
    /\ View(q, c).miss = View(p, c).miss

LEMMA ReadyStep ==
    ASSUME G \in Graphs, NEW p \in PStates, NEW q \in PStates, Marked(q), NEW c \in Colors,
           NEW m \in 1 .. G.nm, Looked(p, q, c, m - 1),
           NEW r, r = IF p.miss[-m][c] = 0 THEN BoundModel(q, -m, c) ELSE q
    PROVE  /\ r \in PStates /\ Marked(r) /\ Looked(p, r, c, m)
           /\ \A d \in Colors : d # c => View(r, d) = View(q, d)
<1>1. PICK mi \in Models : mi = -m
  BY GraphIs DEF Models, ModelsIn
<1>2. {n \in Models : n >= -m} = {n \in Models : n >= -(m - 1)} \cup {mi} /\ mi \notin {n \in Models : n >= -(m - 1)}
  <2>1. \A n \in Models : n \in Int
    BY GraphIs
  <2>2. m \in Int /\ mi \in Int /\ mi = -m /\ mi \in Models
    BY <1>1, <2>1
  <2>3. \A n \in Models : n >= -m <=> n >= -(m - 1) \/ n = mi
    BY <2>1, <2>2
  <2>4. ~(mi >= -(m - 1)) /\ mi >= -m
    BY <2>2
  <2> DEFINE X == {n \in Models : n >= -m}
             Y == {n \in Models : n >= -(m - 1)}
  <2>5. \A n : n \in X <=> n \in Y \/ n = mi
    BY <2>2, <2>3, Zenon
  <2>6. mi \notin Y
    BY <2>4
  <2> HIDE DEF X, Y
  <2>7. X = Y \cup {mi}
    BY <2>5
  <2>8. QED
    BY <2>6, <2>7 DEF X, Y
<1>3. PICK M : M = {n \in Models : n >= -(m - 1)}
  OBVIOUS
<1>4. Correct(View(q, c), c, {}, M) /\ mi \notin M /\ {n \in Models : n >= -m} = M \cup {mi}
  BY <1>2, <1>3 DEF Looked
<1>5. (\A x \in Vars : x \notin View(q, c).col) /\ View(q, c).miss = View(p, c).miss
  BY DEF Looked
<1>6. View(q, c).miss[mi] = p.miss[mi][c]
  BY <1>5, ViewIs
<1>7. CASE p.miss[mi][c] = 0
  <2>1. PICK t : t = BoundModel(q, mi, c)
    OBVIOUS
  <2>2. Leaves(q, t, c) /\ Correct(View(t, c), c, {}, M \cup {mi})
    <3>1. /\ Leaves(q, BoundModel(q, mi, c), c)
          /\ Correct(View(BoundModel(q, mi, c), c), c, {}, M \cup {mi})
      BY <1>4, <1>5, <1>6, <1>7, BoundModelStep
    <3>2. QED
      BY <2>1, <3>1, Zenon
  <2>3. r = t
    BY <1>1, <1>7, <2>1
  <2>4. View(t, c).miss = View(q, c).miss
    <3>1. CASE "SKIP" \in q.flags[mi]
      BY <2>1, <3>1, Zenon DEF BoundModel
    <3>2. CASE "SKIP" \notin q.flags[mi]
      <4>1. GivesBound(q, t, mi, c, NewBound(q, mi, c))
        BY <2>1, <3>2, BoundModelIs
      <4>2. t.miss = q.miss
        BY <4>1 DEF GivesBound
      <4>3. QED
        BY <4>2 DEF View
    <3>3. QED
      BY <3>1, <3>2, SMTT(30)
  <2>5. \A x \in Vars : x \notin View(t, c).col
    BY <1>5, <2>2 DEF Leaves
  <2>6. Looked(p, t, c, m)
    BY <1>4, <1>5, <2>2, <2>4, <2>5 DEF Looked
  <2>7. QED
    BY <2>2, <2>3, <2>6 DEF Leaves
<1>8. CASE p.miss[mi][c] # 0
  <2>1. r = q
    BY <1>1, <1>8
  <2>2. Correct(View(q, c), c, {}, M \cup {mi})
    BY <1>4, <1>6, <1>8, CorrectCount
  <2>3. QED
    BY <1>4, <1>5, <2>1, <2>2 DEF Looked
<1>9. QED
  BY <1>7, <1>8

LEMMA ConstInIs ==
    ASSUME G \in Graphs, NEW p \in PStates, Marked(p),
           \A c \in Colors : Looked(p, p, c, 0)
    PROVE  Propagating(ConstIn(p))
<1>1. PICK n \in Nat : n = G.nm
  BY GraphIs
<1> DEFINE Ready(s, mi, color) == IF p.miss[mi][color] = 0 THEN BoundModel(s, mi, color) ELSE s
           Round(i, s) == Ready(Ready(s, -i, "GRAY"), -i, "BLACK")
           step == [z \in (1 .. n) \X PStates |-> Round(z[1], z[2])]
           D == CHOOSE f : f = [i \in 0 .. n |-> IF i = 0 THEN p ELSE Round(i, f[i - 1])]
<1>2. ConstIn(p) = D[n]
  BY <1>1 DEF ConstIn
<1>3. \A i \in 1 .. n : -i \in Models
  BY <1>1, GraphIs DEF Models, ModelsIn
<1>4. "GRAY" \in Colors /\ "BLACK" \in Colors
  BY DEF Colors
<1>5. \A s \in PStates : \A i \in 1 .. n : \A c \in Colors : Ready(s, -i, c) \in PStates
  BY <1>3, BoundModelType
<1>51. \A s : \A i \in 1 .. n : \A c \in Colors :
          Ready(s, -i, c) = IF p.miss[-i][c] = 0 THEN BoundModel(s, -i, c) ELSE s
  OBVIOUS
<1> HIDE DEF Ready
<1>6. \A i \in 1 .. n : \A s \in PStates : Round(i, s) \in PStates
  BY <1>4, <1>5
<1>61. \A i \in 1 .. n : \A s : Round(i, s) = Ready(Ready(s, -i, "GRAY"), -i, "BLACK")
  OBVIOUS
<1> HIDE DEF Round
<1>7. \A i \in 1 .. n : \A s \in PStates : step[<<i, s>>] = Round(i, s) /\ step[<<i, s>>] \in PStates
  BY <1>6
<1> HIDE DEF step
<1>8. Runs(D, PStates, n, p, step)
  <2>1. \E g : Runs(g, PStates, n, p, step)
    BY <1>7, LoopRuns
  <2>2. PICK g : Runs(g, PStates, n, p, step)
    BY <2>1
  <2>3. g = [i \in 0 .. n |-> IF i = 0 THEN p ELSE Round(i, g[i - 1])]
    <3>1. g \in [0 .. n -> PStates] /\ g[0] = p /\ \A i \in 1 .. n : g[i] = step[<<i, g[i - 1]>>]
      BY <2>2 DEF Runs
    <3>2. ASSUME NEW i \in 0 .. n PROVE g[i] = IF i = 0 THEN p ELSE Round(i, g[i - 1])
      <4>1. CASE i = 0
        BY <3>1, <4>1
      <4>2. CASE i # 0
        <5>1. i \in 1 .. n /\ i - 1 \in 0 .. n
          BY <4>2
        <5>2. g[i] = step[<<i, g[i - 1]>>] /\ g[i - 1] \in PStates
          BY <3>1, <5>1
        <5>3. g[i] = Round(i, g[i - 1])
          BY <1>7, <5>1, <5>2
        <5>4. QED
          BY <4>2, <5>3
      <4>3. QED
        BY <4>1, <4>2
    <3>3. QED
      BY <3>1, <3>2
  <2>4. D = [i \in 0 .. n |-> IF i = 0 THEN p ELSE Round(i, D[i - 1])]
    BY <2>3, Zenon
  <2> HIDE DEF D
  <2>5. D[0] = p
    BY <2>4
  <2>6. ASSUME NEW i \in 1 .. n, D[i - 1] \in PStates PROVE D[i] = step[<<i, D[i - 1]>>]
    <3>1. i \in 0 .. n /\ i # 0
      OBVIOUS
    <3>2. D[i] = Round(i, D[i - 1])
      BY <2>4, <3>1, Zenon
    <3>3. QED
      BY <1>7, <2>6, <3>2
  <2>7. D = [i \in 0 .. n |-> D[i]]
    BY <2>4
  <2>8. QED
    BY <1>7, <2>5, <2>6, <2>7, LoopTyped
<1> HIDE DEF D
<1>9. D \in [0 .. n -> PStates] /\ D[0] = p /\ \A i \in 1 .. n : D[i] = step[<<i, D[i - 1]>>]
  BY <1>8 DEF Runs
<1> DEFINE A == {i \in 0 .. n : Marked(D[i]) /\ Looked(p, D[i], "GRAY", i) /\ Looked(p, D[i], "BLACK", i)}
<1>10. 0 \in A
  BY <1>4, <1>9
<1>11. ASSUME NEW i \in 1 .. n, i - 1 \in A PROVE i \in A
  <2>1. PICK s \in PStates : s = D[i - 1]
    BY <1>9
  <2>2. Marked(s) /\ Looked(p, s, "GRAY", i - 1) /\ Looked(p, s, "BLACK", i - 1)
    BY <1>11, <2>1
  <2>3. PICK t : t = Ready(s, -i, "GRAY")
    OBVIOUS
  <2>4. PICK r : r = Ready(t, -i, "BLACK")
    OBVIOUS
  <2>5. D[i] = r
    BY <1>61, <1>7, <1>9, <2>1, <2>3, <2>4
  <2>6. /\ t \in PStates /\ Marked(t) /\ Looked(p, t, "GRAY", i)
        /\ \A d \in Colors : d # "GRAY" => View(t, d) = View(s, d)
    <3>1. t = IF p.miss[-i]["GRAY"] = 0 THEN BoundModel(s, -i, "GRAY") ELSE s
      BY <1>4, <1>51, <2>3
    <3>2. QED
      BY <1>1, <1>4, <2>2, <3>1, ReadyStep
  <2>7. Looked(p, t, "BLACK", i - 1)
    <3>1. View(t, "BLACK") = View(s, "BLACK")
      BY <1>4, <2>6
    <3>2. QED
      BY <2>2, <3>1, Zenon DEF Looked
  <2>8. /\ r \in PStates /\ Marked(r) /\ Looked(p, r, "BLACK", i)
        /\ \A d \in Colors : d # "BLACK" => View(r, d) = View(t, d)
    <3>1. r = IF p.miss[-i]["BLACK"] = 0 THEN BoundModel(t, -i, "BLACK") ELSE t
      BY <1>4, <1>51, <2>4
    <3>2. QED
      BY <1>1, <1>4, <2>6, <2>7, <3>1, ReadyStep
  <2>9. Looked(p, r, "GRAY", i)
    <3>1. View(r, "GRAY") = View(t, "GRAY")
      BY <1>4, <2>8
    <3>2. QED
      BY <2>6, <3>1, Zenon DEF Looked
  <2>10. i \in 0 .. n
    OBVIOUS
  <2>11. QED
    BY <2>5, <2>8, <2>9, <2>10, Zenon
<1> HIDE DEF A
<1>12. n \in A
  <2>1. \A i \in 0 .. n : i \in A
    BY <1>10, <1>11, UpTo
  <2>2. QED
    BY <2>1
<1>13. PICK q \in PStates : q = D[n]
  BY <1>9
<1>14. Marked(q) /\ \A c \in Colors : Looked(p, q, c, n)
  BY <1>12, <1>13 DEF A, Colors
<1>15. {mi \in Models : mi >= -n} = Models
  <2>1. \A mi \in Models : mi \in Int /\ mi >= -n
    BY <1>1 DEF Models, ModelsIn
  <2>2. QED
    BY <2>1
<1>16. ASSUME NEW c \in Colors PROVE Correct(View(q, c), c, Done(View(q, c)), Models)
  <2>1. Correct(View(q, c), c, {}, Models) /\ \A x \in Vars : x \notin View(q, c).col
    BY <1>14, <1>15 DEF Looked
  <2>2. Done(View(q, c)) = {}
    <3>1. ASSUME NEW e \in Done(View(q, c)) PROVE FALSE
      <4>1. /\ e[1] \in Models /\ e[2] \in DOMAIN Model(e[1]).params
            /\ Model(e[1]).params[e[2]].x \in View(q, c).col
        BY DEF Done
      <4>2. Model(e[1]).params[e[2]].x \in Vars
        BY <4>1, ModelIs
      <4>3. QED
        BY <2>1, <4>1, <4>2
    <3>2. QED
      BY <3>1
  <2>3. QED
    BY <2>1, <2>2
<1>17. QED
  BY <1>2, <1>13, <1>14, <1>16 DEF Propagating

-----------------------------------------------------------------------------
(* prune_mark_given, prune_mark_skips, prune_init_mstate.                  *)

LEMMA EdgeSets ==
    ASSUME G \in Graphs, NEW S, S \subseteq Vars
    PROVE  /\ ModelsOf(S) \subseteq Models /\ UsersOf(S) \subseteq Models
           /\ \A mi \in Models : mi \in ModelsOf(S) <=> \E e \in Range(Model(mi).returns) : e.x \in S
           /\ \A mi \in Models : mi \in UsersOf(S) <=> \E e \in Range(Model(mi).params) : e.x \in S
<1>1. \A mi : mi \in ModelsOf(S) <=> \E x \in S : \E i \in DOMAIN G.models[x] : mi = G.models[x][i][1]
  BY DEF ModelsOf, Range
<1>2. \A mi : mi \in UsersOf(S) <=> \E x \in S : \E i \in DOMAIN G.fwds[x] : mi = G.fwds[x][i][1]
  BY DEF UsersOf, Range
<1>3. ASSUME NEW x \in S
      PROVE  /\ DOMAIN G.models[x] = 1 .. Len(G.models[x])
             /\ \A i \in 1 .. Len(G.models[x]) :
                   /\ G.models[x][i][1] \in Models
                   /\ G.models[x][i][2] \in DOMAIN Model(G.models[x][i][1]).returns
                   /\ Model(G.models[x][i][1]).returns[G.models[x][i][2]].x = x
             /\ \A mi \in Models : \A j \in DOMAIN Model(mi).returns :
                   Model(mi).returns[j].x = x =>
                   \E i \in 1 .. Len(G.models[x]) : G.models[x][i] = <<mi, j>>
  BY ListIs
<1>4. ASSUME NEW x \in S
      PROVE  /\ DOMAIN G.fwds[x] = 1 .. Len(G.fwds[x])
             /\ \A i \in 1 .. Len(G.fwds[x]) :
                   /\ G.fwds[x][i][1] \in Models
                   /\ G.fwds[x][i][2] \in DOMAIN Model(G.fwds[x][i][1]).params
                   /\ Model(G.fwds[x][i][1]).params[G.fwds[x][i][2]].x = x
             /\ \A mi \in Models : \A j \in DOMAIN Model(mi).params :
                   Model(mi).params[j].x = x =>
                   \E i \in 1 .. Len(G.fwds[x]) : G.fwds[x][i] = <<mi, j>>
  BY ListIs
<1>5. ModelsOf(S) \subseteq Models
  BY <1>1, <1>3
<1>6. UsersOf(S) \subseteq Models
  BY <1>2, <1>4
<1>7. ASSUME NEW mi \in Models
      PROVE  mi \in ModelsOf(S) <=> \E e \in Range(Model(mi).returns) : e.x \in S
  <2>1. (\E e \in Range(Model(mi).returns) : e.x \in S) <=>
        \E j \in DOMAIN Model(mi).returns : Model(mi).returns[j].x \in S
    BY DEF Range
  <2>2. ASSUME NEW j \in DOMAIN Model(mi).returns, Model(mi).returns[j].x \in S PROVE mi \in ModelsOf(S)
    <3>1. PICK x \in S : x = Model(mi).returns[j].x
      BY <2>2
    <3>2. PICK i \in 1 .. Len(G.models[x]) : G.models[x][i] = <<mi, j>>
      BY <1>3, <3>1
    <3>3. mi = G.models[x][i][1]
      BY <3>2
    <3>4. QED
      BY <1>1, <1>3, <3>3
  <2>3. ASSUME mi \in ModelsOf(S) PROVE \E j \in DOMAIN Model(mi).returns : Model(mi).returns[j].x \in S
    <3>1. PICK x \in S : \E i \in DOMAIN G.models[x] : mi = G.models[x][i][1]
      BY <1>1, <2>3
    <3>2. PICK i \in DOMAIN G.models[x] : mi = G.models[x][i][1]
      BY <3>1
    <3>3. PICK j : j = G.models[x][i][2]
      OBVIOUS
    <3>4. i \in 1 .. Len(G.models[x])
      BY <1>3, <3>2
    <3>5. j \in DOMAIN Model(mi).returns /\ Model(mi).returns[j].x = x
      BY <1>3, <3>2, <3>3, <3>4
    <3>6. QED
      BY <3>5
  <2>4. QED
    BY <2>1, <2>2, <2>3
<1>8. ASSUME NEW mi \in Models
      PROVE  mi \in UsersOf(S) <=> \E e \in Range(Model(mi).params) : e.x \in S
  <2>1. (\E e \in Range(Model(mi).params) : e.x \in S) <=>
        \E j \in DOMAIN Model(mi).params : Model(mi).params[j].x \in S
    BY DEF Range
  <2>2. ASSUME NEW j \in DOMAIN Model(mi).params, Model(mi).params[j].x \in S PROVE mi \in UsersOf(S)
    <3>1. PICK x \in S : x = Model(mi).params[j].x
      BY <2>2
    <3>2. PICK i \in 1 .. Len(G.fwds[x]) : G.fwds[x][i] = <<mi, j>>
      BY <1>4, <3>1
    <3>3. mi = G.fwds[x][i][1]
      BY <3>2
    <3>4. QED
      BY <1>2, <1>4, <3>3
  <2>3. ASSUME mi \in UsersOf(S) PROVE \E j \in DOMAIN Model(mi).params : Model(mi).params[j].x \in S
    <3>1. PICK x \in S : \E i \in DOMAIN G.fwds[x] : mi = G.fwds[x][i][1]
      BY <1>2, <2>3
    <3>2. PICK i \in DOMAIN G.fwds[x] : mi = G.fwds[x][i][1]
      BY <3>1
    <3>3. PICK j : j = G.fwds[x][i][2]
      OBVIOUS
    <3>4. i \in 1 .. Len(G.fwds[x])
      BY <1>4, <3>2
    <3>5. j \in DOMAIN Model(mi).params /\ Model(mi).params[j].x = x
      BY <1>4, <3>2, <3>3, <3>4
    <3>6. QED
      BY <3>5
  <2>4. QED
    BY <2>1, <2>2, <2>3
<1>9. QED
  BY <1>5, <1>6, <1>7, <1>8

(* Before the first bounds: the nodes in S are skipped.                    *)
Fresh(p, S) ==
    /\ p \in PStates /\ p.heap = <<>>
    /\ \A n \in Nodes :
          /\ \A c \in Colors : c \notin p.flags[n] /\ p.bound[n][c] = 0
          /\ "SKIP" \in p.flags[n] <=> n \in S
          /\ "GIVEN" \in p.flags[n] <=> n \in G.given
          /\ "SELECT" \in p.flags[n] <=> n \in G.select

LEMMA FreshFlag ==
    ASSUME G \in Graphs, NEW p, NEW S, Fresh(p, S), NEW T
    PROVE  Fresh(Flag(p, T, "SKIP"), S \cup T)
<1>1. p \in PStates
  BY DEF Fresh
<1>2. PICK f \in Names : f = "SKIP"
  BY DEF Names
<1>3. PICK q : q = Flag(p, T, f)
  OBVIOUS
<1>4. /\ q \in PStates /\ q.bound = p.bound /\ q.heap = p.heap
      /\ \A n \in Nodes : q.flags[n] = IF n \in T THEN p.flags[n] \cup {f} ELSE p.flags[n]
  <2>1. /\ Flag(p, T, f) \in PStates /\ Flag(p, T, f).bound = p.bound /\ Flag(p, T, f).heap = p.heap
        /\ \A n \in Nodes : Flag(p, T, f).flags[n] = IF n \in T THEN p.flags[n] \cup {f} ELSE p.flags[n]
    BY <1>1, FlagIs
  <2>2. QED
    BY <1>3, <2>1, Zenon
<1>5. \A n \in Nodes : /\ \A g : g # "SKIP" => (g \in q.flags[n] <=> g \in p.flags[n])
                       /\ "SKIP" \in q.flags[n] <=> n \in T \/ "SKIP" \in p.flags[n]
  <2>1. \A n \in Nodes : \A g : g \in q.flags[n] <=> g \in p.flags[n] \/ (n \in T /\ g = f)
    BY <1>4
  <2>2. QED
    BY <1>2, <2>1
<1>6. \A c \in Colors : c # "SKIP"
  BY DEF Colors
<1>7. Fresh(q, S \cup T)
  BY <1>4, <1>5, <1>6 DEF Fresh
<1>8. QED
  BY <1>2, <1>3, <1>7

LEMMA FreshMarked ==
    ASSUME G \in Graphs, NEW p, NEW S, Fresh(p, S),
           S = ((G.skip \cup ModelsOf(G.given)) \cup (ModelsOf(G.skip) \cup UsersOf(G.skip)))
    PROVE  Marked(p)
<1>1. G.given \subseteq Vars /\ G.skip \subseteq Vars
  BY GraphIs
<1>2. ASSUME NEW n \in Models
      PROVE  n \in S <=> n \notin Usable(G)
  <2>1. n \notin G.skip
    BY <1>1, GraphIs
  <2>2. /\ n \in ModelsOf(G.given) <=> \E e \in Range(Model(n).returns) : e.x \in G.given
        /\ n \in ModelsOf(G.skip) <=> \E e \in Range(Model(n).returns) : e.x \in G.skip
        /\ n \in UsersOf(G.skip) <=> \E e \in Range(Model(n).params) : e.x \in G.skip
    BY <1>1, EdgeSets
  <2>3. n \in Usable(G) <=>
              /\ \A e \in Range(Model(n).returns) : e.x \notin G.given \cup G.skip
              /\ \A e \in Range(Model(n).params) : e.x \notin G.skip
    BY UsableIs
  <2>4. QED
    BY <2>1, <2>2, <2>3
<1>3. ASSUME NEW n \in Vars PROVE n \in S <=> n \in G.skip
  <2>1. n \notin Models
    BY GraphIs
  <2>2. ModelsOf(G.given) \subseteq Models /\ ModelsOf(G.skip) \subseteq Models /\ UsersOf(G.skip) \subseteq Models
    BY <1>1, EdgeSets
  <2>3. QED
    BY <2>1, <2>2
<1>4. ASSUME NEW n \in Nodes PROVE n \in S <=> n \in G.skip \/ (n \in Models /\ n \notin Usable(G))
  <2>1. n \in Vars \/ n \in Models
    BY GraphIs
  <2>2. n \in Vars => n \notin Models
    BY GraphIs
  <2>3. n \in G.skip => n \in Vars
    BY <1>1
  <2>4. QED
    BY <1>2, <1>3, <2>1, <2>2, <2>3
<1>5. QED
  BY <1>4 DEF Fresh, Marked

(* The parameters that a model waits for are counted.                      *)
CountedAll(p) ==
    \A mi \in Models : \A c \in Colors : p.miss[mi][c] = Cardinality(Due(mi, c, {}))

LEMMA InitMstateIs ==
    ASSUME G \in Graphs, NEW p, NEW S, Fresh(p, S), NEW q,
           q = [p EXCEPT !.miss = [mi \in Models |-> [c \in Colors |->
                   Cardinality({j \in DOMAIN Model(mi).params : Waits(mi, j, c)})]]]
    PROVE  Fresh(q, S) /\ CountedAll(q)
<1>1. PICK m : m = [mi \in Models |-> [c \in Colors |->
                       Cardinality({j \in DOMAIN Model(mi).params : Waits(mi, j, c)})]]
  OBVIOUS
<1>2. ASSUME NEW mi \in Models, NEW c \in Colors
      PROVE  m[mi][c] = Cardinality(Due(mi, c, {})) /\ m[mi][c] \in Int
  <2>1. m[mi][c] = Cardinality({j \in DOMAIN Model(mi).params : Waits(mi, j, c)})
    BY <1>1
  <2>2. Due(mi, c, {}) = {j \in DOMAIN Model(mi).params : Waits(mi, j, c)}
    BY DEF Due
  <2>3. Cardinality(Due(mi, c, {})) \in Nat
    BY DueIs
  <2>4. QED
    BY <2>1, <2>2, <2>3
<1>3. m \in [Models -> [Colors -> Int]]
  <2>1. \A mi \in Models : m[mi] = [c \in Colors |-> m[mi][c]]
    BY <1>1
  <2>2. \A mi \in Models : m[mi] \in [Colors -> Int]
    BY <1>2, <2>1
  <2>3. m = [mi \in Models |-> m[mi]]
    BY <1>1
  <2>4. QED
    BY <2>2, <2>3
<1>4. p \in PStates
  BY DEF Fresh
<1>5. q = [p EXCEPT !.miss = m]
  BY <1>1
<1>6. q \in PStates /\ q.miss = m /\ q.flags = p.flags /\ q.bound = p.bound /\ q.heap = p.heap
  BY <1>3, <1>4, <1>5 DEF PStates
<1>7. QED
  BY <1>2, <1>6 DEF Fresh, CountedAll

LEMMA InsertGivenIs ==
    ASSUME G \in Graphs, NEW p, NEW S, Fresh(p, S), Marked(p), CountedAll(p),
           NEW q, q = GivenIn(p, G.given)
    PROVE  /\ q \in PStates /\ Marked(q)
           /\ \A c \in Colors : Looked(q, q, c, 0)
<1>1. p \in PStates /\ p.heap = <<>>
  BY DEF Fresh
<1>2. G.given \subseteq Vars
  BY GraphIs
<1>3. SameBut(p, q) /\ Range(q.heap) = {HeapNode(0, c, x) : c \in Colors, x \in G.given}
  <2>1. /\ SameBut(p, GivenIn(p, G.given))
        /\ Range(GivenIn(p, G.given).heap) = {HeapNode(0, c, x) : c \in Colors, x \in G.given}
    BY <1>1, <1>2, GivenInIs, SMTT(30)
  <2>2. QED
    BY <2>1
<1>4. q \in PStates /\ q.flags = p.flags /\ q.bound = p.bound /\ q.miss = p.miss
  BY <1>3 DEF SameBut
<1>5. Marked(q)
  BY <1>4 DEF Marked
<1>6. ASSUME NEW c \in Colors PROVE Looked(q, q, c, 0)
  <2>1. PICK v : v = View(q, c)
    OBVIOUS
  <2>2. Typed(v)
    BY <1>4, <2>1, ViewIs DEF Typed
  <2>3. v.col = {}
    <3>1. \A n \in Nodes : n \notin v.col
      BY <1>4, <2>1, ViewIs DEF Fresh
    <3>2. v.col \subseteq Nodes
      BY <1>4, <2>1, ViewIs
    <3>3. QED
      BY <3>1, <3>2
  <2>4. \A mi \in Models : v.b[mi] = 0 /\ v.miss[mi] = Cardinality(Due(mi, c, {}))
    <3>1. \A mi \in Models : mi \in Nodes
      BY GraphIs
    <3>2. \A n \in Nodes : v.b[n] = q.bound[n][c]
      BY <1>4, <2>1, ViewIs
    <3>3. \A n \in Models : v.miss[n] = q.miss[n][c]
      BY <1>4, <2>1, ViewIs
    <3>4. \A n \in Nodes : q.bound[n][c] = 0
      BY <1>4 DEF Fresh
    <3>5. \A n \in Models : q.miss[n][c] = Cardinality(Due(n, c, {}))
      BY <1>4 DEF CountedAll
    <3>6. QED
      BY <3>1, <3>2, <3>3, <3>4, <3>5
  <2>5. ASSUME NEW e PROVE e \in v.ent <=> \E x \in G.given : e = <<0, x>>
    <3>1. e \in v.ent <=> \E h \in Range(q.heap) : h.color = c /\ e = <<h.cost, h.xi>>
      BY <1>4, <2>1, ViewIs
    <3>2. \A h : h \in Range(q.heap) <=> \E d \in Colors : \E x \in G.given : h = HeapNode(0, d, x)
      BY <1>3
    <3>3. \A d, x : HeapNode(0, d, x).color = d /\ HeapNode(0, d, x).cost = 0 /\ HeapNode(0, d, x).xi = x
      BY DEF HeapNode
    <3>4. QED
      BY <3>1, <3>2, <3>3
  <2>6. Correct(v, c, {}, {})
    BY <2>2, <2>3, <2>4, <2>5, CorrectStart
  <2>7. {mi \in Models : mi >= -0} = {}
    <3>1. \A mi \in Models : mi \in Int /\ mi <= -1
      BY GraphIs DEF Models, ModelsIn
    <3>2. QED
      BY <3>1
  <2>8. QED
    BY <2>1, <2>3, <2>6, <2>7 DEF Looked
<1>7. QED
  BY <1>4, <1>5, <1>6

-----------------------------------------------------------------------------
(* prune_mark_unreachable.                                                 *)

(* What is skipped and not given cannot be computed.                       *)
LEMMA SkippedCost ==
    ASSUME G \in Graphs, NEW x \in Vars, x \in G.skip, x \notin G.given, NEW c \in Colors
    PROVE  LeastOf(c)[x] = Inf
<1>1. G.nv \in Nat /\ Inf \in Nat
  BY GraphIs
<1>2. \E f : ChainCosts(f, Scenario(c))
  BY ChainExists
<1>3. PICK f : ChainCosts(f, Scenario(c))
  BY <1>2
<1>4. /\ f \in [0 .. G.nv -> Costs] /\ f[0][x] = Inf
      /\ \A i \in 1 .. G.nv : f[i] = Relax(G, Usable(G), Scenario(c), f[i - 1])
      /\ LeastOf(c) = f[G.nv]
  BY <1>3 DEF ChainCosts, LeastOf
<1>5. ASSUME NEW mi \in Usable(G) PROVE ~Returns(G, mi, x, Scenario(c))
  <2>1. mi \in Models /\ \A e \in Range(Model(mi).returns) : e.x \notin G.given \cup G.skip
    BY UsableIs
  <2>2. \A j \in DOMAIN Model(mi).returns : Model(mi).returns[j].x # x
    BY <2>1 DEF Range
  <2>3. Returns(G, mi, x, Scenario(c)) <=>
           \E j \in DOMAIN Model(mi).returns : Yields(mi, j, c) /\ Model(mi).returns[j].x = x
    BY <2>1, ScenarioIs
  <2>4. QED
    BY <2>2, <2>3
<1> DEFINE A == {i \in 0 .. G.nv : f[i][x] = Inf}
<1>6. 0 \in A
  BY <1>1, <1>4
<1>7. ASSUME NEW i \in 1 .. G.nv, i - 1 \in A PROVE i \in A
  <2>1. PICK cost \in Costs : cost = f[i - 1]
    BY <1>1, <1>4
  <2>2. PICK r : r = Relax(G, Usable(G), Scenario(c), cost)
    OBVIOUS
  <2>3. r[x] = cost[x] \/ \E mi \in Usable(G) : Returns(G, mi, x, Scenario(c))
                                                /\ r[x] = ModelCost(G, mi, Scenario(c), cost)
    BY <2>2, RelaxIs
  <2>4. f[i] = r
    BY <1>4, <2>1, <2>2
  <2>5. i \in 0 .. G.nv
    BY <1>1
  <2>6. QED
    BY <1>5, <1>7, <2>1, <2>3, <2>4, <2>5
<1> HIDE DEF A
<1>8. \A i \in 0 .. G.nv : i \in A
  BY <1>1, <1>6, <1>7, UpTo
<1>9. QED
  BY <1>1, <1>4, <1>8 DEF A

Exact(p) ==
    \A c \in Colors :
        /\ \A x \in Vars : p.bound[x][c] = LeastOf(c)[x]
        /\ \A mi \in Usable(G) : p.bound[mi][c] = ModelCost(G, mi, Scenario(c), LeastOf(c))

(* What prune_mark_selects starts from.                                    *)
Selectable(p) ==
    /\ \A n \in Nodes : /\ "SKIP" \in p.flags[n] <=> p.bound[n]["GRAY"] = Inf
                        /\ "SELECT" \in p.flags[n] <=> n \in G.select
    /\ \A mi \in Models : mi \notin Usable(G) => \A c \in Colors : p.bound[mi][c] = Inf
    /\ \A mi \in Models : \A x \in Vars :
          p.bound[mi]["GRAY"] < Inf /\ Returns(G, mi, x, Scenario("GRAY")) => p.bound[x]["GRAY"] < Inf

Cleared(p, q) ==
    q = [p EXCEPT !.bound = [n \in Nodes |-> [c \in Colors |->
             IF c \in p.flags[n] THEN p.bound[n][c] ELSE Inf]]]

LEMMA UnreachableIs ==
    ASSUME G \in Graphs, NEW p, Propagating(p), p.heap = <<>>, NEW q, Cleared(p, q)
    PROVE  /\ q \in PStates /\ q.flags = p.flags
           /\ Exact(q)
           /\ \A mi \in Models : mi \notin Usable(G) => \A c \in Colors : q.bound[mi][c] = Inf
           /\ \A mi \in Models : \A x \in Vars :
                 q.bound[mi]["GRAY"] < Inf /\ Returns(G, mi, x, Scenario("GRAY")) => q.bound[x]["GRAY"] < Inf
<1>1. p \in PStates /\ Inf \in Nat
  BY GraphIs DEF Propagating
<1>2. PICK b : b = [n \in Nodes |-> [c \in Colors |-> IF c \in p.flags[n] THEN p.bound[n][c] ELSE Inf]]
  OBVIOUS
<1>3. /\ b \in [Nodes -> [Colors -> Nat]]
      /\ \A n \in Nodes : \A c \in Colors : b[n][c] = IF c \in p.flags[n] THEN p.bound[n][c] ELSE Inf
  <2>1. \A n \in Nodes : \A c \in Colors : p.bound[n][c] \in Nat
    BY <1>1, PStateIs
  <2>2. QED
    BY <1>1, <1>2, <2>1
<1>4. q = [p EXCEPT !.bound = b]
  BY <1>2 DEF Cleared
<1>5. q \in PStates /\ q.bound = b /\ q.flags = p.flags
  BY <1>1, <1>3, <1>4 DEF PStates
<1>6. \A n \in Nodes : \A c \in Colors : q.bound[n][c] = IF c \in p.flags[n] THEN p.bound[n][c] ELSE Inf
  BY <1>3, <1>5
<1>7. ASSUME NEW c \in Colors
      PROVE  /\ \A x \in Vars : q.bound[x][c] = LeastOf(c)[x]
             /\ \A mi \in Usable(G) : q.bound[mi][c] = ModelCost(G, mi, Scenario(c), LeastOf(c))
             /\ \A mi \in Models : mi \notin Usable(G) => c \notin p.flags[mi]
             /\ \A mi \in Models : \A x \in Vars :
                   c \in p.flags[mi] /\ Returns(G, mi, x, Scenario(c)) => q.bound[x][c] <= q.bound[mi][c]
  <2>1. PICK v : v = View(p, c)
    OBVIOUS
  <2>2. Correct(v, c, Done(v), Models)
    BY <2>1 DEF Propagating
  <2>3. v.ent = {}
    <3>1. Range(p.heap) = {}
      BY DEF Range
    <3>2. \A e : e \notin v.ent
      BY <1>1, <2>1, <3>1, ViewIs
    <3>3. QED
      BY <3>2
  <2>4. /\ \A x \in Vars : x \notin v.col => LeastOf(c)[x] = Inf
        /\ \A mi \in Usable(G) : mi \notin v.col => ModelCost(G, mi, Scenario(c), LeastOf(c)) = Inf
        /\ \A mi \in Models : \A x \in Vars :
              mi \in v.col /\ Returns(G, mi, x, Scenario(c)) => x \in v.col /\ v.b[x] <= v.b[mi]
    BY <2>2, <2>3, CorrectEnd
  <2>5. \A x \in Vars : x \in Nodes
    BY GraphIs
  <2>6. \A mi \in Models : mi \in Nodes
    BY GraphIs
  <2>7. \A n \in Nodes : (n \in v.col <=> c \in p.flags[n]) /\ v.b[n] = p.bound[n][c]
    BY <1>1, <2>1, ViewIs
  <2>8. \A x \in Vars : x \in v.col => v.b[x] = LeastOf(c)[x]
    BY <2>2 DEF Correct, Known
  <2>9. \A mi \in Models : mi \in v.col => v.b[mi] = ModelCost(G, mi, Scenario(c), LeastOf(c))
    BY <2>2 DEF Correct, Priced
  <2>10. \A mi \in Models : mi \in v.col => mi \in Usable(G)
    BY <2>2 DEF Correct, Counting
  <2>11. \A mi \in Usable(G) : mi \in Models
    BY UsableIs
  <2>12. ASSUME NEW x \in Vars
         PROVE  q.bound[x][c] = LeastOf(c)[x]
    BY <1>1, <1>6, <2>4, <2>5, <2>7, <2>8
  <2>13. ASSUME NEW mi \in Usable(G)
         PROVE  q.bound[mi][c] = ModelCost(G, mi, Scenario(c), LeastOf(c))
    BY <1>6, <2>4, <2>6, <2>7, <2>9, <2>11
  <2>14. \A mi \in Models : mi \notin Usable(G) => c \notin p.flags[mi]
    BY <2>6, <2>7, <2>10
  <2>15. \A mi \in Models : \A x \in Vars :
            c \in p.flags[mi] /\ Returns(G, mi, x, Scenario(c)) => q.bound[x][c] <= q.bound[mi][c]
    BY <1>6, <2>4, <2>5, <2>6, <2>7
  <2>16. QED
    BY <2>12, <2>13, <2>14, <2>15
<1>8. \A n \in Models : n \in Nodes
  BY GraphIs
<1>9. Exact(q)
  BY <1>7 DEF Exact
<1>10. \A mi \in Models : mi \notin Usable(G) => \A c \in Colors : q.bound[mi][c] = Inf
  BY <1>6, <1>7, <1>8
<1>11. ASSUME NEW mi \in Models, NEW x \in Vars,
              q.bound[mi]["GRAY"] < Inf, Returns(G, mi, x, Scenario("GRAY"))
       PROVE  q.bound[x]["GRAY"] < Inf
  <2>1. PICK c \in Colors : c = "GRAY"
    BY DEF Colors
  <2>2. c \in p.flags[mi]
    BY <1>1, <1>6, <1>8, <1>11, <2>1
  <2>3. q.bound[x][c] <= q.bound[mi][c]
    BY <1>7, <1>11, <2>1, <2>2
  <2>4. q.bound[x][c] \in Nat /\ q.bound[mi][c] \in Nat
    BY <1>5, <1>8, GraphIs, PStateIs
  <2>5. QED
    BY <1>1, <1>11, <2>1, <2>3, <2>4
<1>12. QED
  BY <1>5, <1>9, <1>10, <1>11

Skipping(q, r) ==
    /\ r \in PStates /\ r.bound = q.bound
    /\ \A n \in Nodes : \A g :
          g \in r.flags[n] <=> g \in q.flags[n] \/ (g = "SKIP" /\ q.bound[n]["GRAY"] = Inf)

LEMMA SkippingIs ==
    ASSUME NEW q \in PStates
    PROVE  Skipping(q, Flag(q, {n \in Nodes : q.bound[n]["GRAY"] = Inf}, "SKIP"))
<1>1. PICK f \in Names : f = "SKIP"
  BY DEF Names
<1>2. PICK T : T = {n \in Nodes : q.bound[n]["GRAY"] = Inf}
  OBVIOUS
<1>3. \A n \in Nodes : n \in T <=> q.bound[n]["GRAY"] = Inf
  BY <1>2
<1>4. PICK r : r = Flag(q, T, f)
  OBVIOUS
<1>5. /\ r \in PStates /\ r.bound = q.bound
      /\ \A n \in Nodes : r.flags[n] = IF n \in T THEN q.flags[n] \cup {f} ELSE q.flags[n]
  BY <1>4, FlagIs
<1>6. \A n \in Nodes : \A g : g \in r.flags[n] <=> g \in q.flags[n] \/ (g = f /\ n \in T)
  BY <1>5
<1>7. Skipping(q, r)
  BY <1>1, <1>3, <1>5, <1>6 DEF Skipping
<1>8. QED
  BY <1>1, <1>2, <1>4, <1>7

LEMMA MarkUnreachableIs ==
    ASSUME G \in Graphs, NEW p, Propagating(p), p.heap = <<>>, G.given \cap G.skip = {},
           NEW q, Cleared(p, q), NEW r, Skipping(q, r)
    PROVE  r \in PStates /\ Exact(r) /\ Selectable(r)
<1>1. /\ q \in PStates /\ q.flags = p.flags
      /\ Exact(q)
      /\ \A mi \in Models : mi \notin Usable(G) => \A c \in Colors : q.bound[mi][c] = Inf
      /\ \A mi \in Models : \A x \in Vars :
            q.bound[mi]["GRAY"] < Inf /\ Returns(G, mi, x, Scenario("GRAY")) => q.bound[x]["GRAY"] < Inf
  BY UnreachableIs
<1>2. r \in PStates /\ r.bound = q.bound
  BY DEF Skipping
<1>3. \A n \in Nodes : \A g :
         g \in r.flags[n] <=> g \in p.flags[n] \/ (g = "SKIP" /\ r.bound[n]["GRAY"] = Inf)
  BY <1>1 DEF Skipping
<1>5. Exact(r)
  BY <1>1, <1>2 DEF Exact
<1>6. Marked(p)
  BY DEF Propagating
<1>7. ASSUME NEW n \in Nodes
      PROVE  /\ "SKIP" \in r.flags[n] <=> r.bound[n]["GRAY"] = Inf
             /\ "SELECT" \in r.flags[n] <=> n \in G.select
  <2>1. "SELECT" \in r.flags[n] <=> n \in G.select
    BY <1>3, <1>6 DEF Marked
  <2>2. "GRAY" \in Colors
    BY DEF Colors
  <2>3. ASSUME "SKIP" \in p.flags[n] PROVE r.bound[n]["GRAY"] = Inf
    <3>1. n \in G.skip \/ (n \in Models /\ n \notin Usable(G))
      BY <1>6, <2>3 DEF Marked
    <3>2. CASE n \in G.skip
      <4>1. n \in Vars /\ n \notin G.given
        BY <3>2, GraphIs
      <4>2. LeastOf("GRAY")[n] = Inf
        BY <2>2, <3>2, <4>1, SkippedCost
      <4>3. QED
        BY <1>5, <2>2, <4>1, <4>2 DEF Exact
    <3>3. CASE n \in Models /\ n \notin Usable(G)
      BY <1>1, <1>2, <2>2, <3>3
    <3>4. QED
      BY <3>1, <3>2, <3>3
  <2>4. "SKIP" \in r.flags[n] <=> r.bound[n]["GRAY"] = Inf
    BY <1>3, <2>3
  <2>5. QED
    BY <2>1, <2>4
<1>8. Selectable(r)
  <2>1. \A mi \in Models : mi \notin Usable(G) => \A c \in Colors : r.bound[mi][c] = Inf
    BY <1>1, <1>2
  <2>2. \A mi \in Models : \A x \in Vars :
            r.bound[mi]["GRAY"] < Inf /\ Returns(G, mi, x, Scenario("GRAY")) => r.bound[x]["GRAY"] < Inf
    BY <1>1, <1>2
  <2>3. QED
    BY <1>7, <2>1, <2>2 DEF Selectable
<1>9. QED
  BY <1>2, <1>5, <1>8

-----------------------------------------------------------------------------
(* The graph does not change.                                              *)

LEMMA SameNodes ==
    ASSUME G' = G
    PROVE  /\ Vars' = Vars /\ Models' = Models /\ Nodes' = Nodes
           /\ Usable(G)' = Usable(G)
           /\ \A mi : Model(mi)' = Model(mi)
           /\ \A c : Scenario(c)' = Scenario(c)
<1>1. Vars' = Vars /\ Models' = Models /\ Nodes' = Nodes /\ \A mi : Model(mi)' = Model(mi)
  BY DEF Vars, Models, Nodes, Model
<1>2. Usable(G)' = Usable(G)
  OBVIOUS
<1>3. \A c : Scenario(c)' = Scenario(c)
  BY DEF Scenario
<1>4. QED
  BY <1>1, <1>2, <1>3

LEMMA SameCosts ==
    ASSUME G' = G
    PROVE  /\ Costs' = Costs
           /\ \A c : LeastOf(c)' = LeastOf(c)
           /\ \A mi, on, cost : ModelCost(G, mi, on, cost)' = ModelCost(G, mi, on, cost)
           /\ \A mi, x, on : Returns(G, mi, x, on)' <=> Returns(G, mi, x, on)
           /\ \A f, on : ChainCosts(f, on)' <=> ChainCosts(f, on)
<1>1. Costs' = Costs
  BY SameNodes DEF Costs
<1>2. \A c : LeastOf(c)' = LeastOf(c)
  BY SameNodes DEF LeastOf, Least
<1>3. /\ \A mi, on, cost : ModelCost(G, mi, on, cost)' = ModelCost(G, mi, on, cost)
      /\ \A mi, x, on : Returns(G, mi, x, on)' <=> Returns(G, mi, x, on)
  OBVIOUS
<1>4. \A f, on : ChainCosts(f, on)' <=> ChainCosts(f, on)
  BY SameNodes, <1>1 DEF ChainCosts, Least
<1>5. QED
  BY <1>1, <1>2, <1>3, <1>4

LEMMA SameStates ==
    ASSUME G' = G
    PROVE  /\ PStates' = PStates
           /\ \A mi, j, c : Waits(mi, j, c)' <=> Waits(mi, j, c)
           /\ \A mi, c, D : Due(mi, c, D)' = Due(mi, c, D)
           /\ \A mi, c, D : Arrived(mi, c, D)' = Arrived(mi, c, D)
           /\ \A v : Done(v)' = Done(v)
           /\ \A p, c : View(p, c)' = View(p, c)
<1>1. PStates' = PStates
  BY SameNodes DEF PStates
<1>2. \A mi, j, c : Waits(mi, j, c)' <=> Waits(mi, j, c)
  BY SameNodes DEF Waits
<1>3. \A mi, c, D : Due(mi, c, D)' = Due(mi, c, D)
  BY SameNodes, <1>2 DEF Due
<1>4. \A mi, c, D : Arrived(mi, c, D)' = Arrived(mi, c, D)
  <2> SUFFICES ASSUME NEW mi, NEW c, NEW D PROVE Arrived(mi, c, D)' = Arrived(mi, c, D)
    OBVIOUS
  <2>1. [j \in DOMAIN Model(mi)'.params |->
              IF Waits(mi, j, c)' /\ <<mi, j>> \in D THEN LeastOf(c)'[Model(mi)'.params[j].x] ELSE 0]
        = [j \in DOMAIN Model(mi).params |->
              IF Waits(mi, j, c) /\ <<mi, j>> \in D THEN LeastOf(c)[Model(mi).params[j].x] ELSE 0]
    BY SameNodes, SameCosts, <1>2
  <2>2. QED
    BY <2>1 DEF Arrived
<1>5. \A v : Done(v)' = Done(v)
  BY SameNodes DEF Done
<1>6. \A p, c : View(p, c)' = View(p, c)
  BY SameNodes DEF View
<1>7. QED
  BY <1>1, <1>2, <1>3, <1>4, <1>5, <1>6

LEMMA SameCorrect ==
    ASSUME G' = G, NEW v, NEW c, NEW D, NEW M, Correct(v, c, D, M)
    PROVE  Correct(v, c, D, M)'
<1>1. Typed(v)' <=> Typed(v)
  BY SameNodes DEF Typed
<1>2. Known(v, c)' <=> Known(v, c)
  BY SameNodes, SameCosts DEF Known
<1>3. Priced(v, c)' <=> Priced(v, c)
  BY SameNodes, SameCosts DEF Priced
<1>4. Counting(v, c, D, M)' <=> Counting(v, c, D, M)
  BY SameNodes, SameStates DEF Counting
<1>5. Reached(v, D)' <=> Reached(v, D)
  BY SameNodes DEF Reached
<1>6. Sound(v, c)' <=> Sound(v, c)
  BY SameNodes, SameCosts DEF Sound
<1>7. Complete(v, c)' <=> Complete(v, c)
  BY SameNodes, SameCosts DEF Complete
<1>8. InOrder(v)' <=> InOrder(v)
  BY SameNodes DEF InOrder
<1>9. Deep(v, c)' <=> Deep(v, c)
  BY SameNodes, SameCosts DEF Deep
<1>10. QED
  BY <1>1, <1>2, <1>3, <1>4, <1>5, <1>6, <1>7, <1>8, <1>9 DEF Correct

LEMMA SamePredicates ==
    ASSUME G' = G, NEW p
    PROVE  /\ \A S : Fresh(p, S) => Fresh(p, S)'
           /\ CountedAll(p) => CountedAll(p)'
           /\ Marked(p) => Marked(p)'
           /\ \A c : Looked(p, p, c, 0) => Looked(p, p, c, 0)'
           /\ Propagating(p) => Propagating(p)'
           /\ Exact(p) => Exact(p)'
           /\ Selectable(p) => Selectable(p)'
<1>1. \A S : Fresh(p, S) => Fresh(p, S)'
  BY SameNodes, SameStates DEF Fresh
<1>2. CountedAll(p) => CountedAll(p)'
  BY SameNodes, SameStates DEF CountedAll
<1>3. Marked(p) => Marked(p)'
  BY SameNodes DEF Marked
<1>4. \A c : Looked(p, p, c, 0) => Looked(p, p, c, 0)'
  <2> SUFFICES ASSUME NEW c, Looked(p, p, c, 0) PROVE Looked(p, p, c, 0)'
    OBVIOUS
  <2>1. PICK v : v = View(p, c)
    OBVIOUS
  <2>2. PICK M : M = {mi \in Models : mi >= -0}
    OBVIOUS
  <2>3. Correct(v, c, {}, M)
    BY <2>1, <2>2 DEF Looked
  <2>4. Correct(v, c, {}, M)'
    BY <2>3, SameCorrect
  <2>5. View(p, c)' = v /\ Models' = Models
    BY <2>1, SameNodes, SameStates
  <2>6. (\A x \in Vars' : x \notin v.col) /\ v.miss = v.miss
    BY <2>1, SameNodes DEF Looked
  <2>7. QED
    BY <2>2, <2>4, <2>5, <2>6 DEF Looked
<1>5. Propagating(p) => Propagating(p)'
  <2> SUFFICES ASSUME Propagating(p) PROVE Propagating(p)'
    OBVIOUS
  <2>1. p \in PStates' /\ Marked(p)'
    BY <1>3, SameStates DEF Propagating
  <2>2. ASSUME NEW c \in Colors PROVE Correct(View(p, c), c, Done(View(p, c)), Models)'
    <3>1. PICK v : v = View(p, c)
      OBVIOUS
    <3>2. PICK D : D = Done(v)
      OBVIOUS
    <3>3. PICK M : M = Models
      OBVIOUS
    <3>4. Correct(v, c, D, M)
      BY <3>1, <3>2, <3>3 DEF Propagating
    <3>5. Correct(v, c, D, M)'
      BY <3>4, SameCorrect
    <3>6. View(p, c)' = v /\ Done(v)' = D /\ Models' = M
      BY <3>1, <3>2, <3>3, SameNodes, SameStates
    <3>7. QED
      BY <3>5, <3>6
  <2>3. QED
    BY <2>1, <2>2 DEF Propagating
<1>6. Exact(p) => Exact(p)'
  BY SameNodes, SameCosts DEF Exact
<1>7. Selectable(p) => Selectable(p)'
  BY SameNodes, SameCosts DEF Selectable
<1>8. QED
  BY <1>1, <1>2, <1>3, <1>4, <1>5, <1>6, <1>7

-----------------------------------------------------------------------------
(* The inductive invariant: what each phase of fhk_prune_run starts from.  *)

AllSkips == (G.skip \cup ModelsOf(G.given)) \cup (ModelsOf(G.skip) \cup UsersOf(G.skip))
Late == {"insert_constmods", "propagate", "mark_unreachable", "mark_selects"}

IInv ==
    /\ G \in Graphs /\ P \in PStates
    /\ phase # "done" => status = "OK"
    /\ phase = "mark_given" => Fresh(P, G.skip)
    /\ phase = "mark_skips" => Fresh(P, G.skip \cup ModelsOf(G.given))
    /\ phase = "init_mstate" => Fresh(P, AllSkips)
    /\ phase = "insert_given" => Fresh(P, AllSkips) /\ CountedAll(P)
    /\ phase \in Late => G.given \cap G.skip = {}
    /\ phase = "insert_constmods" => Marked(P) /\ \A c \in Colors : Looked(P, P, c, 0)
    /\ phase \in {"propagate", "mark_unreachable"} => Propagating(P)
    /\ phase = "mark_unreachable" => P.heap = <<>>
    /\ phase = "mark_selects" => Selectable(P)
    /\ Bounded => Exact(P)

LEMMA SameSets ==
    ASSUME G' = G
    PROVE  /\ \A S : ModelsOf(S)' = ModelsOf(S) /\ UsersOf(S)' = UsersOf(S)
           /\ AllSkips' = AllSkips
<1>1. \A S : ModelsOf(S)' = ModelsOf(S) /\ UsersOf(S)' = UsersOf(S)
  BY DEF ModelsOf, UsersOf
<1>2. AllSkips' = AllSkips
  BY <1>1 DEF AllSkips
<1>3. QED
  BY <1>1, <1>2

LEMMA InitIs ==
    ASSUME Init
    PROVE  IInv
<1>1. G \in Graphs /\ phase = "mark_given" /\ status = "OK"
  BY DEF Init
<1>2. PICK fl : fl = [n \in Nodes |-> {f \in {"GIVEN", "SKIP", "SELECT"} :
                                           \/ f = "GIVEN" /\ n \in G.given
                                           \/ f = "SKIP" /\ n \in G.skip
                                           \/ f = "SELECT" /\ n \in G.select}]
  OBVIOUS
<1>3. PICK b : b = [n \in Nodes |-> [c \in Colors |-> 0]]
  OBVIOUS
<1>4. PICK m : m = [n \in Models |-> [c \in Colors |-> 0]]
  OBVIOUS
<1>5. P = [flags |-> fl, bound |-> b, miss |-> m, heap |-> <<>>]
  BY <1>2, <1>3, <1>4, Zenon DEF Init
<1>6. fl \in [Nodes -> SUBSET Names]
  BY <1>2 DEF Names
<1>7. b \in [Nodes -> [Colors -> Nat]] /\ \A n \in Nodes : \A c \in Colors : b[n][c] = 0
  BY <1>3
<1>8. m \in [Models -> [Colors -> Int]]
  BY <1>4
<1>9. <<>> \in Heaps
  BY DEF Heaps, Ordered
<1>10. P \in PStates /\ P.flags = fl /\ P.bound = b /\ P.heap = <<>>
  BY <1>5, <1>6, <1>7, <1>8, <1>9 DEF PStates
<1>11. ASSUME NEW n \in Nodes
       PROVE  /\ \A c \in Colors : c \notin fl[n]
              /\ "SKIP" \in fl[n] <=> n \in G.skip
              /\ "GIVEN" \in fl[n] <=> n \in G.given
              /\ "SELECT" \in fl[n] <=> n \in G.select
  <2>1. fl[n] = {f \in {"GIVEN", "SKIP", "SELECT"} :
                     \/ f = "GIVEN" /\ n \in G.given
                     \/ f = "SKIP" /\ n \in G.skip
                     \/ f = "SELECT" /\ n \in G.select}
    BY <1>2
  <2>2. QED
    BY <2>1 DEF Colors
<1>12. Fresh(P, G.skip)
  BY <1>7, <1>10, <1>11 DEF Fresh
<1>13. QED
  BY <1>1, <1>10, <1>12 DEF IInv, Late, Bounded

LEMMA StepMarkGiven ==
    ASSUME IInv, MarkGiven
    PROVE  IInv'
<1>1. phase = "mark_given" /\ phase' = "mark_skips" /\ G' = G /\ status' = status
  BY DEF MarkGiven, Phase
<1>2. G \in Graphs /\ Fresh(P, G.skip) /\ status = "OK"
  BY <1>1 DEF IInv
<1>3. Vars \cap Has("GIVEN") = G.given
  <2>1. \A n : n \in Has("GIVEN") <=> n \in Nodes /\ n \in G.given
    BY <1>2 DEF Has, Fresh
  <2>2. QED
    BY <1>2, <2>1, GraphIs
<1>4. P' = Flag(P, ModelsOf(G.given), "SKIP")
  BY <1>3, Zenon DEF MarkGiven
<1>5. PICK q : q = P'
  OBVIOUS
<1>6. PICK S : S = G.skip \cup ModelsOf(G.given)
  OBVIOUS
<1>7. Fresh(q, S)
  <2>1. Fresh(Flag(P, ModelsOf(G.given), "SKIP"), G.skip \cup ModelsOf(G.given))
    BY <1>2, FreshFlag
  <2>2. QED
    BY <1>4, <1>5, <1>6, <2>1, Zenon
<1>8. Fresh(q, S)' /\ q \in PStates'
  <2>1. q \in PStates
    BY <1>7 DEF Fresh
  <2>2. q \in PStates'
    BY <1>1, <2>1, SameStates
  <2>3. Fresh(q, S)'
    BY <1>1, <1>7, SamePredicates
  <2>4. QED
    BY <2>2, <2>3
<1>9. (G.skip \cup ModelsOf(G.given))' = S
  BY <1>1, <1>6, SameSets
<1>10. QED
  BY <1>1, <1>2, <1>5, <1>8, <1>9 DEF IInv, Late, Bounded

LEMMA StepMarkSkips ==
    ASSUME IInv, MarkSkips
    PROVE  IInv'
<1>1. phase = "mark_skips" /\ phase' = "init_mstate" /\ G' = G /\ status' = status
  BY DEF MarkSkips, Phase
<1>2. G \in Graphs /\ Fresh(P, G.skip \cup ModelsOf(G.given)) /\ status = "OK"
  BY <1>1 DEF IInv
<1>3. Vars \cap Has("SKIP") = G.skip
  <2>1. \A n : n \in Has("SKIP") <=> n \in Nodes /\ n \in G.skip \cup ModelsOf(G.given)
    BY <1>2 DEF Has, Fresh
  <2>2. G.given \subseteq Vars /\ G.skip \subseteq Vars /\ \A n \in Vars : n \notin Models /\ n \in Nodes
    BY <1>2, GraphIs
  <2>3. ModelsOf(G.given) \subseteq Models
    BY <1>2, <2>2, EdgeSets
  <2>4. QED
    BY <2>1, <2>2, <2>3
<1>4. P' = Flag(P, ModelsOf(G.skip) \cup UsersOf(G.skip), "SKIP")
  BY <1>3, Zenon DEF MarkSkips
<1>5. PICK q : q = P'
  OBVIOUS
<1>6. PICK S : S = AllSkips
  OBVIOUS
<1>7. Fresh(q, S)
  <2>1. Fresh(Flag(P, ModelsOf(G.skip) \cup UsersOf(G.skip), "SKIP"),
              (G.skip \cup ModelsOf(G.given)) \cup (ModelsOf(G.skip) \cup UsersOf(G.skip)))
    BY <1>2, FreshFlag
  <2>2. QED
    BY <1>4, <1>5, <1>6, <2>1, Zenon DEF AllSkips
<1>8. Fresh(q, S)' /\ q \in PStates'
  <2>1. q \in PStates
    BY <1>7 DEF Fresh
  <2>2. q \in PStates'
    BY <1>1, <2>1, SameStates
  <2>3. Fresh(q, S)'
    BY <1>1, <1>7, SamePredicates
  <2>4. QED
    BY <2>2, <2>3
<1>9. AllSkips' = S
  BY <1>1, <1>6, SameSets
<1>10. QED
  BY <1>1, <1>2, <1>5, <1>8, <1>9 DEF IInv, Late, Bounded

LEMMA StepInitMstate ==
    ASSUME IInv, InitMstate
    PROVE  IInv'
<1>1. phase = "init_mstate" /\ phase' = "insert_given" /\ G' = G /\ status' = status
  BY DEF InitMstate, Phase
<1>2. G \in Graphs /\ Fresh(P, AllSkips) /\ status = "OK"
  BY <1>1 DEF IInv
<1>3. P' = [P EXCEPT !.miss = [mi \in Models |-> [c \in Colors |->
                Cardinality({j \in DOMAIN Model(mi).params : Waits(mi, j, c)})]]]
  BY DEF InitMstate
<1>4. PICK q : q = P'
  OBVIOUS
<1>5. PICK S : S = AllSkips
  OBVIOUS
<1>6. Fresh(q, S) /\ CountedAll(q)
  <2>1. Fresh(P, S) /\ q = [P EXCEPT !.miss = [mi \in Models |-> [c \in Colors |->
                Cardinality({j \in DOMAIN Model(mi).params : Waits(mi, j, c)})]]]
    BY <1>2, <1>3, <1>4, <1>5, Zenon
  <2>2. QED
    BY <1>2, <2>1, InitMstateIs
<1>7. Fresh(q, S)' /\ CountedAll(q)' /\ q \in PStates'
  <2>1. q \in PStates
    BY <1>6 DEF Fresh
  <2>2. q \in PStates'
    BY <1>1, <2>1, SameStates
  <2>3. Fresh(q, S)' /\ CountedAll(q)'
    BY <1>1, <1>6, SamePredicates
  <2>4. QED
    BY <2>2, <2>3
<1>8. AllSkips' = S
  BY <1>1, <1>5, SameSets
<1>9. QED
  BY <1>1, <1>2, <1>4, <1>7, <1>8 DEF IInv, Late, Bounded

LEMMA StepInsertGiven ==
    ASSUME IInv, InsertGiven
    PROVE  IInv'
<1>1. phase = "insert_given" /\ G' = G
  BY DEF InsertGiven
<1>2. G \in Graphs /\ Fresh(P, AllSkips) /\ CountedAll(P) /\ status = "OK" /\ P \in PStates
  BY <1>1 DEF IInv
<1>3. Marked(P)
  BY <1>2, FreshMarked DEF AllSkips
<1>4. Vars \cap Has("GIVEN") \cap Has("SKIP") = G.given \cap G.skip
  <2>1. \A n \in Vars : n \in Nodes /\ n \notin Models
    BY <1>2, GraphIs
  <2>2. \A n \in Vars : n \in Has("GIVEN") /\ n \in Has("SKIP") <=> n \in G.given /\ n \in G.skip
    BY <1>3, <2>1 DEF Has, Marked
  <2>3. G.given \subseteq Vars
    BY <1>2, GraphIs
  <2>4. QED
    BY <2>2, <2>3
<1>5. CASE G.given \cap G.skip = {}
  <2>1. phase' = "insert_constmods" /\ status' = status /\ P' = GivenIn(P, Has("GIVEN"))
    BY <1>4, <1>5, Zenon DEF InsertGiven, GivenIn
  <2>2. Has("GIVEN") = G.given
    <3>1. \A n : n \in Has("GIVEN") <=> n \in Nodes /\ n \in G.given
      BY <1>2 DEF Has, Fresh
    <3>2. QED
      BY <1>2, <3>1, GraphIs
  <2>3. PICK q : q = P'
    OBVIOUS
  <2>4. q = GivenIn(P, G.given)
    BY <2>1, <2>2, <2>3
  <2>5. q \in PStates /\ Marked(q) /\ \A c \in Colors : Looked(q, q, c, 0)
    <3>1. PICK S : S = AllSkips
      OBVIOUS
    <3>2. Fresh(P, S)
      BY <1>2, <3>1
    <3>3. QED
      BY <1>2, <1>3, <2>4, <3>2, InsertGivenIs
  <2>6. q \in PStates' /\ Marked(q)' /\ \A c \in Colors : Looked(q, q, c, 0)'
    BY <1>1, <2>5, SamePredicates, SameStates
  <2>7. QED
    BY <1>1, <1>2, <1>5, <2>1, <2>3, <2>6 DEF IInv, Late, Bounded
<1>6. CASE G.given \cap G.skip # {}
  <2>1. phase' = "done" /\ status' = "ECHAIN" /\ P' = P
    BY <1>4, <1>6, Zenon DEF InsertGiven
  <2>2. PICK q : q = P
    OBVIOUS
  <2>3. q \in PStates'
    BY <1>1, <1>2, <2>2, SameStates
  <2>4. QED
    BY <1>1, <1>2, <2>1, <2>2, <2>3 DEF IInv, Late, Bounded
<1>7. QED
  BY <1>5, <1>6

LEMMA StepInsertConstmods ==
    ASSUME IInv, InsertConstmods
    PROVE  IInv'
<1>1. phase = "insert_constmods" /\ phase' = "propagate" /\ G' = G /\ status' = status
  BY DEF InsertConstmods, Phase
<1>2. /\ G \in Graphs /\ P \in PStates /\ status = "OK" /\ G.given \cap G.skip = {}
      /\ Marked(P) /\ \A c \in Colors : Looked(P, P, c, 0)
  BY <1>1 DEF IInv, Late
<1>3. PICK q : q = P'
  OBVIOUS
<1>4. q = ConstIn(P)
  BY <1>3, Zenon DEF InsertConstmods, ConstIn
<1>5. Propagating(q)
  BY <1>2, <1>4, ConstInIs
<1>6. Propagating(q)' /\ q \in PStates'
  BY <1>1, <1>5, SamePredicates DEF Propagating
<1>7. QED
  BY <1>1, <1>2, <1>3, <1>6 DEF IInv, Late, Bounded

LEMMA StepPropagate ==
    ASSUME IInv, Propagate
    PROVE  IInv'
<1>1. phase = "propagate" /\ phase' = phase /\ G' = G /\ status' = status /\ P.heap # <<>>
  BY DEF Propagate
<1>2. G \in Graphs /\ status = "OK" /\ G.given \cap G.skip = {} /\ Propagating(P)
  BY <1>1 DEF IInv, Late
<1>3. PICK q : q = P'
  OBVIOUS
<1>4. PICK p : p = P
  OBVIOUS
<1>5. PICK next : next = p.heap[1]
  OBVIOUS
<1>6. q = BoundVar([p EXCEPT !.heap = HeapRemove(@)], next.xi, next.cost, next.color)
  BY <1>3, <1>4, <1>5, Zenon DEF Propagate
<1>7. Propagating(q)
  BY <1>1, <1>2, <1>4, <1>5, <1>6, PropagateStep
<1>8. Propagating(q)' /\ q \in PStates'
  BY <1>1, <1>7, SamePredicates DEF Propagating
<1>9. QED
  BY <1>1, <1>2, <1>3, <1>8 DEF IInv, Late, Bounded

LEMMA StepPropagateEnd ==
    ASSUME IInv, PropagateEnd
    PROVE  IInv'
<1>1. /\ phase = "propagate" /\ phase' = "mark_unreachable" /\ G' = G /\ status' = status
      /\ P' = P /\ P.heap = <<>>
  BY DEF PropagateEnd, Phase
<1>2. G \in Graphs /\ status = "OK" /\ G.given \cap G.skip = {} /\ Propagating(P)
  BY <1>1 DEF IInv, Late
<1>3. PICK q : q = P
  OBVIOUS
<1>4. Propagating(q)' /\ q \in PStates'
  BY <1>1, <1>2, <1>3, SamePredicates DEF Propagating
<1>5. QED
  BY <1>1, <1>2, <1>3, <1>4 DEF IInv, Late, Bounded

LEMMA StepMarkUnreachable ==
    ASSUME IInv, MarkUnreachable
    PROVE  IInv'
<1>1. phase = "mark_unreachable" /\ phase' = "mark_selects" /\ G' = G /\ status' = status
  BY DEF MarkUnreachable, Phase
<1>2. G \in Graphs /\ status = "OK" /\ G.given \cap G.skip = {} /\ Propagating(P) /\ P.heap = <<>>
  BY <1>1 DEF IInv, Late
<1>3. PICK p : p = P
  OBVIOUS
<1>4. PICK q : q = [p EXCEPT !.bound = [n \in Nodes |-> [c \in Colors |->
                      IF c \in p.flags[n] THEN p.bound[n][c] ELSE Inf]]]
  OBVIOUS
<1>5. PICK r : r = P'
  OBVIOUS
<1>6. r = Flag(q, {n \in Nodes : q.bound[n]["GRAY"] = Inf}, "SKIP")
  BY <1>3, <1>4, <1>5, Zenon DEF MarkUnreachable
<1>7. Cleared(p, q)
  BY <1>4, Zenon DEF Cleared
<1>8. q \in PStates
  BY <1>2, <1>3, <1>7, UnreachableIs
<1>9. Skipping(q, r)
  <2>1. Skipping(q, Flag(q, {n \in Nodes : q.bound[n]["GRAY"] = Inf}, "SKIP"))
    BY <1>8, SkippingIs
  <2>2. QED
    BY <1>6, <2>1, Zenon
<1>10. r \in PStates /\ Exact(r) /\ Selectable(r)
  BY <1>2, <1>3, <1>7, <1>9, MarkUnreachableIs
<1>11. r \in PStates' /\ Exact(r)' /\ Selectable(r)'
  BY <1>1, <1>10, SamePredicates, SameStates
<1>12. QED
  BY <1>1, <1>2, <1>5, <1>11 DEF IInv, Late, Bounded

LEMMA StepMarkSelects ==
    ASSUME IInv, MarkSelects
    PROVE  IInv'
<1>1. phase = "mark_selects" /\ phase' = "done" /\ G' = G
  BY DEF MarkSelects, Phase
<1>2. G \in Graphs /\ P \in PStates /\ Exact(P)
  BY <1>1 DEF IInv, Bounded
<1>3. \E T : P' = Flag(P, T, "SELECT")
  BY DEF MarkSelects
<1>4. PICK T : P' = Flag(P, T, "SELECT")
  BY <1>3
<1>5. PICK q : q = P'
  OBVIOUS
<1>6. "SELECT" \in Names
  BY DEF Names
<1>7. Flag(P, T, "SELECT") \in PStates /\ Flag(P, T, "SELECT").bound = P.bound
  BY <1>2, <1>6, FlagIs
<1>8. q \in PStates /\ q.bound = P.bound
  BY <1>4, <1>5, <1>7, Zenon
<1>9. Exact(q)
  BY <1>2, <1>8 DEF Exact
<1>10. q \in PStates' /\ Exact(q)'
  BY <1>1, <1>8, <1>9, SamePredicates, SameStates
<1>11. QED
  BY <1>1, <1>2, <1>5, <1>10 DEF IInv, Late, Bounded

LEMMA StepIInv ==
    ASSUME IInv, [Next]_vars
    PROVE  IInv'
<1>1. CASE UNCHANGED vars
  <2>1. G' = G /\ P' = P /\ phase' = phase /\ status' = status
    BY <1>1 DEF vars
  <2>2. PICK p : p = P
    OBVIOUS
  <2>3. (p \in PStates => p \in PStates') /\ AllSkips' = AllSkips
        /\ (G.skip \cup ModelsOf(G.given))' = G.skip \cup ModelsOf(G.given)
    BY <2>1, SameStates, SameSets
  <2>4. /\ \A S : Fresh(p, S) => Fresh(p, S)'
        /\ CountedAll(p) => CountedAll(p)'
        /\ Marked(p) => Marked(p)'
        /\ \A c : Looked(p, p, c, 0) => Looked(p, p, c, 0)'
        /\ Propagating(p) => Propagating(p)'
        /\ Exact(p) => Exact(p)'
        /\ Selectable(p) => Selectable(p)'
    BY <2>1, SamePredicates
  <2>5. Bounded' <=> Bounded
    BY <2>1 DEF Bounded
  <2>6. QED
    BY <2>1, <2>2, <2>3, <2>4, <2>5 DEF IInv, Late
<1>2. QED
  BY <1>1, StepMarkGiven, StepMarkSkips, StepInitMstate, StepInsertGiven, StepInsertConstmods,
     StepPropagate, StepPropagateEnd, StepMarkUnreachable, StepMarkSelects DEF Next, Finished

(* The inductive invariant of fhk_prune_run.                               *)
THEOREM PruneInvariant == Spec => []IInv
<1>1. Init => IInv
  BY InitIs
<1>2. IInv /\ [Next]_vars => IInv'
  BY StepIInv
<1>3. QED
  BY <1>1, <1>2, PTL DEF Spec

(* heap_insert and heap_remove keep every node above its children.         *)
THEOREM HeapStaysOrdered == Spec => []HeapOrdered
<1>1. IInv => HeapOrdered
  <2>1. IInv => Ordered(P.heap)
    BY PStateIs DEF IInv
  <2>2. QED
    BY <2>1 DEF HeapOrdered, Ordered
<1>2. QED
  BY <1>1, PruneInvariant, PTL

(* The bounds that prune_propagate ends with are the exact least costs in  *)
(* the best and in the worst case, for every graph.                        *)
THEOREM BoundsAreExact == Spec => []BoundsExact
<1>1. IInv => BoundsExact
  BY DEF IInv, BoundsExact, Exact, LeastOf, Least
<1>2. QED
  BY <1>1, PruneInvariant, PTL

-----------------------------------------------------------------------------
(* prune_select.                                                           *)

(* A low bound is no higher than the high bound.                           *)
LEMMA LowIsLower ==
    ASSUME G \in Graphs
    PROVE  /\ \A x \in Vars : LeastOf("GRAY")[x] <= LeastOf("BLACK")[x]
           /\ \A mi \in Usable(G) : ModelCost(G, mi, Scenario("GRAY"), LeastOf("GRAY"))
                                    <= ModelCost(G, mi, Scenario("BLACK"), LeastOf("BLACK"))
<1>0. "GRAY" \in Colors /\ "BLACK" \in Colors
  BY DEF Colors
<1>1. G.nv \in Nat /\ Inf \in Nat
  BY GraphIs
<1>2. PICK low : low = Scenario("GRAY")
  OBVIOUS
<1>3. PICK high : high = Scenario("BLACK")
  OBVIOUS
<1>4. (\E f : ChainCosts(f, low)) /\ (\E f : ChainCosts(f, high))
  BY ChainExists
<1>5. PICK f : ChainCosts(f, low)
  BY <1>4
<1>6. PICK h : ChainCosts(h, high)
  BY <1>4
<1>7. /\ f \in [0 .. G.nv -> Costs] /\ h \in [0 .. G.nv -> Costs]
      /\ \A x \in Vars : f[0][x] = h[0][x]
      /\ \A i \in 1 .. G.nv : f[i] = Relax(G, Usable(G), low, f[i - 1])
                              /\ h[i] = Relax(G, Usable(G), high, h[i - 1])
      /\ LeastOf("GRAY") = f[G.nv] /\ LeastOf("BLACK") = h[G.nv]
  BY <1>2, <1>3, <1>5, <1>6 DEF ChainCosts, LeastOf
<1>8. ASSUME NEW mi \in Usable(G), NEW a \in Costs, NEW b \in Costs, \A x \in Vars : a[x] <= b[x]
      PROVE  ModelCost(G, mi, low, a) <= ModelCost(G, mi, high, b)
  <2>1. mi \in Models
    BY UsableIs
  <2>2. /\ \A j \in DOMAIN Model(mi).params : Takes(G, mi, j, low) <=> Waits(mi, j, "GRAY")
        /\ \A j \in DOMAIN Model(mi).shadows :
              Fails(G, mi, j, low) <=> "GRAY" = "BLACK" \/ Model(mi).shadows[j].x \in G.skip
    BY <1>0, <1>2, <2>1, ScenarioIs
  <2>3. /\ \A j \in DOMAIN Model(mi).params : Takes(G, mi, j, high) <=> Waits(mi, j, "BLACK")
        /\ \A j \in DOMAIN Model(mi).shadows :
              Fails(G, mi, j, high) <=> "BLACK" = "BLACK" \/ Model(mi).shadows[j].x \in G.skip
    BY <1>0, <1>3, <2>1, ScenarioIs
  <2>4. \A j \in DOMAIN Model(mi).params : Waits(mi, j, "BLACK") /\ Model(mi).params[j].x \in Vars
    BY <2>1, ModelIs DEF Waits
  <2>5. \A j \in DOMAIN Model(mi).params : Takes(G, mi, j, low) =>
           Takes(G, mi, j, high) /\ a[Model(mi).params[j].x] <= b[Model(mi).params[j].x]
    BY <1>8, <2>3, <2>4
  <2>6. \A j \in DOMAIN Model(mi).shadows : Fails(G, mi, j, low) => Fails(G, mi, j, high)
    BY <2>3
  <2>7. QED
    BY <2>1, <2>5, <2>6, CostRises
<1> DEFINE A == {i \in 0 .. G.nv : \A x \in Vars : f[i][x] <= h[i][x]}
<1>9. 0 \in A
  <2>1. \A x \in Vars : f[0][x] \in Nat
    BY <1>1, <1>7 DEF Costs
  <2>2. QED
    BY <1>1, <1>7, <2>1
<1>10. ASSUME NEW i \in 1 .. G.nv, i - 1 \in A PROVE i \in A
  <2>1. PICK a \in Costs : a = f[i - 1]
    BY <1>1, <1>7
  <2>2. PICK b \in Costs : b = h[i - 1]
    BY <1>1, <1>7
  <2>3. \A x \in Vars : a[x] <= b[x]
    BY <1>10, <2>1, <2>2
  <2>4. PICK r : r = Relax(G, Usable(G), low, a)
    OBVIOUS
  <2>5. PICK s : s = Relax(G, Usable(G), high, b)
    OBVIOUS
  <2>6. /\ r \in Costs
        /\ \A x \in Vars :
              /\ r[x] <= a[x]
              /\ \A mi \in Usable(G) : Returns(G, mi, x, low) => r[x] <= ModelCost(G, mi, low, a)
    BY <2>4, RelaxIs
  <2>7. /\ s \in Costs
        /\ \A x \in Vars :
              s[x] = b[x] \/ \E mi \in Usable(G) : Returns(G, mi, x, high) /\ s[x] = ModelCost(G, mi, high, b)
    BY <2>5, RelaxIs
  <2>8. ASSUME NEW x \in Vars PROVE r[x] <= s[x]
    <3>1. r[x] \in Nat /\ s[x] \in Nat /\ a[x] \in Nat /\ b[x] \in Nat
      BY <1>1, <2>6, <2>7 DEF Costs
    <3>2. CASE s[x] = b[x]
      BY <2>3, <2>6, <3>1, <3>2
    <3>3. CASE \E mi \in Usable(G) : Returns(G, mi, x, high) /\ s[x] = ModelCost(G, mi, high, b)
      <4>1. PICK mi \in Usable(G) : Returns(G, mi, x, high) /\ s[x] = ModelCost(G, mi, high, b)
        BY <3>3
      <4>2. mi \in Models
        BY UsableIs
      <4>3. PICK j \in DOMAIN Model(mi).returns : Model(mi).returns[j].x = x
        BY <1>0, <1>3, <4>1, <4>2, ScenarioIs
      <4>4. Returns(G, mi, x, low)
        <5>1. Yields(mi, j, "GRAY")
          BY DEF Yields
        <5>2. QED
          BY <1>0, <1>2, <4>2, <4>3, <5>1, ScenarioIs
      <4>5. ModelCost(G, mi, low, a) <= ModelCost(G, mi, high, b)
        BY <1>8, <2>3
      <4>6. r[x] <= ModelCost(G, mi, low, a)
        BY <2>6, <4>4
      <4>7. ModelCost(G, mi, low, a) \in 0 .. Inf
        BY <4>2, CostIs
      <4>8. QED
        BY <1>1, <3>1, <4>1, <4>5, <4>6, <4>7
    <3>4. QED
      BY <2>7, <3>2, <3>3
  <2>9. f[i] = r /\ h[i] = s /\ i \in 0 .. G.nv
    BY <1>1, <1>7, <2>1, <2>2, <2>4, <2>5
  <2>10. QED
    BY <2>8, <2>9
<1> HIDE DEF A
<1>11. \A i \in 0 .. G.nv : i \in A
  BY <1>1, <1>9, <1>10, UpTo
<1>12. G.nv \in A
  BY <1>1, <1>11
<1>13. \A x \in Vars : LeastOf("GRAY")[x] <= LeastOf("BLACK")[x]
  BY <1>7, <1>12 DEF A
<1>14. LeastOf("GRAY") \in Costs /\ LeastOf("BLACK") \in Costs
  BY LeastIs
<1>15. QED
  BY <1>2, <1>3, <1>8, <1>13, <1>14

Cheap == {mi \in Models : P.bound[mi]["GRAY"] < Inf}

LEMMA SelectModelsIs ==
    ASSUME G \in Graphs, P \in PStates, Exact(P), Selectable(P), NEW x \in Vars
    PROVE  SelectModels(x) \subseteq Cheap
<1>1. PICK beta : beta = P.bound[x]["BLACK"]
  OBVIOUS
<1>2. PICK edges : edges = G.models[x]
  OBVIOUS
<1>3. PICK n \in Nat : n = Len(edges)
  BY <1>2, ListIs
<1>4. "GRAY" \in Colors /\ "BLACK" \in Colors
  BY DEF Colors
<1>5. beta \in Nat /\ beta <= Inf /\ Inf \in Nat
  BY <1>1, <1>4, LeastIs, GraphIs DEF Exact
<1>6. \A i \in 1 .. n : edges[i][1] \in Models
  BY <1>2, <1>3, ListIs
<1>7. ASSUME NEW mi \in Models,
             P.bound[mi]["GRAY"] < beta \/ (P.bound[mi]["BLACK"] = beta /\ beta < Inf)
      PROVE  mi \in Cheap
  <2>1. mi \in Nodes
    BY GraphIs
  <2>2. P.bound[mi]["GRAY"] \in Nat /\ P.bound[mi]["BLACK"] \in Nat
    BY <1>4, <2>1, PStateIs
  <2>3. CASE P.bound[mi]["GRAY"] < beta
    BY <1>5, <2>2, <2>3 DEF Cheap
  <2>4. CASE P.bound[mi]["BLACK"] = beta /\ beta < Inf
    <3>1. mi \in Usable(G)
      BY <1>4, <1>5, <2>4 DEF Selectable
    <3>2. P.bound[mi]["GRAY"] <= P.bound[mi]["BLACK"]
      BY <1>4, <3>1, LowIsLower DEF Exact
    <3>3. QED
      BY <1>5, <2>2, <2>4, <3>2 DEF Cheap
  <2>5. QED
    BY <1>7, <2>3, <2>4
<1> DEFINE Pick(acc, mi) ==
               LET b == P.bound[mi] IN
               IF b["GRAY"] < beta \/ (acc.needbeta /\ b["BLACK"] = beta)
               THEN [needbeta |-> acc.needbeta /\ b["BLACK"] > beta, set |-> acc.set \cup {mi}]
               ELSE acc
           base == [needbeta |-> beta < Inf, set |-> {}]
           Accs == {acc \in [needbeta : BOOLEAN, set : SUBSET Cheap] : acc.needbeta => beta < Inf}
           Round(i, s) == Pick(s, edges[i][1])
           step == [z \in (1 .. n) \X Accs |-> Round(z[1], z[2])]
           D == CHOOSE f : f = [i \in 0 .. n |-> IF i = 0 THEN base ELSE Round(i, f[i - 1])]
<1>8. SelectModels(x) = D[n].set
  BY <1>1, <1>2, <1>3 DEF SelectModels
<1>9. base \in Accs
  <2>1. (beta < Inf) \in BOOLEAN
    BY <1>5
  <2>2. QED
    BY <2>1
<1>10. ASSUME NEW i \in 1 .. n, NEW acc \in Accs PROVE Round(i, acc) \in Accs
  <2>1. PICK mi \in Models : mi = edges[i][1]
    BY <1>6
  <2>2. PICK b : b = P.bound[mi]
    OBVIOUS
  <2>3. acc.needbeta \in BOOLEAN /\ acc.set \subseteq Cheap /\ (acc.needbeta => beta < Inf)
    OBVIOUS
  <2>4. CASE b["GRAY"] < beta \/ (acc.needbeta /\ b["BLACK"] = beta)
    <3>1. mi \in Cheap
      BY <1>7, <2>2, <2>3, <2>4
    <3>2. PICK need \in BOOLEAN : need = (acc.needbeta /\ b["BLACK"] > beta)
      OBVIOUS
    <3>3. Round(i, acc) = [needbeta |-> need, set |-> acc.set \cup {mi}]
      BY <2>1, <2>2, <2>4, <3>2, Zenon
    <3>4. need => beta < Inf
      BY <2>3, <3>2
    <3>5. acc.set \cup {mi} \in SUBSET Cheap
      BY <2>3, <3>1
    <3>6. [needbeta |-> need, set |-> acc.set \cup {mi}] \in Accs
      BY <3>2, <3>4, <3>5
    <3>7. QED
      BY <3>3, <3>6, Zenon
  <2>5. CASE ~(b["GRAY"] < beta \/ (acc.needbeta /\ b["BLACK"] = beta))
    <3>1. Round(i, acc) = acc
      BY <2>1, <2>2, <2>5, Zenon
    <3>2. QED
      BY <3>1
  <2>6. QED
    BY <2>4, <2>5
<1> HIDE DEF Pick, base, Accs, Round
<1>11. \A i \in 1 .. n : \A s \in Accs : step[<<i, s>>] = Round(i, s) /\ step[<<i, s>>] \in Accs
  BY <1>10
<1> HIDE DEF step
<1>12. Runs(D, Accs, n, base, step)
  <2>1. \E g : Runs(g, Accs, n, base, step)
    BY <1>9, <1>11, LoopRuns
  <2>2. PICK g : Runs(g, Accs, n, base, step)
    BY <2>1
  <2>3. g = [i \in 0 .. n |-> IF i = 0 THEN base ELSE Round(i, g[i - 1])]
    <3>1. g \in [0 .. n -> Accs] /\ g[0] = base /\ \A i \in 1 .. n : g[i] = step[<<i, g[i - 1]>>]
      BY <2>2 DEF Runs
    <3>2. ASSUME NEW i \in 0 .. n PROVE g[i] = IF i = 0 THEN base ELSE Round(i, g[i - 1])
      <4>1. CASE i = 0
        BY <3>1, <4>1
      <4>2. CASE i # 0
        <5>1. i \in 1 .. n /\ i - 1 \in 0 .. n
          BY <4>2
        <5>2. g[i] = step[<<i, g[i - 1]>>] /\ g[i - 1] \in Accs
          BY <3>1, <5>1
        <5>3. g[i] = Round(i, g[i - 1])
          BY <1>11, <5>1, <5>2
        <5>4. QED
          BY <4>2, <5>3
      <4>3. QED
        BY <4>1, <4>2
    <3>3. QED
      BY <3>1, <3>2
  <2>4. D = [i \in 0 .. n |-> IF i = 0 THEN base ELSE Round(i, D[i - 1])]
    BY <2>3, Zenon
  <2> HIDE DEF D
  <2>5. D[0] = base
    BY <2>4
  <2>6. ASSUME NEW i \in 1 .. n, D[i - 1] \in Accs PROVE D[i] = step[<<i, D[i - 1]>>]
    <3>1. i \in 0 .. n /\ i # 0
      OBVIOUS
    <3>2. D[i] = Round(i, D[i - 1])
      BY <2>4, <3>1, Zenon
    <3>3. QED
      BY <1>11, <2>6, <3>2
  <2>7. D = [i \in 0 .. n |-> D[i]]
    BY <2>4
  <2>8. QED
    BY <1>9, <1>11, <2>5, <2>6, <2>7, LoopTyped
<1> HIDE DEF D
<1>13. D[n] \in Accs
  BY <1>12 DEF Runs
<1>14. D[n].set \subseteq Cheap
  BY <1>13 DEF Accs
<1>15. QED
  BY <1>8, <1>14

(* What prune_select visits from S: only models that can be computed, and  *)
(* skipped nodes only as roots or as parameters behind user maps.          *)
Excused(T, n) == \E mi \in T \cap Models : \E e \in Range(Model(mi).params) : e.x = n /\ e.user
Visits(S) ==
    {T \in SUBSET Nodes :
        /\ T \cap Models \subseteq Cheap
        /\ \A n \in T : n \in S \/ n \notin Has("SKIP") \/ Excused(T, n)}

Further(T) == T \cup UNION {IF n \in Vars THEN SelectModels(n) ELSE SelectVars(n) : n \in T}

LEMMA FurtherIs ==
    ASSUME G \in Graphs, P \in PStates, Exact(P), Selectable(P), NEW S, NEW T \in Visits(S)
    PROVE  Further(T) \in Visits(S)
<1>1. T \subseteq Nodes /\ T \cap Models \subseteq Cheap
      /\ \A n \in T : n \in S \/ n \notin Has("SKIP") \/ Excused(T, n)
  BY DEF Visits
<1>2. /\ \A n : n \in Nodes <=> n \in Vars \/ n \in Models
      /\ \A n \in Vars : n \notin Models
  BY GraphIs
<1>3. PICK W : W = Further(T)
  OBVIOUS
<1>4. \A n : n \in W <=> \/ n \in T
                         \/ \E x \in T \cap Vars : n \in SelectModels(x)
                         \/ \E mi \in T \cap Models : n \in SelectVars(mi)
  BY <1>1, <1>2, <1>3 DEF Further
<1>5. T \subseteq W
  BY <1>4
<1>6. \A n \in Cheap : n \in Models /\ n \in Nodes /\ n \notin Has("SKIP")
  <2>1. ASSUME NEW n \in Cheap PROVE n \in Models /\ n \in Nodes /\ n \notin Has("SKIP")
    <3>1. n \in Models /\ n \in Nodes /\ P.bound[n]["GRAY"] < Inf
      BY <1>2 DEF Cheap
    <3>2. P.bound[n]["GRAY"] # Inf
      BY <3>1, GraphIs
    <3>3. QED
      BY <3>1, <3>2 DEF Has, Selectable
  <2>2. QED
    BY <2>1
<1>7. \A x \in T \cap Vars : SelectModels(x) \subseteq Cheap
  BY SelectModelsIs
<1>8. ASSUME NEW mi \in T \cap Models, NEW n \in SelectVars(mi)
      PROVE  n \in Vars /\ (n \notin Has("SKIP") \/ Excused(W, n))
  <2>1. mi \in Models /\ P.bound[mi]["GRAY"] < Inf /\ mi \in W
    BY <1>1, <1>5 DEF Cheap
  <2>2. /\ DOMAIN Model(mi).params = 1 .. Len(Model(mi).params)
        /\ \A j \in DOMAIN Model(mi).params : Model(mi).params[j].x \in Vars /\ Model(mi).params[j].user \in BOOLEAN
        /\ \A j \in DOMAIN Model(mi).shadows : Model(mi).shadows[j].x \in Vars
    BY <2>1, ModelIs
  <2>3. \/ \E j \in DOMAIN Model(mi).params : n = Model(mi).params[j].x
        \/ n \notin Has("SKIP") /\ \E j \in DOMAIN Model(mi).shadows : n = Model(mi).shadows[j].x
    BY DEF SelectVars, Range
  <2>4. CASE \E j \in DOMAIN Model(mi).params : n = Model(mi).params[j].x
    <3>1. PICK j \in DOMAIN Model(mi).params : n = Model(mi).params[j].x
      BY <2>4
    <3>2. PICK e : e = Model(mi).params[j]
      OBVIOUS
    <3>3. e \in Range(Model(mi).params) /\ e.x = n /\ n \in Vars /\ e.user \in BOOLEAN
      BY <2>2, <3>1, <3>2 DEF Range
    <3>4. CASE e.user
      <4>1. Excused(W, n)
        BY <2>1, <3>3, <3>4 DEF Excused
      <4>2. QED
        BY <3>3, <4>1
    <3>5. CASE ~e.user
      <4>1. PICK c \in Colors : c = "GRAY"
        BY DEF Colors
      <4>2. mi \in Usable(G)
        <5>1. mi \notin Usable(G) => P.bound[mi][c] = Inf
          BY <2>1 DEF Selectable
        <5>2. QED
          BY <2>1, <4>1, <5>1, GraphIs
      <4>3. ModelCost(G, mi, Scenario(c), LeastOf(c)) < Inf
        <5>1. P.bound[mi][c] = ModelCost(G, mi, Scenario(c), LeastOf(c))
          BY <4>2 DEF Exact
        <5>2. QED
          BY <2>1, <4>1, <5>1
      <4>4. Waits(mi, j, c)
        BY <3>2, <3>5 DEF Waits
      <4>5. Takes(G, mi, j, Scenario(c))
        BY <2>1, <3>1, <4>4, ScenarioIs
      <4>6. LeastOf(c) \in Costs
        BY LeastIs
      <4>7. LeastOf(c)[n] <= ModelCost(G, mi, Scenario(c), LeastOf(c))
        BY <2>1, <3>1, <4>5, <4>6, CostIs
      <4>8. ModelCost(G, mi, Scenario(c), LeastOf(c)) \in 0 .. Inf
        BY <2>1, <4>6, CostIs
      <4>9. LeastOf(c)[n] # Inf
        BY <3>3, <4>3, <4>7, <4>8, LeastIs, GraphIs
      <4>10. P.bound[n][c] # Inf
        BY <3>3, <4>9 DEF Exact
      <4>11. n \in Nodes
        BY <1>2, <3>3
      <4>12. n \notin Has("SKIP")
        BY <4>1, <4>10, <4>11 DEF Has, Selectable
      <4>13. QED
        BY <3>3, <4>12
    <3>6. QED
      BY <3>4, <3>5
  <2>5. CASE n \notin Has("SKIP") /\ \E j \in DOMAIN Model(mi).shadows : n = Model(mi).shadows[j].x
    BY <2>2, <2>5
  <2>6. QED
    BY <2>3, <2>4, <2>5
<1>9. W \subseteq Nodes
  BY <1>1, <1>2, <1>4, <1>6, <1>7, <1>8
<1>10. W \cap Models \subseteq Cheap
  BY <1>1, <1>2, <1>4, <1>7, <1>8
<1>11. \A n : Excused(T, n) => Excused(W, n)
  BY <1>5 DEF Excused
<1>12. \A n \in W : n \in S \/ n \notin Has("SKIP") \/ Excused(W, n)
  BY <1>1, <1>4, <1>6, <1>7, <1>8, <1>11
<1>13. W \in Visits(S)
  BY <1>9, <1>10, <1>12 DEF Visits
<1>14. QED
  BY <1>3, <1>13

LEMMA SelectedIs ==
    ASSUME G \in Graphs, P \in PStates, Exact(P), Selectable(P), NEW S, S \subseteq Vars
    PROVE  Selected(S) \in Visits(S)
<1>1. PICK n \in Nat : n = G.nv + G.nm
  BY GraphIs
<1> DEFINE V == Visits(S)
           step == [z \in (1 .. n) \X V |-> Further(z[2])]
           D == CHOOSE f : f = [i \in 0 .. n |-> IF i = 0 THEN S ELSE Further(f[i - 1])]
<1>2. Selected(S) = D[n]
  BY <1>1 DEF Selected, Further
<1>3. S \in V
  <2>1. S \subseteq Nodes /\ S \cap Models = {}
    BY GraphIs
  <2>2. QED
    BY <2>1 DEF Visits
<1>4. \A T \in V : Further(T) \in V
  BY FurtherIs
<1> HIDE DEF V
<1>5. \A i \in 1 .. n : \A s \in V : step[<<i, s>>] = Further(s) /\ step[<<i, s>>] \in V
  BY <1>4
<1> HIDE DEF step
<1>6. Runs(D, V, n, S, step)
  <2>1. \E g : Runs(g, V, n, S, step)
    BY <1>3, <1>5, LoopRuns
  <2>2. PICK g : Runs(g, V, n, S, step)
    BY <2>1
  <2>3. g = [i \in 0 .. n |-> IF i = 0 THEN S ELSE Further(g[i - 1])]
    <3>1. g \in [0 .. n -> V] /\ g[0] = S /\ \A i \in 1 .. n : g[i] = step[<<i, g[i - 1]>>]
      BY <2>2 DEF Runs
    <3>2. ASSUME NEW i \in 0 .. n PROVE g[i] = IF i = 0 THEN S ELSE Further(g[i - 1])
      <4>1. CASE i = 0
        BY <3>1, <4>1
      <4>2. CASE i # 0
        <5>1. i \in 1 .. n /\ i - 1 \in 0 .. n
          BY <4>2
        <5>2. g[i] = step[<<i, g[i - 1]>>] /\ g[i - 1] \in V
          BY <3>1, <5>1
        <5>3. g[i] = Further(g[i - 1])
          BY <1>5, <5>1, <5>2
        <5>4. QED
          BY <4>2, <5>3
      <4>3. QED
        BY <4>1, <4>2
    <3>3. QED
      BY <3>1, <3>2
  <2>4. D = [i \in 0 .. n |-> IF i = 0 THEN S ELSE Further(D[i - 1])]
    BY <2>3, Zenon
  <2> HIDE DEF D
  <2>5. D[0] = S
    BY <2>4
  <2>6. ASSUME NEW i \in 1 .. n, D[i - 1] \in V PROVE D[i] = step[<<i, D[i - 1]>>]
    <3>1. i \in 0 .. n /\ i # 0
      OBVIOUS
    <3>2. D[i] = Further(D[i - 1])
      BY <2>4, <3>1, Zenon
    <3>3. QED
      BY <1>5, <2>6, <3>2
  <2>7. D = [i \in 0 .. n |-> D[i]]
    BY <2>4
  <2>8. QED
    BY <1>3, <1>5, <2>5, <2>6, <2>7, LoopTyped
<1> HIDE DEF D
<1>7. D[n] \in V
  BY <1>6 DEF Runs
<1>8. QED
  BY <1>2, <1>7 DEF V

(* What was selected although it is skipped, and why.                      *)
Lost(p, n) == "SELECT" \in p.flags[n] /\ "SKIP" \in p.flags[n]
Excuse(p, n) ==
    \E mi \in Models : "SELECT" \in p.flags[mi] /\
        \E e \in Range(Model(mi).params) : e.x = n /\ e.user
Kept(p, failed) ==
    /\ \A n \in Nodes : Lost(p, n) => (failed /\ n \in G.select) \/ Excuse(p, n)
    /\ failed => (\E n \in Nodes : Lost(p, n)) \/ G.given \cap G.skip # {}

KInv == IInv /\ (phase = "done" => Kept(P, status = "ECHAIN"))

LEMMA SameKept ==
    ASSUME G' = G, NEW p, NEW failed \in BOOLEAN, Kept(p, failed)
    PROVE  Kept(p, failed)'
BY SameNodes DEF Kept, Lost, Excuse

(* What the selected models return can be computed.                        *)
LEMMA ReturnsReached ==
    ASSUME G \in Graphs, P \in PStates, Selectable(P), NEW mi \in Cheap,
           NEW e \in Range(Model(mi).returns)
    PROVE  e.x \in Vars /\ e.x \notin Has("SKIP")
<1>1. mi \in Models /\ P.bound[mi]["GRAY"] < Inf
  BY DEF Cheap
<1>2. PICK j \in DOMAIN Model(mi).returns : e = Model(mi).returns[j]
  BY DEF Range
<1>3. PICK x \in Vars : x = e.x
  BY <1>1, <1>2, ModelIs
<1>4. PICK c \in Colors : c = "GRAY"
  BY DEF Colors
<1>5. Yields(mi, j, c)
  BY <1>4 DEF Yields
<1>6. Returns(G, mi, x, Scenario(c))
  BY <1>1, <1>2, <1>3, <1>5, ScenarioIs
<1>7. P.bound[x]["GRAY"] < Inf
  BY <1>1, <1>4, <1>6 DEF Selectable
<1>8. P.bound[x]["GRAY"] # Inf /\ x \in Nodes
  BY <1>7, GraphIs
<1>9. QED
  BY <1>3, <1>8 DEF Has, Selectable

(* The flags after the roots S, what is selected from them, and R.         *)
LEMMA SelectsFlag ==
    ASSUME P \in PStates, NEW W, NEW q, q = Flag(P, W, "SELECT")
    PROVE  \A n \in Nodes : \A g : g \in q.flags[n] <=> g \in P.flags[n] \/ (n \in W /\ g = "SELECT")
<1>1. PICK f \in Names : f = "SELECT"
  BY DEF Names
<1>2. \A n \in Nodes : q.flags[n] = IF n \in W THEN P.flags[n] \cup {f} ELSE P.flags[n]
  <2>1. \A n \in Nodes : Flag(P, W, f).flags[n] = IF n \in W THEN P.flags[n] \cup {f} ELSE P.flags[n]
    BY FlagIs
  <2>2. q = Flag(P, W, f)
    BY <1>1
  <2>3. QED
    BY <2>1, <2>2, Zenon
<1> SUFFICES ASSUME NEW n \in Nodes, NEW g
             PROVE  g \in q.flags[n] <=> g \in P.flags[n] \/ (n \in W /\ g = "SELECT")
  OBVIOUS
<1>3. q.flags[n] = IF n \in W THEN P.flags[n] \cup {f} ELSE P.flags[n]
  BY <1>2
<1>4. PICK a : a = P.flags[n]
  OBVIOUS
<1>5. PICK b : b = q.flags[n]
  OBVIOUS
<1>6. b = IF n \in W THEN a \cup {f} ELSE a
  BY <1>3, <1>4, <1>5, Zenon
<1>7. g \in b <=> g \in a \/ (n \in W /\ g = f)
  BY <1>6
<1>8. QED
  BY <1>1, <1>4, <1>5, <1>7, Zenon

LEMMA SelectsKeep ==
    ASSUME G \in Graphs, P \in PStates, Selectable(P), NEW S, S \subseteq G.select,
           NEW T \in Visits(S), NEW R, \A n \in R : n \notin Has("SKIP"),
           NEW q, q = Flag(P, T \cup R, "SELECT")
    PROVE  /\ \A n \in Nodes : Lost(q, n) => n \in G.select \/ Excuse(q, n)
           /\ \A n \in Nodes : Lost(q, n) <=>
                 n \in Has("SKIP") /\ (n \in G.select \/ n \in T \cup R)
<1>1. PICK W : W = T \cup R
  OBVIOUS
<1>2. \A n \in Nodes : \A g : g \in q.flags[n] <=> g \in P.flags[n] \/ (n \in W /\ g = "SELECT")
  <2>1. q = Flag(P, W, "SELECT")
    BY <1>1
  <2>2. QED
    BY <2>1, SelectsFlag
<1>3. \A n \in Nodes : /\ n \in Has("SKIP") <=> "SKIP" \in P.flags[n]
                       /\ "SELECT" \in P.flags[n] <=> n \in G.select
  <2>1. \A n \in Nodes : n \in Has("SKIP") <=> "SKIP" \in P.flags[n]
    BY Zenon DEF Has
  <2>2. \A n \in Nodes : "SELECT" \in P.flags[n] <=> n \in G.select
    BY Zenon DEF Selectable
  <2>3. QED
    BY <2>1, <2>2, Zenon
<1>4. \A n \in T : n \in S \/ n \notin Has("SKIP") \/ Excused(T, n)
  BY DEF Visits
<1>5. \A n \in Nodes : Lost(q, n) <=> n \in Has("SKIP") /\ (n \in G.select \/ n \in W)
  <2> SUFFICES ASSUME NEW n \in Nodes
               PROVE  Lost(q, n) <=> n \in Has("SKIP") /\ (n \in G.select \/ n \in W)
    OBVIOUS
  <2>1. "SELECT" \in q.flags[n] <=> "SELECT" \in P.flags[n] \/ n \in W
    BY <1>2, Zenon
  <2>2. "SKIP" \in q.flags[n] <=> "SKIP" \in P.flags[n]
    <3>1. PICK g : g = "SKIP"
      OBVIOUS
    <3>2. g # "SELECT"
      BY <3>1
    <3>3. \A h : h \in q.flags[n] <=> h \in P.flags[n] \/ (n \in W /\ h = "SELECT")
      BY <1>2, Zenon
    <3>4. QED
      BY <3>1, <3>2, <3>3
  <2>3. /\ n \in Has("SKIP") <=> "SKIP" \in P.flags[n]
        /\ "SELECT" \in P.flags[n] <=> n \in G.select
    BY <1>3, Zenon
  <2>4. QED
    BY <2>1, <2>2, <2>3, Zenon DEF Lost
<1>6. ASSUME NEW n \in Nodes, Lost(q, n), n \notin G.select PROVE Excuse(q, n)
  <2>1. n \in Has("SKIP") /\ n \in W
    BY <1>5, <1>6
  <2>2. n \in T /\ Excused(T, n)
    BY <1>1, <1>4, <1>6, <2>1
  <2>3. PICK mi \in T \cap Models : \E e \in Range(Model(mi).params) : e.x = n /\ e.user
    BY <2>2 DEF Excused
  <2>4. mi \in Nodes /\ mi \in W
    BY <1>1, <2>3, GraphIs
  <2>5. "SELECT" \in q.flags[mi]
    BY <1>2, <2>4
  <2>6. QED
    BY <2>3, <2>5 DEF Excuse
<1>7. QED
  BY <1>1, <1>5, <1>6

(* prune_mark_selects: what it has selected when it returns or fails.      *)
LEMMA StepKept ==
    ASSUME IInv, MarkSelects
    PROVE  Kept(P', status' = "ECHAIN")
<1>1. phase = "mark_selects" /\ G' = G /\ status = "OK"
  BY DEF MarkSelects, Phase, IInv
<1>2. G \in Graphs /\ P \in PStates /\ Exact(P) /\ Selectable(P)
  BY <1>1 DEF IInv, Bounded
<1>3. PICK roots : roots = Has("SELECT")
  OBVIOUS
<1>4. roots = G.select /\ roots \subseteq Vars
  <2>1. \A n \in Nodes : n \in roots <=> n \in G.select
    BY <1>2, <1>3 DEF Has, Selectable
  <2>2. G.select \subseteq Vars /\ Vars \subseteq Nodes
    BY <1>2, GraphIs
  <2>3. roots \subseteq Nodes
    BY <1>3 DEF Has
  <2>4. QED
    BY <2>1, <2>2, <2>3
<1> DEFINE Before(n) == Selected({r \in roots : r < n})
           stops == {n \in Has("SKIP") : n \in roots \cup Before(n)}
           Q == Selected(roots)
           R == {e.x : e \in UNION {Range(Model(mi).returns) : mi \in Q \cap Models}}
<1>5. \/ stops = {} /\ P' = Flag(P, Q \cup R, "SELECT") /\ status' = "OK"
      \/ stops # {} /\ P' = Flag(P, Before(Min(stops)), "SELECT") /\ status' = "ECHAIN"
  BY <1>1, <1>3, Zenon DEF MarkSelects
<1>6. PICK q : q = P'
  OBVIOUS
<1>7. CASE stops = {}
  <2>1. q = Flag(P, Q \cup R, "SELECT") /\ status' = "OK"
    BY <1>5, <1>6, <1>7
  <2>2. \A n \in roots : n \notin Has("SKIP")
    BY <1>7
  <2> HIDE DEF stops
  <2>3. Q \in Visits(roots)
    BY <1>2, <1>4, SelectedIs
  <2>4. PICK T \in Visits(roots) : T = Q
    BY <2>3
  <2>5. PICK U : U = R
    OBVIOUS
  <2>6. \A n \in U : n \notin Has("SKIP")
    <3>1. ASSUME NEW n \in R PROVE n \notin Has("SKIP")
      <4>1. PICK mi \in Q \cap Models : \E e \in Range(Model(mi).returns) : n = e.x
        OBVIOUS
      <4>2. mi \in Cheap
        BY <2>3, <4>1 DEF Visits
      <4>3. PICK e \in Range(Model(mi).returns) : n = e.x
        BY <4>1
      <4>4. QED
        BY <1>2, <4>2, <4>3, ReturnsReached
    <3>2. QED
      BY <2>5, <3>1
  <2>7. q = Flag(P, T \cup U, "SELECT")
    BY <2>1, <2>4, <2>5
  <2> HIDE DEF Q, R
  <2>8. /\ \A n \in Nodes : Lost(q, n) => n \in G.select \/ Excuse(q, n)
        /\ \A n \in Nodes : Lost(q, n) <=> n \in Has("SKIP") /\ (n \in G.select \/ n \in T \cup U)
    BY <1>2, <1>4, <2>4, <2>6, <2>7, SelectsKeep
  <2>9. Kept(q, FALSE)
    BY <1>4, <2>2, <2>8 DEF Kept
  <2>10. (status' = "ECHAIN") = FALSE
    BY <2>1
  <2>11. QED
    BY <1>6, <2>9, <2>10, Zenon
<1>8. CASE stops # {}
  <2>1. PICK k : k = Min(stops)
    OBVIOUS
  <2>2. q = Flag(P, Before(k), "SELECT") /\ status' = "ECHAIN"
    BY <1>5, <1>6, <1>8, <2>1
  <2>3. \A n : Before(n) \in Visits({r \in roots : r < n})
    BY <1>2, <1>4, SelectedIs
  <2>4. stops \subseteq Nat
    <3>1. ASSUME NEW n \in stops PROVE n \in Vars
      <4>1. n \in Nodes /\ n \in Has("SKIP") /\ (n \in roots \/ n \in Before(n))
        BY DEF Has
      <4>2. n \in Before(n) /\ n \in Models => n \in Cheap
        BY <2>3 DEF Visits
      <4>3. n \in Cheap => n \notin Has("SKIP")
        <5>1. n \in Cheap => P.bound[n]["GRAY"] # Inf
          BY <1>2, GraphIs DEF Cheap
        <5>2. QED
          BY <1>2, <4>1, <5>1 DEF Has, Selectable
      <4>4. n \in Vars \/ n \in Models
        BY <1>2, <4>1, GraphIs
      <4>5. QED
        BY <1>4, <4>1, <4>2, <4>3, <4>4
    <3>2. Vars \subseteq Nat
      BY <1>2, GraphIs DEF Vars, VarsOf
    <3>3. QED
      BY <3>1, <3>2
  <2>5. k \in stops
    BY <1>8, <2>1, <2>4, MinIs
  <2>6. k \in Nodes /\ k \in Has("SKIP") /\ (k \in roots \/ k \in Before(k))
    BY <2>5 DEF Has
  <2> HIDE DEF stops
  <2>7. PICK S : S = {r \in roots : r < k}
    OBVIOUS
  <2>8. PICK T \in Visits(S) : T = Before(k)
    BY <2>3, <2>7
  <2>9. S \subseteq G.select
    BY <1>4, <2>7
  <2>10. q = Flag(P, T \cup {}, "SELECT")
    <3>1. T \cup {} = Before(k)
      BY <2>8
    <3>2. QED
      BY <2>2, <3>1, Zenon
  <2> HIDE DEF Before
  <2>11. /\ \A n \in Nodes : Lost(q, n) => n \in G.select \/ Excuse(q, n)
         /\ \A n \in Nodes : Lost(q, n) <=> n \in Has("SKIP") /\ (n \in G.select \/ n \in T \cup {})
    <3>1. PICK E : E = {}
      OBVIOUS
    <3>2. \A n \in E : n \notin Has("SKIP")
      BY <3>1
    <3>3. q = Flag(P, T \cup E, "SELECT")
      BY <2>10, <3>1, Zenon
    <3> HIDE <3>1
    <3>4. /\ \A n \in Nodes : Lost(q, n) => n \in G.select \/ Excuse(q, n)
          /\ \A n \in Nodes : Lost(q, n) <=> n \in Has("SKIP") /\ (n \in G.select \/ n \in T \cup E)
      <4>1. T \in Visits(S)
        OBVIOUS
      <4> HIDE <2>8
      <4>2. G \in Graphs /\ P \in PStates /\ Selectable(P) /\ S \subseteq G.select
        BY <1>2, <2>9, Zenon
      <4>3. QED
        BY <3>2, <3>3, <4>1, <4>2, SelectsKeep
    <3>5. QED
      BY <3>1, <3>4, Zenon
  <2>12. Lost(q, k)
    BY <1>4, <2>6, <2>8, <2>11
  <2>13. Kept(q, TRUE)
    BY <2>6, <2>11, <2>12 DEF Kept
  <2>14. (status' = "ECHAIN") = TRUE
    BY <2>2
  <2>15. QED
    BY <1>6, <2>13, <2>14, Zenon
<1>9. QED
  BY <1>7, <1>8

(* prune_insert_given fails before anything is selected.                   *)
LEMMA StepFailed ==
    ASSUME IInv, InsertGiven, phase' = "done"
    PROVE  Kept(P', status' = "ECHAIN")
<1>1. phase = "insert_given" /\ P' = P /\ status' = "ECHAIN"
      /\ Vars \cap Has("GIVEN") \cap Has("SKIP") # {}
  BY DEF InsertGiven
<1>2. G \in Graphs /\ Fresh(P, AllSkips)
  BY <1>1 DEF IInv
<1>3. Marked(P)
  BY <1>2, FreshMarked DEF AllSkips
<1>4. PICK n \in Vars : n \in Has("GIVEN") /\ n \in Has("SKIP")
  BY <1>1
<1>5. n \in G.given /\ n \in G.skip
  <2>1. n \in Nodes /\ n \notin Models
    BY <1>2, GraphIs
  <2>2. QED
    BY <1>3, <1>4, <2>1 DEF Has, Marked
<1>6. \A m \in Nodes : Lost(P, m) => m \in G.select
  BY <1>3 DEF Lost, Marked
<1>7. Kept(P, TRUE)
  BY <1>5, <1>6 DEF Kept
<1>8. (status' = "ECHAIN") = TRUE
  BY <1>1
<1>9. QED
  BY <1>1, <1>7, <1>8, Zenon

(* prune_select selects only what can be computed, except parameters that  *)
(* a selected model reads through a user map, and roots, for which it      *)
(* fails; and fhk_prune_run fails only when it has met one of those.       *)
THEOREM SelectedAreReachable == Spec => []SelectedReachable
<1>1. Init => KInv
  BY InitIs DEF KInv, Init
<1>2. KInv /\ [Next]_vars => KInv'
  <2> SUFFICES ASSUME KInv, [Next]_vars PROVE KInv'
    OBVIOUS
  <2>1. IInv /\ IInv'
    BY StepIInv DEF KInv
  <2>2. CASE phase' = "done"
    <3> SUFFICES Kept(P, status = "ECHAIN")'
      BY <2>1 DEF KInv
    <3>g. G' = G
      BY DEF Next, vars, MarkGiven, MarkSkips, InitMstate, InsertGiven, InsertConstmods, Propagate,
             PropagateEnd, MarkUnreachable, MarkSelects, Finished, Phase
    <3>1. PICK p : p = P'
      OBVIOUS
    <3>2. PICK failed \in BOOLEAN : failed = (status' = "ECHAIN")
      OBVIOUS
    <3>3. Kept(p, failed)
      <4>1. CASE MarkSelects
        BY <2>1, <3>1, <3>2, <4>1, StepKept
      <4>2. CASE InsertGiven
        BY <2>1, <2>2, <3>1, <3>2, <4>2, StepFailed
      <4>3. CASE UNCHANGED vars
        <5>1. P' = P /\ phase = "done" /\ status' = status
          BY <2>2, <4>3 DEF vars
        <5>2. Kept(P, status = "ECHAIN")
          BY <5>1 DEF KInv
        <5>3. QED
          BY <3>1, <3>2, <5>1, <5>2
      <4>4. CASE \/ MarkGiven \/ MarkSkips \/ InitMstate \/ InsertConstmods
                 \/ PropagateEnd \/ MarkUnreachable
        BY <2>2, <4>4
           DEF MarkGiven, MarkSkips, InitMstate, InsertConstmods, PropagateEnd, MarkUnreachable, Phase
      <4>5. CASE Propagate
        BY <2>2, <4>5 DEF Propagate
      <4>6. QED
        BY <4>1, <4>2, <4>3, <4>4, <4>5 DEF Next, Finished
    <3>4. Kept(p, failed)'
      BY <3>g, <3>3, SameKept
    <3>5. QED
      BY <3>1, <3>2, <3>4
  <2>3. CASE phase' # "done"
    BY <2>1, <2>3 DEF KInv
  <2>4. QED
    BY <2>2, <2>3
<1>3. KInv => SelectedReachable
  <2> SUFFICES ASSUME KInv, phase = "done" PROVE SelectedReachable
    BY DEF SelectedReachable
  <2>1. Kept(P, status = "ECHAIN") /\ G \in Graphs
    BY DEF KInv, IInv
  <2>2. \A mi \in Models : mi \in Nodes
    BY <2>1, GraphIs
  <2>3. \A n : n \in Has("SELECT") \cap Has("SKIP") <=> n \in Nodes /\ Lost(P, n)
    BY DEF Has, Lost
  <2>4. ASSUME NEW n \in Has("SELECT") \cap Has("SKIP")
        PROVE  \/ status = "ECHAIN" /\ n \in G.select
               \/ \E mi \in Models \cap Has("SELECT") :
                     \E e \in Range(Model(mi).params) : e.x = n /\ e.user
    <3>1. (status = "ECHAIN" /\ n \in G.select) \/ Excuse(P, n)
      BY <2>1, <2>3, <2>4 DEF Kept
    <3>2. QED
      BY <2>2, <3>1 DEF Excuse, Has
  <2>5. ASSUME status = "ECHAIN"
        PROVE  (Has("SELECT") \cap Has("SKIP")) \cup (G.given \cap G.skip) # {}
    <3>1. (\E n \in Nodes : Lost(P, n)) \/ G.given \cap G.skip # {}
      BY <2>1, <2>5 DEF Kept
    <3>2. QED
      BY <2>3, <3>1
  <2>6. QED
    BY <2>4, <2>5 DEF SelectedReachable
<1>4. QED
  BY <1>1, <1>2, <1>3, PTL DEF Spec
=============================================================================
