----------------------------- MODULE VecProofs -----------------------------
(***************************************************************************)
(* Proofs about Vec, for every number of bands and frames, every initial   *)
(* capacity and all values.                                                *)
(***************************************************************************)
EXTENDS Vec, WellFoundedInduction, SequenceTheorems, TLAPS

-----------------------------------------------------------------------------
(* The least-number principle, for proofs by a least counterexample where  *)
(* an induction would be needed.                                           *)

(* A set of numbers has an element below which, in any well-founded        *)
(* relation that agrees with <, there is none.                             *)
LEMMA LeastByRelation ==
    ASSUME NEW R, IsWellFoundedOn(R, Nat), \A x, y \in Nat : <<y, x>> \in R <=> y < x,
           NEW T, T \subseteq Nat, T # {}
    PROVE  \E x \in T : \A y \in T : x <= y
<1>1. PICK x \in T : \A y \in T : ~(<<y, x>> \in R)
  BY WFMin
<1>2. x \in Nat /\ \A y \in T : y \in Nat /\ ~(y < x)
  BY <1>1, Zenon
<1>3. \A y \in T : x <= y
  BY <1>2
<1>4. QED
  BY <1>3

(* Every nonempty set of natural numbers has a least element.              *)
LEMMA LeastNatural ==
    ASSUME NEW T, T \subseteq Nat, T # {}
    PROVE  \E x \in T : \A y \in T : x <= y
<1>1. \A x, y \in Nat : <<y, x>> \in OpToRel(<, Nat) <=> y < x
  BY DEF OpToRel
<1>2. QED
  BY <1>1, NatLessThanWellFounded, LeastByRelation

-----------------------------------------------------------------------------
(* Functions defined by recursion on 0 .. n, one step at a time: they      *)
(* exist, and their values stay in a set that every step stays in.         *)

Recursive(f, n, base, step) ==
    f = [i \in 0 .. n |-> IF i = 0 THEN base ELSE step[<<i, f[i - 1]>>]]

LEMMA RecursionType ==
    ASSUME NEW S, NEW n \in Nat, NEW base \in S, NEW step,
           \A i \in 1 .. n : \A s \in S : step[<<i, s>>] \in S,
           NEW f, Recursive(f, n, base, step)
    PROVE  f \in [0 .. n -> S]
<1> DEFINE T == {m \in Nat : m <= n /\ f[m] \notin S}
<1>1. /\ DOMAIN f = 0 .. n /\ f[0] = base
      /\ \A i \in 1 .. n : f[i] = step[<<i, f[i - 1]>>]
  <2>1. PICK g : g = f
    OBVIOUS
  <2>2. f = [i \in 0 .. n |-> IF i = 0 THEN base ELSE step[<<i, g[i - 1]>>]]
    BY <2>1, Zenon DEF Recursive
  <2>3. /\ DOMAIN f = 0 .. n
        /\ \A i \in 0 .. n : f[i] = IF i = 0 THEN base ELSE step[<<i, g[i - 1]>>]
    BY <2>2
  <2>4. 0 \in 0 .. n /\ \A i \in 1 .. n : i \in 0 .. n /\ i # 0
    OBVIOUS
  <2>5. f[0] = base /\ \A i \in 1 .. n : f[i] = step[<<i, g[i - 1]>>]
    BY <2>3, <2>4, Zenon
  <2>6. QED
    BY <2>1, <2>3, <2>5, Zenon
<1>2. T = {}
  <2> SUFFICES ASSUME T # {} PROVE FALSE
    OBVIOUS
  <2>1. PICK x \in T : \A y \in T : x <= y
    BY LeastNatural
  <2>2. x # 0
    BY <1>1, <2>1
  <2>3. x - 1 \in Nat /\ x - 1 <= n /\ ~(x <= x - 1) /\ x \in 1 .. n
    BY <2>1, <2>2
  <2>4. f[x - 1] \in S
    BY <2>1, <2>3
  <2>5. QED
    BY <1>1, <2>1, <2>3, <2>4
<1>3. \A m \in 0 .. n : f[m] \in S
  BY <1>2
<1>4. f = [i \in 0 .. n |-> f[i]]
  BY DEF Recursive
<1>5. QED
  BY <1>3, <1>4

LEMMA RecursionExists ==
    ASSUME NEW S, NEW n \in Nat, NEW base \in S, NEW step,
           \A i \in 1 .. n : \A s \in S : step[<<i, s>>] \in S
    PROVE  \E f : Recursive(f, n, base, step)
<1> DEFINE Exists(m) == \E f : Recursive(f, m, base, step)
           T == {m \in Nat : m <= n /\ ~Exists(m)}
<1> HIDE DEF Exists
<1> SUFFICES ASSUME T # {} PROVE FALSE
  <2>1. Exists(n)
    OBVIOUS
  <2>2. QED
    BY <2>1 DEF Exists
<1>1. PICK x \in T : \A y \in T : x <= y
  BY LeastNatural
<1>2. x # 0
  <2>1. Recursive([i \in 0 .. 0 |-> base], 0, base, step)
    BY DEF Recursive
  <2>2. Exists(0)
    BY <2>1 DEF Exists
  <2>3. QED
    BY <1>1, <2>2
<1>3. x \in Nat /\ x - 1 \in Nat /\ x - 1 <= n /\ ~(x <= x - 1)
  BY <1>1, <1>2
<1>4. x - 1 \notin T
  BY <1>1, <1>3
<1>5. Exists(x - 1)
  BY <1>3, <1>4
<1>6. PICK f : Recursive(f, x - 1, base, step)
  BY <1>5 DEF Exists
<1> DEFINE g == [i \in 0 .. x |-> IF i = x THEN step[<<x, f[x - 1]>>] ELSE f[i]]
<1>7. f[0] = base /\ \A i \in 1 .. x - 1 : f[i] = step[<<i, f[i - 1]>>]
  BY <1>3, <1>6 DEF Recursive
<1>8. \A i \in 0 .. x : g[i] = IF i = 0 THEN base ELSE step[<<i, g[i - 1]>>]
  <2> SUFFICES ASSUME NEW i \in 0 .. x
               PROVE  g[i] = IF i = 0 THEN base ELSE step[<<i, g[i - 1]>>]
    OBVIOUS
  <2>1. CASE i = 0
    BY <1>2, <1>3, <1>7, <2>1
  <2>2. CASE i # 0
    <3>1. g[i - 1] = f[i - 1]
      BY <1>3, <2>2
    <3>2. g[i] = step[<<i, f[i - 1]>>]
      <4>1. CASE i = x
        BY <4>1
      <4>2. CASE i # x
        <5>1. i \in 1 .. x - 1 /\ g[i] = f[i]
          BY <1>3, <2>2, <4>2
        <5>2. QED
          BY <1>7, <5>1
      <4>3. QED
        BY <4>1, <4>2
    <3> HIDE DEF g
    <3>3. QED
      BY <2>2, <3>1, <3>2
  <2>3. QED
    BY <2>1, <2>2
<1>9. g = [i \in 0 .. x |-> g[i]]
  OBVIOUS
<1> HIDE DEF g
<1>10. Recursive(g, x, base, step)
  BY <1>8, <1>9 DEF Recursive
<1>11. QED
  BY <1>1, <1>10 DEF Exists

-----------------------------------------------------------------------------
(* Doubling a positive size reaches every size.                            *)
LEMMA DoublingFits ==
    ASSUME NEW base \in Nat \ {0}, NEW L \in Nat
    PROVE  DoubledTo(base, L) \in Nat /\ DoubledTo(base, L) >= L /\ DoubledTo(base, L) >= base
<1> DEFINE Double(c) == IF c < L THEN 2 * c ELSE c
           step == [x \in (1 .. L) \X (Nat \ {0}) |-> Double(x[2])]
           D == Rounds(base, L)
<1>2. D = CHOOSE f : f = [j \in 0 .. L |-> IF j = 0 THEN base ELSE Double(f[j - 1])]
  BY DEF Rounds
<1>3. DoubledTo(base, L) = D[L]
  BY DEF DoubledTo
<1> HIDE DEF D
<1>4. \A i \in 1 .. L : \A c \in Nat \ {0} : step[<<i, c>>] = Double(c) /\ Double(c) \in Nat \ {0}
  OBVIOUS
<1> HIDE DEF step
<1>s. \A i \in 1 .. L : \A c \in Nat \ {0} : step[<<i, c>>] \in Nat \ {0}
  BY <1>4
<1>5. PICK f : Recursive(f, L, base, step)
  <2>1. \E f : Recursive(f, L, base, step)
    BY <1>s, RecursionExists
  <2>2. QED
    BY <2>1
<1>6. f \in [0 .. L -> Nat \ {0}]
  BY <1>s, <1>5, RecursionType
<1>7. f = [j \in 0 .. L |-> IF j = 0 THEN base ELSE Double(f[j - 1])]
  <2>1. \A j \in 0 .. L : f[j] = IF j = 0 THEN base ELSE step[<<j, f[j - 1]>>]
    BY <1>5 DEF Recursive
  <2>2. \A j \in 1 .. L : step[<<j, f[j - 1]>>] = Double(f[j - 1])
    <3>1. \A j \in 1 .. L : j - 1 \in 0 .. L
      OBVIOUS
    <3>2. QED
      BY <1>4, <1>6, <3>1
  <2> HIDE DEF Double
  <2>3. \A j \in 0 .. L : j # 0 => j \in 1 .. L
    OBVIOUS
  <2>4. \A j \in 0 .. L : f[j] = IF j = 0 THEN base ELSE Double(f[j - 1])
    BY <2>1, <2>2, <2>3
  <2>5. QED
    BY <1>6, <2>4
<1>8. D = [j \in 0 .. L |-> IF j = 0 THEN base ELSE Double(D[j - 1])]
  <2> HIDE DEF Double
  <2>1. QED
    BY <1>2, <1>7
<1>9. D[0] = base /\ \A j \in 1 .. L : D[j] = Double(D[j - 1])
  <2> HIDE DEF Double
  <2>1. QED
    BY <1>8
<1> DEFINE Reached(j) == D[j] \in Nat \ {0} /\ D[j] >= base /\ (D[j] >= L \/ D[j] > j)
           T == {j \in Nat : j <= L /\ ~Reached(j)}
<1>10. T = {}
  <2> SUFFICES ASSUME T # {} PROVE FALSE
    OBVIOUS
  <2>1. PICK x \in T : \A y \in T : x <= y
    BY LeastNatural
  <2>2. x # 0
    BY <1>9, <2>1
  <2>3. x - 1 \in Nat /\ x - 1 <= L /\ ~(x <= x - 1) /\ x \in 1 .. L
    BY <2>1, <2>2
  <2>4. Reached(x - 1)
    BY <2>1, <2>3
  <2>5. D[x] = Double(D[x - 1])
    BY <1>9, <2>3
  <2>6. Reached(x)
    BY <2>3, <2>4, <2>5
  <2>7. QED
    BY <2>1, <2>6
<1>11. Reached(L)
  BY <1>10
<1>12. QED
  BY <1>3, <1>11

-----------------------------------------------------------------------------
(* F_ensure_capacity: doubling reaches a capacity that fits.               *)

LEMMA CapacityFits ==
    ASSUME NEW v \in Header, NEW n \in Nat
    PROVE  Capacity(v, n) \in Nat /\ Capacity(v, n) >= v.n_used + n
<1>1. PICK base \in Nat \ {0}, L \in Nat :
         base = (IF v.n_alloc = 0 THEN InitCap ELSE v.n_alloc) /\ L = v.n_used + n
  <2>1. v.n_alloc \in Nat /\ v.n_used \in Nat
    BY DEF Header
  <2>2. v.n_used + n \in Nat /\ (IF v.n_alloc = 0 THEN InitCap ELSE v.n_alloc) \in Nat \ {0}
    BY <2>1, NumbersAssumption
  <2>3. QED
    BY <2>2
<1>2. Capacity(v, n) = DoubledTo(base, L)
  BY <1>1 DEF Capacity
<1>3. QED
  BY <1>1, <1>2, DoublingFits

-----------------------------------------------------------------------------
(* simF_vec_delete: what is kept of the first i elements.                  *)

LEMMA KeptIs ==
    ASSUME NEW s \in Seq(Datum), NEW idx
    PROVE  /\ Kept(s, idx) \in [0 .. Len(s) -> Seq(Datum)]
           /\ Kept(s, idx)[0] = <<>>
           /\ \A i \in 1 .. Len(s) :
                 Kept(s, idx)[i] = IF i - 1 \in Range(idx) THEN Kept(s, idx)[i - 1]
                                   ELSE Append(Kept(s, idx)[i - 1], s[i])
<1> DEFINE L == Len(s)
           Add(i, q) == IF i - 1 \in Range(idx) THEN q ELSE Append(q, s[i])
           step == [x \in (1 .. L) \X Seq(Datum) |-> Add(x[1], x[2])]
           K == Kept(s, idx)
<1>1. L \in Nat /\ <<>> \in Seq(Datum) /\ \A i \in 1 .. L : s[i] \in Datum
  OBVIOUS
<1>2. K = CHOOSE f : f = [i \in 0 .. L |-> IF i = 0 THEN <<>> ELSE Add(i, f[i - 1])]
  BY DEF Kept
<1> HIDE DEF K, L
<1>3. \A i \in 1 .. L : \A q \in Seq(Datum) : step[<<i, q>>] = Add(i, q) /\ Add(i, q) \in Seq(Datum)
  BY <1>1
<1> HIDE DEF step, Add
<1>s. \A i \in 1 .. L : \A q \in Seq(Datum) : step[<<i, q>>] \in Seq(Datum)
  BY <1>3
<1>4. PICK f : Recursive(f, L, <<>>, step)
  <2>1. \E f : Recursive(f, L, <<>>, step)
    BY <1>1, <1>s, RecursionExists
  <2>2. QED
    BY <2>1
<1>5. f \in [0 .. L -> Seq(Datum)]
  BY <1>1, <1>s, <1>4, RecursionType
<1>6. f = [i \in 0 .. L |-> IF i = 0 THEN <<>> ELSE Add(i, f[i - 1])]
  <2>1. \A j \in 0 .. L : f[j] = IF j = 0 THEN <<>> ELSE step[<<j, f[j - 1]>>]
    BY <1>4 DEF Recursive
  <2>2. \A j \in 1 .. L : step[<<j, f[j - 1]>>] = Add(j, f[j - 1])
    <3>1. \A j \in 1 .. L : j - 1 \in 0 .. L
      BY <1>1
    <3>2. QED
      BY <1>3, <1>5, <3>1
  <2>3. \A j \in 0 .. L : j # 0 => j \in 1 .. L
    BY <1>1
  <2>4. \A j \in 0 .. L : f[j] = IF j = 0 THEN <<>> ELSE Add(j, f[j - 1])
    BY <2>1, <2>2, <2>3
  <2>5. QED
    BY <1>5, <2>4
<1>7. K = [i \in 0 .. L |-> IF i = 0 THEN <<>> ELSE Add(i, K[i - 1])]
  BY <1>2, <1>6
<1>8. K[0] = <<>> /\ \A i \in 1 .. L : K[i] = Add(i, K[i - 1])
  BY <1>1, <1>7
<1>9. \A m \in 0 .. L : K[m] \in Seq(Datum)
  <2> DEFINE T == {m \in Nat : m <= L /\ K[m] \notin Seq(Datum)}
  <2> SUFFICES ASSUME T # {} PROVE FALSE
    BY <1>1
  <2>1. PICK x \in T : \A y \in T : x <= y
    BY LeastNatural
  <2>2. x # 0
    BY <1>1, <1>8, <2>1
  <2>3. x - 1 \in Nat /\ x - 1 <= L /\ ~(x <= x - 1) /\ x \in 1 .. L
    BY <1>1, <2>1, <2>2
  <2>4. K[x - 1] \in Seq(Datum)
    BY <2>1, <2>3
  <2>5. K[x] \in Seq(Datum)
    BY <1>3, <1>8, <2>3, <2>4
  <2>6. QED
    BY <2>1, <2>5
<1>10. K \in [0 .. L -> Seq(Datum)]
  <2>1. DOMAIN K = 0 .. L /\ K = [i \in 0 .. L |-> K[i]]
    BY <1>7
  <2>2. QED
    BY <1>9, <2>1
<1>11. QED
  BY <1>8, <1>10 DEF K, L, Add

(* A stretch without deleted elements is kept as it is.                    *)
RunOf(K, s, x, d, n) ==
    /\ Len(K[d]) = n + (d - x)
    /\ \A i \in 1 .. n : K[d][i] = K[x][i]
    /\ \A i \in 1 .. d - x : K[d][n + i] = s[x + i]
Without(idx, x, d) == x <= d /\ \A j \in x .. d - 1 : j \notin Range(idx)

LEMMA KeptRun ==
    ASSUME NEW s \in Seq(Datum), NEW idx, NEW x \in Nat, NEW d \in Nat, d <= Len(s),
           Without(idx, x, d), NEW K, K = Kept(s, idx), NEW n \in Nat, n = Len(K[x])
    PROVE  RunOf(K, s, x, d, n)
<1> DEFINE Run(m) == /\ Len(K[m]) = n + (m - x)
                     /\ \A i \in 1 .. n : K[m][i] = K[x][i]
                     /\ \A i \in 1 .. m - x : K[m][n + i] = s[x + i]
           T == {m \in Nat : x <= m /\ m <= d /\ ~Run(m)}
<1>1. /\ Len(s) \in Nat /\ \A m \in 0 .. Len(s) : K[m] \in Seq(Datum)
      /\ \A i \in 1 .. Len(s) : K[i] = IF i - 1 \in Range(idx) THEN K[i - 1] ELSE Append(K[i - 1], s[i])
  BY KeptIs
<1> SUFFICES ASSUME T # {} PROVE FALSE
  <2>1. ASSUME T = {} PROVE Run(d)
    <3> HIDE DEF Run
    <3>1. QED
      BY <2>1 DEF Without
  <2>2. QED
    BY <2>1 DEF RunOf
<1>2. PICK m \in T : \A y \in T : m <= y
  BY LeastNatural
<1>3. m # x
  BY <1>2
<1>4. /\ m \in Nat /\ m - 1 \in Nat /\ x <= m - 1 /\ m - 1 <= d /\ ~(m <= m - 1) /\ m <= d
      /\ m \in 1 .. Len(s) /\ m - 1 \in x .. d - 1 /\ m - 1 \in 0 .. Len(s) /\ m > x
  BY <1>1, <1>2, <1>3
<1> HIDE DEF Run
<1>5. Run(m - 1)
  BY <1>2, <1>4
<1>6. K[m] = Append(K[m - 1], s[m]) /\ K[m - 1] \in Seq(Datum) /\ s[m] \in Datum
  <2>1. m - 1 \notin Range(idx)
    BY <1>4 DEF Without
  <2>2. K[m] = Append(K[m - 1], s[m])
    BY <1>1, <1>4, <2>1
  <2>3. s[m] \in Datum
    BY <1>4
  <2>4. QED
    BY <1>1, <1>4, <2>2, <2>3
<1>7. PICK q \in Seq(Datum) : q = K[m - 1]
  BY <1>6
<1>8. PICK l \in Nat : l = Len(q) /\ l = n + (m - 1 - x)
  BY <1>5, <1>7 DEF Run
<1>9. /\ Len(K[m]) = l + 1 /\ K[m][l + 1] = s[m] /\ \A i \in 1 .. l : K[m][i] = q[i]
  <2>1. K[m] = Append(q, s[m])
    BY <1>6, <1>7
  <2>2. PICK z \in Datum : z = s[m]
    BY <1>6
  <2>3. /\ Len(Append(q, z)) = Len(q) + 1 /\ Append(q, z)[Len(q) + 1] = z
        /\ \A i \in 1 .. Len(q) : Append(q, z)[i] = q[i]
    BY AppendProperties
  <2>4. QED
    BY <1>8, <2>1, <2>2, <2>3
<1>10. Len(K[m]) = n + (m - x)
  BY <1>4, <1>8, <1>9
<1>11. \A i \in 1 .. n : K[m][i] = K[x][i]
  <2>1. \A i \in 1 .. n : i \in 1 .. l
    BY <1>4, <1>8
  <2>2. QED
    BY <1>5, <1>7, <1>9, <2>1 DEF Run
<1>12. ASSUME NEW i \in 1 .. m - x PROVE K[m][n + i] = s[x + i]
  <2>1. CASE i = m - x
    <3>1. n + i = l + 1 /\ x + i = m
      BY <1>4, <1>8, <2>1
    <3>2. QED
      BY <1>9, <3>1
  <2>2. CASE i # m - x
    <3>1. i \in 1 .. (m - 1) - x /\ n + i \in 1 .. l
      BY <1>4, <1>8, <2>2
    <3>2. q[n + i] = s[x + i]
      BY <1>5, <1>7, <3>1 DEF Run
    <3>3. QED
      BY <1>9, <3>1, <3>2
  <2>3. QED
    BY <2>1, <2>2
<1>13. Run(m)
  BY <1>10, <1>11, <1>12 DEF Run
<1>14. QED
  BY <1>2, <1>13

-----------------------------------------------------------------------------
(* calc_intervals_s: the intervals to copy are what is kept.               *)

Interval == [dst : Nat, src : Nat, num : Nat]
Acc == [next : Nat, cpos : Nat, cpy : Seq(Interval)]

LEMMA GapIs ==
    ASSUME NEW a \in Acc, NEW d \in Nat
    PROVE  /\ Gap(a, d) \in Acc /\ Gap(a, d).next = d + 1
           /\ d > a.next => /\ Gap(a, d).cpos = a.cpos + (d - a.next)
                            /\ Gap(a, d).cpy = Append(a.cpy, [dst |-> a.cpos, src |-> a.next,
                                                              num |-> d - a.next])
           /\ ~(d > a.next) => Gap(a, d).cpos = a.cpos /\ Gap(a, d).cpy = a.cpy
<1>1. a.next \in Nat /\ a.cpos \in Nat /\ a.cpy \in Seq(Interval)
      /\ a = [next |-> a.next, cpos |-> a.cpos, cpy |-> a.cpy]
  BY DEF Acc
<1>2. CASE d > a.next
  <2> DEFINE e == [dst |-> a.cpos, src |-> a.next, num |-> d - a.next]
  <2>1. d - a.next \in Nat /\ a.cpos + (d - a.next) \in Nat /\ d + 1 \in Nat
    BY <1>1, <1>2
  <2>2. e \in Interval
    BY <1>1, <2>1 DEF Interval
  <2>3. Gap(a, d) = [next |-> d + 1, cpos |-> a.cpos + (d - a.next), cpy |-> Append(a.cpy, e)]
    BY <1>2 DEF Gap
  <2> HIDE DEF e
  <2>4. Append(a.cpy, e) \in Seq(Interval)
    BY <1>1, <2>2
  <2>5. QED
    BY <1>2, <2>1, <2>3, <2>4 DEF Acc, e
<1>3. CASE ~(d > a.next)
  <2>1. Gap(a, d) = [a EXCEPT !.next = d + 1]
    BY <1>3 DEF Gap
  <2>2. Gap(a, d) = [next |-> d + 1, cpos |-> a.cpos, cpy |-> a.cpy] /\ d + 1 \in Nat
    BY <1>1, <2>1
  <2>3. QED
    BY <1>1, <1>3, <2>2 DEF Acc
<1>4. QED
  BY <1>2, <1>3

LEMMA ScanIs ==
    ASSUME NEW n \in Nat, NEW skip \in [1 .. n -> Nat]
    PROVE  /\ Len(skip) = n
           /\ \A i \in 0 .. n : Scan(skip)[i] \in Acc
           /\ Scan(skip)[0] = [next |-> 0, cpos |-> 0, cpy |-> <<>>]
           /\ \A i \in 1 .. n : Scan(skip)[i] = Gap(Scan(skip)[i - 1], skip[i])
<1> DEFINE base == [next |-> 0, cpos |-> 0, cpy |-> <<>>]
           step == [x \in (1 .. n) \X Acc |-> Gap(x[2], skip[x[1]])]
           K == Scan(skip)
<1>1. Len(skip) = n /\ base \in Acc /\ \A i \in 1 .. n : skip[i] \in Nat
  BY DEF Acc
<1>2. K = CHOOSE f : f = [i \in 0 .. Len(skip) |-> IF i = 0 THEN base ELSE Gap(f[i - 1], skip[i])]
  BY DEF Scan
<1> HIDE DEF K, base
<1>3. \A i \in 1 .. n : \A a \in Acc : step[<<i, a>>] = Gap(a, skip[i]) /\ Gap(a, skip[i]) \in Acc
  BY <1>1, GapIs
<1> HIDE DEF step
<1>s. \A i \in 1 .. n : \A a \in Acc : step[<<i, a>>] \in Acc
  BY <1>3
<1>4. PICK f : Recursive(f, n, base, step)
  <2>1. \E f : Recursive(f, n, base, step)
    BY <1>1, <1>s, RecursionExists
  <2>2. QED
    BY <2>1
<1>5. f \in [0 .. n -> Acc]
  BY <1>1, <1>s, <1>4, RecursionType
<1>6. f = [i \in 0 .. n |-> IF i = 0 THEN base ELSE Gap(f[i - 1], skip[i])]
  <2>1. \A j \in 0 .. n : f[j] = IF j = 0 THEN base ELSE step[<<j, f[j - 1]>>]
    BY <1>4 DEF Recursive
  <2>2. \A j \in 1 .. n : step[<<j, f[j - 1]>>] = Gap(f[j - 1], skip[j])
    <3>1. \A j \in 1 .. n : j - 1 \in 0 .. n
      OBVIOUS
    <3>2. QED
      BY <1>3, <1>5, <3>1
  <2>3. \A j \in 0 .. n : j # 0 => j \in 1 .. n
    OBVIOUS
  <2>4. \A j \in 0 .. n : f[j] = IF j = 0 THEN base ELSE Gap(f[j - 1], skip[j])
    BY <2>1, <2>2, <2>3
  <2>5. QED
    BY <1>5, <2>4
<1>7. K = [i \in 0 .. n |-> IF i = 0 THEN base ELSE Gap(K[i - 1], skip[i])]
  BY <1>1, <1>2, <1>6
<1>8. K[0] = base /\ \A i \in 1 .. n : K[i] = Gap(K[i - 1], skip[i])
  BY <1>7
<1>9. \A m \in 0 .. n : K[m] \in Acc
  <2> DEFINE T == {m \in Nat : m <= n /\ K[m] \notin Acc}
  <2> SUFFICES ASSUME T # {} PROVE FALSE
    OBVIOUS
  <2>1. PICK x \in T : \A y \in T : x <= y
    BY LeastNatural
  <2>2. x # 0
    BY <1>1, <1>8, <2>1
  <2>3. x - 1 \in Nat /\ x - 1 <= n /\ ~(x <= x - 1) /\ x \in 1 .. n
    BY <2>1, <2>2
  <2>4. K[x - 1] \in Acc
    BY <2>1, <2>3
  <2>5. K[x] \in Acc
    BY <1>3, <1>8, <2>3, <2>4
  <2>6. QED
    BY <2>1, <2>5
<1>10. QED
  BY <1>1, <1>8, <1>9 DEF K, base

(* After the first m elements, the intervals cpy have filled cpos places   *)
(* with exactly the elements that are kept of them.                        *)
Within(i, c) == c.dst < i /\ i <= c.dst + c.num
Partial(cpos, cpy, s, idx, m) ==
    /\ cpos \in Nat /\ cpos = Len(Kept(s, idx)[m]) /\ cpos <= m
    /\ \A i \in 1 .. cpos : \E c \in Range(cpy) : Within(i, c)
    /\ \A c \in Range(cpy) :
          /\ c \in Interval /\ c.dst + c.num <= cpos /\ c.src + c.num <= m
          /\ \A i \in 1 .. cpos : Within(i, c) => Kept(s, idx)[m][i] = s[i - c.dst + c.src]

LEMMA PartialGap ==
    ASSUME NEW s \in Seq(Datum), NEW idx, NEW a \in Acc, NEW d \in Nat, d > a.next, d <= Len(s),
           \A j \in a.next .. d - 1 : j \notin Range(idx),
           Partial(a.cpos, a.cpy, s, idx, a.next)
    PROVE  Partial(Gap(a, d).cpos, Gap(a, d).cpy, s, idx, d)
<1>1. PICK x \in Nat, n \in Nat, cpy \in Seq(Interval) : x = a.next /\ n = a.cpos /\ cpy = a.cpy
  BY DEF Acc
<1>2. PICK K : K = Kept(s, idx)
  OBVIOUS
<1>3. /\ n = Len(K[x]) /\ n <= x /\ d - x \in Nat /\ x <= d
      /\ \A i \in 1 .. n : \E c \in Range(cpy) : Within(i, c)
      /\ \A c \in Range(cpy) :
            /\ c \in Interval /\ c.dst + c.num <= n /\ c.src + c.num <= x
            /\ \A i \in 1 .. n : Within(i, c) => K[x][i] = s[i - c.dst + c.src]
  BY <1>1, <1>2 DEF Partial
<1>4. /\ Len(K[d]) = n + (d - x)
      /\ \A i \in 1 .. n : K[d][i] = K[x][i]
      /\ \A i \in 1 .. d - x : K[d][n + i] = s[x + i]
  <2>1. Without(idx, x, d)
    BY <1>1, <1>3 DEF Without
  <2>2. K = Kept(s, idx) /\ n = Len(K[x])
    BY <1>2, <1>3
  <2>3. RunOf(K, s, x, d, n)
    BY <2>1, <2>2, KeptRun
  <2>4. QED
    BY <2>3 DEF RunOf
<1> DEFINE e == [dst |-> n, src |-> x, num |-> d - x]
           N == n + (d - x)
<1>5. e \in Interval /\ e.dst = n /\ e.src = x /\ e.num = d - x
  BY <1>3 DEF Interval
<1>6. Gap(a, d).cpos = N /\ Gap(a, d).cpy = Append(cpy, e)
  BY <1>1, GapIs
<1> HIDE DEF e
<1>7. \A c : c \in Range(Append(cpy, e)) <=> c \in Range(cpy) \/ c = e
  <2>1. /\ Len(Append(cpy, e)) = Len(cpy) + 1 /\ Append(cpy, e)[Len(cpy) + 1] = e
        /\ \A i \in 1 .. Len(cpy) : Append(cpy, e)[i] = cpy[i]
        /\ Append(cpy, e) \in Seq(Interval)
    BY <1>5, AppendProperties
  <2>2. PICK l \in Nat : l = Len(cpy)
    OBVIOUS
  <2>3. DOMAIN cpy = 1 .. l /\ DOMAIN Append(cpy, e) = 1 .. l + 1
    BY <2>1, <2>2
  <2>4. \A i \in 1 .. l + 1 : i \in 1 .. l \/ i = l + 1
    OBVIOUS
  <2>5. l + 1 \in 1 .. l + 1 /\ \A i \in 1 .. l : i \in 1 .. l + 1
    OBVIOUS
  <2>6. QED
    BY <2>1, <2>2, <2>3, <2>4, <2>5 DEF Range
<1>8. N \in Nat /\ N <= d /\ \A i \in 1 .. N : i \in 1 .. n \/ (i - n \in 1 .. d - x /\ n + (i - n) = i)
  BY <1>3
<1>9. ASSUME NEW i \in 1 .. N PROVE \E c \in Range(Append(cpy, e)) : Within(i, c)
  <2>1. CASE i \in 1 .. n
    BY <1>3, <1>7, <2>1
  <2>2. CASE i - n \in 1 .. d - x
    <3>1. Within(i, e)
      BY <1>3, <1>5, <2>2 DEF Within
    <3>2. QED
      BY <1>7, <3>1
  <2>3. QED
    BY <1>8, <2>1, <2>2
<1>10. ASSUME NEW c \in Range(Append(cpy, e))
       PROVE  /\ c \in Interval /\ c.dst + c.num <= N /\ c.src + c.num <= d
              /\ \A i \in 1 .. N : Within(i, c) => K[d][i] = s[i - c.dst + c.src]
  <2>1. CASE c \in Range(cpy)
    <3>1. /\ c \in Interval /\ c.dst + c.num <= n /\ c.src + c.num <= x
          /\ \A i \in 1 .. n : Within(i, c) => K[x][i] = s[i - c.dst + c.src]
      BY <1>3, <2>1
    <3>2. c.dst \in Nat /\ c.src \in Nat /\ c.num \in Nat
      BY <3>1 DEF Interval
    <3>3. c.dst + c.num <= N /\ c.src + c.num <= d
      BY <1>3, <3>1, <3>2
    <3>4. \A i \in 1 .. N : Within(i, c) => i \in 1 .. n
      BY <1>3, <3>1, <3>2 DEF Within
    <3>5. QED
      BY <1>4, <3>1, <3>3, <3>4
  <2>2. CASE c = e
    <3>1. c.dst + c.num <= N /\ c.src + c.num <= d
      BY <1>3, <1>5, <2>2
    <3>2. ASSUME NEW i \in 1 .. N, Within(i, c) PROVE K[d][i] = s[i - c.dst + c.src]
      <4>1. i - n \in 1 .. d - x /\ n + (i - n) = i /\ i - n + x = x + (i - n)
        BY <1>3, <1>5, <2>2, <3>2 DEF Within
      <4>2. K[d][n + (i - n)] = s[x + (i - n)]
        BY <1>4, <4>1
      <4>3. QED
        BY <1>5, <2>2, <4>1, <4>2
    <3>3. QED
      BY <1>5, <2>2, <3>1, <3>2
  <2>3. QED
    BY <1>7, <2>1, <2>2
<1> HIDE DEF N
<1>11. N = Len(K[d])
  BY <1>4 DEF N
<1>12. QED
  BY <1>2, <1>6, <1>8, <1>9, <1>10, <1>11 DEF Partial

(* A deleted element adds nothing.                                         *)
LEMMA PartialSkip ==
    ASSUME NEW s \in Seq(Datum), NEW idx, NEW m \in Nat, m < Len(s), m \in Range(idx),
           NEW cpos, NEW cpy, Partial(cpos, cpy, s, idx, m)
    PROVE  Partial(cpos, cpy, s, idx, m + 1)
<1>1. m + 1 \in 1 .. Len(s) /\ (m + 1) - 1 = m
  OBVIOUS
<1>2. Kept(s, idx)[m + 1] = Kept(s, idx)[m]
  BY <1>1, KeptIs
<1>3. \A c \in Range(cpy) : c \in Interval /\ c.src + c.num <= m => c.src + c.num <= m + 1
  BY DEF Interval
<1>4. cpos \in Nat /\ cpos <= m => cpos <= m + 1
  OBVIOUS
<1>5. QED
  BY <1>2, <1>3, <1>4 DEF Partial

(* Ascending indices that list exactly those of idx.                       *)
Ascending(skip, n, idx) == 
    /\ \A i, j \in 1 .. n : i < j => skip[i] <= skip[j]
    /\ \A x : x \in Range(idx) <=> \E j \in 1 .. n : x = skip[j]

LEMMA ScanPartial ==
    ASSUME NEW s \in Seq(Datum), NEW idx, NEW n \in Nat, NEW skip \in [1 .. n -> 0 .. Len(s) - 1],
           Ascending(skip, n, idx), NEW A, A = Scan(skip)
    PROVE  \A i \in 0 .. n : /\ Partial(A[i].cpos, A[i].cpy, s, idx, A[i].next)
                             /\ A[i].next = IF i = 0 THEN 0 ELSE skip[i] + 1
<1>1. /\ \A i \in 0 .. n : A[i] \in Acc
      /\ A[0] = [next |-> 0, cpos |-> 0, cpy |-> <<>>]
      /\ \A i \in 1 .. n : A[i] = Gap(A[i - 1], skip[i])
  <2>1. skip \in [1 .. n -> Nat]
    OBVIOUS
  <2>2. QED
    BY <2>1, ScanIs
<1> DEFINE Upto(i) == /\ Partial(A[i].cpos, A[i].cpy, s, idx, A[i].next)
                      /\ A[i].next = IF i = 0 THEN 0 ELSE skip[i] + 1
           T == {i \in Nat : i <= n /\ ~Upto(i)}
<1> HIDE DEF Upto
<1> SUFFICES ASSUME T # {} PROVE FALSE
  <2>1. ASSUME T = {} PROVE \A i \in 0 .. n : Upto(i)
    BY <2>1
  <2>2. QED
    BY <2>1 DEF Upto
<1>2. PICK i \in T : \A y \in T : i <= y
  BY LeastNatural
<1>3. i # 0
  <2>1. A[0].next = 0 /\ A[0].cpos = 0 /\ A[0].cpy = <<>> /\ Range(<<>>) = {}
    BY <1>1 DEF Range
  <2>2. Kept(s, idx)[0] = <<>> /\ Len(<<>>) = 0
    BY KeptIs
  <2>3. Partial(0, <<>>, s, idx, 0)
    BY <2>1, <2>2 DEF Partial
  <2>4. Upto(0)
    BY <2>1, <2>3 DEF Upto
  <2>5. QED
    BY <1>2, <2>4
<1>4. i \in Nat /\ i - 1 \in Nat /\ i - 1 <= n /\ ~(i <= i - 1) /\ i \in 1 .. n /\ i - 1 \in 0 .. n
  BY <1>2, <1>3
<1>5. Upto(i - 1)
  BY <1>2, <1>4
<1>6. PICK a \in Acc : a = A[i - 1]
  BY <1>1, <1>4
<1>7. PICK d \in Nat : d = skip[i] /\ d < Len(s) /\ d <= Len(s)
  <2>1. skip[i] \in 0 .. Len(s) - 1 /\ Len(s) \in Nat
    BY <1>4
  <2>2. skip[i] \in Nat /\ skip[i] < Len(s) /\ skip[i] <= Len(s)
    BY <2>1
  <2>3. QED
    BY <2>2
<1>8. A[i] = Gap(a, d) /\ d \in Range(idx)
  BY <1>1, <1>4, <1>6, <1>7 DEF Ascending
<1>9. Partial(a.cpos, a.cpy, s, idx, a.next) /\ a.next = (IF i - 1 = 0 THEN 0 ELSE skip[i - 1] + 1)
      /\ a.next \in Nat
  BY <1>5, <1>6 DEF Upto, Acc
<1>10. Gap(a, d).next = d + 1
  BY GapIs
<1>11. CASE d > a.next
  <2>1. ASSUME NEW j \in a.next .. d - 1, j \in Range(idx) PROVE FALSE
    <3>1. PICK h \in 1 .. n : j = skip[h]
      BY <2>1 DEF Ascending
    <3>2. j \in Nat /\ a.next <= j /\ j < d /\ h \in Nat
      BY <1>9
    <3>3. CASE h >= i
      <4>1. h = i \/ i < h
        BY <1>4, <3>2, <3>3
      <4>2. d <= j
        BY <1>4, <1>7, <3>1, <3>2, <4>1 DEF Ascending
      <4>3. QED
        BY <3>2, <4>2
    <3>4. CASE ~(h >= i)
      <4>1. i - 1 # 0 /\ i - 1 \in 1 .. n /\ (h = i - 1 \/ h < i - 1)
        BY <1>4, <3>2, <3>4
      <4>2. skip[i - 1] \in Nat
        BY <4>1
      <4>3. j <= skip[i - 1]
        BY <3>1, <3>2, <4>1, <4>2 DEF Ascending
      <4>4. a.next = skip[i - 1] + 1
        BY <1>9, <4>1
      <4>5. QED
        BY <3>2, <4>2, <4>3, <4>4
    <3>5. QED
      BY <3>3, <3>4
  <2>2. Partial(Gap(a, d).cpos, Gap(a, d).cpy, s, idx, d)
    BY <1>7, <1>9, <1>11, <2>1, PartialGap
  <2>3. Partial(Gap(a, d).cpos, Gap(a, d).cpy, s, idx, d + 1)
    BY <1>7, <1>8, <2>2, PartialSkip
  <2>4. Upto(i)
    BY <1>3, <1>7, <1>8, <1>10, <2>3 DEF Upto
  <2>5. QED
    BY <1>2, <2>4
<1>12. CASE ~(d > a.next)
  <2>1. Gap(a, d).cpos = a.cpos /\ Gap(a, d).cpy = a.cpy
    BY <1>12, GapIs
  <2>2. a.next = d \/ a.next = d + 1
    <3>1. CASE i - 1 = 0
      BY <1>9, <1>12, <3>1
    <3>2. CASE i - 1 # 0
      <4>1. i - 1 \in 1 .. n /\ i - 1 < i
        BY <1>4, <3>2
      <4>2. skip[i - 1] <= d /\ skip[i - 1] \in Nat
        BY <1>4, <1>7, <4>1 DEF Ascending
      <4>3. PICK k \in Nat : k <= d /\ a.next = k + 1
        BY <1>9, <3>2, <4>2
      <4>4. ~(d > k + 1)
        BY <1>12, <4>3
      <4>5. d = k \/ d = k + 1
        BY <4>3, <4>4, d \in Nat
      <4>6. QED
        BY <4>3, <4>5
    <3>3. QED
      BY <3>1, <3>2
  <2>3. Partial(a.cpos, a.cpy, s, idx, d + 1)
    BY <1>7, <1>8, <1>9, <2>2, PartialSkip
  <2>4. Upto(i)
    BY <1>3, <1>7, <1>8, <1>10, <2>1, <2>3 DEF Upto
  <2>5. QED
    BY <1>2, <2>4
<1>13. QED
  BY <1>11, <1>12

(* All of it: what the intervals leave out is what idx lists.              *)
LEMMA CutPartial ==
    ASSUME NEW s \in Seq(Datum), NEW idx, NEW n \in Nat, NEW skip \in [1 .. n -> 0 .. Len(s) - 1],
           Ascending(skip, n, idx), NEW c, c = CalcIntervals(skip, Len(s))
    PROVE  c \in Acc /\ Partial(c.cpos, c.cpy, s, idx, Len(s))
<1>1. PICK tail \in Nat : tail = Len(s)
  OBVIOUS
<1>2. skip \in [1 .. n -> Nat]
  OBVIOUS
<1>3. PICK a \in Acc : a = Scan(skip)[n] /\ Len(skip) = n
  BY <1>2, ScanIs
<1>4. /\ Partial(a.cpos, a.cpy, s, idx, a.next)
      /\ a.next = IF n = 0 THEN 0 ELSE skip[n] + 1
  BY <1>3, ScanPartial
<1>5. c = IF a.next < tail THEN Gap(a, tail) ELSE a
  BY <1>1, <1>3 DEF CalcIntervals
<1>6. a.next \in Nat /\ a.next <= tail
  <2>1. CASE n = 0
    BY <1>4, <2>1
  <2>2. CASE n # 0
    <3>1. n \in 1 .. n
      BY <2>2
    <3>2. skip[n] \in 0 .. tail - 1
      BY <1>1, <3>1
    <3>3. QED
      BY <1>1, <1>4, <2>2, <3>2
  <2>3. QED
    BY <2>1, <2>2
<1>7. CASE a.next < tail
  <2>1. ASSUME NEW j \in a.next .. tail - 1, j \in Range(idx) PROVE FALSE
    <3>1. PICK h \in 1 .. n : j = skip[h]
      BY <2>1 DEF Ascending
    <3>2. n # 0 /\ n \in 1 .. n /\ (h = n \/ h < n) /\ j \in Nat /\ a.next <= j
      BY <1>6
    <3>3. skip[n] \in Nat /\ a.next = skip[n] + 1
      BY <1>4, <3>2
    <3>4. j <= skip[n]
      BY <3>1, <3>2, <3>3 DEF Ascending
    <3>5. QED
      BY <3>2, <3>3, <3>4
  <2>2. c = Gap(a, tail) /\ tail > a.next
    BY <1>5, <1>6, <1>7
  <2>3. Partial(Gap(a, tail).cpos, Gap(a, tail).cpy, s, idx, tail)
    BY <1>1, <1>4, <2>1, <2>2, PartialGap
  <2>4. QED
    BY <1>1, <2>2, <2>3, GapIs
<1>8. CASE ~(a.next < tail)
  <2>1. a.next = tail /\ c = a
    BY <1>5, <1>6, <1>8
  <2>2. QED
    BY <1>1, <1>4, <2>1
<1>9. QED
  BY <1>7, <1>8

(* Sorting lists the same indices in ascending order.                      *)
LEMMA SortingsAscend ==
    ASSUME NEW m \in Nat, NEW S, S \subseteq Nat, NEW idx \in [1 .. m -> S], NEW skip \in Sortings(idx)
    PROVE  skip \in [1 .. m -> S] /\ Ascending(skip, m, idx)
<1>1. DOMAIN idx = 1 .. m
  OBVIOUS
<1>2. PICK p \in Bijection(1 .. m, 1 .. m) :
         /\ \A i, j \in 1 .. m : i < j => idx[p[i]] <= idx[p[j]]
         /\ skip = [i \in 1 .. m |-> idx[p[i]]]
  BY <1>1 DEF Sortings
<1>3. p \in [1 .. m -> 1 .. m] /\ \A t \in 1 .. m : \E i \in 1 .. m : p[i] = t
  BY DEF Bijection, Injection, Surjection
<1>4. skip \in [1 .. m -> S] /\ \A i \in 1 .. m : skip[i] = idx[p[i]]
  BY <1>2, <1>3
<1>5. \A i, j \in 1 .. m : i < j => skip[i] <= skip[j]
  BY <1>2, <1>4
<1>6. \A x : x \in Range(idx) <=> \E j \in 1 .. m : x = skip[j]
  BY <1>1, <1>3, <1>4 DEF Range
<1>7. QED
  BY <1>4, <1>5, <1>6 DEF Ascending

(* copy_intervals: each element that is kept is copied from where it was.  *)
CopyOf(c, src, s, idx, cpos, n) ==
    /\ c \in Seq(Datum) /\ Len(c) = n
    /\ \A i \in 1 .. cpos : \E h \in 1 .. Len(s) : c[i] = src[h] /\ Deleted(s, idx)[i] = s[h]

LEMMA CopyIs ==
    ASSUME NEW s \in Seq(Datum), NEW idx, NEW cpos, NEW cpy, Partial(cpos, cpy, s, idx, Len(s)),
           NEW n \in Nat, Len(s) <= n, NEW src \in Seq(Datum), Len(src) >= n,
           NEW c, c = CopyIntervals(cpy, src, n)
    PROVE  CopyOf(c, src, s, idx, cpos, n)
<1>1. PICK used, K : used \in Nat /\ used = Len(s) /\ K = Kept(s, idx)[used]
  OBVIOUS
<1>2. /\ cpos \in Nat /\ cpos = Len(K) /\ cpos <= used
      /\ \A i \in 1 .. cpos : \E e \in Range(cpy) : Within(i, e)
      /\ \A e \in Range(cpy) :
            /\ e \in Interval /\ e.dst + e.num <= cpos /\ e.src + e.num <= used
            /\ \A i \in 1 .. cpos : Within(i, e) => K[i] = s[i - e.dst + e.src]
  BY <1>1 DEF Partial
<1>3. ASSUME NEW i \in 1 .. n
      PROVE  /\ c[i] \in Datum
             /\ i <= cpos => \E h \in 1 .. used : c[i] = src[h] /\ K[i] = s[h]
  <2>1. CASE \E j \in DOMAIN cpy : Within(i, cpy[j])
    <3>1. PICK e : e \in Range(cpy) /\ Within(i, e) /\ c[i] = src[i - e.dst + e.src]
      <4> DEFINE e == CHOOSE e \in Range(cpy) : e.dst < i /\ i <= e.dst + e.num
      <4>1. \E x \in Range(cpy) : x.dst < i /\ i <= x.dst + x.num
        BY <2>1 DEF Range, Within
      <4>2. e \in Range(cpy) /\ e.dst < i /\ i <= e.dst + e.num
        BY <4>1
      <4>3. c[i] = src[i - e.dst + e.src]
        BY <2>1 DEF CopyIntervals, Within
      <4> HIDE DEF e
      <4>4. QED
        BY <4>2, <4>3 DEF Within
    <3>2. /\ e \in Interval /\ e.dst + e.num <= cpos /\ e.src + e.num <= used
          /\ \A k \in 1 .. cpos : Within(k, e) => K[k] = s[k - e.dst + e.src]
      BY <1>2, <3>1
    <3>3. e.dst \in Nat /\ e.src \in Nat /\ e.num \in Nat /\ e.dst < i /\ i <= e.dst + e.num
      BY <3>1, <3>2 DEF Interval, Within
    <3>4. i - e.dst + e.src \in 1 .. used
      BY <1>1, <3>2, <3>3, SMTT(30)
    <3>5. i - e.dst + e.src \in 1 .. Len(src) /\ i \in 1 .. cpos
      BY <1>1, <1>2, <3>2, <3>3, <3>4
    <3>6. src[i - e.dst + e.src] \in Datum
      BY <3>5
    <3>7. K[i] = s[i - e.dst + e.src]
      BY <3>1, <3>2, <3>5
    <3>8. QED
      BY <3>1, <3>4, <3>6, <3>7
  <2>2. CASE ~\E j \in DOMAIN cpy : Within(i, cpy[j])
    <3>1. c[i] = Garbage
      BY <2>2 DEF CopyIntervals, Within
    <3>2. ~(i <= cpos)
      <4>1. \A e \in Range(cpy) : ~Within(i, e)
        BY <2>2 DEF Range
      <4>2. QED
        BY <1>2, <4>1
    <3>3. QED
      BY <3>1, <3>2 DEF Datum
  <2>3. QED
    BY <2>1, <2>2
<1>4. c \in [1 .. n -> Datum]
  <2>1. DOMAIN c = 1 .. n /\ c = [i \in 1 .. n |-> c[i]]
    BY DEF CopyIntervals
  <2>2. QED
    BY <1>3, <2>1
<1>5. c \in Seq(Datum) /\ Len(c) = n
  BY <1>4
<1>6. \A i \in 1 .. cpos : i \in 1 .. n /\ i <= cpos
  BY <1>1, <1>2
<1>7. QED
  BY <1>1, <1>3, <1>5, <1>6 DEF Deleted, CopyOf

-----------------------------------------------------------------------------
(* The inductive invariant.                                                *)

HeapType == [Frames -> Seq(Seq(Datum))]

TypeInv ==
    /\ current \in Header
    /\ heap \in HeapType
    /\ depth \in Frames
    /\ snap \in [Frames -> Header \cup {NoSnap}]

(* p leads to a band with room for n_alloc elements that holds val, in     *)
(* frame k or an outer one of the memory h.                                *)
BandIn(h, p, n_alloc, n_used, val, k) ==
    /\ p \in Pointer /\ p[1] <= k /\ p[2] <= Len(h[p[1]])
    /\ Len(h[p[1]][p[2]]) >= n_alloc
    /\ Len(val) = n_used
    /\ \A i \in 1 .. n_used : val[i] # Garbage => h[p[1]][p[2]][i] = val[i]

(* A header that can be used in frame k: its bands are there and hold what *)
(* was stored in them.                                                     *)
Good(h, v, k) ==
    /\ v \in Header /\ v.n_used <= v.n_alloc
    /\ \A b \in Band : v.bands[b] # NULL =>
          BandIn(h, v.bands[b], v.n_alloc, v.n_used, v.val[b], k)

(* Two headers share a place only as the same band of the vector.          *)
Apart(v, w) == \A b, c \in Band : v.bands[b] # NULL /\ v.bands[b] = w.bands[c] => b = c

IInv ==
    /\ TypeInv
    /\ \A k \in Frames : k > depth => snap[k] = NoSnap
    /\ Good(heap, current, depth) /\ Apart(current, current)
    /\ \A k \in 0 .. depth : snap[k] # NoSnap => /\ Good(heap, snap[k], k)
                                                 /\ Apart(snap[k], current)
                                                 /\ Apart(current, snap[k])
    /\ \A j, k \in 0 .. depth :
          snap[j] # NoSnap /\ snap[k] # NoSnap => Apart(snap[j], snap[k])

LEMMA Safe == IInv => BandsLive /\ VectorsAreValues
<1> SUFFICES ASSUME IInv PROVE BandsLive /\ VectorsAreValues
  OBVIOUS
<1>1. ASSUME NEW v, NEW k, Good(heap, v, k) PROVE Live(v, k) /\ Holds(v)
  BY <1>1 DEF Good, BandIn, Live, Holds, Mem
<1>2. QED
  BY <1>1 DEF IInv, BandsLive, VectorsAreValues

-----------------------------------------------------------------------------
(* What memory does to headers.                                            *)

LEMMA HeaderIs ==
    ASSUME NEW v \in Header
    PROVE  /\ v.n_alloc \in Nat /\ v.n_used \in Nat
           /\ v.bands \in [Band -> Pointer \cup {NULL}] /\ v.val \in [Band -> Seq(Datum)]
           /\ v = [n_alloc |-> v.n_alloc, n_used |-> v.n_used, bands |-> v.bands, val |-> v.val]
BY DEF Header

LEMMA FramesAre ==
    ASSUME NEW d \in Frames
    PROVE  d \in Nat /\ d < NFrame /\ \A k \in 0 .. d : k \in Frames /\ k \in Nat
BY NumbersAssumption DEF Frames

(* A header is still good where its bands are as they were.                *)
LEMMA GoodKept ==
    ASSUME NEW h, NEW g, NEW v, NEW k, Good(h, v, k),
           \A b \in Band : v.bands[b] # NULL =>
              LET p == v.bands[b] IN /\ p[2] <= Len(g[p[1]])
                                     /\ g[p[1]][p[2]] = h[p[1]][p[2]]
    PROVE  Good(g, v, k)
<1>1. ASSUME NEW b \in Band, v.bands[b] # NULL
      PROVE  BandIn(g, v.bands[b], v.n_alloc, v.n_used, v.val[b], k)
  <2>1. PICK p, val : p = v.bands[b] /\ val = v.val[b]
    OBVIOUS
  <2>2. BandIn(h, p, v.n_alloc, v.n_used, val, k) /\ p[2] <= Len(g[p[1]])
        /\ g[p[1]][p[2]] = h[p[1]][p[2]]
    BY <1>1, <2>1 DEF Good
  <2>3. BandIn(g, p, v.n_alloc, v.n_used, val, k)
    BY <2>2 DEF BandIn
  <2>4. QED
    BY <2>1, <2>3
<1>2. QED
  BY <1>1 DEF Good

LEMMA GoodDeeper ==
    ASSUME NEW h, NEW v, NEW j \in Nat, NEW k \in Nat, j <= k, Good(h, v, j)
    PROVE  Good(h, v, k)
<1>1. ASSUME NEW b \in Band, v.bands[b] # NULL
      PROVE  BandIn(h, v.bands[b], v.n_alloc, v.n_used, v.val[b], k)
  <2>1. PICK p, val : p = v.bands[b] /\ val = v.val[b]
    OBVIOUS
  <2>2. BandIn(h, p, v.n_alloc, v.n_used, val, j)
    BY <1>1, <2>1 DEF Good
  <2>3. p[1] \in Nat
    BY <2>2, NumbersAssumption DEF BandIn, Pointer, Frames
  <2>4. BandIn(h, p, v.n_alloc, v.n_used, val, k)
    BY <2>2, <2>3 DEF BandIn
  <2>5. QED
    BY <2>1, <2>4
<1>2. QED
  BY <1>1 DEF Good

(* New bands at the end of frame d.                                        *)
Extends(g, h, d, bs) ==
    /\ g \in HeapType
    /\ Len(g[d]) = Len(h[d]) + Len(bs)
    /\ \A b \in 1 .. Len(bs) : g[d][Len(h[d]) + b] = bs[b]
    /\ \A v, k : Good(h, v, k) => Good(g, v, k)

LEMMA Extended ==
    ASSUME NEW h \in HeapType, NEW d \in Frames, NEW bs \in Seq(Seq(Datum)),
           NEW g, g = [h EXCEPT ![d] = h[d] \o bs]
    PROVE  Extends(g, h, d, bs)
<1>1. PICK q \in Seq(Seq(Datum)) : q = h[d]
  BY DEF HeapType
<1>2. PICK l \in Nat, m \in Nat : l = Len(q) /\ m = Len(bs)
  OBVIOUS
<1>3. q \o bs \in Seq(Seq(Datum)) /\ Len(q \o bs) = l + m
      /\ \A i \in 1 .. l + m : (q \o bs)[i] = IF i <= l THEN q[i] ELSE bs[i - l]
  BY <1>2, ConcatProperties
<1>4. PICK r \in Seq(Seq(Datum)) : r = q \o bs
  BY <1>3
<1>5. g \in HeapType /\ g[d] = r /\ \A k \in Frames : k # d => g[k] = h[k]
  BY <1>1, <1>4 DEF HeapType
<1>6. \A b \in 1 .. m : l + b \in 1 .. l + m /\ ~(l + b <= l) /\ (l + b) - l = b
  OBVIOUS
<1>7. Len(r) = l + m /\ \A b \in 1 .. m : r[l + b] = bs[b]
  BY <1>3, <1>4, <1>6
<1>8. ASSUME NEW v, NEW k, Good(h, v, k) PROVE Good(g, v, k)
  <2>1. ASSUME NEW b \in Band, v.bands[b] # NULL
        PROVE  LET p == v.bands[b] IN p[2] <= Len(g[p[1]]) /\ g[p[1]][p[2]] = h[p[1]][p[2]]
    <3>1. PICK p : p = v.bands[b]
      OBVIOUS
    <3>2. p \in Pointer /\ p[2] <= Len(h[p[1]])
      BY <1>8, <2>1, <3>1 DEF Good, BandIn
    <3>3. p[1] \in Frames /\ p[2] \in Nat \ {0}
      BY <3>2 DEF Pointer
    <3>4. CASE p[1] = d
      <4>1. p[2] <= l /\ p[2] <= l + m /\ p[2] \in 1 .. l + m
        BY <1>1, <1>2, <3>2, <3>3, <3>4
      <4>2. r[p[2]] = q[p[2]]
        BY <1>3, <1>4, <4>1
      <4>3. QED
        BY <1>1, <1>5, <1>7, <3>1, <3>4, <4>1, <4>2
    <3>5. CASE p[1] # d
      BY <1>5, <3>1, <3>2, <3>3, <3>5
    <3>6. QED
      BY <3>4, <3>5
  <2>2. QED
    BY <1>8, <2>1, GoodKept
<1>9. QED
  BY <1>1, <1>2, <1>5, <1>7, <1>8 DEF Extends

(* sim_enter resets the memory of the frame that is entered.               *)
LEMMA Entered ==
    ASSUME NEW h \in HeapType, NEW d \in Nat, d + 1 \in Frames,
           NEW g, g = [h EXCEPT ![d + 1] = <<>>]
    PROVE  /\ g \in HeapType
           /\ \A v : \A k \in Nat : k <= d /\ Good(h, v, k) => Good(g, v, k)
<1>1. g \in HeapType /\ \A k \in Frames : k # d + 1 => g[k] = h[k]
  BY DEF HeapType
<1>2. ASSUME NEW v, NEW k \in Nat, k <= d, Good(h, v, k) PROVE Good(g, v, k)
  <2>1. ASSUME NEW b \in Band, v.bands[b] # NULL
        PROVE  LET p == v.bands[b] IN p[2] <= Len(g[p[1]]) /\ g[p[1]][p[2]] = h[p[1]][p[2]]
    <3>1. PICK p : p = v.bands[b]
      OBVIOUS
    <3>2. p \in Pointer /\ p[1] <= k /\ p[2] <= Len(h[p[1]])
      BY <1>2, <2>1, <3>1 DEF Good, BandIn
    <3>3. p[1] \in Frames /\ p[1] \in Nat
      BY <3>2, NumbersAssumption DEF Pointer, Frames
    <3>4. p[1] # d + 1
      BY <1>2, <3>2, <3>3
    <3>5. QED
      BY <1>1, <3>1, <3>2, <3>3, <3>4
  <2>2. QED
    BY <1>2, <2>1, GoodKept
<1>3. QED
  BY <1>1, <1>2

-----------------------------------------------------------------------------
(* The operations of the program.                                          *)

(* Every band of u is that of v or at a place where h has none yet.        *)
Derived(u, v, h) ==
    \A b \in Band : u.bands[b] # NULL =>
       u.bands[b] = v.bands[b] \/ u.bands[b][2] > Len(h[u.bands[b][1]])

LEMMA DerivedApart ==
    ASSUME NEW h \in HeapType, NEW u \in Header, NEW v, NEW w, NEW k, Derived(u, v, h),
           Good(h, w, k), Apart(v, w), Apart(w, v)
    PROVE  Apart(u, w) /\ Apart(w, u)
<1>1. ASSUME NEW b \in Band, NEW c \in Band, u.bands[b] # NULL, u.bands[b] = w.bands[c]
      PROVE  u.bands[b] = v.bands[b]
  <2>1. PICK p : p = u.bands[b]
    OBVIOUS
  <2>2. p \in Pointer /\ p[2] <= Len(h[p[1]])
    BY <1>1, <2>1 DEF Good, BandIn
  <2>3. p[2] \in Nat /\ Len(h[p[1]]) \in Nat
    <3>1. p[1] \in Frames /\ p[2] \in Nat
      BY <2>2 DEF Pointer
    <3>2. h[p[1]] \in Seq(Seq(Datum))
      BY <3>1 DEF HeapType
    <3>3. QED
      BY <3>1, <3>2
  <2>4. ~(p[2] > Len(h[p[1]]))
    BY <2>2, <2>3
  <2>5. QED
    BY <1>1, <2>1, <2>4 DEF Derived
<1>2. QED
  BY <1>1 DEF Apart

LEMMA OpStep ==
    ASSUME IInv, UNCHANGED <<depth, snap>>, NEW u \in Header, current' = u,
           NEW g \in HeapType, heap' = g, Good(g, u, depth), Apart(u, u),
           Derived(u, current, heap),
           \A k \in 0 .. depth : snap[k] # NoSnap => Good(g, snap[k], k)
    PROVE  IInv'
<1>1. TypeInv'
  BY DEF IInv, TypeInv
<1>2. ASSUME NEW k \in 0 .. depth, snap[k] # NoSnap
      PROVE  Apart(u, snap[k]) /\ Apart(snap[k], u)
  <2>1. PICK w, v, h, S : w = snap[k] /\ v = current /\ h = heap /\ S = snap
    OBVIOUS
  <2>2. Good(h, w, k) /\ Apart(v, w) /\ Apart(w, v)
    BY <1>2, <2>1 DEF IInv
  <2>3. h \in HeapType /\ Derived(u, v, h)
    BY <2>1 DEF IInv, TypeInv
  <2>4. Apart(u, w) /\ Apart(w, u)
    BY <2>2, <2>3, DerivedApart
  <2>5. QED
    BY <2>1, <2>4
<1>3. QED
  BY <1>1, <1>2 DEF IInv

(* Values that do not change in a step: the header and the memory before.  *)
LEMMA Before ==
    ASSUME IInv
    PROVE  \E v \in Header, h \in HeapType, d \in Frames :
              /\ v = current /\ h = heap /\ d = depth
              /\ Good(h, v, d) /\ Apart(v, v)
              /\ \A k \in 0 .. d : snap[k] # NoSnap => Good(h, snap[k], k)
BY DEF IInv, TypeInv

LEMMA UnwrittenIs ==
    ASSUME NEW n \in Nat
    PROVE  /\ Unwritten(n) \in Seq(Datum) /\ Len(Unwritten(n)) = n
           /\ \A i \in 1 .. n : Unwritten(n)[i] = Garbage
BY DEF Unwritten, Datum

LEMMA ClearStep == IInv /\ Clear => IInv'
<1> SUFFICES ASSUME IInv, Clear PROVE IInv'
  OBVIOUS
<1>1. PICK v \in Header, h \in HeapType, d \in Frames :
         /\ v = current /\ h = heap /\ d = depth
         /\ Good(h, v, d) /\ Apart(v, v)
         /\ \A k \in 0 .. d : snap[k] # NoSnap => Good(h, snap[k], k)
  BY Before
<1>2. PICK u : u = Emptied
  OBVIOUS
<1>3. u \in Header /\ u.n_used = 0 /\ u.n_alloc = 0 /\ \A b \in Band : u.bands[b] = NULL
  BY <1>2 DEF Emptied, Header
<1>4. Good(h, u, d) /\ Apart(u, u) /\ Derived(u, v, h)
  BY <1>3 DEF Good, Apart, Derived
<1>5. current' = u /\ heap' = h /\ UNCHANGED <<depth, snap>>
  BY <1>1, <1>2 DEF Clear, Op
<1>6. QED
  BY <1>1, <1>3, <1>4, <1>5, OpStep

LEMMA HeaderSet ==
    ASSUME NEW v \in Header, NEW b \in Band, NEW p, NEW y,
           NEW w, w = [v EXCEPT !.bands[b] = p, !.val[b] = y]
    PROVE  w = [n_alloc |-> v.n_alloc, n_used |-> v.n_used,
                bands |-> [v.bands EXCEPT ![b] = p], val |-> [v.val EXCEPT ![b] = y]]
<1> DEFINE z == [n_alloc |-> v.n_alloc, n_used |-> v.n_used,
                 bands |-> [v.bands EXCEPT ![b] = p], val |-> [v.val EXCEPT ![b] = y]]
           D == {"n_alloc", "n_used", "bands", "val"}
<1>1. DOMAIN v = D
  BY DEF Header
<1>2. DOMAIN w = D /\ w = [i \in D |-> w[i]]
  BY <1>1
<1>3. DOMAIN z = D /\ z = [i \in D |-> z[i]]
  OBVIOUS
<1>4. w.n_alloc = z.n_alloc /\ w.n_used = z.n_used /\ w.bands = z.bands /\ w.val = z.val
  BY <1>1
<1>5. \A i \in D : w[i] = z[i]
  BY <1>4
<1> HIDE DEF z, D
<1>6. w = z
  <2>1. [i \in D |-> w[i]] = [i \in D |-> z[i]]
    BY <1>5
  <2>2. QED
    BY <1>2, <1>3, <2>1, Zenon
<1>7. QED
  BY <1>6 DEF z

LEMMA ClearBandStep == ASSUME NEW b \in Band, IInv, ClearBand(b) PROVE IInv'
<1>1. PICK v \in Header, h \in HeapType, d \in Frames :
         /\ v = current /\ h = heap /\ d = depth
         /\ Good(h, v, d) /\ Apart(v, v)
         /\ \A k \in 0 .. d : snap[k] # NoSnap => Good(h, snap[k], k)
  BY Before
<1>2. PICK u : u = [v EXCEPT !.bands[b] = NULL, !.val[b] = Unwritten(v.n_used)]
  OBVIOUS
<1>3. /\ u \in Header /\ u.n_alloc = v.n_alloc /\ u.n_used = v.n_used /\ u.bands[b] = NULL
      /\ \A c \in Band : c # b => u.bands[c] = v.bands[c] /\ u.val[c] = v.val[c]
  <2>1. v.n_used \in Nat
    BY HeaderIs
  <2>2. PICK y \in Seq(Datum) : y = Unwritten(v.n_used)
    BY <2>1, UnwrittenIs
  <2>3. u = [n_alloc |-> v.n_alloc, n_used |-> v.n_used,
             bands |-> [v.bands EXCEPT ![b] = NULL], val |-> [v.val EXCEPT ![b] = y]]
    <3>1. u = [v EXCEPT !.bands[b] = NULL, !.val[b] = y]
      BY <1>2, <2>2
    <3>2. QED
      BY <3>1, HeaderSet
  <2>4. QED
    BY <2>2, <2>3, HeaderIs DEF Header
<1>4. Good(h, u, d)
  BY <1>1, <1>3 DEF Good
<1>5. Apart(u, u) /\ Derived(u, v, h)
  BY <1>1, <1>3 DEF Apart, Derived
<1>6. current' = u /\ heap' = h /\ UNCHANGED <<depth, snap>>
  BY <1>1, <1>2 DEF ClearBand, Op
<1>7. QED
  BY <1>1, <1>3, <1>4, <1>5, <1>6, OpStep

LEMMA NewBandStep == ASSUME NEW b \in Band, IInv, NewBand(b) PROVE IInv'
<1>1. PICK v \in Header, h \in HeapType, d \in Frames :
         /\ v = current /\ h = heap /\ d = depth
         /\ Good(h, v, d) /\ Apart(v, v)
         /\ \A k \in 0 .. d : snap[k] # NoSnap => Good(h, snap[k], k)
  BY Before
<1>2. v.n_used \in Nat /\ v.n_alloc \in Nat /\ v.n_used <= v.n_alloc
  BY <1>1, HeaderIs DEF Good
<1>3. PICK x \in Seq(Datum), y \in Seq(Datum) : x = Unwritten(v.n_alloc) /\ y = Unwritten(v.n_used)
  BY <1>2, UnwrittenIs
<1>4. /\ Len(x) = v.n_alloc /\ Len(y) = v.n_used /\ \A i \in 1 .. v.n_used : y[i] = Garbage
  BY <1>2, <1>3, UnwrittenIs
<1>5. PICK l \in Nat, q \in Seq(Seq(Datum)) : l = Len(h[d]) /\ q = h[d]
  BY DEF HeapType
<1>6. PICK g : g = [h EXCEPT ![d] = h[d] \o <<x>>]
  OBVIOUS
<1>7. <<x>> \in Seq(Seq(Datum)) /\ Len(<<x>>) = 1 /\ <<x>>[1] = x /\ 1 \in 1 .. 1
  OBVIOUS
<1>8. /\ g \in HeapType /\ Len(g[d]) = l + 1 /\ g[d][l + 1] = x
      /\ \A w, k : Good(h, w, k) => Good(g, w, k)
  <2>1. PICK bs \in Seq(Seq(Datum)) : bs = <<x>>
    BY <1>7
  <2>2. g = [h EXCEPT ![d] = h[d] \o bs]
    BY <1>6, <2>1
  <2>3. Extends(g, h, d, bs)
    BY <2>2, Extended
  <2>4. Len(bs) = 1 /\ bs[1] = x
    BY <1>7, <2>1
  <2>5. QED
    BY <1>5, <1>7, <2>3, <2>4 DEF Extends
<1>9. PICK p \in Pointer : p = <<d, l + 1>> /\ p[1] = d /\ p[2] = l + 1
  <2>1. l + 1 \in Nat \ {0}
    OBVIOUS
  <2>2. <<d, l + 1>> \in Pointer
    BY <2>1 DEF Pointer
  <2>3. QED
    BY <2>2
<1>10. PICK u : u = [v EXCEPT !.bands[b] = p, !.val[b] = y]
  OBVIOUS
<1>11. /\ u \in Header /\ u.n_alloc = v.n_alloc /\ u.n_used = v.n_used
       /\ u.bands[b] = p /\ u.val[b] = y
       /\ \A c \in Band : c # b => u.bands[c] = v.bands[c] /\ u.val[c] = v.val[c]
  <2>1. u = [n_alloc |-> v.n_alloc, n_used |-> v.n_used,
             bands |-> [v.bands EXCEPT ![b] = p], val |-> [v.val EXCEPT ![b] = y]]
    BY <1>10, HeaderSet
  <2>2. QED
    BY <2>1, HeaderIs DEF Header
<1>12. BandIn(g, p, u.n_alloc, u.n_used, y, d)
  <2>1. d <= d
    BY FramesAre
  <2>2. QED
    BY <1>2, <1>4, <1>8, <1>9, <1>11, <2>1 DEF BandIn
<1>13. Good(g, u, d)
  <2>1. Good(g, v, d)
    BY <1>1, <1>8
  <2>2. QED
    BY <1>11, <1>12, <2>1 DEF Good
<1>14. ASSUME NEW c \in Band, v.bands[c] = p, p # NULL PROVE FALSE
  <2>1. p[2] <= Len(h[p[1]])
    BY <1>1, <1>14 DEF Good, BandIn
  <2>2. QED
    BY <1>5, <1>9, <2>1
<1>15. Apart(u, u)
  BY <1>1, <1>11, <1>14, SMTT(30) DEF Apart
<1>16. Derived(u, v, h)
  BY <1>5, <1>9, <1>11 DEF Derived
<1>17. current' = u /\ heap' = g /\ UNCHANGED <<depth, snap>>
  <2>1. Append(q, x) = q \o <<x>>
    BY AppendIsConcat
  <2>2. heap' = g
    BY <1>1, <1>3, <1>5, <1>6, <2>1 DEF NewBand
  <2>3. QED
    BY <1>1, <1>3, <1>5, <1>9, <1>10, <2>2 DEF NewBand, Op
<1>18. QED
  BY <1>1, <1>8, <1>11, <1>13, <1>15, <1>16, <1>17, OpStep

-----------------------------------------------------------------------------
(* Store writes one element of one band.                                   *)

LEMMA SeqSet ==
    ASSUME NEW S, NEW q \in Seq(S), NEW i \in 1 .. Len(q), NEW x \in S,
           NEW r, r = [q EXCEPT ![i] = x]
    PROVE  r \in Seq(S) /\ Len(r) = Len(q) /\ r[i] = x /\ \A j \in 1 .. Len(q) : j # i => r[j] = q[j]
<1>1. PICK n \in Nat : n = Len(q) /\ q \in [1 .. n -> S]
  OBVIOUS
<1>2. r \in [1 .. n -> S] /\ r[i] = x /\ \A j \in 1 .. n : j # i => r[j] = q[j]
  BY <1>1
<1>3. r \in Seq(S) /\ Len(r) = n
  BY <1>2
<1>4. QED
  BY <1>1, <1>2, <1>3

(* The memory g is h with one element of the band at p replaced.           *)
Written(g, h, p, i, x) ==
    /\ \A f \in Frames : Len(g[f]) = Len(h[f])
    /\ \A f \in Frames, j \in Nat \ {0} : j <= Len(h[f]) /\ ~(f = p[1] /\ j = p[2]) => g[f][j] = h[f][j]
    /\ Len(g[p[1]][p[2]]) = Len(h[p[1]][p[2]])
    /\ g[p[1]][p[2]][i] = x
    /\ \A e \in 1 .. Len(h[p[1]][p[2]]) : e # i => g[p[1]][p[2]][e] = h[p[1]][p[2]][e]

LEMMA StoreWrites ==
    ASSUME NEW h \in HeapType, NEW p \in Pointer, p[2] <= Len(h[p[1]]),
           NEW i \in Nat \ {0}, i <= Len(h[p[1]][p[2]]), NEW x \in Datum,
           NEW g, g = [h EXCEPT ![p[1]][p[2]][i] = x]
    PROVE  g \in HeapType /\ Written(g, h, p, i, x)
<1>1. PICK a \in Frames, c \in Nat \ {0} : a = p[1] /\ c = p[2]
  BY DEF Pointer
<1>2. PICK q \in Seq(Seq(Datum)) : q = h[a]
  BY DEF HeapType
<1>3. c \in 1 .. Len(q)
  BY <1>1, <1>2
<1>4. PICK m \in Seq(Datum) : m = q[c]
  BY <1>3
<1>5. i \in 1 .. Len(m)
  BY <1>1, <1>2, <1>4
<1>6. PICK m2 : m2 = [m EXCEPT ![i] = x]
  OBVIOUS
<1>7. /\ m2 \in Seq(Datum) /\ Len(m2) = Len(m) /\ m2[i] = x
      /\ \A j \in 1 .. Len(m) : j # i => m2[j] = m[j]
  BY <1>5, <1>6, SeqSet
<1>8. PICK q2 : q2 = [q EXCEPT ![c] = m2]
  OBVIOUS
<1>9. /\ q2 \in Seq(Seq(Datum)) /\ Len(q2) = Len(q) /\ q2[c] = m2
      /\ \A j \in 1 .. Len(q) : j # c => q2[j] = q[j]
  BY <1>3, <1>7, <1>8, SeqSet
<1>10. g = [h EXCEPT ![a] = q2]
  BY <1>1, <1>2, <1>4, <1>6, <1>8
<1>11. g \in HeapType /\ g[a] = q2 /\ \A f \in Frames : f # a => g[f] = h[f]
  BY <1>9, <1>10 DEF HeapType
<1>12. \A f \in Frames : Len(g[f]) = Len(h[f])
  BY <1>2, <1>9, <1>11
<1>13. ASSUME NEW f \in Frames, NEW j \in Nat \ {0}, j <= Len(h[f]), ~(f = a /\ j = c)
       PROVE  g[f][j] = h[f][j]
  <2>1. CASE f = a
    <3>1. j \in 1 .. Len(q) /\ j # c
      BY <1>2, <1>13, <2>1
    <3>2. QED
      BY <1>2, <1>9, <1>11, <2>1, <3>1
  <2>2. CASE f # a
    BY <1>11, <2>2
  <2>3. QED
    BY <2>1, <2>2
<1>14. h[a][c] = m /\ g[a][c] = m2
  BY <1>2, <1>4, <1>9, <1>11
<1>15. QED
  BY <1>1, <1>7, <1>11, <1>12, <1>13, <1>14 DEF Written

(* Other bands, and the same band below the written element, are kept.     *)
LEMMA OtherBand ==
    ASSUME NEW h \in HeapType, NEW g, NEW p \in Pointer, NEW i \in Nat \ {0}, NEW x,
           Written(g, h, p, i, x), NEW q, NEW n_alloc \in Nat, NEW n_used \in Nat, n_used <= n_alloc,
           NEW val, NEW k, BandIn(h, q, n_alloc, n_used, val, k), q # p \/ n_used < i
    PROVE  BandIn(g, q, n_alloc, n_used, val, k)
<1>1. PICK a \in Frames, c \in Nat \ {0} : a = q[1] /\ c = q[2] /\ q = <<a, c>>
  BY DEF BandIn, Pointer
<1>2. /\ q \in Pointer /\ a <= k /\ c <= Len(h[a]) /\ Len(h[a][c]) >= n_alloc
      /\ Len(val) = n_used /\ \A e \in 1 .. n_used : val[e] # Garbage => h[a][c][e] = val[e]
  BY <1>1 DEF BandIn
<1>3. c <= Len(g[a])
  BY <1>2 DEF Written
<1>4. CASE q # p
  <2>1. ~(a = p[1] /\ c = p[2])
    BY <1>1, <1>4 DEF Pointer
  <2>2. g[a][c] = h[a][c]
    BY <1>2, <2>1 DEF Written
  <2>3. QED
    BY <1>1, <1>2, <1>3, <2>2 DEF BandIn
<1>5. CASE q = p /\ n_used < i
  <2>1. a = p[1] /\ c = p[2]
    BY <1>1, <1>5
  <2>2. Len(g[a][c]) = Len(h[a][c])
    BY <2>1 DEF Written
  <2>3. h[a][c] \in Seq(Datum)
    <3>1. h[a] \in Seq(Seq(Datum))
      BY DEF HeapType
    <3>2. c \in 1 .. Len(h[a])
      BY <1>2, <3>1
    <3>3. QED
      BY <3>1, <3>2
  <2>4. \A e \in 1 .. n_used : e # i /\ e \in 1 .. Len(h[a][c])
    BY <1>2, <1>5, <2>3
  <2>5. \A e \in 1 .. n_used : g[a][c][e] = h[a][c][e]
    BY <2>1, <2>4 DEF Written
  <2>6. QED
    BY <1>1, <1>2, <1>3, <2>2, <2>5 DEF BandIn
<1>6. QED
  BY <1>4, <1>5

(* The written band holds what was stored.                                 *)
LEMMA ThisBand ==
    ASSUME NEW h \in HeapType, NEW g, NEW p \in Pointer, NEW i \in Nat \ {0}, NEW x \in Datum,
           Written(g, h, p, i, x), NEW n_alloc \in Nat, NEW n_used \in Nat, n_used <= n_alloc, i <= n_used,
           NEW val \in Seq(Datum), NEW k, BandIn(h, p, n_alloc, n_used, val, k),
           NEW new, new = [val EXCEPT ![i] = x]
    PROVE  BandIn(g, p, n_alloc, n_used, new, k)
<1>1. PICK a \in Frames, c \in Nat \ {0} : a = p[1] /\ c = p[2]
  BY DEF Pointer
<1>2. /\ a <= k /\ c <= Len(h[a]) /\ Len(h[a][c]) >= n_alloc
      /\ Len(val) = n_used /\ \A e \in 1 .. n_used : val[e] # Garbage => h[a][c][e] = val[e]
  BY <1>1 DEF BandIn
<1>3. i \in 1 .. Len(val)
  BY <1>2
<1>4. Len(new) = n_used /\ new[i] = x /\ \A j \in 1 .. n_used : j # i => new[j] = val[j]
  BY <1>2, <1>3, SeqSet
<1>5. c <= Len(g[a]) /\ Len(g[a][c]) = Len(h[a][c]) /\ g[a][c][i] = x
  BY <1>1, <1>2 DEF Written
<1>6. h[a][c] \in Seq(Datum)
  <2>1. h[a] \in Seq(Seq(Datum))
    BY DEF HeapType
  <2>2. c \in 1 .. Len(h[a])
    BY <1>2, <2>1
  <2>3. QED
    BY <2>1, <2>2
<1>7. \A e \in 1 .. n_used : e \in 1 .. Len(h[a][c])
  BY <1>2, <1>6
<1>8. \A e \in 1 .. n_used : e # i => g[a][c][e] = h[a][c][e]
  BY <1>1, <1>7 DEF Written
<1>9. \A e \in 1 .. n_used : new[e] # Garbage => g[a][c][e] = new[e]
  BY <1>2, <1>4, <1>5, <1>8
<1>10. QED
  BY <1>1, <1>2, <1>4, <1>5, <1>9 DEF BandIn

LEMMA StoreStep ==
    ASSUME NEW b \in Band, NEW i \in 1 .. current.n_used, NEW x \in Value, IInv, Store(b, i, x)
    PROVE  IInv'
<1>1. PICK v \in Header, h \in HeapType, d \in Frames :
         /\ v = current /\ h = heap /\ d = depth
         /\ Good(h, v, d) /\ Apart(v, v)
         /\ \A k \in 0 .. d : snap[k] # NoSnap => Good(h, snap[k], k)
  BY Before
<1>2. /\ v.n_used \in Nat /\ v.n_alloc \in Nat /\ v.n_used <= v.n_alloc
      /\ i \in Nat \ {0} /\ i <= v.n_used /\ x \in Datum
  <2>1. v.n_used \in Nat /\ v.n_alloc \in Nat /\ v.n_used <= v.n_alloc
    BY <1>1, HeaderIs DEF Good
  <2>2. QED
    BY <1>1, <2>1 DEF Datum
<1>3. PICK p \in Pointer \cup {NULL}, val \in Seq(Datum) : p = v.bands[b] /\ val = v.val[b]
  BY HeaderIs
<1>4. p # NULL /\ BandIn(h, p, v.n_alloc, v.n_used, val, d)
  BY <1>1, <1>3 DEF Store, Good
<1>5. p \in Pointer /\ p[2] <= Len(h[p[1]]) /\ i <= Len(h[p[1]][p[2]])
  <2>1. p \in Pointer /\ p[2] <= Len(h[p[1]]) /\ Len(h[p[1]][p[2]]) >= v.n_alloc
    BY <1>4 DEF BandIn
  <2>2. h[p[1]][p[2]] \in Seq(Datum)
    <3>1. p[1] \in Frames /\ p[2] \in Nat \ {0}
      BY <2>1 DEF Pointer
    <3>2. h[p[1]] \in Seq(Seq(Datum))
      BY <3>1 DEF HeapType
    <3>3. p[2] \in 1 .. Len(h[p[1]])
      BY <2>1, <3>1, <3>2
    <3>4. QED
      BY <3>2, <3>3
  <2>3. Len(h[p[1]][p[2]]) \in Nat
    BY <2>2
  <2>4. QED
    BY <1>2, <2>1, <2>3
<1>6. PICK g : g = [h EXCEPT ![p[1]][p[2]][i] = x]
  OBVIOUS
<1>7. g \in HeapType /\ Written(g, h, p, i, x)
  BY <1>2, <1>5, <1>6, StoreWrites
<1>8. PICK new : new = [val EXCEPT ![i] = x]
  OBVIOUS
<1>9. new \in Seq(Datum)
  <2>1. i \in 1 .. Len(val)
    BY <1>2, <1>4 DEF BandIn
  <2>2. QED
    BY <1>2, <1>8, <2>1, SeqSet
<1>10. PICK u : u = [v EXCEPT !.val[b] = new]
  OBVIOUS
<1>11. /\ u \in Header /\ u.n_alloc = v.n_alloc /\ u.n_used = v.n_used /\ u.bands = v.bands
       /\ u.val[b] = new /\ \A c \in Band : c # b => u.val[c] = v.val[c]
  <2>1. u = [n_alloc |-> v.n_alloc, n_used |-> v.n_used, bands |-> v.bands,
             val |-> [v.val EXCEPT ![b] = new]]
    <3>1. PICK y : y = [v.val EXCEPT ![b] = new]
      OBVIOUS
    <3>2. u = [v EXCEPT !.val = y]
      BY <1>10, <3>1
    <3>3. QED
      BY <3>1, <3>2 DEF Header
  <2>2. QED
    BY <1>9, <2>1, HeaderIs DEF Header
<1>12. ASSUME NEW c \in Band, v.bands[c] # NULL
       PROVE  BandIn(g, v.bands[c], v.n_alloc, v.n_used, u.val[c], d)
  <2>1. CASE c = b
    <3>1. BandIn(g, p, v.n_alloc, v.n_used, new, d)
      BY <1>2, <1>4, <1>5, <1>7, <1>8, ThisBand
    <3>2. QED
      BY <1>3, <1>11, <2>1, <3>1
  <2>2. CASE c # b
    <3>1. PICK q, val2 : q = v.bands[c] /\ val2 = v.val[c]
      OBVIOUS
    <3>2. q # p
      BY <1>1, <1>3, <1>12, <2>2, <3>1 DEF Apart
    <3>3. BandIn(h, q, v.n_alloc, v.n_used, val2, d)
      BY <1>1, <1>12, <3>1 DEF Good
    <3>4. BandIn(g, q, v.n_alloc, v.n_used, val2, d)
      BY <1>2, <1>5, <1>7, <3>2, <3>3, OtherBand
    <3>5. QED
      BY <1>11, <2>2, <3>1, <3>4
  <2>3. QED
    BY <2>1, <2>2
<1>13. Good(g, u, d)
  BY <1>2, <1>11, <1>12 DEF Good
<1>14. Apart(u, u) /\ Derived(u, v, h)
  BY <1>1, <1>11 DEF Apart, Derived
<1>15. ASSUME NEW k \in 0 .. d, snap[k] # NoSnap PROVE Good(g, snap[k], k)
  <2>1. PICK w : w = snap[k]
    OBVIOUS
  <2>2. w \in Header /\ Good(h, w, k) /\ Apart(w, v)
    BY <1>1, <1>15, <2>1 DEF IInv, Good
  <2>3. w.n_used \in Nat /\ w.n_alloc \in Nat /\ w.n_used <= w.n_alloc
    BY <2>2, HeaderIs DEF Good
  <2>4. ASSUME NEW c \in Band, w.bands[c] # NULL
        PROVE  BandIn(g, w.bands[c], w.n_alloc, w.n_used, w.val[c], k)
    <3>1. PICK q, val2 : q = w.bands[c] /\ val2 = w.val[c]
      OBVIOUS
    <3>2. BandIn(h, q, w.n_alloc, w.n_used, val2, k)
      BY <2>2, <2>4, <3>1 DEF Good
    <3>3. q # p \/ w.n_used < i
      <4>1. ASSUME q = p PROVE w.n_used < i
        <5>1. c = b
          BY <1>3, <2>2, <2>4, <3>1, <4>1 DEF Apart
        <5>2. ~(i <= w.n_used)
          BY <1>1, <1>3, <1>15, <2>1, <3>1, <4>1, <5>1 DEF Store, Shared
        <5>3. QED
          BY <1>2, <2>3, <5>2
      <4>2. QED
        BY <4>1
    <3>4. BandIn(g, q, w.n_alloc, w.n_used, val2, k)
      BY <1>2, <1>5, <1>7, <2>3, <3>2, <3>3, OtherBand
    <3>5. QED
      BY <3>1, <3>4
  <2>5. Good(g, w, k)
    BY <2>2, <2>3, <2>4 DEF Good
  <2>6. QED
    BY <2>1, <2>5
<1>16. current' = u /\ heap' = g /\ UNCHANGED <<depth, snap>>
  <2>1. u = [v EXCEPT !.val[b][i] = x]
    BY <1>3, <1>8, <1>10
  <2>2. heap' = g
    BY <1>1, <1>3, <1>6 DEF Store
  <2>3. QED
    BY <1>1, <2>1, <2>2 DEF Store, Op
<1>17. QED
  BY <1>1, <1>7, <1>11, <1>13, <1>14, <1>15, <1>16, OpStep

-----------------------------------------------------------------------------
(* Operations that move the elements: new bands for a new header.          *)

(* The bands of u are the new bands bs, which hold what u should hold.     *)
InNewBands(u, bs, h, d) ==
    \A b \in Band : u.bands[b] # NULL =>
       /\ u.bands[b] = <<d, Len(h[d]) + b>>
       /\ Len(bs[b]) >= u.n_alloc /\ Len(u.val[b]) = u.n_used
       /\ \A i \in 1 .. u.n_used : u.val[b][i] # Garbage => bs[b][i] = u.val[b][i]
GoodMove(g, u, h, d) ==
    /\ g \in HeapType /\ Good(g, u, d) /\ Apart(u, u)
    /\ \A v : Derived(u, v, h)
    /\ \A w, k : Good(h, w, k) => Good(g, w, k)

LEMMA MovedGood ==
    ASSUME NEW h \in HeapType, NEW d \in Frames, NEW bs \in [Band -> Seq(Datum)],
           NEW g, g = [h EXCEPT ![d] = h[d] \o bs],
           NEW u \in Header, u.n_used <= u.n_alloc, InNewBands(u, bs, h, d)
    PROVE  GoodMove(g, u, h, d)
<1>1. bs \in Seq(Seq(Datum)) /\ Len(bs) = NBands
  BY NumbersAssumption DEF Band
<1>2. Extends(g, h, d, bs)
  BY <1>1, Extended
<1>3. PICK l \in Nat : l = Len(h[d])
  <2>1. h[d] \in Seq(Seq(Datum))
    BY DEF HeapType
  <2>2. QED
    BY <2>1
<1>4. Len(g[d]) = l + NBands /\ \A b \in Band : g[d][l + b] = bs[b]
  BY <1>1, <1>2, <1>3 DEF Extends, Band
<1>5. ASSUME NEW b \in Band
      PROVE  /\ l + b \in Nat \ {0} /\ l + b <= l + NBands /\ l + b > l
             /\ <<d, l + b>>[1] = d /\ <<d, l + b>>[2] = l + b
  BY NumbersAssumption DEF Band
<1>6. ASSUME NEW b \in Band, u.bands[b] # NULL
      PROVE  BandIn(g, u.bands[b], u.n_alloc, u.n_used, u.val[b], d)
  <2>1. PICK p, val : p = u.bands[b] /\ val = u.val[b]
    OBVIOUS
  <2>2. /\ p = <<d, l + b>> /\ Len(bs[b]) >= u.n_alloc /\ Len(val) = u.n_used
        /\ \A i \in 1 .. u.n_used : val[i] # Garbage => bs[b][i] = val[i]
    BY <1>3, <1>6, <2>1 DEF InNewBands
  <2>3. p \in Pointer /\ p[1] = d /\ p[2] = l + b
    BY <1>5, <2>2 DEF Pointer
  <2>4. d <= d
    BY FramesAre
  <2>5. BandIn(g, p, u.n_alloc, u.n_used, val, d)
    BY <1>4, <1>5, <2>2, <2>3, <2>4 DEF BandIn
  <2>6. QED
    BY <2>1, <2>5
<1>7. Good(g, u, d)
  BY <1>6 DEF Good
<1>8. Apart(u, u)
  <2>1. ASSUME NEW b \in Band, NEW c \in Band, u.bands[b] # NULL, u.bands[b] = u.bands[c]
        PROVE  b = c
    <3>1. <<d, l + b>> = <<d, l + c>>
      BY <1>3, <2>1 DEF InNewBands
    <3>2. l + b = l + c
      BY <3>1
    <3>3. QED
      BY <3>2, NumbersAssumption DEF Band
  <2>2. QED
    BY <2>1 DEF Apart
<1>9. \A v : Derived(u, v, h)
  <2>1. ASSUME NEW b \in Band, u.bands[b] # NULL PROVE u.bands[b][2] > Len(h[u.bands[b][1]])
    <3>1. u.bands[b] = <<d, l + b>>
      BY <1>3, <2>1 DEF InNewBands
    <3>2. QED
      BY <1>3, <1>5, <3>1
  <2>2. QED
    BY <2>1 DEF Derived
<1>10. QED
  BY <1>2, <1>7, <1>8, <1>9 DEF Extends, GoodMove

LEMMA HeaderFields ==
    ASSUME NEW w, DOMAIN w = {"n_alloc", "n_used", "bands", "val"}, w = [i \in DOMAIN w |-> w[i]]
    PROVE  w = [n_alloc |-> w.n_alloc, n_used |-> w.n_used, bands |-> w.bands, val |-> w.val]
<1> DEFINE z == [n_alloc |-> w.n_alloc, n_used |-> w.n_used, bands |-> w.bands, val |-> w.val]
           D == {"n_alloc", "n_used", "bands", "val"}
<1>1. DOMAIN z = D /\ z = [i \in D |-> z[i]]
  OBVIOUS
<1>2. \A i \in D : w[i] = z[i]
  OBVIOUS
<1> HIDE DEF z
<1>3. w = z
  BY <1>1, <1>2
<1>4. QED
  BY <1>3 DEF z

LEMMA HeaderMoved ==
    ASSUME NEW v \in Header, NEW a, NEW q, NEW w, w = [v EXCEPT !.n_alloc = a, !.bands = q]
    PROVE  w = [n_alloc |-> a, n_used |-> v.n_used, bands |-> q, val |-> v.val]
<1>1. DOMAIN v = {"n_alloc", "n_used", "bands", "val"}
  BY DEF Header
<1>2. DOMAIN w = {"n_alloc", "n_used", "bands", "val"} /\ w = [i \in DOMAIN w |-> w[i]]
  BY <1>1
<1>3. w.n_alloc = a /\ w.n_used = v.n_used /\ w.bands = q /\ w.val = v.val
  BY <1>1
<1>4. QED
  BY <1>2, <1>3, HeaderFields

LEMMA HeaderFilled ==
    ASSUME NEW v, NEW a, NEW n, NEW q, NEW y,
           v = [n_alloc |-> a, n_used |-> n, bands |-> q, val |-> y],
           NEW n2, NEW y2, NEW w, w = [v EXCEPT !.n_used = n2, !.val = y2]
    PROVE  w = [n_alloc |-> a, n_used |-> n2, bands |-> q, val |-> y2]
<1>1. DOMAIN v = {"n_alloc", "n_used", "bands", "val"}
  OBVIOUS
<1>2. DOMAIN w = {"n_alloc", "n_used", "bands", "val"} /\ w = [i \in DOMAIN w |-> w[i]]
  BY <1>1
<1>3. w.n_alloc = a /\ w.n_used = n2 /\ w.bands = q /\ w.val = y2
  BY <1>1
<1>4. QED
  BY <1>2, <1>3, HeaderFields

(* The band of a good header, as a value.                                  *)
LEMMA BandOf ==
    ASSUME NEW h \in HeapType, NEW v, NEW k, Good(h, v, k), NEW b \in Band, v.bands[b] # NULL
    PROVE  \E m \in Seq(Datum) :
              /\ m = h[v.bands[b][1]][v.bands[b][2]] /\ Len(m) >= v.n_alloc
              /\ Len(v.val[b]) = v.n_used
              /\ \A i \in 1 .. v.n_used : v.val[b][i] # Garbage => m[i] = v.val[b][i]
<1>1. PICK p, val : p = v.bands[b] /\ val = v.val[b]
  OBVIOUS
<1>2. BandIn(h, p, v.n_alloc, v.n_used, val, k)
  BY <1>1 DEF Good
<1>3. p[1] \in Frames /\ p[2] \in Nat \ {0} /\ p[2] <= Len(h[p[1]])
  BY <1>2 DEF BandIn, Pointer
<1>4. h[p[1]] \in Seq(Seq(Datum))
  BY <1>3 DEF HeapType
<1>5. p[2] \in 1 .. Len(h[p[1]])
  BY <1>3, <1>4
<1>6. PICK m \in Seq(Datum) : m = h[p[1]][p[2]]
  BY <1>4, <1>5
<1>7. /\ Len(m) >= v.n_alloc /\ Len(val) = v.n_used
      /\ \A i \in 1 .. v.n_used : val[i] # Garbage => m[i] = val[i]
  BY <1>2, <1>6 DEF BandIn
<1>8. QED
  BY <1>1, <1>6, <1>7

(* Elements that are added hold nothing yet.                               *)
AddedTo(y, val, used, n) ==
    /\ Len(y) = used + n
    /\ \A i \in 1 .. used + n : y[i] # Garbage => i <= used /\ y[i] = val[i]

LEMMA Added ==
    ASSUME NEW val \in Seq(Datum), NEW used \in Nat, NEW n \in Nat,
           NEW y, y = val \o Unwritten(n)
    PROVE  y \in Seq(Datum) /\ (Len(val) = used => AddedTo(y, val, used, n))
<1>1. PICK e \in Seq(Datum) : e = Unwritten(n) /\ Len(e) = n /\ \A i \in 1 .. n : e[i] = Garbage
  BY UnwrittenIs
<1>2. /\ y \in Seq(Datum) /\ Len(y) = Len(val) + Len(e)
      /\ \A i \in 1 .. Len(val) + Len(e) : y[i] = IF i <= Len(val) THEN val[i] ELSE e[i - Len(val)]
  BY <1>1, ConcatProperties
<1>3. ASSUME Len(val) = used, NEW i \in 1 .. used + n, y[i] # Garbage
      PROVE  i <= used /\ y[i] = val[i]
  <2>1. y[i] = IF i <= used THEN val[i] ELSE e[i - used]
    BY <1>1, <1>2, <1>3
  <2>2. ~(i <= used) => i - used \in 1 .. n
    OBVIOUS
  <2>3. QED
    BY <1>1, <1>3, <2>1, <2>2
<1>4. QED
  BY <1>1, <1>2, <1>3 DEF AddedTo

LEMMA AllocStep == ASSUME NEW n \in 1 .. MaxBatch, IInv, Alloc(n) PROVE IInv'
<1>1. PICK v \in Header, h \in HeapType, d \in Frames :
         /\ v = current /\ h = heap /\ d = depth
         /\ Good(h, v, d) /\ Apart(v, v)
         /\ \A k \in 0 .. d : snap[k] # NoSnap => Good(h, snap[k], k)
  BY Before
<1>2. /\ v.n_used \in Nat /\ v.n_alloc \in Nat /\ v.n_used <= v.n_alloc /\ n \in Nat
      /\ v.n_used + n \in Nat
  BY <1>1, HeaderIs, NumbersAssumption DEF Good
<1>3. PICK Val : Val = [b \in Band |-> v.val[b] \o Unwritten(n)]
  OBVIOUS
<1>4. Val \in [Band -> Seq(Datum)]
  <2>1. \A b \in Band : v.val[b] \o Unwritten(n) \in Seq(Datum)
    BY <1>2, HeaderIs, Added
  <2>2. QED
    BY <1>3, <2>1
<1>5. ASSUME NEW b \in Band, v.bands[b] # NULL
      PROVE  /\ Len(Val[b]) = v.n_used + n
             /\ \A i \in 1 .. v.n_used + n :
                   Val[b][i] # Garbage => i <= v.n_used /\ Val[b][i] = v.val[b][i]
  <2>1. PICK val, y : val \in Seq(Datum) /\ val = v.val[b] /\ y = val \o Unwritten(n)
    BY HeaderIs
  <2>2. Len(val) = v.n_used
    BY <1>1, <1>5, <2>1 DEF Good, BandIn
  <2>3. AddedTo(y, val, v.n_used, n)
    BY <1>2, <2>1, <2>2, Added
  <2>4. QED
    BY <1>3, <2>1, <2>3 DEF AddedTo
<1>6. CASE v.n_used + n <= v.n_alloc
  <2>1. PICK u : u = [v EXCEPT !.n_used = v.n_used + n, !.val = Val]
    OBVIOUS
  <2>2. u = [n_alloc |-> v.n_alloc, n_used |-> v.n_used + n, bands |-> v.bands, val |-> Val]
    <3>1. PICK n2 : n2 = v.n_used + n
      OBVIOUS
    <3>2. v = [n_alloc |-> v.n_alloc, n_used |-> v.n_used, bands |-> v.bands, val |-> v.val]
      BY HeaderIs
    <3>3. u = [v EXCEPT !.n_used = n2, !.val = Val]
      BY <2>1, <3>1
    <3>4. u = [n_alloc |-> v.n_alloc, n_used |-> n2, bands |-> v.bands, val |-> Val]
      BY <3>2, <3>3, HeaderFilled
    <3>5. QED
      BY <3>1, <3>4
  <2>3. u \in Header
    BY <1>2, <1>4, <2>2, HeaderIs DEF Header
  <2>4. ASSUME NEW b \in Band, v.bands[b] # NULL
        PROVE  BandIn(h, v.bands[b], v.n_alloc, v.n_used + n, Val[b], d)
    <3>1. PICK p, y : p = v.bands[b] /\ y = Val[b]
      OBVIOUS
    <3>2. BandIn(h, p, v.n_alloc, v.n_used, v.val[b], d)
      BY <1>1, <2>4, <3>1 DEF Good
    <3>3. \A i \in 1 .. v.n_used + n : i <= v.n_used => i \in 1 .. v.n_used
      BY <1>2
    <3>4. BandIn(h, p, v.n_alloc, v.n_used + n, y, d)
      BY <1>5, <2>4, <3>1, <3>2, <3>3 DEF BandIn
    <3>5. QED
      BY <3>1, <3>4
  <2>5. Good(h, u, d)
    BY <1>6, <2>2, <2>3, <2>4 DEF Good
  <2>6. Apart(u, u) /\ Derived(u, v, h)
    BY <1>1, <2>2 DEF Apart, Derived
  <2>7. current' = u /\ heap' = h /\ UNCHANGED <<depth, snap>>
    <3>1. EnsureCapacity(n) = [vec |-> v, heap |-> h]
      BY <1>1, <1>6 DEF EnsureCapacity
    <3>2. EnsureCapacity(n).vec = v /\ EnsureCapacity(n).heap = h
      BY <3>1
    <3>3. QED
      BY <1>1, <1>3, <2>1, <3>2 DEF Alloc, Op
  <2>8. QED
    BY <1>1, <2>3, <2>5, <2>6, <2>7, OpStep
<1>7. CASE ~(v.n_used + n <= v.n_alloc)
  <2>1. PICK cap \in Nat : cap = Capacity(v, n) /\ v.n_used + n <= cap
    BY <1>2, CapacityFits
  <2>2. PICK fb, bs : fb = FreshBands(v) /\ bs = Moved(v, cap)
    OBVIOUS
  <2>3. /\ fb = [b \in Band |-> IF v.bands[b] = NULL THEN NULL ELSE <<d, Len(h[d]) + b>>]
        /\ bs = [b \in Band |-> IF v.bands[b] = NULL THEN <<>>
                    ELSE [i \in 1 .. cap |-> IF i <= v.n_used THEN h[v.bands[b][1]][v.bands[b][2]][i]
                                             ELSE Garbage]]
    BY <1>1, <2>2 DEF FreshBands, Moved, Mem
  <2>4. fb \in [Band -> Pointer \cup {NULL}]
    <3>1. \A b \in Band : <<d, Len(h[d]) + b>> \in Pointer
      <4>1. h[d] \in Seq(Seq(Datum))
        BY DEF HeapType
      <4>2. \A b \in Band : Len(h[d]) + b \in Nat \ {0}
        BY <4>1, NumbersAssumption, SMTT(30) DEF Band
      <4>3. QED
        BY <4>2 DEF Pointer
    <3>2. QED
      BY <2>3, <3>1
  <2>5. ASSUME NEW b \in Band, v.bands[b] # NULL
        PROVE  /\ bs[b] \in Seq(Datum) /\ Len(bs[b]) = cap
               /\ \A i \in 1 .. v.n_used : v.val[b][i] # Garbage => bs[b][i] = v.val[b][i]
    <3>1. PICK m \in Seq(Datum) :
             /\ m = h[v.bands[b][1]][v.bands[b][2]] /\ Len(m) >= v.n_alloc
             /\ Len(v.val[b]) = v.n_used
             /\ \A i \in 1 .. v.n_used : v.val[b][i] # Garbage => m[i] = v.val[b][i]
      BY <1>1, <2>5, BandOf
    <3>2. bs[b] = [i \in 1 .. cap |-> IF i <= v.n_used THEN m[i] ELSE Garbage]
      BY <2>3, <2>5, <3>1
    <3>3. \A i \in 1 .. cap : (IF i <= v.n_used THEN m[i] ELSE Garbage) \in Datum
      <4>1. \A i \in 1 .. cap : i <= v.n_used => i \in 1 .. Len(m)
        <5>1. Len(m) \in Nat /\ Len(m) >= v.n_used
          <6>1. PICK lm \in Nat, nu \in Nat, na \in Nat : lm = Len(m) /\ nu = v.n_used /\ na = v.n_alloc
            BY <1>2
          <6>2. lm >= na /\ nu <= na
            BY <1>2, <3>1, <6>1
          <6>3. lm >= nu
            BY <6>2
          <6>4. QED
            BY <6>1, <6>3
        <5>2. QED
          BY <1>2, <5>1
      <4>2. \A i \in 1 .. Len(m) : m[i] \in Datum
        OBVIOUS
      <4>3. QED
        BY <4>1, <4>2 DEF Datum
    <3>4. bs[b] \in [1 .. cap -> Datum]
      BY <3>2, <3>3
    <3>5. bs[b] \in Seq(Datum) /\ Len(bs[b]) = cap
      BY <3>4
    <3>6. \A i \in 1 .. v.n_used : i \in 1 .. cap /\ i <= v.n_used
      BY <1>2, <2>1
    <3>7. QED
      BY <3>1, <3>2, <3>5, <3>6, Zenon
  <2>6. bs \in [Band -> Seq(Datum)]
    <3>1. \A b \in Band : bs[b] \in Seq(Datum)
      <4>1. ASSUME NEW b \in Band, v.bands[b] = NULL PROVE bs[b] \in Seq(Datum)
        BY <2>3, <4>1
      <4>2. QED
        BY <2>5, <4>1
    <3>2. DOMAIN bs = Band /\ bs = [b \in Band |-> bs[b]]
      BY <2>3
    <3>3. QED
      BY <3>1, <3>2
  <2>7. PICK g : g = [h EXCEPT ![d] = h[d] \o bs]
    OBVIOUS
  <2>8. PICK u : u = [n_alloc |-> cap, n_used |-> v.n_used + n, bands |-> fb, val |-> Val]
    OBVIOUS
  <2>9. u \in Header /\ u.n_alloc = cap /\ u.n_used = v.n_used + n /\ u.bands = fb /\ u.val = Val
    BY <1>2, <1>4, <2>4, <2>8 DEF Header
  <2>10. ASSUME NEW b \in Band, u.bands[b] # NULL
         PROVE  /\ u.bands[b] = <<d, Len(h[d]) + b>>
                /\ Len(bs[b]) >= u.n_alloc /\ Len(u.val[b]) = u.n_used
                /\ \A i \in 1 .. u.n_used : u.val[b][i] # Garbage => bs[b][i] = u.val[b][i]
    <3>1. v.bands[b] # NULL /\ u.bands[b] = <<d, Len(h[d]) + b>>
      BY <2>3, <2>9, <2>10
    <3>2. Len(bs[b]) >= u.n_alloc
      BY <2>5, <2>9, <3>1
    <3>3. \A i \in 1 .. v.n_used + n : i <= v.n_used => i \in 1 .. v.n_used
      BY <1>2
    <3>4. QED
      BY <1>5, <2>5, <2>9, <3>1, <3>2, <3>3
  <2>11. u.n_used <= u.n_alloc
    BY <2>1, <2>9
  <2>12. /\ g \in HeapType /\ Good(g, u, d) /\ Apart(u, u) /\ \A w : Derived(u, w, h)
         /\ \A w, k : Good(h, w, k) => Good(g, w, k)
    <3>1. InNewBands(u, bs, h, d)
      BY <2>10 DEF InNewBands
    <3>2. GoodMove(g, u, h, d)
      BY <2>6, <2>7, <2>9, <2>11, <3>1, MovedGood
    <3>3. QED
      BY <3>2 DEF GoodMove
  <2>13. current' = u /\ heap' = g /\ UNCHANGED <<depth, snap>>
    <3>1. PICK e : e = [v EXCEPT !.n_alloc = cap, !.bands = fb]
      OBVIOUS
    <3>2. EnsureCapacity(n) = [vec |-> e, heap |-> g]
      <4>1. EnsureCapacity(n) = [vec |-> e, heap |-> WithBands(bs)]
        BY <1>1, <1>7, <2>1, <2>2, <3>1 DEF EnsureCapacity
      <4>2. WithBands(bs) = g
        BY <1>1, <2>7 DEF WithBands
      <4>3. QED
        BY <4>1, <4>2
    <3>3. EnsureCapacity(n).vec = e /\ EnsureCapacity(n).heap = g
      BY <3>2
    <3>4. e = [n_alloc |-> cap, n_used |-> v.n_used, bands |-> fb, val |-> v.val]
      BY <3>1, HeaderMoved
    <3>5. current' = [e EXCEPT !.n_used = e.n_used + n, !.val = [b \in Band |-> e.val[b] \o Unwritten(n)]]
      BY <3>3 DEF Alloc
    <3>6. current' = [e EXCEPT !.n_used = v.n_used + n, !.val = Val]
      BY <1>3, <3>4, <3>5
    <3>7. PICK n2, y2, w : n2 = v.n_used + n /\ y2 = Val /\ w = [e EXCEPT !.n_used = n2, !.val = y2]
      OBVIOUS
    <3>8. w = [n_alloc |-> cap, n_used |-> n2, bands |-> fb, val |-> y2]
      BY <3>4, <3>7, HeaderFilled
    <3>9. current' = u
      BY <2>8, <3>6, <3>7, <3>8, Zenon
    <3>10. QED
      BY <1>1, <3>3, <3>9 DEF Alloc, Op
  <2>14. QED
    BY <1>1, <2>9, <2>12, <2>13, OpStep
<1>8. QED
  BY <1>6, <1>7

LEMMA DeleteStep ==
    ASSUME NEW m \in 1 .. MaxBatch, NEW idx \in [1 .. m -> Indices], IInv, Delete(idx)
    PROVE  IInv'
<1>1. PICK v \in Header, h \in HeapType, d \in Frames :
         /\ v = current /\ h = heap /\ d = depth
         /\ Good(h, v, d) /\ Apart(v, v)
         /\ \A k \in 0 .. d : snap[k] # NoSnap => Good(h, snap[k], k)
  BY Before
<1>2. PICK used \in Nat : used = v.n_used /\ v.n_alloc \in Nat /\ used <= v.n_alloc /\ m \in Nat
  BY <1>1, HeaderIs, NumbersAssumption DEF Good
<1>3. PICK S : S = 0 .. used - 1 /\ S \subseteq Nat /\ idx \in [1 .. m -> S]
  BY <1>1, <1>2, SMTT(30) DEF Indices
<1>4. PICK skip, cut, bs :
         /\ skip \in Sortings(idx)
         /\ cut = CalcIntervals(skip, used)
         /\ bs = [b \in Band |-> IF v.bands[b] = NULL THEN <<>>
                    ELSE CopyIntervals(cut.cpy, h[v.bands[b][1]][v.bands[b][2]], v.n_alloc)]
         /\ heap' = WithBands(bs)
         /\ current' = [v EXCEPT !.bands = FreshBands(v), !.n_used = cut.cpos,
                                 !.val = [b \in Band |-> Deleted(v.val[b], idx)]]
         /\ UNCHANGED <<depth, snap>>
  BY <1>1, <1>2, Zenon DEF Delete, Mem, Op
<1>5. skip \in [1 .. m -> S] /\ Ascending(skip, m, idx)
  BY <1>2, <1>4, <1>3, SortingsAscend
<1>6. ASSUME NEW s \in Seq(Datum), Len(s) = used
      PROVE  Partial(cut.cpos, cut.cpy, s, idx, used)
  <2>1. skip \in [1 .. m -> 0 .. Len(s) - 1] /\ cut = CalcIntervals(skip, Len(s))
    BY <1>3, <1>4, <1>5, <1>6
  <2>2. Partial(cut.cpos, cut.cpy, s, idx, Len(s))
    BY <1>2, <1>5, <2>1, CutPartial
  <2>3. QED
    BY <1>6, <2>2
<1>7. cut.cpos \in Nat /\ cut.cpos <= used
  <2>1. PICK s \in Seq(Datum) : Len(s) = used
    BY UnwrittenIs
  <2>2. QED
    BY <1>6, <2>1 DEF Partial
<1>8. PICK Val, fb : Val = [b \in Band |-> Deleted(v.val[b], idx)] /\ fb = FreshBands(v)
  OBVIOUS
<1>9. Val \in [Band -> Seq(Datum)]
  <2>1. ASSUME NEW s \in Seq(Datum) PROVE Deleted(s, idx) \in Seq(Datum)
    <3>1. Len(s) \in 0 .. Len(s)
      OBVIOUS
    <3>2. QED
      BY <3>1, KeptIs DEF Deleted
  <2>2. QED
    BY <1>8, <2>1, HeaderIs
<1>10. fb = [b \in Band |-> IF v.bands[b] = NULL THEN NULL ELSE <<d, Len(h[d]) + b>>]
  BY <1>1, <1>8 DEF FreshBands
<1>11. fb \in [Band -> Pointer \cup {NULL}]
  <2>1. \A b \in Band : <<d, Len(h[d]) + b>> \in Pointer
    <3>1. h[d] \in Seq(Seq(Datum))
      BY DEF HeapType
    <3>2. \A b \in Band : Len(h[d]) + b \in Nat \ {0}
      BY <3>1, NumbersAssumption DEF Band
    <3>3. QED
      BY <3>2 DEF Pointer
  <2>2. QED
    BY <1>10, <2>1
<1>12. ASSUME NEW b \in Band, v.bands[b] # NULL
       PROVE  /\ bs[b] \in Seq(Datum) /\ Len(bs[b]) = v.n_alloc /\ Len(Val[b]) = cut.cpos
              /\ \A i \in 1 .. cut.cpos : Val[b][i] # Garbage => bs[b][i] = Val[b][i]
  <2>1. PICK src \in Seq(Datum) :
           /\ src = h[v.bands[b][1]][v.bands[b][2]] /\ Len(src) >= v.n_alloc
           /\ Len(v.val[b]) = v.n_used
           /\ \A i \in 1 .. v.n_used : v.val[b][i] # Garbage => src[i] = v.val[b][i]
    BY <1>1, <1>12, BandOf
  <2>2. PICK s \in Seq(Datum) : s = v.val[b] /\ Len(s) = used
    BY <1>2, <2>1, HeaderIs
  <2>3. bs[b] = CopyIntervals(cut.cpy, src, v.n_alloc)
    BY <1>4, <1>12, <2>1
  <2>4. Partial(cut.cpos, cut.cpy, s, idx, Len(s))
    BY <1>6, <2>2
  <2>5. PICK c : c = bs[b]
    OBVIOUS
  <2>6. /\ c \in Seq(Datum) /\ Len(c) = v.n_alloc
        /\ \A i \in 1 .. cut.cpos : \E e \in 1 .. Len(s) : c[i] = src[e] /\ Deleted(s, idx)[i] = s[e]
    <3>1. c = CopyIntervals(cut.cpy, src, v.n_alloc) /\ Len(s) <= v.n_alloc
      BY <1>2, <2>2, <2>3, <2>5
    <3>2. CopyOf(c, src, s, idx, cut.cpos, v.n_alloc)
      BY <1>2, <2>1, <2>4, <3>1, CopyIs
    <3>3. QED
      BY <3>2, SMTT(30) DEF CopyOf
  <2>7. Val[b] = Deleted(s, idx) /\ Len(Deleted(s, idx)) = cut.cpos
    BY <1>8, <2>2, <2>4 DEF Partial, Deleted
  <2>8. ASSUME NEW i \in 1 .. cut.cpos, Val[b][i] # Garbage PROVE c[i] = Val[b][i]
    <3>1. PICK e \in 1 .. used : c[i] = src[e] /\ Deleted(s, idx)[i] = s[e]
      BY <2>2, <2>6
    <3>2. s[e] # Garbage => src[e] = s[e]
      BY <1>2, <2>1, <2>2
    <3>3. QED
      BY <2>7, <2>8, <3>1, <3>2
  <2>9. QED
    BY <2>5, <2>6, <2>7, <2>8
<1>13. bs \in [Band -> Seq(Datum)]
  <2>1. \A b \in Band : bs[b] \in Seq(Datum)
    <3>1. ASSUME NEW b \in Band, v.bands[b] = NULL PROVE bs[b] \in Seq(Datum)
      BY <1>4, <3>1
    <3>2. QED
      BY <1>12, <3>1
  <2>2. DOMAIN bs = Band /\ bs = [b \in Band |-> bs[b]]
    BY <1>4
  <2>3. QED
    BY <2>1, <2>2
<1>14. PICK g : g = [h EXCEPT ![d] = h[d] \o bs]
  OBVIOUS
<1>15. PICK u : u = [n_alloc |-> v.n_alloc, n_used |-> cut.cpos, bands |-> fb, val |-> Val]
  OBVIOUS
<1>16. u \in Header /\ u.n_alloc = v.n_alloc /\ u.n_used = cut.cpos /\ u.bands = fb /\ u.val = Val
  BY <1>2, <1>7, <1>9, <1>11, <1>15 DEF Header
<1>17. ASSUME NEW b \in Band, u.bands[b] # NULL
       PROVE  /\ u.bands[b] = <<d, Len(h[d]) + b>>
              /\ Len(bs[b]) >= u.n_alloc /\ Len(u.val[b]) = u.n_used
              /\ \A i \in 1 .. u.n_used : u.val[b][i] # Garbage => bs[b][i] = u.val[b][i]
  <2>1. v.bands[b] # NULL /\ u.bands[b] = <<d, Len(h[d]) + b>>
    BY <1>10, <1>16, <1>17
  <2>2. Len(bs[b]) >= u.n_alloc
    BY <1>2, <1>12, <1>16, <2>1
  <2>3. QED
    BY <1>12, <1>16, <2>1, <2>2
<1>18. u.n_used <= u.n_alloc
  BY <1>2, <1>7, <1>16
<1>19. /\ g \in HeapType /\ Good(g, u, d) /\ Apart(u, u) /\ \A w : Derived(u, w, h)
       /\ \A w, k : Good(h, w, k) => Good(g, w, k)
  <2>1. InNewBands(u, bs, h, d)
    BY <1>17 DEF InNewBands
  <2>2. GoodMove(g, u, h, d)
    BY <1>13, <1>14, <1>16, <1>18, <2>1, MovedGood, Zenon
  <2>3. QED
    BY <2>2 DEF GoodMove
<1>20. current' = u /\ heap' = g
  <2>1. PICK w, n2 : n2 = cut.cpos /\ w = [v EXCEPT !.bands = fb, !.n_used = n2, !.val = Val]
    OBVIOUS
  <2>2. w = [n_alloc |-> v.n_alloc, n_used |-> n2, bands |-> fb, val |-> Val]
    <3>1. DOMAIN v = {"n_alloc", "n_used", "bands", "val"}
      BY DEF Header
    <3>2. DOMAIN w = {"n_alloc", "n_used", "bands", "val"} /\ w = [i \in DOMAIN w |-> w[i]]
      BY <2>1, <3>1
    <3>3. w.n_alloc = v.n_alloc /\ w.n_used = n2 /\ w.bands = fb /\ w.val = Val
      BY <2>1, <3>1
    <3>4. QED
      BY <3>2, <3>3, HeaderFields
  <2>3. current' = u
    BY <1>4, <1>8, <1>15, <2>1, <2>2
  <2>4. QED
    BY <1>1, <1>4, <1>14, <2>3, Zenon DEF WithBands
<1>21. QED
  BY <1>1, <1>4, <1>16, <1>19, <1>20, OpStep, Zenon

-----------------------------------------------------------------------------
(* The steps of the simulation.                                            *)

(* A step that keeps or forgets savepoints, or takes one of the state the  *)
(* vector is in.                                                           *)
LEMMA SimStepKeeps ==
    ASSUME IInv, NEW u \in Header, current' = u, NEW g \in HeapType, heap' = g,
           NEW d \in Frames, depth' = d, Good(g, u, d),
           NEW S \in [Frames -> Header \cup {NoSnap}], snap' = S,
           \A k \in Frames : k > d => S[k] = NoSnap,
           \A k \in 0 .. d : S[k] # NoSnap =>
              Good(g, S[k], k) /\ (S[k] = u \/ (k <= depth /\ S[k] = snap[k])),
           u = current \/ \E j \in 0 .. depth : snap[j] # NoSnap /\ u = snap[j]
    PROVE  IInv'
<1>1. TypeInv'
  BY DEF TypeInv
<1>2. PICK D, old, v : D \in Frames /\ D = depth /\ old = snap /\ v = current
  BY DEF IInv, TypeInv
<1>3. /\ Apart(v, v)
      /\ \A k \in 0 .. D : old[k] # NoSnap => Apart(old[k], v) /\ Apart(v, old[k])
      /\ \A j, k \in 0 .. D : old[j] # NoSnap /\ old[k] # NoSnap => Apart(old[j], old[k])
  BY <1>2 DEF IInv
<1> DEFINE Known(w) == w = v \/ \E j \in 0 .. D : old[j] # NoSnap /\ w = old[j]
<1>4. \A w, z : Known(w) /\ Known(z) => Apart(w, z)
  BY <1>3
<1>5. Known(u)
  BY <1>2
<1>6. \A k \in 0 .. d : S[k] # NoSnap => Known(S[k])
  <2>1. \A k \in 0 .. d : k <= D => k \in 0 .. D
    BY FramesAre
  <2>2. QED
    BY <1>2, <1>5, <2>1
<1> HIDE DEF Known
<1>7. Apart(u, u)
  BY <1>4, <1>5
<1>8. \A k \in 0 .. d : S[k] # NoSnap => Apart(S[k], u) /\ Apart(u, S[k])
  BY <1>4, <1>5, <1>6
<1>9. \A j, k \in 0 .. d : S[j] # NoSnap /\ S[k] # NoSnap => Apart(S[j], S[k])
  BY <1>4, <1>6
<1>10. QED
  BY <1>1, <1>7, <1>8, <1>9 DEF IInv

LEMMA SimStepSafe == IInv /\ SimStep => IInv'
<1> SUFFICES ASSUME IInv, SimStep PROVE IInv'
  OBVIOUS
<1>1. PICK v \in Header, h \in HeapType, d \in Frames :
         /\ v = current /\ h = heap /\ d = depth
         /\ Good(h, v, d) /\ Apart(v, v)
         /\ \A k \in 0 .. d : snap[k] # NoSnap => Good(h, snap[k], k)
  BY Before
<1>2. PICK old \in [Frames -> Header \cup {NoSnap}] :
         old = snap /\ \A k \in Frames : k > d => old[k] = NoSnap
  BY <1>1 DEF IInv, TypeInv
<1>3. d \in Nat /\ d < NFrame /\ (\A k \in 0 .. d : k \in Frames /\ k \in Nat) /\ d \in 0 .. d
  BY FramesAre
<1>4. CASE UNCHANGED <<current, heap, depth>> /\ (UNCHANGED snap \/ snap' = [snap EXCEPT ![depth] = current])
  <2>1. CASE UNCHANGED snap
    BY <1>4, <2>1 DEF IInv, TypeInv
  <2>2. CASE snap' = [snap EXCEPT ![depth] = current]
    <3>1. PICK S : S = [old EXCEPT ![d] = v]
      OBVIOUS
    <3>2. S \in [Frames -> Header \cup {NoSnap}] /\ S[d] = v /\ \A k \in Frames : k # d => S[k] = old[k]
      BY <3>1
    <3>3. \A k \in Frames : k > d => S[k] = NoSnap
      BY <1>2, <1>3, <3>2
    <3>4. \A k \in 0 .. d : S[k] # NoSnap =>
             Good(h, S[k], k) /\ (S[k] = v \/ (k <= depth /\ S[k] = snap[k]))
      <4>1. \A k \in 0 .. d : k <= d
        BY <1>3
      <4>2. QED
        BY <1>1, <1>2, <1>3, <3>2, <4>1
    <3>5. current' = v /\ heap' = h /\ depth' = d /\ snap' = S /\ v = current
      BY <1>1, <1>2, <1>4, <2>2, <3>1
    <3>6. QED
      BY <1>1, <3>2, <3>3, <3>4, <3>5, SimStepKeeps
  <2>3. QED
    BY <1>4, <2>1, <2>2
<1>5. CASE Sim!Descend /\ Enters(depth + 1)
  <2>1. PICK e \in Frames : e = d + 1
    <3>1. d + 1 < NFrame
      BY <1>1, <1>5 DEF Sim!Descend
    <3>2. d + 1 \in Frames
      BY <1>3, <3>1, NumbersAssumption DEF Frames
    <3>3. QED
      BY <3>2
  <2>2. PICK g : g = [h EXCEPT ![d + 1] = <<>>]
    OBVIOUS
  <2>3. g \in HeapType /\ \A w : \A k \in Nat : k <= d /\ Good(h, w, k) => Good(g, w, k)
    <3>1. d + 1 \in Frames
      BY <2>1
    <3>2. QED
      BY <1>3, <2>2, <3>1, Entered
  <2>4. current' = v /\ heap' = g /\ depth' = e /\ snap' = old /\ v = current
    BY <1>1, <1>2, <1>5, <2>1, <2>2 DEF Sim!Descend, Enters
  <2>5. Good(g, v, e)
    <3>1. Good(g, v, d) /\ d <= d
      BY <1>1, <1>3, <2>3
    <3>2. e \in Nat /\ d <= e
      BY <1>3, <2>1
    <3>3. QED
      BY <1>3, <3>1, <3>2, GoodDeeper
  <2>6. \A k \in Frames : k > e => old[k] = NoSnap
    <3>1. \A k \in Frames : k > e => k > d
      BY <1>3, <2>1, NumbersAssumption DEF Frames
    <3>2. QED
      BY <1>2, <3>1
  <2>7. \A k \in 0 .. e : old[k] # NoSnap =>
           Good(g, old[k], k) /\ (old[k] = v \/ (k <= depth /\ old[k] = snap[k]))
    <3>1. ASSUME NEW k \in 0 .. e, old[k] # NoSnap PROVE k \in 0 .. d /\ k <= d /\ k \in Nat
      <4>1. k = e \/ (k \in 0 .. d /\ k <= d /\ k \in Nat)
        BY <1>3, <2>1
      <4>2. e > d
        BY <1>3, <2>1
      <4>3. QED
        BY <1>2, <3>1, <4>1, <4>2
    <3>2. QED
      BY <1>1, <1>2, <2>3, <3>1
  <2>8. QED
    BY <2>3, <2>4, <2>5, <2>6, <2>7, SimStepKeeps
<1> DEFINE Loaded(k) == [i \in Frames |-> IF i > k THEN NoSnap ELSE old[i]]
<1>6. ASSUME NEW k \in Frames, Sim!Load(k), Stays PROVE IInv'
  <2>1. k \in 0 .. d /\ k <= d /\ k \in Nat
    BY <1>1, <1>3, <1>6, NumbersAssumption DEF Sim!Load, Frames
  <2>2. PICK S : S = Loaded(k)
    OBVIOUS
  <2>3. S \in [Frames -> Header \cup {NoSnap}] /\ \A i \in Frames : S[i] = IF i > k THEN NoSnap ELSE old[i]
    BY <2>2
  <2>4. PICK u : u = old[k]
    OBVIOUS
  <2>5. u \in Header /\ u # NoSnap /\ Good(h, u, k)
    BY <1>1, <1>2, <1>6, <2>1, <2>4 DEF Sim!Load, Good
  <2>6. current' = u /\ heap' = h /\ depth' = k /\ snap' = S
    BY <1>1, <1>2, <1>6, <2>2, <2>4 DEF Sim!Load, Sim!Forget, Sim!Frames, Frames, Stays
  <2>7. \A i \in Frames : i > k => S[i] = NoSnap
    BY <2>3
  <2>8. \A i \in 0 .. k : S[i] # NoSnap =>
           Good(h, S[i], i) /\ (S[i] = u \/ (i <= depth /\ S[i] = snap[i]))
    <3>1. \A i \in 0 .. k : i \in 0 .. d /\ i <= d /\ ~(i > k) /\ i \in Frames
      BY <1>3, <2>1
    <3>2. QED
      BY <1>1, <1>2, <2>3, <3>1
  <2>9. \E j \in 0 .. depth : snap[j] # NoSnap /\ u = snap[j]
    BY <1>1, <1>2, <2>1, <2>4, <2>5
  <2>10. QED
    BY <2>3, <2>5, <2>6, <2>7, <2>8, <2>9, SimStepKeeps
<1>7. ASSUME NEW k \in Frames, Sim!StartBranch(k), Enters(k + 1) PROVE IInv'
  <2>1. k \in 0 .. d /\ k <= d /\ k < d /\ k \in Nat /\ k + 1 \in Frames /\ k + 1 \in Nat
    BY <1>1, <1>3, <1>7, NumbersAssumption DEF Sim!StartBranch, Frames
  <2>2. PICK S : S = Loaded(k)
    OBVIOUS
  <2>3. S \in [Frames -> Header \cup {NoSnap}] /\ \A i \in Frames : S[i] = IF i > k THEN NoSnap ELSE old[i]
    BY <2>2
  <2>4. PICK u : u = old[k]
    OBVIOUS
  <2>5. PICK g : g = [h EXCEPT ![k + 1] = <<>>]
    OBVIOUS
  <2>6. g \in HeapType /\ \A w : \A i \in Nat : i <= k /\ Good(h, w, i) => Good(g, w, i)
    BY <2>1, <2>5, Entered
  <2>7. u \in Header /\ u # NoSnap /\ Good(h, u, k)
    BY <1>1, <1>2, <1>7, <2>1, <2>4 DEF Sim!StartBranch, Good
  <2>8. PICK e \in Frames : e = k + 1 /\ e \in Nat
    BY <2>1
  <2>9. Good(g, u, e)
    <3>1. Good(g, u, k)
      BY <2>1, <2>6, <2>7
    <3>2. k <= e
      BY <2>1, <2>8
    <3>3. QED
      BY <2>1, <2>8, <3>1, <3>2, GoodDeeper
  <2>10. current' = u /\ heap' = g /\ depth' = e /\ snap' = S
    BY <1>1, <1>2, <1>7, <2>2, <2>4, <2>5, <2>8 DEF Sim!StartBranch, Sim!Forget, Sim!Frames, Frames, Enters
  <2>11. \A i \in Frames : i > e => S[i] = NoSnap
    <3>1. \A i \in Frames : i > e => i > k
      BY <2>1, <2>8, NumbersAssumption DEF Frames
    <3>2. QED
      BY <2>3, <3>1
  <2>12. \A i \in 0 .. e : S[i] # NoSnap =>
            Good(g, S[i], i) /\ (S[i] = u \/ (i <= depth /\ S[i] = snap[i]))
    <3>1. ASSUME NEW i \in 0 .. e
          PROVE  i \in Frames /\ (i > k \/ (i \in 0 .. d /\ i <= d /\ i <= k /\ i \in Nat /\ ~(i > k)))
      BY <1>3, <2>1, <2>8, FramesAre
    <3>2. QED
      BY <1>1, <1>2, <2>3, <2>6, <3>1
  <2>13. \E j \in 0 .. depth : snap[j] # NoSnap /\ u = snap[j]
    BY <1>1, <1>2, <2>1, <2>4, <2>7
  <2>14. QED
    BY <2>3, <2>6, <2>7, <2>9, <2>10, <2>11, <2>12, <2>13, SimStepKeeps
<1>8. CASE Sim!Save /\ Stays
  BY <1>4, <1>8 DEF Sim!Save, Stays
<1>9. CASE Sim!MarkBranch /\ Stays
  BY <1>4, <1>9 DEF Sim!MarkBranch, Stays
<1>10. QED
  BY <1>5, <1>6, <1>7, <1>8, <1>9 DEF SimStep

-----------------------------------------------------------------------------
LEMMA Invariance == Spec => []IInv
<1>1. Init => IInv
  <2> SUFFICES ASSUME Init PROVE IInv
    OBVIOUS
  <2>1. /\ Emptied \in Header /\ Emptied.n_used = 0 /\ Emptied.n_alloc = 0
        /\ \A b \in Band : Emptied.bands[b] = NULL
    BY DEF Emptied, Header
  <2>2. TypeInv
    BY <2>1, NumbersAssumption DEF Init, TypeInv, HeapType, Frames
  <2>3. Good(heap, current, depth) /\ Apart(current, current)
    BY <2>1 DEF Init, Good, Apart
  <2>4. \A k \in 0 .. depth : k \in Frames
    BY <2>2, FramesAre DEF TypeInv
  <2>5. \A k \in Frames : snap[k] = NoSnap
    BY DEF Init
  <2>6. QED
    BY <2>2, <2>3, <2>4, <2>5 DEF IInv
<1>2. IInv /\ [Next]_vars => IInv'
  <2> SUFFICES ASSUME IInv, [Next]_vars PROVE IInv'
    OBVIOUS
  <2>1. CASE UNCHANGED vars
    BY <2>1 DEF vars, IInv, TypeInv
  <2>2. ASSUME NEW b \in Band, NewBand(b) PROVE IInv'
    BY <2>2, NewBandStep
  <2>3. ASSUME NEW b \in Band, ClearBand(b) PROVE IInv'
    BY <2>3, ClearBandStep
  <2>4. ASSUME NEW b \in Band, NEW i \in 1 .. current.n_used, NEW x \in Value, Store(b, i, x) PROVE IInv'
    BY <2>4, StoreStep
  <2>5. ASSUME NEW n \in 1 .. MaxBatch, Alloc(n) PROVE IInv'
    BY <2>5, AllocStep
  <2>6. ASSUME NEW m \in 1 .. MaxBatch, NEW idx \in [1 .. m -> Indices], Delete(idx) PROVE IInv'
    BY <2>6, DeleteStep
  <2>7. CASE Clear
    BY <2>7, ClearStep
  <2>8. CASE SimStep
    BY <2>8, SimStepSafe
  <2>9. QED
    BY <2>1, <2>2, <2>3, <2>4, <2>5, <2>6, <2>7, <2>8 DEF Next
<1>3. QED
  BY <1>1, <1>2, PTL DEF Spec

(* Neither the vector nor any copy of its header in a savepoint holds a    *)
(* band that a frame reset has freed or that is too small for n_alloc,     *)
(* however simF_vec_alloc and simF_vec_delete move elements in branches.   *)
THEOREM BandsAlwaysLive == Spec => []BandsLive
<1>1. IInv => BandsLive
  BY Safe
<1>2. QED
  BY <1>1, Invariance, PTL

(* A vector behaves like a value of the branching state: whatever one      *)
(* branch appends, deletes or replaces, in shared or in fresh memory, the  *)
(* header that a savepoint brings back still leads to the old contents.    *)
THEOREM ValuesAlways == Spec => []VectorsAreValues
<1>1. IInv => VectorsAreValues
  BY Safe
<1>2. QED
  BY <1>1, Invariance, PTL
=============================================================================
