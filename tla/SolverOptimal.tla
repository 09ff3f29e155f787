--------------------------- MODULE SolverOptimal ---------------------------
(***************************************************************************)
(* The search of S_select_chain is optimal: the bounds it records are low, *)
(* the chains it selects are cheapest ones, its guards are judged by       *)
(* values, and it gives up only where there is no chain.  The invariant    *)
(* relates every frame of the work stack to the least costs of the         *)
(* variables that the frames search for.                                   *)
(***************************************************************************)
EXTENDS SolverProofs

-----------------------------------------------------------------------------
(* Sums, iterations and finite sets.                                       *)

LEMMA MinIs ==
    ASSUME NEW S, S \subseteq Nat, S # {}
    PROVE  Min(S) \in S /\ \A y \in S : Min(S) <= y
<1>1. \E x \in S : \A y \in S : x <= y
  BY LeastNatural
<1>2. QED
  BY <1>1, Zenon DEF Min

LEMMA MaxIs ==
    ASSUME NEW b \in Nat, NEW S, S \subseteq 0 .. b, S # {}
    PROVE  Max(S) \in S /\ \A y \in S : y <= Max(S)
<1> DEFINE T == {n \in Nat : \E x \in S : n = b - x}
<1>1. T # {}
  <2>1. PICK x : x \in S
    OBVIOUS
  <2>2. b - x \in T
    BY <2>1
  <2>3. QED
    BY <2>2
<1>2. PICK n \in T : \A j \in T : n <= j
  BY <1>1, LeastNatural
<1>3. PICK x \in S : n = b - x
  BY <1>2
<1>4. ASSUME NEW y \in S PROVE y <= x /\ x >= y
  <2>1. b - y \in Nat
    OBVIOUS
  <2>2. b - y \in T
    BY <2>1
  <2>3. n <= b - y
    BY <1>2, <2>2
  <2>4. x \in 0 .. b /\ y \in 0 .. b
    OBVIOUS
  <2>5. QED
    BY <1>3, <2>3, <2>4
<1>5. \E z \in S : \A y \in S : z >= y
  BY <1>4
<1>6. Max(S) \in S /\ \A y \in S : Max(S) >= y
  BY <1>5, Zenon DEF Max
<1>7. QED
  BY <1>6

Iterates(f, S, step, base, n) ==
    /\ f \in [0 .. n -> S] /\ f[0] = base /\ \A i \in 1 .. n : f[i] = step[f[i - 1]]
    /\ Iterated(step, base, n) = f[n]

LEMMA IteratedIs ==
    ASSUME NEW S, NEW n \in Nat, NEW base \in S, NEW step \in [S -> S]
    PROVE  \E f : Iterates(f, S, step, base, n)
<1> DEFINE next == [z \in (1 .. n) \X S |-> step[z[2]]]
           D == CHOOSE f : f = [i \in 0 .. n |-> IF i = 0 THEN base ELSE step[f[i - 1]]]
<1>1. \A i \in 1 .. n : \A b \in S : next[<<i, b>>] = step[b] /\ next[<<i, b>>] \in S
  OBVIOUS
<1>2. Iterated(step, base, n) = D[n]
  BY DEF Iterated
<1> HIDE DEF next
<1>3. PICK g : Recursive(g, n, base, next)
  <2>1. \E g : Recursive(g, n, base, next)
    BY <1>1, RecursionExists
  <2>2. QED
    BY <2>1
<1>4. g \in [0 .. n -> S]
  BY <1>1, <1>3, RecursionType
<1>5. g = [i \in 0 .. n |-> IF i = 0 THEN base ELSE step[g[i - 1]]]
  <2>1. ASSUME NEW i \in 0 .. n PROVE g[i] = IF i = 0 THEN base ELSE step[g[i - 1]]
    <3>1. g[i] = IF i = 0 THEN base ELSE next[<<i, g[i - 1]>>]
      BY <1>3 DEF Recursive
    <3>2. CASE i = 0
      BY <3>1, <3>2
    <3>3. CASE i # 0
      <4>1. i \in 1 .. n /\ i - 1 \in 0 .. n
        BY <3>3
      <4>2. next[<<i, g[i - 1]>>] = step[g[i - 1]]
        BY <1>1, <1>4, <4>1
      <4>3. QED
        BY <3>1, <3>3, <4>2
    <3>4. QED
      BY <3>2, <3>3
  <2>2. QED
    BY <1>4, <2>1
<1>6. D = [i \in 0 .. n |-> IF i = 0 THEN base ELSE step[D[i - 1]]]
  BY <1>5
<1> HIDE DEF D
<1>7. D[0] = base /\ \A i \in 1 .. n : D[i] = step[D[i - 1]]
  <2>1. D[0] = base
    BY <1>6
  <2>2. ASSUME NEW i \in 1 .. n PROVE D[i] = step[D[i - 1]]
    <3>1. i \in 0 .. n /\ i # 0
      OBVIOUS
    <3>2. QED
      BY <1>6, <3>1, Zenon
  <2>3. QED
    BY <2>1, <2>2
<1> DEFINE T == {i \in Nat : i <= n /\ D[i] \notin S}
<1>8. T = {}
  <2> SUFFICES ASSUME T # {} PROVE FALSE
    OBVIOUS
  <2>1. PICK k \in T : \A j \in T : k <= j
    BY LeastNatural
  <2>2. k # 0
    BY <1>7, <2>1
  <2>3. k \in 1 .. n /\ k - 1 \in Nat /\ k - 1 <= n /\ ~(k <= k - 1)
    BY <2>1, <2>2
  <2>4. D[k - 1] \in S
    BY <2>1, <2>3
  <2>5. QED
    BY <1>7, <2>1, <2>3, <2>4
<1>9. D \in [0 .. n -> S]
  <2>1. \A i \in 0 .. n : D[i] \in S
    BY <1>8
  <2>2. DOMAIN D = 0 .. n /\ D = [i \in 0 .. n |-> D[i]]
    BY <1>6
  <2>3. QED
    BY <2>1, <2>2
<1>10. Iterates(D, S, step, base, n)
  BY <1>2, <1>7, <1>9 DEF Iterates
<1>11. QED
  BY <1>10

LEMMA SumsIs ==
    ASSUME NEW n \in Nat, NEW c \in [1 .. n -> Nat]
    PROVE  /\ Sums(c) \in [0 .. n -> Nat] /\ Sums(c)[0] = 0 /\ Total(c) = Sums(c)[n]
           /\ \A i \in 1 .. n : Sums(c)[i] = Sums(c)[i - 1] + c[i]
<1> DEFINE next == [z \in (1 .. n) \X Nat |-> z[2] + c[z[1]]]
           D == CHOOSE f : f = [i \in 0 .. n |-> IF i = 0 THEN 0 ELSE f[i - 1] + c[i]]
<1>1. \A i \in 1 .. n : \A b \in Nat : next[<<i, b>>] = b + c[i] /\ next[<<i, b>>] \in Nat
  OBVIOUS
<1>l. Len(c) = n
  OBVIOUS
<1>2. Sums(c) = D
  BY <1>l DEF Sums
<1> HIDE DEF next
<1>3. PICK g : Recursive(g, n, 0, next)
  <2>1. \E g : Recursive(g, n, 0, next)
    BY <1>1, RecursionExists
  <2>2. QED
    BY <2>1
<1>4. g \in [0 .. n -> Nat]
  BY <1>1, <1>3, RecursionType
<1>5. g = [i \in 0 .. n |-> IF i = 0 THEN 0 ELSE g[i - 1] + c[i]]
  <2>1. ASSUME NEW i \in 0 .. n PROVE g[i] = IF i = 0 THEN 0 ELSE g[i - 1] + c[i]
    <3>1. g[i] = IF i = 0 THEN 0 ELSE next[<<i, g[i - 1]>>]
      BY <1>3 DEF Recursive
    <3>2. CASE i = 0
      BY <3>1, <3>2
    <3>3. CASE i # 0
      <4>1. i \in 1 .. n /\ i - 1 \in 0 .. n
        BY <3>3
      <4>2. next[<<i, g[i - 1]>>] = g[i - 1] + c[i]
        BY <1>1, <1>4, <4>1
      <4>3. QED
        BY <3>1, <3>3, <4>2
    <3>4. QED
      BY <3>2, <3>3
  <2>2. QED
    BY <1>4, <2>1
<1>6. D = [i \in 0 .. n |-> IF i = 0 THEN 0 ELSE D[i - 1] + c[i]]
  BY <1>5
<1> HIDE DEF D
<1>7. D[0] = 0 /\ \A i \in 1 .. n : D[i] = D[i - 1] + c[i]
  <2>1. D[0] = 0
    BY <1>6
  <2>2. ASSUME NEW i \in 1 .. n PROVE D[i] = D[i - 1] + c[i]
    <3>1. i \in 0 .. n /\ i # 0
      OBVIOUS
    <3>2. QED
      BY <1>6, <3>1, Zenon
  <2>3. QED
    BY <2>1, <2>2
<1> DEFINE T == {i \in Nat : i <= n /\ D[i] \notin Nat}
<1>8. T = {}
  <2> SUFFICES ASSUME T # {} PROVE FALSE
    OBVIOUS
  <2>1. PICK k \in T : \A j \in T : k <= j
    BY LeastNatural
  <2>2. k # 0
    BY <1>7, <2>1
  <2>3. k \in 1 .. n /\ k - 1 \in Nat /\ k - 1 <= n /\ ~(k <= k - 1)
    BY <2>1, <2>2
  <2>4. D[k - 1] \in Nat
    BY <2>1, <2>3
  <2>5. QED
    BY <1>7, <2>1, <2>3, <2>4
<1>9. D \in [0 .. n -> Nat]
  <2>1. \A i \in 0 .. n : D[i] \in Nat
    BY <1>8
  <2>2. DOMAIN D = 0 .. n /\ D = [i \in 0 .. n |-> D[i]]
    BY <1>6
  <2>3. QED
    BY <2>1, <2>2
<1>10. QED
  BY <1>2, <1>7, <1>9, <1>l DEF Total

(* What a function does at each step, it does over several.                *)
LEMMA Rises ==
    ASSUME NEW n \in Nat, NEW f \in [0 .. n -> Nat], \A i \in 1 .. n : f[i - 1] <= f[i]
    PROVE  \A i, j \in 0 .. n : i <= j => f[i] <= f[j]
<1> SUFFICES ASSUME NEW i \in 0 .. n PROVE \A j \in 0 .. n : i <= j => f[i] <= f[j]
  OBVIOUS
<1> DEFINE T == {j \in Nat : j <= n /\ i <= j /\ ~(f[i] <= f[j])}
<1>1. T = {}
  <2> SUFFICES ASSUME T # {} PROVE FALSE
    OBVIOUS
  <2>1. PICK k \in T : \A j \in T : k <= j
    BY LeastNatural
  <2>2. k # i
    BY <2>1
  <2>3. k \in 1 .. n /\ k - 1 \in Nat /\ k - 1 <= n /\ i <= k - 1 /\ ~(k <= k - 1)
        /\ k - 1 \in 0 .. n /\ k \in 0 .. n
    BY <2>1, <2>2
  <2>4. f[i] <= f[k - 1]
    BY <2>1, <2>3
  <2>5. f[k - 1] <= f[k]
    BY <2>3
  <2>6. QED
    BY <2>1, <2>3, <2>4, <2>5
<1>2. \A j \in 0 .. n : j \in Nat /\ j <= n
  OBVIOUS
<1>3. QED
  BY <1>1, <1>2

LEMMA SumsRise ==
    ASSUME NEW n \in Nat, NEW c \in [1 .. n -> Nat], NEW i \in 0 .. n, NEW j \in 0 .. n, i <= j
    PROVE  Sums(c)[i] <= Sums(c)[j] /\ Sums(c)[i] \in Nat /\ Sums(c)[j] \in Nat
<1>1. PICK f \in [0 .. n -> Nat] : f = Sums(c) /\ \A k \in 1 .. n : f[k] = f[k - 1] + c[k]
  BY SumsIs
<1>2. \A k \in 1 .. n : f[k - 1] <= f[k]
  BY <1>1
<1>3. QED
  BY <1>1, <1>2, Rises

LEMMA TotalsOrdered ==
    ASSUME NEW n \in Nat, NEW c \in [1 .. n -> Nat], NEW d \in [1 .. n -> Nat],
           \A i \in 1 .. n : c[i] <= d[i]
    PROVE  Total(c) <= Total(d) /\ Total(c) \in Nat /\ Total(d) \in Nat
<1>1. PICK f \in [0 .. n -> Nat] :
          f[0] = 0 /\ Total(c) = f[n] /\ \A k \in 1 .. n : f[k] = f[k - 1] + c[k]
  BY SumsIs
<1>2. PICK h \in [0 .. n -> Nat] :
          h[0] = 0 /\ Total(d) = h[n] /\ \A k \in 1 .. n : h[k] = h[k - 1] + d[k]
  BY SumsIs
<1> DEFINE T == {j \in Nat : j <= n /\ ~(f[j] <= h[j])}
<1>3. T = {}
  <2> SUFFICES ASSUME T # {} PROVE FALSE
    OBVIOUS
  <2>1. PICK k \in T : \A j \in T : k <= j
    BY LeastNatural
  <2>2. k # 0
    BY <1>1, <1>2, <2>1
  <2>3. k \in 1 .. n /\ k - 1 \in Nat /\ k - 1 <= n /\ ~(k <= k - 1)
        /\ k - 1 \in 0 .. n /\ k \in 0 .. n
    BY <2>1, <2>2
  <2>4. f[k - 1] <= h[k - 1]
    BY <2>1, <2>3
  <2>5. f[k] = f[k - 1] + c[k] /\ h[k] = h[k - 1] + d[k] /\ c[k] <= d[k] /\ c[k] \in Nat /\ d[k] \in Nat
    BY <1>1, <1>2, <2>3
  <2>6. QED
    BY <2>1, <2>3, <2>4, <2>5
<1>4. f[n] <= h[n]
  <2>1. ~(n \in Nat /\ n <= n /\ ~(f[n] <= h[n]))
    BY <1>3, Zenon
  <2>2. n <= n
    OBVIOUS
  <2>3. QED
    BY <2>1, <2>2
<1>5. QED
  BY <1>1, <1>2, <1>4

LEMMA Pigeons ==
    ASSUME NEW U, IsFiniteSet(U), NEW n \in Nat, Cardinality(U) < n, NEW f \in [1 .. n -> U]
    PROVE  \E i, j \in 1 .. n : i < j /\ f[i] = f[j]
<1>1. IsFiniteSet(1 .. n) /\ Cardinality(1 .. n) = n
  BY FS_Interval
<1>2. \E i, j \in 1 .. n : i # j /\ f[i] = f[j]
  BY <1>1, FS_PigeonHole
<1>3. QED
  BY <1>2

-----------------------------------------------------------------------------
(* Models, their parameters and what they cost.                            *)

LEMMA GraphIs ==
    ASSUME G \in Graphs
    PROVE  /\ IsFiniteSet(Var) /\ Cardinality(Var) \in Nat /\ Longest(G) = Cardinality(Var) + 1
           /\ \A x \in Var : ModelsOf(G, x) \subseteq Mod
           /\ MaxCost \in Nat /\ Inf \in Nat /\ MaxCost < Inf
<1>1. IsFiniteSet(Var)
  BY SolverAssumption DEF IsGraph, Var
<1>2. Cardinality(Var) \in Nat /\ Longest(G) = Cardinality(Var) + 1
  BY <1>1, FS_CardinalityType DEF Longest, Var
<1>3. ASSUME NEW x \in Var, NEW m \in ModelsOf(G, x) PROVE m \in Mod
  <2>1. PICK ms \in Seq(Seq(Mod)) : ms = G.models[x]
    BY VarIs
  <2>2. PICK e \in Range(ms) : m \in Range(e)
    BY <2>1 DEF ModelsOf
  <2>3. e \in Seq(Mod)
    BY <2>2, SeqIs, Zenon DEF Range
  <2>4. QED
    BY <2>2, <2>3 DEF Range
<1>4. QED
  BY <1>1, <1>2, <1>3, SolverAssumption

LEMMA ParamsIs ==
    ASSUME G \in Graphs, NEW m \in Mod
    PROVE  /\ Len(G.mod[m].params) \in Nat
           /\ DOMAIN G.mod[m].params = 1 .. Len(G.mod[m].params)
           /\ \A i \in 1 .. Len(G.mod[m].params) :
                 /\ G.mod[m].params[i] \in Seq(Var) /\ Range(G.mod[m].params[i]) \subseteq Var
                 /\ Len(G.mod[m].params[i]) \in Nat
                 /\ Range(G.mod[m].params[i]) =
                       {G.mod[m].params[i][k] : k \in 1 .. Len(G.mod[m].params[i])}
<1> DEFINE ps == G.mod[m].params
<1>1. ps \in Seq(Seq(Var))
  BY ModIs
<1> HIDE DEF ps
<1>2. Len(ps) \in Nat /\ DOMAIN ps = 1 .. Len(ps) /\ \A i \in DOMAIN ps : ps[i] \in Seq(Var)
  BY <1>1, SeqIs, Zenon
<1>3. ASSUME NEW i \in 1 .. Len(ps)
      PROVE  /\ ps[i] \in Seq(Var) /\ Range(ps[i]) \subseteq Var /\ Len(ps[i]) \in Nat
             /\ Range(ps[i]) = {ps[i][k] : k \in 1 .. Len(ps[i])}
  <2>1. PICK p \in Seq(Var) : p = ps[i]
    BY <1>2
  <2>2. Range(p) \subseteq Var /\ Len(p) \in Nat /\ Range(p) = {p[k] : k \in 1 .. Len(p)}
    BY DEF Range
  <2>3. QED
    BY <2>1, <2>2
<1>4. DOMAIN ps = 1 .. Len(ps) /\ Len(ps) \in Nat
  BY <1>2
<1>5. QED
  BY <1>3, <1>4, Zenon DEF ps

LEMMA EdgeCostIs ==
    ASSUME G \in Graphs, NEW vc \in [Var -> 0 .. Inf], NEW e, Range(e) \subseteq Var
    PROVE  /\ EdgeCost(e, vc) \in 0 .. Inf /\ \A y \in Range(e) : vc[y] <= EdgeCost(e, vc)
           /\ EdgeCost(e, vc) = 0 \/ \E y \in Range(e) : EdgeCost(e, vc) = vc[y]
<1> DEFINE S == {0} \cup {vc[y] : y \in Range(e)}
<1>1. Inf \in Nat
  BY SolverAssumption
<1>2. S \subseteq 0 .. Inf /\ S # {}
  BY <1>1
<1>3. Max(S) \in S /\ \A y \in S : y <= Max(S)
  BY <1>1, <1>2, MaxIs
<1>4. EdgeCost(e, vc) = Max(S)
  BY DEF EdgeCost
<1>5. QED
  BY <1>2, <1>3, <1>4

LEMMA CapIs ==
    ASSUME NEW a \in Nat
    PROVE  /\ Cap(a) \in 0 .. Inf /\ Cap(a) <= a /\ (a <= Inf => Cap(a) = a)
           /\ \A b \in Nat : a <= b => Cap(a) <= Cap(b)
           /\ (Cap(a) < Inf => Cap(a) = a) /\ (a >= Inf => Cap(a) = Inf)
  BY SolverAssumption DEF Cap, Smaller

LEMMA Times ==
    ASSUME NEW c \in Nat, NEW a \in Int, NEW b \in Int, a <= b
    PROVE  c * a <= c * b
<1>1. PICK d \in Nat : b = a + d
  <2>1. b - a \in Nat /\ b = a + (b - a)
    OBVIOUS
  <2>2. QED
    BY <2>1
<1>2. c * b = c * a + c * d /\ c * d \in Nat /\ c * a \in Int
  BY <1>1
<1>3. QED
  BY <1>2

LEMMA Quotient ==
    ASSUME NEW a \in Int, NEW c \in Nat \ {0}, NEW S \in Int
    PROVE  S <= a \div c <=> c * S <= a
<1>1. PICK q \in Int : q = a \div c /\ c * q <= a /\ a < c * (q + 1)
  OBVIOUS
<1>2. c * S \in Int /\ c * q \in Int /\ c * (q + 1) \in Int
  OBVIOUS
<1>3. CASE S <= q
  <2>1. c * S <= c * q
    BY <1>3, Times
  <2>2. QED
    BY <1>1, <1>2, <1>3, <2>1
<1>4. CASE q + 1 <= S
  <2>1. c * (q + 1) <= c * S
    BY <1>4, Times
  <2>2. QED
    BY <1>1, <1>2, <1>4, <2>1
<1>5. QED
  BY <1>3, <1>4

LEMMA CostfIs ==
    ASSUME G \in Graphs, NEW m \in Mod, NEW S \in Nat
    PROVE  /\ Costf(G, m, S) \in 0 .. Inf
           /\ Cap(G.mod[m].k) <= Costf(G, m, S) /\ Cap(S) <= Costf(G, m, S)
           /\ Costf(G, m, Cap(S)) = Costf(G, m, S)
           /\ \A R \in Nat : S <= R => Costf(G, m, S) <= Costf(G, m, R)
<1>1. PICK k \in Nat, c \in Nat \ {0} : k = G.mod[m].k /\ c = G.mod[m].c
  BY ModIs
<1>2. \A R : Costf(G, m, R) = Cap(k + c * R)
  BY <1>1 DEF Costf
<1>3. ASSUME NEW R \in Nat PROVE k + c * R \in Nat /\ k <= k + c * R /\ R <= k + c * R
  <2>1. c * R \in Nat
    OBVIOUS
  <2>2. R * 1 <= R * c
    BY Times
  <2>3. QED
    BY <2>1, <2>2
<1>4. /\ Costf(G, m, S) \in 0 .. Inf
      /\ Cap(k) <= Costf(G, m, S) /\ Cap(S) <= Costf(G, m, S)
  BY <1>2, <1>3, CapIs
<1>5. ASSUME NEW R \in Nat, S <= R PROVE Costf(G, m, S) <= Costf(G, m, R)
  <2>1. c * S <= c * R /\ c * S \in Nat /\ c * R \in Nat
    BY <1>5, Times
  <2>2. k + c * S <= k + c * R
    BY <2>1
  <2>3. QED
    BY <1>2, <1>3, <2>2, CapIs
<1>6. Costf(G, m, Cap(S)) = Costf(G, m, S)
  <2>1. CASE S <= Inf
    <3>1. Cap(S) = S
      BY <2>1, CapIs
    <3>2. QED
      BY <3>1
  <2>2. CASE S > Inf
    <3>1. Inf \in Nat
      BY SolverAssumption
    <3>2. Cap(S) = Inf
      BY <2>2, <3>1, CapIs
    <3>3. k + c * Inf \in Nat /\ Inf <= k + c * Inf
      BY <1>3, <3>1
    <3>4. k + c * S \in Nat /\ S <= k + c * S
      BY <1>3
    <3>5. Cap(k + c * Inf) = Inf
      BY <3>3, CapIs, Zenon, <3>1
    <3>6. Cap(k + c * S) = Inf
      <4>1. k + c * S >= Inf
        BY <2>2, <3>1, <3>4
      <4>2. QED
        BY <3>4, <4>1, CapIs
    <3>7. QED
      BY <1>2, <3>2, <3>5, <3>6
  <2>3. QED
    BY <2>1, <2>2, SolverAssumption
<1>7. QED
  BY <1>1, <1>4, <1>5, <1>6

LEMMA WithinBound ==
    ASSUME G \in Graphs, NEW m \in Mod, NEW S \in Nat, NEW beta \in Int, beta <= MaxCost
    PROVE  S <= CostfInvS(G, m, beta) <=> Costf(G, m, S) <= beta
<1>1. PICK k \in Nat, c \in Nat \ {0} : k = G.mod[m].k /\ c = G.mod[m].c
  BY ModIs
<1>2. CostfInvS(G, m, beta) = (beta - k) \div c
  BY <1>1 DEF CostfInvS
<1>3. S <= (beta - k) \div c <=> c * S <= beta - k
  <2>1. beta - k \in Int
    OBVIOUS
  <2>2. QED
    BY <2>1, Quotient
<1>4. Costf(G, m, S) = Cap(k + c * S)
  BY <1>1 DEF Costf
<1>5. PICK t \in Nat : t = c * S
  OBVIOUS
<1>6. k + t \in Nat
  OBVIOUS
<1>7. Cap(k + t) <= beta <=> k + t <= beta
  BY <1>6, CapIs, SolverAssumption
<1>8. QED
  BY <1>2, <1>3, <1>4, <1>5, <1>7
LEMMA CostsAre ==
    ASSUME G \in Graphs, NEW m \in Mod
    PROVE  /\ Len(G.mod[m].shadows) \in Nat
           /\ ShadowCosts(G, m) \in [1 .. Len(G.mod[m].shadows) -> Nat]
           /\ \A i \in 1 .. Len(G.mod[m].shadows) :
                 ShadowCosts(G, m)[i] = ShadowCost(G, G.mod[m].shadows[i])
<1>1. PICK sh \in Seq([penalty : Nat, over : Seq(DOMAIN G.shadow)]) : sh = G.mod[m].shadows
  BY ModIs
<1>2. PICK n \in Nat : n = Len(sh) /\ DOMAIN sh = 1 .. n
  OBVIOUS
<1>3. ASSUME NEW i \in 1 .. n PROVE ShadowCost(G, sh[i]) \in Nat
  <2>1. sh[i].penalty \in Nat
    BY <1>1, <1>2, OverIs
  <2>2. QED
    BY <2>1 DEF ShadowCost
<1>4. ShadowCosts(G, m) = [i \in 1 .. n |-> ShadowCost(G, sh[i])]
  BY <1>1, <1>2 DEF ShadowCosts
<1>5. QED
  BY <1>1, <1>2, <1>3, <1>4

LEMMA ParamCostsAre ==
    ASSUME G \in Graphs, NEW m \in Mod, NEW vc \in [Var -> 0 .. Inf]
    PROVE  /\ ParamCosts(G, m, vc) \in [1 .. Len(G.mod[m].params) -> Nat]
           /\ \A i \in 1 .. Len(G.mod[m].params) :
                 ParamCosts(G, m, vc)[i] = EdgeCost(G.mod[m].params[i], vc)
<1>1. PICK ps : ps = G.mod[m].params
  OBVIOUS
<1>2. PICK n \in Nat : n = Len(ps) /\ DOMAIN ps = 1 .. n
  BY <1>1, ParamsIs
<1>3. ASSUME NEW i \in 1 .. n PROVE EdgeCost(ps[i], vc) \in Nat
  <2>1. Range(ps[i]) \subseteq Var
    BY <1>1, <1>2, ParamsIs
  <2>2. EdgeCost(ps[i], vc) \in 0 .. Inf /\ Inf \in Nat
    BY <2>1, EdgeCostIs, SolverAssumption
  <2>3. QED
    BY <2>2
<1>4. ParamCosts(G, m, vc) = [i \in 1 .. n |-> EdgeCost(ps[i], vc)]
  BY <1>1, <1>2 DEF ParamCosts
<1>5. QED
  BY <1>1, <1>2, <1>3, <1>4

LEMMA ModelCostIs ==
    ASSUME G \in Graphs, NEW m \in Mod, NEW vc \in [Var -> 0 .. Inf]
    PROVE  /\ Total(ShadowCosts(G, m)) \in Nat /\ Total(ParamCosts(G, m, vc)) \in Nat
           /\ ModelCost(G, m, vc) \in 0 .. Inf
           /\ ModelCost(G, m, vc) =
                 Costf(G, m, Total(ShadowCosts(G, m)) + Total(ParamCosts(G, m, vc)))
<1>1. PICK n \in Nat, l \in Nat : n = Len(G.mod[m].shadows) /\ l = Len(G.mod[m].params)
  BY CostsAre, ParamsIs
<1>2. ShadowCosts(G, m) \in [1 .. n -> Nat] /\ ParamCosts(G, m, vc) \in [1 .. l -> Nat]
  BY <1>1, CostsAre, ParamCostsAre
<1>3. Total(ShadowCosts(G, m)) \in Nat /\ Total(ParamCosts(G, m, vc)) \in Nat
  <2>1. \A j \in Nat : \A c \in [1 .. j -> Nat] : Total(c) \in Nat
    BY SumsIs
  <2>2. QED
    BY <1>2, <2>1
<1>4. PICK S \in Nat : S = Total(ShadowCosts(G, m)) + Total(ParamCosts(G, m, vc))
  BY <1>3
<1>5. Costf(G, m, S) \in 0 .. Inf /\ Costf(G, m, Cap(S)) = Costf(G, m, S)
  BY CostfIs
<1>6. QED
  BY <1>3, <1>4, <1>5 DEF ModelCost

LEMMA ModelsOrdered ==
    ASSUME G \in Graphs, NEW m \in Mod, NEW vc \in [Var -> 0 .. Inf], NEW vd \in [Var -> 0 .. Inf],
           \A i \in 1 .. Len(G.mod[m].params) :
              EdgeCost(G.mod[m].params[i], vc) <= EdgeCost(G.mod[m].params[i], vd)
    PROVE  ModelCost(G, m, vc) <= ModelCost(G, m, vd)
<1>1. PICK n \in Nat : n = Len(G.mod[m].params)
  BY ParamsIs
<1>2. PICK c \in [1 .. n -> Nat], d \in [1 .. n -> Nat] :
          c = ParamCosts(G, m, vc) /\ d = ParamCosts(G, m, vd)
  BY <1>1, ParamCostsAre
<1>3. \A i \in 1 .. n : c[i] <= d[i]
  BY <1>1, <1>2, ParamCostsAre
<1>4. Total(c) <= Total(d) /\ Total(c) \in Nat /\ Total(d) \in Nat
  BY <1>3, TotalsOrdered
<1>5. PICK S \in Nat : S = Total(ShadowCosts(G, m))
  BY ModelCostIs
<1>6. S + Total(c) \in Nat /\ S + Total(d) \in Nat /\ S + Total(c) <= S + Total(d)
  BY <1>4
<1>7. Costf(G, m, S + Total(c)) <= Costf(G, m, S + Total(d))
  BY <1>6, CostfIs
<1>8. QED
  BY <1>2, <1>5, <1>7, ModelCostIs

LEMMA EdgesOrdered ==
    ASSUME G \in Graphs, NEW vc \in [Var -> 0 .. Inf], NEW vd \in [Var -> 0 .. Inf],
           NEW e, Range(e) \subseteq Var, \A y \in Range(e) : vc[y] <= vd[y]
    PROVE  EdgeCost(e, vc) <= EdgeCost(e, vd)
<1>1. EdgeCost(e, vd) \in 0 .. Inf /\ \A y \in Range(e) : vd[y] <= EdgeCost(e, vd)
  BY EdgeCostIs
<1>2. EdgeCost(e, vc) = 0 \/ \E y \in Range(e) : EdgeCost(e, vc) = vc[y]
  BY EdgeCostIs
<1>3. \A y \in Var : vc[y] \in 0 .. Inf /\ vd[y] \in 0 .. Inf
  OBVIOUS
<1>4. Inf \in Nat
  BY SolverAssumption
<1>5. QED
  BY <1>1, <1>2, <1>3, <1>4

LEMMA RelaxIs ==
    ASSUME G \in Graphs, NEW vc \in [Var -> 0 .. Inf]
    PROVE  /\ Relax(G, vc) \in [Var -> 0 .. Inf]
           /\ \A x \in Var :
                 /\ \A m \in ModelsOf(G, x) : Relax(G, vc)[x] <= ModelCost(G, m, vc)
                 /\ \/ Relax(G, vc)[x] = Inf
                    \/ \E m \in ModelsOf(G, x) : Relax(G, vc)[x] = ModelCost(G, m, vc)
<1>1. Inf \in Nat
  BY SolverAssumption
<1>2. ASSUME NEW x \in Var
      PROVE  /\ Relax(G, vc)[x] \in 0 .. Inf
             /\ \A m \in ModelsOf(G, x) : Relax(G, vc)[x] <= ModelCost(G, m, vc)
             /\ \/ Relax(G, vc)[x] = Inf
                \/ \E m \in ModelsOf(G, x) : Relax(G, vc)[x] = ModelCost(G, m, vc)
  <2> DEFINE S == {Inf} \cup {ModelCost(G, m, vc) : m \in ModelsOf(G, x)}
  <2>1. \A m \in ModelsOf(G, x) : ModelCost(G, m, vc) \in 0 .. Inf
    BY GraphIs, ModelCostIs
  <2>2. S \subseteq 0 .. Inf /\ S # {} /\ S \subseteq Nat
    BY <1>1, <2>1
  <2>3. Min(S) \in S /\ \A y \in S : Min(S) <= y
    BY <2>2, MinIs
  <2>4. Relax(G, vc)[x] = Min(S)
    BY DEF Relax, Var
  <2>5. QED
    BY <2>2, <2>3, <2>4
<1>3. Relax(G, vc) = [x \in Var |-> Relax(G, vc)[x]]
  BY DEF Relax, Var
<1>4. QED
  BY <1>2, <1>3

-----------------------------------------------------------------------------
(* What is computable, and what a variable depends on.                     *)

(* Sets that grow out of each other in a finite set stop growing.          *)
LEMMA SetsRise ==
    ASSUME NEW n \in Nat, NEW C, \A i \in 1 .. n : C[i - 1] \subseteq C[i]
    PROVE  \A i, j \in 0 .. n : i <= j => C[i] \subseteq C[j]
<1> SUFFICES ASSUME NEW i \in 0 .. n PROVE \A j \in 0 .. n : i <= j => C[i] \subseteq C[j]
  OBVIOUS
<1> DEFINE T == {j \in Nat : j <= n /\ i <= j /\ ~(C[i] \subseteq C[j])}
<1>1. T = {}
  <2> SUFFICES ASSUME T # {} PROVE FALSE
    OBVIOUS
  <2>1. PICK k \in T : \A j \in T : k <= j
    BY LeastNatural
  <2>2. k # i
    BY <2>1
  <2>3. k \in 1 .. n /\ k - 1 \in Nat /\ k - 1 <= n /\ i <= k - 1 /\ ~(k <= k - 1)
        /\ k - 1 \in 0 .. n /\ k \in 0 .. n
    BY <2>1, <2>2
  <2>4. C[i] \subseteq C[k - 1]
    BY <2>1, <2>3
  <2>5. C[k - 1] \subseteq C[k]
    BY <2>3
  <2>6. QED
    BY <2>1, <2>4, <2>5
<1>2. \A j \in 0 .. n : j \in Nat /\ j <= n
  OBVIOUS
<1>3. QED
  BY <1>1, <1>2

LEMMA Settles ==
    ASSUME NEW U, IsFiniteSet(U), NEW n \in Nat, n = Cardinality(U) + 1,
           NEW C \in [0 .. n -> SUBSET U], \A i \in 1 .. n : C[i - 1] \subseteq C[i],
           \A i \in 1 .. n - 1 : C[i] = C[i - 1] => C[i + 1] = C[i]
    PROVE  C[n] = C[n - 1]
<1> SUFFICES ASSUME C[n] # C[n - 1] PROVE FALSE
  OBVIOUS
<1>1. Cardinality(U) \in Nat /\ n >= 1
  BY FS_CardinalityType
<1> DEFINE T == {j \in Nat : j < n /\ C[n - j] = C[n - j - 1]}
<1>2. T = {}
  <2> SUFFICES ASSUME T # {} PROVE FALSE
    OBVIOUS
  <2>1. PICK k \in T : \A j \in T : k <= j
    BY LeastNatural
  <2>2. k # 0
    BY <2>1
  <2>3. PICK l \in 1 .. n - 1 : l = n - k /\ l + 1 = n - (k - 1) /\ k - 1 \in Nat /\ k - 1 < n
    <3>1. n - k \in 1 .. n - 1 /\ n - k + 1 = n - (k - 1) /\ k - 1 \in Nat /\ k - 1 < n
      BY <2>1, <2>2
    <3>2. QED
      BY <3>1
  <2>4. C[l] = C[l - 1]
    BY <2>1, <2>3
  <2>5. C[l + 1] = C[l]
    BY <2>4
  <2>6. n - (k - 1) - 1 = l
    BY <2>3
  <2>7. k - 1 \in T
    BY <2>3, <2>5, <2>6
  <2>8. QED
    BY <2>1, <2>7
<1>3. ASSUME NEW i \in 1 .. n PROVE \E x \in U : x \in C[i] /\ x \notin C[i - 1]
  <2>1. n - i \in Nat /\ n - i < n /\ n - (n - i) = i
    OBVIOUS
  <2>2. n - i \notin T
    BY <1>2
  <2>3. C[i] # C[i - 1]
    BY <2>1, <2>2
  <2>4. C[i - 1] \subseteq C[i] /\ C[i] \subseteq U
    <3>1. i \in 0 .. n
      OBVIOUS
    <3>2. QED
      BY <3>1
  <2>5. QED
    BY <2>3, <2>4
<1> DEFINE f == [i \in 1 .. n |-> CHOOSE x \in U : x \in C[i] /\ x \notin C[i - 1]]
<1>4. \A i \in 1 .. n : f[i] \in U /\ f[i] \in C[i] /\ f[i] \notin C[i - 1]
  BY <1>3
<1>5. f \in [1 .. n -> U]
  BY <1>4
<1> HIDE DEF f
<1>6. PICK i \in 1 .. n, j \in 1 .. n : i < j /\ f[i] = f[j]
  <2>1. Cardinality(U) < n
    BY <1>1
  <2>2. QED
    BY <1>5, <2>1, Pigeons
<1>7. C[i] \subseteq C[j - 1]
  <2>1. i \in 0 .. n /\ j - 1 \in 0 .. n /\ i <= j - 1
    BY <1>6
  <2>2. \A k, l \in 0 .. n : k <= l => C[k] \subseteq C[l]
    BY SetsRise, Zenon
  <2>3. QED
    BY <2>1, <2>2
<1>8. QED
  BY <1>4, <1>6, <1>7

(* Computable variables are those with a model whose parameters are        *)
(* computable and whose shadows are affordable.                            *)
LEMMA MoreIs ==
    ASSUME G \in Graphs, NEW C \in SUBSET Var, NEW D \in SUBSET Var, C \subseteq D
    PROVE  /\ MoreComputable(G, C) \subseteq MoreComputable(G, D)
           /\ MoreComputable(G, C) \in SUBSET Var
<1>1. \A e : Affordable(G, e, C) => Affordable(G, e, D)
  BY DEF Affordable, PassesWith
<1>2. QED
  BY <1>1 DEF MoreComputable, Var

LEMMA ComputableIs ==
    ASSUME G \in Graphs
    PROVE  Computable(G) \subseteq Var /\ MoreComputable(G, Computable(G)) = Computable(G)
<1>1. PICK n \in Nat : n = Longest(G) /\ n = Cardinality(Var) + 1
  BY GraphIs
<1> DEFINE S == SUBSET Var
           step == [C \in S |-> MoreComputable(G, C)]
<1>2. step \in [S -> S] /\ \A C \in SUBSET Var : step[C] = MoreComputable(G, C)
  BY MoreIs
<1>3. Computable(G) = Iterated(step, {}, n)
  BY <1>1 DEF Computable, Var
<1>s. {} \in S
  OBVIOUS
<1> HIDE DEF step, S
<1>4. PICK C : Iterates(C, S, step, {}, n)
  <2>1. step \in [S -> S]
    BY <1>2
  <2>2. \E C : Iterates(C, S, step, {}, n)
    BY <1>s, <2>1, IteratedIs
  <2>3. QED
    BY <2>2
<1>i. /\ C \in [0 .. n -> S] /\ C[0] = {} /\ \A i \in 1 .. n : C[i] = step[C[i - 1]]
      /\ Iterated(step, {}, n) = C[n]
  BY <1>4 DEF Iterates
<1>5. C \in [0 .. n -> SUBSET Var] /\ \A i \in 0 .. n : C[i] \in SUBSET Var
  BY <1>i DEF S
<1>6. \A i \in 1 .. n : C[i] = MoreComputable(G, C[i - 1])
  <2>1. \A i \in 1 .. n : i - 1 \in 0 .. n
    OBVIOUS
  <2>2. QED
    BY <1>2, <1>i, <1>5, <2>1
<1> DEFINE T == {i \in Nat : i >= 1 /\ i <= n /\ ~(C[i - 1] \subseteq C[i])}
<1>7. T = {}
  <2> SUFFICES ASSUME T # {} PROVE FALSE
    OBVIOUS
  <2>1. PICK k \in T : \A j \in T : k <= j
    BY LeastNatural
  <2>2. k # 1
    BY <1>i, <2>1
  <2>3. /\ k \in 1 .. n /\ k - 1 \in 1 .. n /\ ~(k <= k - 1) /\ k - 1 \in Nat /\ k - 1 >= 1
        /\ k - 1 <= n /\ k - 1 - 1 \in 0 .. n /\ k - 1 \in 0 .. n
    BY <2>1, <2>2
  <2>4. C[k - 1 - 1] \subseteq C[k - 1]
    BY <2>1, <2>3
  <2>5. C[k] = MoreComputable(G, C[k - 1]) /\ C[k - 1] = MoreComputable(G, C[k - 1 - 1])
    BY <1>6, <2>3
  <2>6. C[k - 1] \in SUBSET Var /\ C[k - 1 - 1] \in SUBSET Var
    BY <1>5, <2>3
  <2>7. MoreComputable(G, C[k - 1 - 1]) \subseteq MoreComputable(G, C[k - 1])
    BY <2>4, <2>6, MoreIs
  <2>8. QED
    BY <2>1, <2>5, <2>7, Zenon
<1>8. \A i \in 1 .. n : C[i - 1] \subseteq C[i]
  <2>1. \A i \in 1 .. n : i \in Nat /\ i >= 1 /\ i <= n
    OBVIOUS
  <2>2. QED
    BY <1>7, <2>1
<1>9. ASSUME NEW i \in 1 .. n - 1, C[i] = C[i - 1] PROVE C[i + 1] = C[i]
  <2>1. i + 1 \in 1 .. n /\ i + 1 - 1 = i /\ i \in 1 .. n
    OBVIOUS
  <2>2. C[i + 1] = MoreComputable(G, C[i + 1 - 1]) /\ C[i] = MoreComputable(G, C[i - 1])
    BY <1>6, <2>1
  <2>3. QED
    BY <1>9, <2>1, <2>2
<1>10. C[n] = C[n - 1]
  <2>1. IsFiniteSet(Var)
    BY GraphIs
  <2>2. QED
    BY <1>1, <1>5, <1>8, <1>9, <2>1, Settles
<1>11. n \in 1 .. n /\ n \in 0 .. n
  BY <1>1, GraphIs
<1>12. C[n] = MoreComputable(G, C[n])
  BY <1>6, <1>10, <1>11
<1>13. QED
  BY <1>3, <1>i, <1>5, <1>11, <1>12

LEMMA ComputableBy ==
    ASSUME G \in Graphs, NEW x \in Var, NEW m \in ModelsOf(G, x),
           \A i \in 1 .. Len(G.mod[m].params) : Range(G.mod[m].params[i]) \subseteq Computable(G),
           \A i \in 1 .. Len(G.mod[m].shadows) : ShadowCost(G, G.mod[m].shadows[i]) < Inf
    PROVE  x \in Computable(G)
<1>1. m \in Mod
  BY GraphIs
<1>2. \A p \in Range(G.mod[m].params) : Range(p) \subseteq Computable(G)
  BY <1>1, ParamsIs DEF Range
<1>3. ASSUME NEW e \in Range(G.mod[m].shadows) PROVE Affordable(G, e, Computable(G))
  <2>1. PICK i \in 1 .. Len(G.mod[m].shadows) : e = G.mod[m].shadows[i]
    <3>1. PICK sh \in Seq([penalty : Nat, over : Seq(DOMAIN G.shadow)]) : sh = G.mod[m].shadows
      BY <1>1, ModIs
    <3>2. QED
      BY <3>1 DEF Range
  <2>2. ShadowCost(G, e) < Inf
    BY <2>1
  <2>3. QED
    BY <2>2 DEF ShadowCost, Passes, Affordable
<1>4. x \in MoreComputable(G, Computable(G))
  BY <1>2, <1>3 DEF MoreComputable, Var
<1>5. QED
  BY <1>4, ComputableIs

(* What a variable depends on, and what that depends on.                   *)
LEMMA DirectIs ==
    ASSUME G \in Graphs, NEW x \in Var
    PROVE  /\ Direct(G, x) \in SUBSET Var
           /\ \A m \in ModelsOf(G, x) :
                 /\ \A i \in 1 .. Len(G.mod[m].params) : Range(G.mod[m].params[i]) \subseteq Direct(G, x)
                 /\ \A i \in 1 .. Len(G.mod[m].shadows) :
                       \A w \in Range(G.mod[m].shadows[i].over) :
                          G.shadow[w].x \in Var => G.shadow[w].x \in Direct(G, x)
<1> SUFFICES ASSUME NEW m \in ModelsOf(G, x)
             PROVE  /\ Needed(G, m) \subseteq Var /\ Needed(G, m) \subseteq Direct(G, x)
                    /\ \A i \in 1 .. Len(G.mod[m].params) : Range(G.mod[m].params[i]) \subseteq Needed(G, m)
                    /\ \A i \in 1 .. Len(G.mod[m].shadows) :
                          \A w \in Range(G.mod[m].shadows[i].over) :
                             G.shadow[w].x \in Var => G.shadow[w].x \in Needed(G, m)
  BY DEF Direct
<1>1. m \in Mod /\ Var \cap Given = {}
  BY GraphIs, VarIs
<1>2. PICK n \in Nat, l \in Nat : /\ n = Len(G.mod[m].params) /\ l = Len(G.mod[m].shadows)
                                  /\ DOMAIN G.mod[m].params = 1 .. n
                                  /\ DOMAIN G.mod[m].shadows = 1 .. l
  <2>1. Len(G.mod[m].params) \in Nat /\ DOMAIN G.mod[m].params = 1 .. Len(G.mod[m].params)
    BY <1>1, ParamsIs
  <2>2. Len(G.mod[m].shadows) \in Nat /\ DOMAIN G.mod[m].shadows = 1 .. Len(G.mod[m].shadows)
    <3>1. PICK sh \in Seq([penalty : Nat, over : Seq(DOMAIN G.shadow)]) : sh = G.mod[m].shadows
      BY <1>1, ModIs
    <3>2. QED
      BY <3>1
  <2>3. QED
    BY <2>1, <2>2
<1>3. ASSUME NEW p \in Range(G.mod[m].params) PROVE Range(p) \subseteq Var
  <2>1. PICK i \in 1 .. n : p = G.mod[m].params[i]
    BY <1>2 DEF Range
  <2>2. QED
    BY <1>1, <1>2, <2>1, ParamsIs
<1>4. \A e \in Range(G.mod[m].shadows) : \A w \in Range(e.over) : G.shadow[w].x \in Var \cup Given
  <2>1. ASSUME NEW i \in 1 .. l, NEW w \in Range(G.mod[m].shadows[i].over)
        PROVE  G.shadow[w].x \in Var \cup Given
    <3>1. PICK over \in Seq(DOMAIN G.shadow) : over = G.mod[m].shadows[i].over
      BY <1>1, <1>2, OverIs
    <3>2. w \in DOMAIN G.shadow
      BY <2>1, <3>1 DEF Range
    <3>3. QED
      BY <3>2, VarIs
  <2>2. QED
    BY <1>2, <2>1 DEF Range
<1>n. \A y : y \in Needed(G, m) <=>
          /\ y \notin Given
          /\ \/ \E p \in Range(G.mod[m].params) : y \in Range(p)
             \/ \E e \in Range(G.mod[m].shadows) : \E w \in Range(e.over) : y = G.shadow[w].x
  <2> DEFINE ps == Range(G.mod[m].params)
             es == Range(G.mod[m].shadows)
             A == UNION {Range(p) : p \in ps}
             B == {G.shadow[w].x : w \in UNION {Range(e.over) : e \in es}}
  <2>1. Needed(G, m) = (A \cup B) \ Given
    BY DEF Needed
  <2> HIDE DEF ps, es
  <2>2. \A y : y \in A <=> \E p \in ps : y \in Range(p)
    OBVIOUS
  <2>3. \A w : w \in UNION {Range(e.over) : e \in es} <=> \E e \in es : w \in Range(e.over)
    OBVIOUS
  <2>4. \A y : y \in B <=> \E e \in es : \E w \in Range(e.over) : y = G.shadow[w].x
    BY <2>3, Zenon
  <2> HIDE DEF A, B
  <2>5. \A y : y \in Needed(G, m) <=> y \notin Given /\ (y \in A \/ y \in B)
    BY <2>1
  <2>6. QED
    BY <2>2, <2>4, <2>5, Zenon DEF ps, es
<1>5. Needed(G, m) \subseteq Var /\ Needed(G, m) \subseteq Direct(G, x)
  <2>1. Needed(G, m) \subseteq Direct(G, x)
    BY DEF Direct
  <2>2. ASSUME NEW y \in Needed(G, m) PROVE y \in Var
    <3>1. y \notin Given
      BY <1>n, Zenon
    <3>2. CASE \E p \in Range(G.mod[m].params) : y \in Range(p)
      BY <1>3, <3>2
    <3>3. CASE \E e \in Range(G.mod[m].shadows) : \E w \in Range(e.over) : y = G.shadow[w].x
      BY <1>4, <3>1, <3>3
    <3>4. QED
      BY <1>n, <3>2, <3>3, Zenon
  <2>3. QED
    BY <2>1, <2>2
<1>6. ASSUME NEW i \in 1 .. n PROVE Range(G.mod[m].params[i]) \subseteq Needed(G, m)
  <2>1. G.mod[m].params[i] \in Range(G.mod[m].params)
    BY <1>2 DEF Range
  <2>2. QED
    BY <1>1, <1>3, <1>n, <2>1
<1>7. ASSUME NEW i \in 1 .. l, NEW w \in Range(G.mod[m].shadows[i].over), G.shadow[w].x \in Var
      PROVE  G.shadow[w].x \in Needed(G, m)
  <2>1. G.mod[m].shadows[i] \in Range(G.mod[m].shadows)
    BY <1>2 DEF Range
  <2>2. QED
    BY <1>1, <1>7, <1>n, <2>1, Zenon
<1>8. QED
  BY <1>2, <1>5, <1>6, <1>7

LEMMA DependsIs ==
    ASSUME G \in Graphs, NEW x \in Var
    PROVE  /\ Direct(G, x) \subseteq Depends(G, x)
           /\ \A y \in Depends(G, x) \cap Var : Direct(G, y) \subseteq Depends(G, x)
<1>1. PICK n \in Nat : n = Longest(G) /\ n = Cardinality(Var) + 1 /\ n \in 1 .. n /\ n \in 0 .. n
  <2>1. Longest(G) \in Nat /\ Longest(G) = Cardinality(Var) + 1 /\ Longest(G) >= 1
    BY GraphIs
  <2>2. QED
    BY <2>1
<1> DEFINE S == SUBSET Var
           Step(D) == D \cup UNION {Direct(G, y) : y \in D}
           step == [D \in S |-> Step(D)]
<1>2. Direct(G, x) \in S
  BY DirectIs
<1>3. \A D \in S : Step(D) \in S /\ D \subseteq Step(D) /\ \A y \in D : Direct(G, y) \subseteq Step(D)
  <2>1. \A y \in Var : Direct(G, y) \subseteq Var
    BY DirectIs
  <2>2. QED
    BY <2>1
<1>4. Depends(G, x) = Iterated(step, Direct(G, x), n)
  BY <1>1 DEF Depends, Var
<1>e. \A D \in S : D \subseteq Var
  OBVIOUS
<1> HIDE DEF S, Step
<1>5. step \in [S -> S] /\ \A D \in S : step[D] = Step(D)
  BY <1>3
<1> HIDE DEF step
<1>6. PICK D : Iterates(D, S, step, Direct(G, x), n)
  <2>1. step \in [S -> S]
    BY <1>5
  <2>2. \E D : Iterates(D, S, step, Direct(G, x), n)
    BY <1>2, <2>1, IteratedIs
  <2>3. QED
    BY <2>2
<1>7. /\ D \in [0 .. n -> S] /\ D[0] = Direct(G, x) /\ Depends(G, x) = D[n]
      /\ \A i \in 1 .. n : D[i] = Step(D[i - 1])
  <2>1. /\ D \in [0 .. n -> S] /\ D[0] = Direct(G, x) /\ \A i \in 1 .. n : D[i] = step[D[i - 1]]
        /\ Iterated(step, Direct(G, x), n) = D[n]
    BY <1>6 DEF Iterates
  <2>2. \A i \in 1 .. n : i - 1 \in 0 .. n
    OBVIOUS
  <2>3. QED
    BY <1>4, <1>5, <2>1, <2>2
<1>8. \A i \in 0 .. n : D[i] \in S
  BY <1>7
<1>9. \A i \in 1 .. n : D[i - 1] \subseteq D[i]
  <2>1. \A i \in 1 .. n : i - 1 \in 0 .. n
    OBVIOUS
  <2>2. QED
    BY <1>3, <1>7, <1>8, <2>1
<1>10. ASSUME NEW i \in 1 .. n - 1, D[i] = D[i - 1] PROVE D[i + 1] = D[i]
  <2>1. i + 1 \in 1 .. n /\ i + 1 - 1 = i /\ i \in 1 .. n
    OBVIOUS
  <2>2. D[i + 1] = Step(D[i + 1 - 1]) /\ D[i] = Step(D[i - 1])
    BY <1>7, <2>1
  <2>3. QED
    BY <1>10, <2>1, <2>2
<1>11. D[n] = D[n - 1]
  <2>1. D \in [0 .. n -> SUBSET Var]
    BY <1>7 DEF S
  <2>2. IsFiniteSet(Var)
    BY GraphIs
  <2>3. \A i \in 1 .. n - 1 : D[i] = D[i - 1] => D[i + 1] = D[i]
    BY <1>10
  <2>4. n = Cardinality(Var) + 1
    BY <1>1
  <2>5. QED
    BY <1>9, <2>1, <2>2, <2>3, <2>4, Settles
<1>12. D[n] = Step(D[n])
  BY <1>1, <1>7, <1>11
<1>13. D[0] \subseteq D[n]
  <2>1. 0 \in 0 .. n /\ 0 <= n
    OBVIOUS
  <2>2. \A k, l \in 0 .. n : k <= l => D[k] \subseteq D[l]
    BY <1>9, SetsRise, Zenon
  <2>3. QED
    BY <1>1, <2>1, <2>2
<1>14. D[n] \in S
  BY <1>1, <1>8
<1>15. \A y \in D[n] : Direct(G, y) \subseteq D[n]
  BY <1>3, <1>12, <1>14
<1>16. QED
  BY <1>7, <1>13, <1>15

-----------------------------------------------------------------------------
(* TrueCosts is a fixed point: once costs have been propagated along as    *)
(* many edges as there are variables, they stay.                           *)

LEMMA RelaxOrdered ==
    ASSUME G \in Graphs, NEW vc \in [Var -> 0 .. Inf], NEW vd \in [Var -> 0 .. Inf],
           \A y \in Var : vc[y] <= vd[y], NEW x \in Var
    PROVE  Relax(G, vc)[x] <= Relax(G, vd)[x]
<1>1. Inf \in Nat
  BY SolverAssumption
<1>2. Relax(G, vc)[x] \in 0 .. Inf /\ Relax(G, vd)[x] \in 0 .. Inf
  BY RelaxIs
<1>3. CASE Relax(G, vd)[x] = Inf
  BY <1>1, <1>2, <1>3
<1>4. ASSUME NEW m \in ModelsOf(G, x), Relax(G, vd)[x] = ModelCost(G, m, vd)
      PROVE  Relax(G, vc)[x] <= Relax(G, vd)[x]
  <2>1. m \in Mod
    BY GraphIs
  <2>2. ASSUME NEW i \in 1 .. Len(G.mod[m].params)
        PROVE  EdgeCost(G.mod[m].params[i], vc) <= EdgeCost(G.mod[m].params[i], vd)
    <3>1. Range(G.mod[m].params[i]) \subseteq Var
      BY <2>1, ParamsIs
    <3>2. QED
      BY <3>1, EdgesOrdered
  <2>3. ModelCost(G, m, vc) <= ModelCost(G, m, vd)
    BY <2>1, <2>2, ModelsOrdered
  <2>4. Relax(G, vc)[x] <= ModelCost(G, m, vc)
    BY RelaxIs
  <2>5. ModelCost(G, m, vc) \in 0 .. Inf /\ ModelCost(G, m, vd) \in 0 .. Inf
    BY <2>1, ModelCostIs
  <2>6. QED
    BY <1>1, <1>2, <1>4, <2>3, <2>4, <2>5
<1>5. QED
  BY <1>3, <1>4, RelaxIs

(* A variable becomes cheaper only because a parameter did, one that costs *)
(* no more.                                                                *)
LEMMA Cheaper ==
    ASSUME G \in Graphs, NEW vc \in [Var -> 0 .. Inf], NEW vd \in [Var -> 0 .. Inf],
           NEW x \in Var, Relax(G, vd)[x] < Relax(G, vc)[x]
    PROVE  \E y \in Var : vd[y] < vc[y] /\ vd[y] <= Relax(G, vd)[x]
<1>1. Inf \in Nat
  BY SolverAssumption
<1>2. Relax(G, vc)[x] \in 0 .. Inf /\ Relax(G, vd)[x] \in 0 .. Inf
  BY RelaxIs
<1>3. Relax(G, vd)[x] # Inf
  BY <1>1, <1>2
<1>4. PICK m \in ModelsOf(G, x) : Relax(G, vd)[x] = ModelCost(G, m, vd)
  BY <1>3, RelaxIs
<1>5. m \in Mod
  BY GraphIs
<1>6. Relax(G, vc)[x] <= ModelCost(G, m, vc)
  BY RelaxIs
<1>7. ModelCost(G, m, vc) \in 0 .. Inf /\ ModelCost(G, m, vd) \in 0 .. Inf
  BY <1>5, ModelCostIs
<1>8. ~(ModelCost(G, m, vc) <= ModelCost(G, m, vd))
  BY <1>1, <1>2, <1>4, <1>6, <1>7
<1>9. PICK n \in Nat : n = Len(G.mod[m].params)
  BY <1>5, ParamsIs
<1>10. PICK i \in 1 .. n : ~(EdgeCost(G.mod[m].params[i], vc) <= EdgeCost(G.mod[m].params[i], vd))
  BY <1>5, <1>8, <1>9, ModelsOrdered
<1>11. PICK e : e = G.mod[m].params[i] /\ Range(e) \subseteq Var
  BY <1>5, <1>9, ParamsIs
<1>12. /\ EdgeCost(e, vc) \in 0 .. Inf /\ EdgeCost(e, vd) \in 0 .. Inf
       /\ \A y \in Range(e) : vd[y] <= EdgeCost(e, vd)
       /\ EdgeCost(e, vc) = 0 \/ \E y \in Range(e) : EdgeCost(e, vc) = vc[y]
  BY <1>11, EdgeCostIs
<1>13. PICK y \in Range(e) : EdgeCost(e, vc) = vc[y]
  BY <1>1, <1>10, <1>11, <1>12
<1>14. y \in Var /\ vd[y] \in 0 .. Inf /\ vc[y] \in 0 .. Inf
  BY <1>11, <1>13
<1>15. vd[y] < vc[y]
  BY <1>1, <1>10, <1>11, <1>12, <1>13, <1>14
<1>16. EdgeCost(e, vd) <= ModelCost(G, m, vd)
  <2>1. PICK d \in [1 .. n -> Nat] : d = ParamCosts(G, m, vd) /\ d[i] = EdgeCost(e, vd)
    BY <1>5, <1>9, <1>11, ParamCostsAre
  <2>2. PICK s \in [0 .. n -> Nat] :
           s = Sums(d) /\ Total(d) = s[n] /\ \A j \in 1 .. n : s[j] = s[j - 1] + d[j]
    BY SumsIs
  <2>3. i - 1 \in 0 .. n /\ i \in 0 .. n /\ n \in 0 .. n /\ i <= n
    OBVIOUS
  <2>4. s[i] = s[i - 1] + d[i] /\ s[i] \in Nat /\ s[i - 1] \in Nat /\ d[i] \in Nat
    BY <2>2, <2>3
  <2>5. s[i] <= s[n]
    BY <2>2, <2>3, SumsRise
  <2>6. PICK S \in Nat, P \in Nat :
           S = Total(ShadowCosts(G, m)) /\ P = Total(d) /\ ModelCost(G, m, vd) = Costf(G, m, S + P)
    BY <1>5, <2>1, ModelCostIs
  <2>7. S + P \in Nat /\ EdgeCost(e, vd) <= S + P
    <3>1. d[i] <= s[i] /\ s[n] \in Nat
      BY <2>2, <2>3, <2>4
    <3>2. P = s[n]
      BY <2>2, <2>6
    <3>3. d[i] <= P
      BY <2>4, <2>5, <3>1, <3>2
    <3>4. QED
      BY <2>1, <2>4, <3>3
  <2>8. Cap(S + P) <= Costf(G, m, S + P) /\ Costf(G, m, S + P) \in 0 .. Inf
    BY <1>5, <2>7, CostfIs
  <2>9. Cap(EdgeCost(e, vd)) = EdgeCost(e, vd) /\ Cap(EdgeCost(e, vd)) <= Cap(S + P)
        /\ Cap(S + P) \in 0 .. Inf
    <3>1. EdgeCost(e, vd) \in Nat /\ EdgeCost(e, vd) <= Inf
      BY <1>1, <1>12
    <3>2. QED
      BY <2>7, <3>1, CapIs
  <2>10. QED
    BY <1>1, <1>12, <2>6, <2>8, <2>9
<1>17. QED
  BY <1>1, <1>4, <1>7, <1>12, <1>13, <1>14, <1>15, <1>16

-----------------------------------------------------------------------------
(* The least costs are a fixed point.                                      *)

(* Stage i of the propagation: a drop at i comes from a drop before it.    *)
Stages(T, n) ==
    /\ T \in [0 .. n -> [Var -> 0 .. Inf]] /\ T[0] = [x \in Var |-> Inf]
    /\ \A i \in 1 .. n : T[i] = Relax(G, T[i - 1])
Dropped(T, i) == {x \in Var : T[i][x] < T[i - 1][x]}

LEMMA TruthStages ==
    ASSUME G \in Graphs
    PROVE  \E T : Stages(T, Longest(G)) /\ TrueCosts(G) = T[Longest(G)]
<1>1. PICK n \in Nat : n = Longest(G)
  BY GraphIs
<1> DEFINE S == [Var -> 0 .. Inf]
           step == [vc \in S |-> Relax(G, vc)]
           base == [x \in Var |-> Inf]
<1>2. base \in S
  BY SolverAssumption
<1>3. \A vc \in S : Relax(G, vc) \in S
  BY RelaxIs
<1>4. TrueCosts(G) = Iterated(step, base, n)
  BY <1>1 DEF TrueCosts, Var
<1> HIDE DEF S
<1>5. step \in [S -> S] /\ \A vc \in S : step[vc] = Relax(G, vc)
  BY <1>3
<1> HIDE DEF step, base
<1>6. PICK T : Iterates(T, S, step, base, n)
  <2>1. step \in [S -> S]
    BY <1>5
  <2>2. \E T : Iterates(T, S, step, base, n)
    BY <1>2, <2>1, IteratedIs
  <2>3. QED
    BY <2>2
<1>7. /\ T \in [0 .. n -> S] /\ T[0] = base /\ TrueCosts(G) = T[n]
      /\ \A i \in 1 .. n : T[i] = Relax(G, T[i - 1])
  <2>1. /\ T \in [0 .. n -> S] /\ T[0] = base /\ \A i \in 1 .. n : T[i] = step[T[i - 1]]
        /\ Iterated(step, base, n) = T[n]
    BY <1>6 DEF Iterates
  <2>2. \A i \in 1 .. n : i - 1 \in 0 .. n
    OBVIOUS
  <2>3. QED
    BY <1>4, <1>5, <2>1, <2>2
<1>8. Stages(T, n)
  BY <1>7 DEF Stages, S, base
<1>9. QED
  BY <1>1, <1>7, <1>8

LEMMA StageIs ==
    ASSUME G \in Graphs, NEW n \in Nat, NEW T, Stages(T, n)
    PROVE  /\ \A i \in 0 .. n : T[i] \in [Var -> 0 .. Inf]
           /\ \A i \in 0 .. n : \A x \in Var : T[i][x] \in 0 .. Inf
           /\ \A i \in 1 .. n : \A x \in Var : T[i][x] <= T[i - 1][x]
<1>1. \A i \in 0 .. n : T[i] \in [Var -> 0 .. Inf]
  BY DEF Stages
<1>2. \A i \in 0 .. n : \A x \in Var : T[i][x] \in 0 .. Inf
  BY <1>1
<1> DEFINE Q == {i \in Nat : i >= 1 /\ i <= n /\ \E x \in Var : ~(T[i][x] <= T[i - 1][x])}
<1>3. Q = {}
  <2> SUFFICES ASSUME Q # {} PROVE FALSE
    OBVIOUS
  <2>1. PICK k \in Q : \A j \in Q : k <= j
    BY LeastNatural
  <2>2. PICK x \in Var : ~(T[k][x] <= T[k - 1][x])
    BY <2>1
  <2>3. k # 1
    <3>1. ASSUME k = 1 PROVE FALSE
      <4>1. T[k - 1][x] = Inf
        BY <3>1 DEF Stages
      <4>2. T[k][x] \in 0 .. Inf
        BY <1>2, <2>1
      <4>3. QED
        BY <2>2, <4>1, <4>2, SolverAssumption
    <3>2. QED
      BY <3>1
  <2>4. /\ k \in 1 .. n /\ k - 1 \in 1 .. n /\ ~(k <= k - 1) /\ k - 1 \in Nat /\ k - 1 >= 1
        /\ k - 1 <= n /\ k - 1 - 1 \in 0 .. n /\ k - 1 \in 0 .. n
    BY <2>1, <2>3
  <2>5. k - 1 \notin Q
    BY <2>1, <2>4
  <2>6. \A y \in Var : T[k - 1][y] <= T[k - 1 - 1][y]
    BY <2>4, <2>5
  <2>7. T[k] = Relax(G, T[k - 1]) /\ T[k - 1] = Relax(G, T[k - 1 - 1])
    BY <2>4 DEF Stages
  <2>8. T[k - 1] \in [Var -> 0 .. Inf] /\ T[k - 1 - 1] \in [Var -> 0 .. Inf]
    BY <1>1, <2>4
  <2>9. Relax(G, T[k - 1])[x] <= Relax(G, T[k - 1 - 1])[x]
    BY <2>6, <2>8, RelaxOrdered
  <2>10. QED
    BY <2>2, <2>7, <2>9, Zenon
<1>4. ASSUME NEW i \in 1 .. n, NEW x \in Var PROVE T[i][x] <= T[i - 1][x]
  <2>1. i \notin Q
    BY <1>3
  <2>2. QED
    BY <2>1
<1>5. QED
  BY <1>1, <1>2, <1>4

LEMMA StagesFall ==
    ASSUME G \in Graphs, NEW n \in Nat, NEW T, Stages(T, n), NEW x \in Var,
           NEW i \in 0 .. n, NEW j \in 0 .. n, i <= j
    PROVE  T[j][x] <= T[i][x]
<1>1. Inf \in Nat
  BY SolverAssumption
<1>2. \A k \in 0 .. n : T[k][x] \in 0 .. Inf
  BY StageIs
<1>3. \A k \in 1 .. n : T[k][x] <= T[k - 1][x]
  BY StageIs
<1> DEFINE f == [k \in 0 .. n |-> Inf - T[k][x]]
<1>4. f \in [0 .. n -> Nat]
  BY <1>1, <1>2
<1>5. ASSUME NEW k \in 1 .. n PROVE f[k - 1] <= f[k]
  <2>1. k - 1 \in 0 .. n /\ k \in 0 .. n
    OBVIOUS
  <2>2. f[k - 1] = Inf - T[k - 1][x] /\ f[k] = Inf - T[k][x]
    BY <2>1
  <2>3. QED
    BY <1>1, <1>2, <1>3, <2>1, <2>2
<1>6. f[i] = Inf - T[i][x] /\ f[j] = Inf - T[j][x]
  OBVIOUS
<1> HIDE DEF f
<1>7. f[i] <= f[j]
  BY <1>4, <1>5, Rises
<1>8. QED
  BY <1>1, <1>2, <1>6, <1>7

(* The least cost that drops at each stage rises.                          *)
LEMMA DropsRise ==
    ASSUME G \in Graphs, NEW n \in Nat, NEW T, Stages(T, n), NEW i \in 1 .. n, i + 1 <= n,
           NEW x \in Dropped(T, i + 1)
    PROVE  \E y \in Dropped(T, i) : T[i][y] <= T[i + 1][x]
<1>1. i + 1 \in 1 .. n /\ i + 1 - 1 = i /\ i \in 0 .. n /\ i - 1 \in 0 .. n /\ i + 1 \in 0 .. n
  OBVIOUS
<1>2. x \in Var /\ T[i + 1][x] < T[i][x]
  BY <1>1 DEF Dropped
<1>3. T[i + 1] = Relax(G, T[i]) /\ T[i] = Relax(G, T[i - 1])
  <2>1. T[i + 1] = Relax(G, T[i + 1 - 1]) /\ T[i] = Relax(G, T[i - 1])
    BY <1>1 DEF Stages
  <2>2. QED
    BY <1>1, <2>1
<1>4. T[i] \in [Var -> 0 .. Inf] /\ T[i - 1] \in [Var -> 0 .. Inf]
  BY <1>1, StageIs
<1>5. Relax(G, T[i])[x] < Relax(G, T[i - 1])[x]
  BY <1>2, <1>3, Zenon
<1>6. PICK y \in Var : T[i][y] < T[i - 1][y] /\ T[i][y] <= Relax(G, T[i])[x]
  BY <1>2, <1>4, <1>5, Cheaper
<1>7. y \in Dropped(T, i)
  BY <1>6 DEF Dropped
<1>8. QED
  BY <1>3, <1>6, <1>7, Zenon

(* The cheapest variable that drops at each stage.                         *)
Drops(T, n, f) ==
    /\ f \in [1 .. n -> Var]
    /\ \A i \in 1 .. n : f[i] \in Dropped(T, i) /\ \A y \in Dropped(T, i) : T[i][f[i]] <= T[i][y]

LEMMA DropsDiffer ==
    ASSUME G \in Graphs, NEW n \in Nat, NEW T, Stages(T, n), NEW f, Drops(T, n, f),
           NEW i \in 1 .. n, NEW j \in 1 .. n, i < j
    PROVE  f[i] # f[j]
<1> SUFFICES ASSUME f[i] = f[j] PROVE FALSE
  OBVIOUS
<1>1. Inf \in Nat
  BY SolverAssumption
<1>2. \A k \in 1 .. n : /\ f[k] \in Var /\ f[k] \in Dropped(T, k) /\ k \in 0 .. n
                        /\ T[k][f[k]] \in 0 .. Inf
  <2>1. \A k \in 1 .. n : k \in 0 .. n
    OBVIOUS
  <2>2. QED
    BY <2>1, StageIs DEF Drops
<1> DEFINE v == [k \in 0 .. n |-> IF k = 0 THEN 0 ELSE T[k][f[k]]]
<1>3. v \in [0 .. n -> Nat]
  BY <1>1, <1>2
<1>4. ASSUME NEW k \in 1 .. n PROVE v[k - 1] <= v[k]
  <2>1. CASE k = 1
    <3>1. v[0] = 0 /\ v[k] \in Nat
      BY <1>3
    <3>2. QED
      BY <2>1, <3>1
  <2>2. CASE k # 1
    <3>1. PICK l \in 1 .. n : l + 1 = k /\ l = k - 1 /\ l # 0 /\ l \in 0 .. n /\ l + 1 <= n
      <4>1. k - 1 \in 1 .. n /\ k - 1 + 1 = k /\ k - 1 # 0 /\ k - 1 \in 0 .. n /\ k - 1 + 1 <= n
        BY <2>2
      <4>2. QED
        BY <4>1
    <3>2. f[l + 1] \in Dropped(T, l + 1)
      BY <1>2, <3>1
    <3>3. PICK y \in Dropped(T, l) : T[l][y] <= T[l + 1][f[l + 1]]
      BY <3>1, <3>2, DropsRise
    <3>4. T[l][f[l]] <= T[l][y]
      BY DEF Drops
    <3>5. y \in Var /\ T[l][y] \in 0 .. Inf
      BY <3>1, StageIs DEF Dropped
    <3>6. T[l][f[l]] \in 0 .. Inf /\ T[k][f[k]] \in 0 .. Inf
      BY <1>2
    <3>7. T[l][f[l]] <= T[k][f[k]]
      BY <1>1, <3>1, <3>3, <3>4, <3>5, <3>6
    <3>8. v[l] = T[l][f[l]] /\ v[k] = T[k][f[k]]
      BY <1>2, <3>1
    <3>9. QED
      BY <3>1, <3>7, <3>8
  <2>3. QED
    BY <2>1, <2>2
<1>5. v[i] = T[i][f[i]] /\ v[j] = T[j][f[j]] /\ i \in 0 .. n /\ j \in 0 .. n /\ j - 1 \in 0 .. n
      /\ i <= j - 1 /\ i <= j
  OBVIOUS
<1> HIDE DEF v
<1>6. v[i] <= v[j]
  BY <1>3, <1>4, <1>5, Rises
<1>7. T[j][f[j]] < T[j - 1][f[j]]
  BY <1>2 DEF Dropped
<1>8. T[j - 1][f[i]] <= T[i][f[i]]
  BY <1>2, <1>5, StagesFall
<1>9. T[j - 1][f[i]] \in 0 .. Inf /\ T[i][f[i]] \in 0 .. Inf /\ T[j][f[j]] \in 0 .. Inf
  BY <1>2, <1>5, StageIs
<1>10. QED
  BY <1>1, <1>5, <1>6, <1>7, <1>8, <1>9

(* For every graph: the reference that chains are compared with, least     *)
(* costs relaxed once more often than there are variables, has settled, so *)
(* that the cost of every variable is that of its cheapest model.          *)
THEOREM TruthFixed ==
    ASSUME G \in Graphs
    PROVE  TrueCosts(G) \in [Var -> 0 .. Inf] /\ Relax(G, TrueCosts(G)) = TrueCosts(G)
<1>1. PICK n \in Nat : n = Longest(G) /\ n = Cardinality(Var) + 1 /\ n >= 1 /\ Cardinality(Var) \in Nat
  BY GraphIs
<1>2. PICK T : Stages(T, n) /\ TrueCosts(G) = T[n]
  BY <1>1, TruthStages
<1>3. n \in 0 .. n /\ n \in 1 .. n /\ n - 1 \in 0 .. n
  BY <1>1
<1>4. T[n] \in [Var -> 0 .. Inf] /\ T[n - 1] \in [Var -> 0 .. Inf]
  BY <1>2, <1>3, StageIs
<1>5. Dropped(T, n) = {}
  <2> SUFFICES ASSUME Dropped(T, n) # {} PROVE FALSE
    OBVIOUS
  <2> DEFINE Q == {k \in Nat : k < n /\ Dropped(T, n - k) = {}}
  <2>1. Q = {}
    <3> SUFFICES ASSUME Q # {} PROVE FALSE
      OBVIOUS
    <3>1. PICK k \in Q : \A j \in Q : k <= j
      BY LeastNatural
    <3>2. k # 0
      BY <3>1
    <3>3. PICK l \in 1 .. n : /\ l = n - k /\ l + 1 = n - (k - 1) /\ l + 1 <= n
                              /\ k - 1 \in Nat /\ k - 1 < n
      <4>1. n - k \in 1 .. n /\ n - k + 1 = n - (k - 1) /\ n - k + 1 <= n /\ k - 1 \in Nat /\ k - 1 < n
        BY <3>1, <3>2
      <4>2. QED
        BY <4>1
    <3>4. k - 1 \notin Q
      BY <3>1
    <3>5. Dropped(T, l + 1) # {}
      BY <3>3, <3>4
    <3>6. Dropped(T, l) # {}
      BY <1>2, <3>3, <3>5, DropsRise
    <3>7. QED
      BY <3>1, <3>3, <3>6
  <2>2. ASSUME NEW i \in 1 .. n
        PROVE  \E x \in Var : x \in Dropped(T, i) /\ \A y \in Dropped(T, i) : T[i][x] <= T[i][y]
    <3>1. n - i \in Nat /\ n - i < n /\ n - (n - i) = i
      OBVIOUS
    <3>2. n - i \notin Q
      BY <2>1
    <3>3. PICK x \in Dropped(T, i) : TRUE
      BY <3>1, <3>2
    <3> DEFINE Costs == {T[i][y] : y \in Dropped(T, i)}
    <3>4. \A y \in Dropped(T, i) : y \in Var /\ T[i][y] \in 0 .. Inf
      <4>1. i \in 0 .. n
        OBVIOUS
      <4>2. QED
        BY <1>2, <4>1, StageIs DEF Dropped
    <3>5. Costs \subseteq Nat /\ Costs # {}
      BY <3>3, <3>4, SolverAssumption
    <3>6. PICK c \in Costs : \A d \in Costs : c <= d
      BY <3>5, LeastNatural
    <3>7. QED
      BY <3>4, <3>6
  <2> DEFINE f == [i \in 1 .. n |-> CHOOSE x \in Var :
                      x \in Dropped(T, i) /\ \A y \in Dropped(T, i) : T[i][x] <= T[i][y]]
  <2>3. \A i \in 1 .. n : /\ f[i] \in Var /\ f[i] \in Dropped(T, i)
                          /\ \A y \in Dropped(T, i) : T[i][f[i]] <= T[i][y]
    BY <2>2
  <2>4. f \in [1 .. n -> Var]
    BY <2>3
  <2> HIDE DEF f
  <2>5. Drops(T, n, f)
    BY <2>3, <2>4 DEF Drops
  <2>6. PICK i \in 1 .. n, j \in 1 .. n : i < j /\ f[i] = f[j]
    <3>1. Cardinality(Var) < n /\ IsFiniteSet(Var)
      BY <1>1, GraphIs
    <3>2. QED
      BY <2>4, <3>1, Pigeons
  <2>7. QED
    BY <1>2, <2>5, <2>6, DropsDiffer
<1>6. \A x \in Var : T[n][x] = T[n - 1][x]
  <2>1. \A x \in Var : T[n][x] <= T[n - 1][x] /\ ~(T[n][x] < T[n - 1][x])
    BY <1>2, <1>3, <1>5, StageIs DEF Dropped
  <2>2. \A x \in Var : T[n][x] \in 0 .. Inf /\ T[n - 1][x] \in 0 .. Inf
    BY <1>4
  <2>3. QED
    BY <2>1, <2>2, SolverAssumption
<1>7. T[n] = T[n - 1]
  BY <1>4, <1>6
<1>8. T[n] = Relax(G, T[n - 1])
  BY <1>2, <1>3 DEF Stages
<1>9. QED
  BY <1>2, <1>4, <1>7, <1>8

(* What the least costs are.                                               *)
LEMMA TruthIs ==
    ASSUME G \in Graphs, truth = TrueCosts(G)
    PROVE  /\ truth \in [Var -> 0 .. Inf]
           /\ \A x \in Var : /\ \A m \in ModelsOf(G, x) : truth[x] <= ModelCost(G, m, truth)
                             /\ \/ truth[x] = Inf
                                \/ \E m \in ModelsOf(G, x) : truth[x] = ModelCost(G, m, truth)
<1>1. truth \in [Var -> 0 .. Inf] /\ Relax(G, truth) = truth
  BY TruthFixed
<1>2. QED
  BY <1>1, RelaxIs

-----------------------------------------------------------------------------
(* The candidate with the least bound.                                     *)

(* What the candidate loop knows of the first i candidates: the cheapest   *)
(* one, and a bound that no other one is below.                            *)
Knows(b, cs, i, beta) ==
    /\ \A k \in 1 .. i : b.cost <= mp[cs[k].m].cost
    /\ b.cost < Inf => b.cost = mp[b.cand.m].cost
    /\ b.cost < Inf => \A k \in 1 .. i : cs[k].m = b.cand.m \/ b.beta <= mp[cs[k].m].cost
    /\ beta <= b.beta \/ b.cost <= b.beta

LEMMA BetterKnows ==
    ASSUME G \in Graphs, mp \in [Mod -> ModState], NEW x \in Var, NEW beta \in Int,
           NEW b \in Found(x, beta), NEW cs \in Seq(Candidates(x)), NEW i \in 1 .. Len(cs),
           Knows(b, cs, i - 1, beta)
    PROVE  Knows(Better(b, cs[i], mp[cs[i].m].cost), cs, i, beta)
<1>1. b.beta \in Int /\ b.cost \in Int /\ b.beta <= beta /\ b.cost <= Inf /\ Inf \in Int
  BY SolverAssumption DEF Found
<1>2. PICK n \in Nat : n = Len(cs) /\ i \in 1 .. n
  OBVIOUS
<1>3. \A k \in 1 .. n : cs[k] \in Link /\ mp[cs[k].m].cost \in Int
  BY <1>2 DEF Candidates, Link, ModState
<1>4. PICK c : c = cs[i]
  OBVIOUS
<1>5. PICK cost \in Int : cost = mp[c.m].cost
  BY <1>2, <1>3, <1>4
<1>6. PICK z : z = Better(b, cs[i], mp[cs[i].m].cost)
  OBVIOUS
<1>7. /\ z.cand = IF cost < b.cost THEN c ELSE b.cand
      /\ z.beta = Smaller(b.beta, Larger(b.cost, cost))
      /\ z.cost = Smaller(b.cost, cost)
  BY <1>4, <1>5, <1>6 DEF Better
<1>8. /\ \A k \in 1 .. i - 1 : b.cost <= mp[cs[k].m].cost
      /\ b.cost < Inf => b.cost = mp[b.cand.m].cost
      /\ b.cost < Inf => \A k \in 1 .. i - 1 : cs[k].m = b.cand.m \/ b.beta <= mp[cs[k].m].cost
      /\ beta <= b.beta \/ b.cost <= b.beta
  BY SMTT(30) DEF Knows
<1>9. CASE cost < b.cost
  <2>1. z.cand = c /\ z.beta = Smaller(b.beta, b.cost) /\ z.cost = cost /\ z.beta \in Int
        /\ z.beta <= b.cost
    BY <1>1, <1>7, <1>9 DEF Smaller, Larger
  <2>2. \A k \in 1 .. i : z.cost <= mp[cs[k].m].cost
    <3> SUFFICES ASSUME NEW k \in 1 .. i PROVE z.cost <= mp[cs[k].m].cost
      OBVIOUS
    <3>1. CASE k = i
      BY <1>4, <1>5, <2>1, <3>1
    <3>2. CASE k # i
      <4>1. k \in 1 .. i - 1 /\ k \in 1 .. n
        BY <1>2, <3>2
      <4>2. b.cost <= mp[cs[k].m].cost /\ mp[cs[k].m].cost \in Int
        BY <1>3, <1>8, <4>1
      <4>3. QED
        BY <1>1, <1>9, <2>1, <4>2
    <3>3. QED
      BY <3>1, <3>2
  <2>3. z.cost < Inf => z.cost = mp[z.cand.m].cost
    BY <1>5, <2>1
  <2>4. \A k \in 1 .. i : cs[k].m = z.cand.m \/ z.beta <= mp[cs[k].m].cost
    <3> SUFFICES ASSUME NEW k \in 1 .. i PROVE cs[k].m = z.cand.m \/ z.beta <= mp[cs[k].m].cost
      OBVIOUS
    <3>1. CASE k = i
      BY <1>4, <2>1, <3>1
    <3>2. CASE k # i
      <4>1. k \in 1 .. i - 1 /\ k \in 1 .. n
        BY <1>2, <3>2
      <4>2. b.cost <= mp[cs[k].m].cost /\ mp[cs[k].m].cost \in Int
        BY <1>3, <1>8, <4>1
      <4>3. QED
        BY <1>1, <2>1, <4>2
    <3>3. QED
      BY <3>1, <3>2
  <2>5. beta <= z.beta \/ z.cost <= z.beta
    BY <1>1, <1>8, <1>9, <2>1, SMTT(30) DEF Smaller
  <2>6. QED
    BY <1>6, <2>2, <2>3, <2>4, <2>5, Zenon DEF Knows
<1>10. CASE ~(cost < b.cost)
  <2>1. z.cand = b.cand /\ z.beta = Smaller(b.beta, cost) /\ z.cost = b.cost /\ z.beta \in Int
        /\ z.beta <= cost /\ z.beta <= b.beta
    BY <1>1, <1>7, <1>10 DEF Smaller, Larger
  <2>2. \A k \in 1 .. i : z.cost <= mp[cs[k].m].cost
    <3> SUFFICES ASSUME NEW k \in 1 .. i PROVE z.cost <= mp[cs[k].m].cost
      OBVIOUS
    <3>1. CASE k = i
      BY <1>1, <1>4, <1>5, <1>10, <2>1, <3>1
    <3>2. CASE k # i
      <4>1. k \in 1 .. i - 1
        BY <1>2, <3>2
      <4>2. QED
        BY <1>8, <2>1, <4>1
    <3>3. QED
      BY <3>1, <3>2
  <2>3. z.cost < Inf => z.cost = mp[z.cand.m].cost
    BY <1>8, <2>1
  <2>4. ASSUME z.cost < Inf
        PROVE \A k \in 1 .. i : cs[k].m = z.cand.m \/ z.beta <= mp[cs[k].m].cost
    <3> SUFFICES ASSUME NEW k \in 1 .. i PROVE cs[k].m = z.cand.m \/ z.beta <= mp[cs[k].m].cost
      OBVIOUS
    <3>1. CASE k = i
      BY <1>4, <1>5, <2>1, <3>1
    <3>2. CASE k # i
      <4>1. k \in 1 .. i - 1 /\ k \in 1 .. n
        BY <1>2, <3>2
      <4>2. cs[k].m = b.cand.m \/ b.beta <= mp[cs[k].m].cost
        BY <1>8, <2>1, <2>4, <4>1
      <4>3. mp[cs[k].m].cost \in Int
        BY <1>3, <4>1
      <4>4. QED
        BY <1>1, <2>1, <4>2, <4>3
    <3>3. QED
      BY <3>1, <3>2
  <2>5. beta <= z.beta \/ z.cost <= z.beta
    BY <1>1, <1>8, <1>10, <2>1 DEF Smaller
  <2>6. QED
    BY <1>6, <2>2, <2>3, <2>4, <2>5, Zenon DEF Knows
<1>11. QED
  BY <1>9, <1>10

(* Every model of x is a candidate.                                        *)
LEMMA CandsHave ==
    ASSUME G \in Graphs, NEW x \in Var, NEW m \in ModelsOf(G, x)
    PROVE  \E i \in DOMAIN Cands(x) : Cands(x)[i].m = m
<1> DEFINE ss == [ei \in DOMAIN G.models[x] |->
                     [j \in DOMAIN G.models[x][ei] |-> [ei |-> ei, m |-> G.models[x][ei][j]]]]
<1>1. G.models[x] \in Seq(Seq(Mod))
  BY VarIs
<1>2. ASSUME NEW ei \in DOMAIN G.models[x], NEW j \in DOMAIN G.models[x][ei]
      PROVE  [ei |-> ei, m |-> G.models[x][ei][j]] \in Link
  <2>1. ei \in Nat /\ G.models[x][ei] \in Seq(Mod) /\ G.models[x][ei][j] \in Mod
    BY <1>1, SMTT(30)
  <2>2. QED
    BY <2>1 DEF Link
<1>3. ASSUME NEW ei \in DOMAIN G.models[x] PROVE ss[ei] \in Seq(Link)
  <2>0. G.models[x][ei] \in Seq(Mod)
    BY <1>1, SeqIs, Zenon
  <2>1. PICK n \in Nat : DOMAIN G.models[x][ei] = 1 .. n
    BY <2>0, SeqIs, Zenon
  <2>2. ss[ei] \in [1 .. n -> Link]
    BY <1>2, <2>1
  <2> HIDE DEF ss
  <2>3. QED
    BY <2>2
<1>4. PICK n \in Nat : DOMAIN G.models[x] = 1 .. n
  BY <1>1
<1>5. ss \in [1 .. n -> Seq(Link)]
  BY <1>3, <1>4
<1>6. Cands(x) = FlattenSeq(ss)
  BY DEF Cands
<1>e. PICK ei \in DOMAIN G.models[x] : m \in Range(G.models[x][ei])
  <2>1. PICK e \in Range(G.models[x]) : m \in Range(e)
    BY DEF ModelsOf
  <2>2. QED
    BY <2>1 DEF Range
<1>7. PICK j \in DOMAIN G.models[x][ei] : G.models[x][ei][j] = m
  BY <1>e DEF Range
<1>8. ei \in DOMAIN ss /\ j \in DOMAIN ss[ei] /\ ss[ei][j].m = m
  BY <1>7
<1> HIDE DEF ss
<1>9. ss \in Seq(Seq(Link))
  BY <1>5
<1>10. \E i \in DOMAIN FlattenSeq(ss) : FlattenSeq(ss)[i] = ss[ei][j]
  BY <1>8, <1>9, FlattenHas
<1>11. QED
  BY <1>6, <1>8, <1>10

LEMMA NoCands ==
    ASSUME G \in Graphs, NEW x \in Var, NCand(x) = 0
    PROVE  ModelsOf(G, x) = {}
<1> DEFINE S == {ei \in DOMAIN G.models[x] : G.models[x][ei] # <<>>}
<1>1. G.models[x] \in Seq(Seq(Mod))
  BY VarIs
<1>2. PICK n \in Nat : DOMAIN G.models[x] = 1 .. n
  BY <1>1
<1>i. IsFiniteSet(1 .. n)
  BY FS_Interval
<1>3. IsFiniteSet(S)
  BY <1>2, <1>i, FS_Subset
<1>4. S = {}
  BY <1>3, FS_EmptySet DEF NCand
<1>5. \A e \in Range(G.models[x]) : Range(e) = {}
  BY <1>4 DEF Range
<1>6. QED
  BY <1>5 DEF ModelsOf

(* The candidate that is tried, if any: none is known to be cheaper, and   *)
(* the bound that it gets is below what is known of any other.             *)
LEMMA BestOf ==
    ASSUME G \in Graphs, mp \in [Mod -> ModState], NEW x \in Var, NEW beta \in Int,
           NEW best, best = Best(x, beta)
    PROVE  /\ best.cost \in Int /\ best.beta \in Int /\ best.beta <= beta /\ best.cost <= Inf
           /\ \A m \in ModelsOf(G, x) : best.cost <= mp[m].cost
           /\ best.cost < Inf =>
                 /\ best.cand.m \in ModelsOf(G, x) /\ best.cost = mp[best.cand.m].cost
                 /\ \A m \in ModelsOf(G, x) : m = best.cand.m \/ best.beta <= mp[m].cost
           /\ best.cost <= beta => best.cost <= best.beta
<1>1. PICK cs \in Seq(Candidates(x)) : cs = Cands(x)
  BY CandsAre
<1>2. PICK n \in Nat : n = Len(cs)
  OBVIOUS
<1>3. \E D : Scans(D, x, beta, Cands(x), n)
  BY <1>1, <1>2, Scanning
<1>4. PICK D : Scans(D, x, beta, Cands(x), n)
  BY <1>3
<1>5. /\ D[0] = [cand |-> None, beta |-> beta, cost |-> Inf]
      /\ \A i \in 1 .. n : D[i] = Better(D[i - 1], cs[i], mp[cs[i].m].cost)
      /\ \A i \in 0 .. n : D[i] \in Found(x, beta)
      /\ best = D[n]
  BY <1>1, <1>4, Zenon DEF Scans
<1> DEFINE P(i) == Knows(D[i], cs, i, beta)
           T == {i \in Nat : i <= n /\ ~P(i)}
<1>6. P(0)
  <2>1. D[0].beta = beta /\ D[0].cost = Inf
    BY <1>5
  <2>2. Inf \in Int
    BY SolverAssumption
  <2>3. QED
    BY <2>1, <2>2 DEF Knows
<1>7. ASSUME NEW i \in 1 .. n, P(i - 1) PROVE P(i)
  <2>1. i - 1 \in 0 .. n
    OBVIOUS
  <2>2. PICK b \in Found(x, beta) : b = D[i - 1]
    BY <1>5, <2>1
  <2>3. Knows(Better(b, cs[i], mp[cs[i].m].cost), cs, i, beta)
    BY <1>2, <1>7, <2>2, BetterKnows
  <2>4. D[i] = Better(D[i - 1], cs[i], mp[cs[i].m].cost)
    BY <1>5
  <2>5. QED
    BY <2>2, <2>3, <2>4, Zenon
<1> HIDE DEF P
<1>8. T = {}
  <2> SUFFICES ASSUME T # {} PROVE FALSE
    OBVIOUS
  <2>1. PICK k \in T : \A j \in T : k <= j
    BY LeastNatural
  <2>2. k # 0
    BY <1>6, <2>1
  <2>3. k \in 1 .. n /\ k - 1 \in Nat /\ k - 1 <= n /\ ~(k <= k - 1)
    BY <2>1, <2>2
  <2>4. P(k - 1)
    BY <2>1, <2>3
  <2>5. QED
    BY <1>7, <2>1, <2>3, <2>4
<1>9. P(n)
  <2>1. ~(n \in Nat /\ n <= n /\ ~P(n))
    BY <1>8, Zenon
  <2>2. QED
    BY <2>1
<1>10. Knows(best, cs, n, beta) /\ best \in Found(x, beta)
  BY <1>5, <1>9 DEF P
<1>11. /\ best.beta \in Int /\ best.cost \in Int /\ best.beta <= beta /\ best.cost <= Inf
       /\ best.cost < Inf => best.cand \in Candidates(x)
  BY <1>10 DEF Found
<1>12. ASSUME NEW m \in ModelsOf(G, x)
       PROVE  /\ best.cost <= mp[m].cost
              /\ best.cost < Inf => m = best.cand.m \/ best.beta <= mp[m].cost
  <2>1. PICK i \in DOMAIN cs : cs[i].m = m
    BY <1>1, CandsHave
  <2>2. i \in 1 .. n
    BY <1>2
  <2>3. QED
    BY <1>10, <2>1, <2>2 DEF Knows
<1>13. QED
  BY <1>10, <1>11, <1>12 DEF Knows, Candidates

-----------------------------------------------------------------------------

(* The inductive invariant.                                                *)

ShadowSum(m, n) == Sums(ShadowCosts(G, m))[n]
ParamSum(m, n) == Sums(ParamCosts(G, m, truth))[n]
ShadowTotal(m) == ShadowSum(m, Len(G.mod[m].shadows))
ParamTotal(m) == ParamSum(m, Len(G.mod[m].params))
(* All shadows and the parameters after edge e.                            *)
Spent(m, e) == ShadowTotal(m) + (ParamTotal(m) - ParamSum(m, e))

(* A frame that tries a model up to the cost of any other candidate.       *)
Aimed(f) ==
    /\ f.m \in ModelsOf(G, f.x) /\ f.mbeta <= f.beta /\ f.betaS = CostfInvS(G, f.m, f.mbeta)
    /\ \A m \in ModelsOf(G, f.x) : m = f.m \/ f.mbeta <= ModelCost(G, m, truth)
ShadowCosted(f) == f.costS = ShadowSum(f.m, f.edge - 1) /\ f.costS <= f.betaS
ParamCosted(f) ==
    /\ f.costS = Spent(f.m, f.edge) /\ f.costS + f.ssmax <= f.betaS
    /\ f.edge > 0 => /\ \A k \in 1 .. f.pos - 1 : truth[G.mod[f.m].params[f.edge][k]] <= f.ssmax
                     /\ f.ssmax = 0 \/ \E k \in 1 .. f.pos - 1 :
                           f.ssmax = truth[G.mod[f.m].params[f.edge][k]]
Costed(f, mode) ==
    /\ mode \in {"shadow", "param"} => Aimed(f)
    /\ mode = "shadow" => ShadowCosted(f)
    /\ mode = "param" => ParamCosted(f)

(* What frame f allows the variable that it waits for to cost.             *)
Allowed(f) == IF f.where = "param" THEN f.betaS - f.costS ELSE MaxCost
CostStack(Y) ==
    /\ \A i \in 2 .. Len(Y) - 1 : Costed(Y[i], Y[i].where)
    /\ \A i \in 2 .. Len(Y) : Y[i].beta = Allowed(Y[i - 1])
(* A candidate that has spent more than its bound, a variable that got its *)
(* chain, and one that has none up to its bound.                           *)
Overspent(f, mm) ==
    /\ Aimed(f) /\ mm[f.m].chain = FALSE
    /\ f.costS >= 0 /\ f.costS > f.betaS /\ f.costS <= Spent(f.m, 0)
GotChain(f, cost, s, mm) ==
    cost = truth[f.x] /\ cost <= f.beta /\ mm[s[f.x].chain.m].cost = cost
NotFound(f, cost) == f.beta < cost /\ cost <= truth[f.x]
TopCost ==
    /\ pc = "solve" => arg.beta = Allowed(Top)
    /\ Len(X) > 1 =>
          /\ Costed(Top, ModeOf(pc, Top))
          /\ pc = "bound" => Overspent(Top, mp)
          /\ pc = "chosen" => GotChain(Top, arg.cost, sp, mp)
          /\ pc = "failed" => NotFound(Top, arg.cost)
(* Only variables that are being searched for are marked.                  *)
Marked == \A x \in Var : sp[x].cost < 0 => \E i \in 2 .. Len(X) : X[i].x = x

VarCosts ==
    \A x \in Var :
        /\ sp[x].cost <= truth[x]
        /\ sp[x].value = TRUE => sp[x].chain # None
        /\ sp[x].chain # None =>
              /\ x \in Computable(G) /\ sp[x].chain.m \in ModelsOf(G, x)
              /\ sp[x].cost >= 0 => /\ sp[x].cost = truth[x] /\ mp[sp[x].chain.m].chain = TRUE
                                    /\ mp[sp[x].chain.m].cost = truth[x]
ModCosts ==
    \A m \in Mod :
        /\ Cap(G.mod[m].k) <= mp[m].cost /\ mp[m].cost <= ModelCost(G, m, truth)
        /\ mp[m].chain = TRUE => mp[m].cost = ModelCost(G, m, truth)
Guarded ==
    \A w \in DOMAIN G.shadow : sw[w] # "none" =>
        \/ HasValue(G.shadow[w].x) /\ ((sw[w] = "pass") <=> G.shadow[w].ok)
        \/ sw[w] = "fail" /\ G.shadow[w].x \in Var \ Computable(G)
CostInv == truth = TrueCosts(G) /\ VarCosts /\ ModCosts /\ Guarded /\ ErrorsAreHonest
SearchInv == CostStack(X) /\ TopCost /\ Marked
OptInv ==
    /\ G \in Graphs /\ DOMAIN sw = DOMAIN G.shadow
    /\ CostInv /\ (pc # "error" => SearchInv)

-----------------------------------------------------------------------------
(* What the model of a frame costs, edge by edge.                          *)
LEMMA SpentIs ==
    ASSUME G \in Graphs, truth = TrueCosts(G), NEW m \in Mod
    PROVE  /\ ShadowTotal(m) \in Nat /\ ShadowSum(m, 0) = 0
           /\ \A i \in 1 .. Len(G.mod[m].shadows) :
                 /\ ShadowSum(m, i - 1) \in Nat /\ ShadowSum(m, i) \in Nat
                 /\ ShadowSum(m, i) = ShadowSum(m, i - 1) + ShadowCost(G, G.mod[m].shadows[i])
                 /\ ShadowSum(m, i) <= ShadowTotal(m)
           /\ \A e \in 0 .. Len(G.mod[m].params) :
                 Spent(m, e) \in Nat /\ Spent(m, e) <= Spent(m, 0) /\ ShadowTotal(m) <= Spent(m, e)
           /\ Spent(m, Len(G.mod[m].params)) = ShadowTotal(m)
           /\ \A e \in 1 .. Len(G.mod[m].params) :
                 Spent(m, e - 1) = Spent(m, e) + EdgeCost(G.mod[m].params[e], truth)
           /\ ModelCost(G, m, truth) = Costf(G, m, Spent(m, 0))
<1>1. truth \in [Var -> 0 .. Inf]
  BY TruthIs
<1>2. PICK ns \in Nat : ns = Len(G.mod[m].shadows)
  BY CostsAre
<1>3. PICK np \in Nat : np = Len(G.mod[m].params)
  BY ParamsIs
<1>4. PICK c \in [1 .. ns -> Nat] : c = ShadowCosts(G, m)
  BY <1>2, CostsAre
<1>5. \A i \in 1 .. ns : c[i] = ShadowCost(G, G.mod[m].shadows[i])
  BY <1>2, <1>4, CostsAre
<1>6. PICK d \in [1 .. np -> Nat] : d = ParamCosts(G, m, truth)
  BY <1>1, <1>3, ParamCostsAre
<1>7. \A i \in 1 .. np : d[i] = EdgeCost(G.mod[m].params[i], truth)
  BY <1>1, <1>3, <1>6, ParamCostsAre
<1>8. /\ Sums(c) \in [0 .. ns -> Nat] /\ Sums(c)[0] = 0 /\ Total(c) = Sums(c)[ns]
      /\ \A i \in 1 .. ns : Sums(c)[i] = Sums(c)[i - 1] + c[i]
  BY SumsIs
<1>9. /\ Sums(d) \in [0 .. np -> Nat] /\ Sums(d)[0] = 0 /\ Total(d) = Sums(d)[np]
      /\ \A i \in 1 .. np : Sums(d)[i] = Sums(d)[i - 1] + d[i]
  BY SumsIs
<1>10. \A i \in 0 .. ns : Sums(c)[i] <= Sums(c)[ns]
  <2>1. ASSUME NEW i \in 0 .. ns PROVE Sums(c)[i] <= Sums(c)[ns]
    <3>1. ns \in 0 .. ns /\ i <= ns
      OBVIOUS
    <3>2. QED
      BY <3>1, SumsRise
  <2>2. QED
    BY <2>1
<1>11. \A i \in 0 .. np : Sums(d)[i] <= Sums(d)[np]
  <2>1. ASSUME NEW i \in 0 .. np PROVE Sums(d)[i] <= Sums(d)[np]
    <3>1. np \in 0 .. np /\ i <= np
      OBVIOUS
    <3>2. QED
      BY <3>1, SumsRise
  <2>2. QED
    BY <2>1
<1>12. \A i : ShadowSum(m, i) = Sums(c)[i]
  BY <1>4 DEF ShadowSum
<1>13. \A e : Spent(m, e) = Sums(c)[ns] + (Sums(d)[np] - Sums(d)[e])
  BY <1>2, <1>3, <1>4, <1>6 DEF Spent, ShadowTotal, ShadowSum, ParamTotal, ParamSum
<1>14. ShadowTotal(m) = Sums(c)[ns] /\ Sums(c)[ns] \in Nat
  <2>1. ns \in 0 .. ns
    OBVIOUS
  <2>2. QED
    BY <1>2, <1>8, <1>12, <2>1 DEF ShadowTotal
<1>15. ModelCost(G, m, truth) = Costf(G, m, Sums(c)[ns] + Sums(d)[np])
  BY <1>1, <1>4, <1>6, <1>8, <1>9, ModelCostIs
<1>16. ASSUME NEW i \in 1 .. ns
       PROVE  /\ ShadowSum(m, i - 1) \in Nat /\ ShadowSum(m, i) \in Nat
              /\ ShadowSum(m, i) = ShadowSum(m, i - 1) + ShadowCost(G, G.mod[m].shadows[i])
              /\ ShadowSum(m, i) <= ShadowTotal(m)
  <2>1. i \in 0 .. ns /\ i - 1 \in 0 .. ns
    OBVIOUS
  <2>2. /\ Sums(c)[i - 1] \in Nat /\ Sums(c)[i] \in Nat
        /\ Sums(c)[i] = Sums(c)[i - 1] + c[i] /\ Sums(c)[i] <= Sums(c)[ns]
    BY <1>8, <1>10, <2>1
  <2>3. ShadowSum(m, i - 1) = Sums(c)[i - 1] /\ ShadowSum(m, i) = Sums(c)[i]
    BY <1>12, Zenon
  <2>4. QED
    BY <1>5, <1>14, <2>2, <2>3, Zenon
<1>17. ASSUME NEW e \in 0 .. np
       PROVE Spent(m, e) \in Nat /\ Spent(m, e) <= Spent(m, 0) /\ ShadowTotal(m) <= Spent(m, e)
  <2>1. Sums(d)[e] \in Nat /\ Sums(d)[e] <= Sums(d)[np] /\ Sums(d)[np] \in Nat /\ Sums(d)[0] = 0
    <3>1. np \in 0 .. np
      OBVIOUS
    <3>2. QED
      BY <1>9, <1>11, <3>1
  <2>2. Spent(m, e) = Sums(c)[ns] + (Sums(d)[np] - Sums(d)[e])
        /\ Spent(m, 0) = Sums(c)[ns] + (Sums(d)[np] - Sums(d)[0])
    BY <1>13, Zenon
  <2>3. QED
    BY <1>14, <2>1, <2>2
<1>18. ASSUME NEW e \in 1 .. np
       PROVE Spent(m, e - 1) = Spent(m, e) + EdgeCost(G.mod[m].params[e], truth)
  <2>1. e \in 0 .. np /\ e - 1 \in 0 .. np /\ np \in 0 .. np
    OBVIOUS
  <2>2. Sums(d)[e] \in Nat /\ Sums(d)[e - 1] \in Nat /\ Sums(d)[np] \in Nat /\ d[e] \in Nat
        /\ Sums(d)[e] = Sums(d)[e - 1] + d[e]
    BY <1>9, <2>1
  <2>3. Spent(m, e) = Sums(c)[ns] + (Sums(d)[np] - Sums(d)[e])
        /\ Spent(m, e - 1) = Sums(c)[ns] + (Sums(d)[np] - Sums(d)[e - 1])
    BY <1>13, Zenon
  <2>4. Spent(m, e - 1) = Spent(m, e) + d[e]
    <3>1. PICK t \in Nat : t = Sums(c)[ns]
      BY <1>14
    <3>2. PICK a \in Nat : a = Sums(d)[e]
      BY <2>2
    <3>3. PICK b \in Nat : b = Sums(d)[e - 1]
      BY <2>2
    <3>4. PICK z \in Nat : z = Sums(d)[np]
      BY <2>2
    <3>5. PICK q \in Nat : q = d[e]
      BY <2>2
    <3>6. a = b + q
      BY <2>2, <3>2, <3>3, <3>5
    <3>7. t + (z - b) = t + (z - a) + q
      BY <3>6
    <3>8. QED
      BY <2>3, <3>1, <3>2, <3>3, <3>4, <3>5, <3>7, Zenon
  <2>5. QED
    BY <1>7, <2>4
<1>19. Spent(m, np) = ShadowTotal(m)
  <2>1. np \in 0 .. np /\ Sums(d)[np] \in Nat
    BY <1>9
  <2>2. Spent(m, np) = Sums(c)[ns] + (Sums(d)[np] - Sums(d)[np])
    BY <1>13, Zenon
  <2>3. QED
    BY <1>14, <2>1, <2>2
<1>20. ModelCost(G, m, truth) = Costf(G, m, Spent(m, 0))
  <2>1. np \in 0 .. np /\ Sums(d)[np] \in Nat
    BY <1>9
  <2>0. Spent(m, 0) = Sums(c)[ns] + (Sums(d)[np] - Sums(d)[0])
    BY <1>13, Zenon
  <2>2. Spent(m, 0) = Sums(c)[ns] + Sums(d)[np]
    BY <1>9, <1>14, <2>0, <2>1
  <2>3. QED
    BY <1>15, <2>2
<1>21. ShadowSum(m, 0) = 0
  BY <1>8, <1>12
<1>22. QED
  BY <1>2, <1>3, <1>14, <1>16, <1>17, <1>18, <1>19, <1>20, <1>21, Zenon

-----------------------------------------------------------------------------
(* Steps seen from the frames of the work stack.                           *)

(* What the marks of shadows say of the chains of their variables.         *)
LEMMA Verdicts ==
    ASSUME G \in Graphs, VarCosts, Guarded, NEW w \in DOMAIN G.shadow
    PROVE  /\ sw[w] = "pass" => Passes(G, w)
           /\ sw[w] = "fail" => ~Passes(G, w)
<1>1. G.shadow[w].x \in Var \cup Given /\ Var \cap Given = {} /\ G.shadow[w].ok \in BOOLEAN
  BY VarIs, SolverAssumption DEF IsGraph
<1>2. ASSUME HasValue(G.shadow[w].x), G.shadow[w].x \notin Given
      PROVE  G.shadow[w].x \in Computable(G)
  <2>1. G.shadow[w].x \in Var /\ sp[G.shadow[w].x].value = TRUE
    BY <1>1, <1>2 DEF HasValue
  <2>2. QED
    BY <2>1 DEF VarCosts
<1>3. ASSUME sw[w] = "pass" PROVE Passes(G, w)
  <2>1. HasValue(G.shadow[w].x) /\ G.shadow[w].ok = TRUE
    BY <1>1, <1>3 DEF Guarded
  <2>2. QED
    BY <1>2, <2>1 DEF Passes, PassesWith
<1>4. ASSUME sw[w] = "fail" PROVE ~Passes(G, w)
  <2>1. \/ G.shadow[w].ok = FALSE
        \/ G.shadow[w].x \in Var \ Computable(G)
    BY <1>1, <1>4 DEF Guarded
  <2>2. QED
    BY <1>1, <2>1 DEF Passes, PassesWith
<1>5. QED
  BY <1>3, <1>4

(* What the chains on a frame's edges cost is the same in the next state.  *)
LEMMA FramePrimes ==
    ASSUME G' = G, truth' = truth
    PROVE  /\ \A f, mode : Costed(f, mode)' <=> Costed(f, mode)
           /\ \A f, mm : Overspent(f, mm)' <=> Overspent(f, mm)
           /\ \A f, cost : NotFound(f, cost)' <=> NotFound(f, cost)
           /\ \A f, cost, s, mm : GotChain(f, cost, s, mm)' <=> GotChain(f, cost, s, mm)
           /\ \A f : Allowed(f)' = Allowed(f)
<1>1. \A f : Aimed(f)' <=> Aimed(f)
  BY DEF Aimed
<1>2. \A m, e : Spent(m, e)' = Spent(m, e) /\ ShadowSum(m, e)' = ShadowSum(m, e)
  BY DEF Spent, ShadowTotal, ParamTotal, ShadowSum, ParamSum
<1>3. \A f : ShadowCosted(f)' <=> ShadowCosted(f)
  BY <1>2, Zenon DEF ShadowCosted
<1>4. \A f : ParamCosted(f)' <=> ParamCosted(f)
  BY <1>2, Zenon DEF ParamCosted
<1>5. \A f, mode : Costed(f, mode)' <=> Costed(f, mode)
  BY <1>1, <1>3, <1>4, Zenon DEF Costed
<1>6. \A f, mm : Overspent(f, mm)' <=> Overspent(f, mm)
  BY <1>1, <1>2, Zenon DEF Overspent
<1>7. \A f, cost : NotFound(f, cost)' <=> NotFound(f, cost)
  BY DEF NotFound
<1>8. \A f, cost, s, mm : GotChain(f, cost, s, mm)' <=> GotChain(f, cost, s, mm)
  BY DEF GotChain
<1>9. \A f : Allowed(f)' = Allowed(f)
  BY DEF Allowed
<1>10. QED
  BY <1>5, <1>6, <1>7, <1>8, <1>9

LEMMA CostPrimes ==
    ASSUME G' = G, truth' = truth, CostStack(X')
    PROVE  CostStack(X)'
<1>1. /\ \A f, mode : Costed(f, mode)' <=> Costed(f, mode)
      /\ \A f : Allowed(f)' = Allowed(f)
  BY FramePrimes
<1>2. QED
  BY <1>1 DEF CostStack

(* The frames of the stack if only its top changes, or is left.            *)
LEMMA CostRetop ==
    ASSUME NEW n \in Nat, n > 1, NEW Y, n = Len(Y), CostStack(Y), NEW Z, n = Len(Z),
           Z[n].beta = Y[n].beta, \A i \in 1 .. n - 1 : Z[i] = Y[i]
    PROVE  CostStack(Z)
<1>1. ASSUME NEW i \in 2 .. n - 1 PROVE Costed(Z[i], Z[i].where)
  <2>1. i \in 1 .. n - 1
    OBVIOUS
  <2>2. Costed(Y[i], Y[i].where)
    BY DEF CostStack
  <2>3. QED
    BY <2>1, <2>2
<1>2. ASSUME NEW i \in 2 .. n PROVE Z[i].beta = Allowed(Z[i - 1])
  <2>1. i - 1 \in 1 .. n - 1 /\ (i = n \/ i \in 1 .. n - 1)
    OBVIOUS
  <2>2. Y[i].beta = Allowed(Y[i - 1])
    BY DEF CostStack
  <2>3. QED
    BY <2>1, <2>2
<1>3. QED
  BY <1>1, <1>2 DEF CostStack

LEMMA CostPop ==
    ASSUME NEW n \in Nat, n > 1, NEW Y, n = Len(Y), CostStack(Y), NEW Z, n - 1 = Len(Z),
           \A i \in 1 .. n - 1 : Z[i] = Y[i]
    PROVE  CostStack(Z)
<1>1. ASSUME NEW i \in 2 .. n - 2 PROVE Costed(Z[i], Z[i].where)
  <2>1. i \in 1 .. n - 1 /\ i \in 2 .. n - 1
    OBVIOUS
  <2>2. Costed(Y[i], Y[i].where)
    BY <2>1 DEF CostStack
  <2>3. QED
    BY <2>1, <2>2
<1>2. ASSUME NEW i \in 2 .. n - 1 PROVE Z[i].beta = Allowed(Z[i - 1])
  <2>1. i - 1 \in 1 .. n - 1 /\ i \in 1 .. n - 1 /\ i \in 2 .. n
    OBVIOUS
  <2>2. Y[i].beta = Allowed(Y[i - 1])
    BY <2>1 DEF CostStack
  <2>3. QED
    BY <2>1, <2>2
<1>3. Len(Z) - 1 = n - 2
  OBVIOUS
<1>4. QED
  BY <1>1, <1>2, <1>3 DEF CostStack

LEMMA CostPush ==
    ASSUME NEW n \in Nat, n >= 1, NEW Y, n = Len(Y), CostStack(Y), NEW Z, n + 1 = Len(Z),
           \A i \in 1 .. n : Z[i] = Y[i], Z[n + 1].beta = Allowed(Y[n]),
           n > 1 => Costed(Y[n], Y[n].where)
    PROVE  CostStack(Z)
<1>1. ASSUME NEW i \in 2 .. n PROVE Costed(Z[i], Z[i].where)
  <2>1. i \in 1 .. n /\ n > 1 /\ (i = n \/ i \in 2 .. n - 1)
    OBVIOUS
  <2>2. Costed(Y[i], Y[i].where)
    BY <2>1 DEF CostStack
  <2>3. QED
    BY <2>1, <2>2
<1>2. ASSUME NEW i \in 2 .. n + 1 PROVE Z[i].beta = Allowed(Z[i - 1])
  <2>1. i - 1 \in 1 .. n /\ ((i = n + 1 /\ i - 1 = n) \/ (i \in 2 .. n /\ i \in 1 .. n))
    OBVIOUS
  <2>2. i \in 2 .. n => Y[i].beta = Allowed(Y[i - 1])
    BY DEF CostStack
  <2>3. QED
    BY <2>1, <2>2
<1>3. Len(Z) - 1 = n
  OBVIOUS
<1>4. QED
  BY <1>1, <1>2, <1>3 DEF CostStack

(* A step that changes only the frame on top.                              *)
LEMMA TopSearch ==
    ASSUME RunInv, SearchInv, Len(X) > 1, G' = G, truth' = truth,
           \A x \in Var : sp'[x].cost = sp[x].cost,
           NEW f, f.x = Top.x, f.beta = Top.beta, X' = [X EXCEPT ![Len(X)] = f],
           Costed(f, ModeOf(pc', f)),
           pc' = "solve" => arg'.beta = Allowed(f),
           pc' = "bound" => Overspent(f, mp'),
           pc' = "chosen" => GotChain(f, arg'.cost, sp', mp'),
           pc' = "failed" => NotFound(f, arg'.cost)
    PROVE  SearchInv'
<1>1. PICK n \in Nat : n = Len(X) /\ n > 1
  BY TopFrame
<1>2. X \in Seq(Frame \cup {Base}) /\ Top = X[n]
  BY <1>1 DEF RunInv, StackInv, Stacked, Top
<1>3. Len(X') = n /\ X'[n] = f /\ \A i \in 1 .. n - 1 : X'[i] = X[i]
  BY <1>1, <1>2
<1>4. CostStack(X')
  <2>1. X'[n].beta = X[n].beta
    BY <1>2, <1>3
  <2>2. CostStack(X)
    BY DEF SearchInv
  <2>3. QED
    BY <1>1, <1>3, <2>1, <2>2, CostRetop
<1>5. CostStack(X)'
  BY <1>4, CostPrimes
<1>6. Top' = f
  BY <1>3 DEF Top
<1>7. TopCost'
  <2>0. PICK mode : mode = ModeOf(pc', f)
    OBVIOUS
  <2>1. Costed(f, mode)' /\ Allowed(f)' = Allowed(f)
    BY <2>0, FramePrimes
  <2>2. /\ \A mm : Overspent(f, mm)' <=> Overspent(f, mm)
        /\ \A cost : NotFound(f, cost)' <=> NotFound(f, cost)
        /\ \A cost, s, mm : GotChain(f, cost, s, mm)' <=> GotChain(f, cost, s, mm)
    BY FramePrimes
  <2>3. Costed(Top, ModeOf(pc, Top))'
    BY <1>6, <2>0, <2>1, Zenon DEF ModeOf
  <2>4. pc' = "bound" => Overspent(Top, mp)'
    BY <1>6, <2>2, Zenon
  <2>5. pc' = "chosen" => GotChain(Top, arg.cost, sp, mp)'
    BY <1>6, <2>2, Zenon
  <2>6. pc' = "failed" => NotFound(Top, arg.cost)'
    BY <1>6, <2>2, Zenon
  <2>7. pc' = "solve" => (arg.beta = Allowed(Top))'
    BY <1>6, <2>1, Zenon
  <2>8. QED
    BY <2>3, <2>4, <2>5, <2>6, <2>7, Zenon DEF TopCost
<1>8. Marked'
  <2>1. Var' = Var
    BY DEF Var
  <2>2. ASSUME NEW x \in Var, sp'[x].cost < 0 PROVE \E i \in 2 .. n : X'[i].x = x
    <3>1. PICK i \in 2 .. n : X[i].x = x
      BY <1>1, <2>2 DEF SearchInv, Marked
    <3>2. X'[i].x = X[i].x
      <4>1. i = n \/ i \in 1 .. n - 1
        OBVIOUS
      <4>2. QED
        BY <1>2, <1>3, <4>1
    <3>3. QED
      BY <3>1, <3>2
  <2>3. QED
    BY <1>3, <2>1, <2>2 DEF Marked
<1>9. QED
  BY <1>5, <1>7, <1>8 DEF SearchInv

(* Errors other than those of the search.                                  *)
LEMMA HonestKept ==
    ASSUME ErrorsAreHonest, G' = G, status' = status \/ status'.code \notin {"CHAIN", "NYI"}
    PROVE  ErrorsAreHonest'
  BY Zenon DEF ErrorsAreHonest

LEMMA GuardedKept ==
    ASSUME G \in Graphs, Guarded, G' = G, sw' = sw, have \subseteq have',
           \A x \in Var : sp[x].value = TRUE => sp'[x].value = TRUE,
           \A x \in Var : sp[x].value \in BOOLEAN
    PROVE  Guarded'
<1>1. ASSUME NEW x \in Var \cup Given, HasValue(x) PROVE HasValue(x)'
  <2>1. CASE x \in Given
    BY <1>1, <2>1 DEF HasValue
  <2>2. CASE x \notin Given
    <3>1. x \in Var /\ sp[x].value = TRUE
      BY <1>1, <2>2 DEF HasValue
    <3>2. QED
      BY <2>2, <3>1 DEF HasValue
  <2>3. QED
    BY <2>1, <2>2
<1>2. \A w \in DOMAIN G.shadow : G.shadow[w].x \in Var \cup Given
  BY VarIs
<1>3. Var' = Var
  BY DEF Var
<1>4. ASSUME NEW w \in DOMAIN G.shadow, sw[w] # "none"
      PROVE  \/ HasValue(G.shadow[w].x)' /\ ((sw[w] = "pass") <=> G.shadow[w].ok)
             \/ sw[w] = "fail" /\ G.shadow[w].x \in Var \ Computable(G)
  <2>1. \/ HasValue(G.shadow[w].x) /\ ((sw[w] = "pass") <=> G.shadow[w].ok)
        \/ sw[w] = "fail" /\ G.shadow[w].x \in Var \ Computable(G)
    BY <1>4 DEF Guarded
  <2>2. PICK x \in Var \cup Given : x = G.shadow[w].x
    BY <1>2
  <2>3. HasValue(x) => HasValue(x)'
    BY <1>1
  <2>4. HasValue(G.shadow[w].x)' <=> HasValue(x)'
    BY <2>2 DEF HasValue
  <2>5. QED
    BY <2>1, <2>2, <2>3, <2>4, Zenon
<1>5. QED
  BY <1>3, <1>4, Zenon DEF Guarded

(* Steps that leave the costs and chains alone.                            *)
LEMMA CostsKept ==
    ASSUME TypeInv, CostInv, G' = G, truth' = truth, sw' = sw, have \subseteq have',
           \A x \in Var : /\ sp'[x].cost = sp[x].cost /\ sp'[x].chain = sp[x].chain
                          /\ sp[x].value = TRUE => sp'[x].value = TRUE
                          /\ sp'[x].value = TRUE => sp'[x].chain # None,
           \A m \in Mod : mp'[m].cost = mp[m].cost /\ mp'[m].chain = mp[m].chain,
           status' = status \/ status'.code \notin {"CHAIN", "NYI"}
    PROVE  CostInv'
<1>1. Var' = Var /\ Mod' = Mod
  BY DEF Var, Mod
<1>2. VarCosts /\ ModCosts /\ Guarded /\ ErrorsAreHonest /\ truth = TrueCosts(G)
  BY DEF CostInv
<1>3. VarCosts'
  <2>1. ASSUME NEW x \in Var
        PROVE  /\ sp'[x].cost <= truth[x]
               /\ sp'[x].value = TRUE => sp'[x].chain # None
               /\ sp'[x].chain # None =>
                     /\ x \in Computable(G) /\ sp'[x].chain.m \in ModelsOf(G, x)
                     /\ sp'[x].cost >= 0 =>
                           /\ sp'[x].cost = truth[x] /\ mp'[sp'[x].chain.m].chain = TRUE
                           /\ mp'[sp'[x].chain.m].cost = truth[x]
    <3>1. sp[x].chain # None => sp[x].chain.m \in Mod
      BY DEF TypeInv, VarState, Link
    <3>2. QED
      BY <1>2, <3>1 DEF VarCosts
  <2>2. QED
    BY <1>1, <2>1, Zenon DEF VarCosts
<1>4. ModCosts'
  BY <1>1, <1>2 DEF ModCosts
<1>5. Guarded'
  <2>1. \A x \in Var : sp[x].value \in BOOLEAN
    BY DEF TypeInv, VarState
  <2>2. G \in Graphs
    BY DEF TypeInv
  <2>3. QED
    BY <1>2, <2>1, <2>2, GuardedKept
<1>6. ErrorsAreHonest'
  BY <1>2, HonestKept
<1>7. QED
  BY <1>2, <1>3, <1>4, <1>5, <1>6 DEF CostInv

(* Steps that leave the work stack alone too.                              *)
Deciding == {"shadow", "check", "value", "args", "unpack", "yield"}

LEMMA SearchKept ==
    ASSUME RunInv, SearchInv, G' = G, truth' = truth, X' = X,
           \A x \in Var : sp'[x].cost = sp[x].cost,
           Len(X) > 1 => pc \in Deciding /\ pc' \in Deciding,
           pc' = "solve" => arg'.beta = Allowed(Top)
    PROVE  SearchInv'
<1>1. CASE Len(X) > 1
  <2>1. X' = [X EXCEPT ![Len(X)] = Top]
    BY <1>1, TopFrame
  <2>2. Costed(Top, "shadow")
    BY <1>1, Zenon DEF SearchInv, TopCost, ModeOf, Deciding
  <2>3. pc' \in Deciding
    BY <1>1
  <2>4. ModeOf(pc', Top) = "shadow" /\ pc' \notin {"solve", "bound", "chosen", "failed"}
    BY <2>3 DEF ModeOf, Deciding
  <2>5. QED
    BY <1>1, <2>1, <2>2, <2>4, TopSearch
<1>2. CASE ~(Len(X) > 1)
  <2>0. X \in Seq(Frame \cup {Base}) /\ Len(X) >= 1
    BY DEF RunInv, StackInv, Stacked
  <2>n. PICK n \in Nat : n = Len(X)
    BY <2>0, SeqIs, Zenon
  <2>1. Len(X) = 1
    BY <1>2, <2>0, <2>n
  <2>2. CostStack(X')
    BY DEF SearchInv
  <2>3. CostStack(X)'
    BY <2>2, CostPrimes
  <2>4. Marked'
    BY DEF SearchInv, Marked, Var
  <2>5. Top' = Top /\ Allowed(Top)' = Allowed(Top)
    BY DEF Top, Allowed
  <2>6. TopCost'
    BY <1>2, <2>5, SMTT(30) DEF TopCost
  <2>7. QED
    BY <2>3, <2>4, <2>6 DEF SearchInv
<1>3. QED
  BY <1>1, <1>2

-----------------------------------------------------------------------------
(* The loop over shadows.                                                  *)

(* shadow_penalty charges what the edge costs.                             *)
LEMMA Penalized ==
    ASSUME G \in Graphs, truth = TrueCosts(G), NEW f \in Frame, f.m \in Mod,
           f.edge \in 1 .. Len(G.mod[f.m].shadows), Aimed(f), ShadowCosted(f),
           NEW w \in Range(G.mod[f.m].shadows[f.edge].over), ~Passes(G, w),
           NEW mm, mm[f.m].chain = FALSE,
           NEW g, g = [f EXCEPT !.costS = f.costS + G.mod[f.m].shadows[f.edge].penalty,
                                !.edge = @ + 1, !.pos = 1]
    PROVE  /\ g.x = f.x /\ g.beta = f.beta /\ Aimed(g)
           /\ g.costS > g.betaS => Overspent(g, mm)
           /\ ~(g.costS > g.betaS) => ShadowCosted(g)
           /\ g.costS = f.costS + G.mod[f.m].shadows[f.edge].penalty /\ g.betaS = f.betaS
<1>1. /\ g.x = f.x /\ g.beta = f.beta /\ g.m = f.m /\ g.mbeta = f.mbeta /\ g.betaS = f.betaS
      /\ g.edge = f.edge + 1 /\ g.costS = f.costS + G.mod[f.m].shadows[f.edge].penalty
  BY DEF Frame
<1>2. f.edge \in Nat /\ f.costS \in Int /\ f.betaS \in Int
  BY DEF Frame
<1>3. Aimed(g)
  BY <1>1 DEF Aimed
<1>4. PICK n \in Nat : n = Len(G.mod[f.m].shadows)
  BY CostsAre
<1>5. ShadowCost(G, G.mod[f.m].shadows[f.edge]) = G.mod[f.m].shadows[f.edge].penalty
  BY DEF ShadowCost
<1>6. /\ ShadowSum(f.m, f.edge) = ShadowSum(f.m, f.edge - 1) + G.mod[f.m].shadows[f.edge].penalty
      /\ ShadowSum(f.m, f.edge) \in Nat /\ ShadowSum(f.m, f.edge) <= ShadowTotal(f.m)
  BY <1>5, SpentIs
<1>7. g.costS = ShadowSum(f.m, f.edge)
  BY <1>1, <1>6 DEF ShadowCosted
<1>8. ShadowTotal(f.m) <= Spent(f.m, 0) /\ ShadowTotal(f.m) \in Nat /\ Spent(f.m, 0) \in Nat
  <2>1. PICK p \in Nat : p = Len(G.mod[f.m].params)
    BY ParamsIs
  <2>2. 0 \in 0 .. Len(G.mod[f.m].params)
    BY <2>1
  <2>3. QED
    BY <2>2, SpentIs
<1>9. g.costS <= Spent(g.m, 0)
  BY <1>1, <1>6, <1>7, <1>8
<1>10. g.edge - 1 = f.edge
  BY <1>1, <1>2
<1>11. g.costS = ShadowSum(g.m, g.edge - 1)
  BY <1>1, <1>7, <1>10, SMTT(30)
<1>12. g.costS > g.betaS => Overspent(g, mm)
  <2>1. g.costS >= 0
    BY <1>6, <1>7
  <2>2. QED
    BY <1>1, <1>3, <1>9, <2>1 DEF Overspent
<1>13. g.costS \in Int /\ g.betaS \in Int
  BY <1>1, <1>2, <1>6, <1>7
<1>14. ~(g.costS > g.betaS) => ShadowCosted(g)
  BY <1>11, <1>13 DEF ShadowCosted
<1>15. QED
  BY <1>1, <1>3, <1>12, <1>14

LEMMA OptShadowsDone == ASSUME RunInv, CostInv, SearchInv, ShadowsDone PROVE CostInv' /\ SearchInv'
<1> DEFINE f == [Top EXCEPT !.edge = Len(G.mod[Top.m].params), !.pos = 1, !.ssmax = 0]
<1>1. Len(X) > 1 /\ ModeOf(pc, Top) = "shadow" /\ G \in Graphs /\ TypeInv
  BY DEF ShadowsDone, RunInv, TypeInv, Where, Searching, ModeOf
<1>2. /\ InShadow(Top, mp, sw) /\ Top.m \in Mod /\ Len(Params) \in Nat
      /\ Top.edge > Len(G.mod[Top.m].shadows)
  BY <1>1, TopShadow, Zenon DEF ShadowsDone, Shadows
<1>3. Top \in Frame
  BY <1>1, TopFrame
<1>4. Top.edge \in Nat /\ Top.costS \in Int /\ Top.betaS \in Int
  BY <1>3 DEF Frame
<1>5. /\ f.x = Top.x /\ f.beta = Top.beta /\ f.m = Top.m /\ f.costS = Top.costS
      /\ f.betaS = Top.betaS /\ f.edge = Len(G.mod[Top.m].params) /\ f.pos = 1
      /\ f.mbeta = Top.mbeta /\ f.ssmax = 0
  BY <1>3 DEF Frame
<1>x. X' = [X EXCEPT ![Len(X)] = f] /\ pc' = "param"
  BY DEF ShadowsDone, SetTop
<1> HIDE DEF f
<1>6. Aimed(Top) /\ ShadowCosted(Top)
  BY <1>1 DEF SearchInv, TopCost, Costed
<1>7. truth = TrueCosts(G)
  BY DEF CostInv
<1>8. Aimed(f)
  BY <1>5, <1>6 DEF Aimed
<1>9. f.costS = Spent(f.m, f.edge)
  <2>1. PICK n \in Nat : n = Len(G.mod[Top.m].shadows)
    BY <1>1, <1>2, CostsAre
  <2>2. Top.edge \in 1 .. n + 1
    BY <1>2, <2>1 DEF InShadow
  <2>3. Top.edge - 1 = n
    BY <1>2, <2>1, <2>2, SMTT(30)
  <2>4. Top.costS = ShadowTotal(Top.m)
    BY <1>6, <2>1, <2>3 DEF ShadowCosted, ShadowTotal
  <2>5. Spent(Top.m, Len(G.mod[Top.m].params)) = ShadowTotal(Top.m)
    BY <1>1, <1>2, <1>7, SpentIs
  <2>6. QED
    BY <1>5, <2>4, <2>5
<1>10. f.costS + f.ssmax <= f.betaS
  BY <1>4, <1>5, <1>6 DEF ShadowCosted
<1>11. ParamCosted(f)
  BY <1>5, <1>9, <1>10 DEF ParamCosted
<1>12. Costed(f, ModeOf(pc', f))
  BY <1>8, <1>11, <1>x DEF Costed, ModeOf
<1>13. SearchInv'
  BY <1>1, <1>5, <1>12, <1>x, TopSearch DEF ShadowsDone, graph_vars
<1>14. \A x \in Var : sp[x].value = TRUE => sp[x].chain # None
  BY DEF CostInv, VarCosts
<1>15. CostInv'
  BY <1>1, <1>14, CostsKept DEF ShadowsDone, graph_vars
<1>16. QED
  BY <1>13, <1>15

LEMMA OptShadowEdgePassed ==
    ASSUME RunInv, CostInv, SearchInv, ShadowEdgePassed PROVE CostInv' /\ SearchInv'
<1> DEFINE f == [Top EXCEPT !.edge = @ + 1, !.pos = 1]
<1>1. Len(X) > 1 /\ ModeOf(pc, Top) = "shadow" /\ G \in Graphs /\ TypeInv
  BY DEF ShadowEdgePassed, RunInv, TypeInv, Where, Searching, ModeOf
<1>2. /\ InShadow(Top, mp, sw) /\ Top.m \in Mod /\ Top.edge \in Nat /\ Len(Shadows) \in Nat
      /\ Top.edge <= Len(Shadows) /\ Top.pos \in Nat
      /\ Top.pos > Len(Shadows[Top.edge].over)
  BY <1>1, TopShadow, Zenon DEF ShadowEdgePassed
<1>3. Top \in Frame
  BY <1>1, TopFrame
<1>4. Top.edge \in Nat /\ Top.costS \in Int /\ Top.betaS \in Int
  BY <1>3 DEF Frame
<1>5. /\ f.x = Top.x /\ f.beta = Top.beta /\ f.m = Top.m /\ f.costS = Top.costS
      /\ f.betaS = Top.betaS /\ f.edge = Top.edge + 1 /\ f.mbeta = Top.mbeta
  BY <1>3 DEF Frame
<1>x. X' = [X EXCEPT ![Len(X)] = f] /\ pc' = "shadow"
  BY DEF ShadowEdgePassed, SetTop
<1> HIDE DEF f
<1>6. Aimed(Top) /\ ShadowCosted(Top)
  BY <1>1 DEF SearchInv, TopCost, Costed
<1>7. truth = TrueCosts(G) /\ VarCosts /\ Guarded
  BY DEF CostInv
<1>8. Aimed(f)
  BY <1>5, <1>6 DEF Aimed
<1>e. /\ Top.edge \in 1 .. Len(G.mod[Top.m].shadows) + 1
      /\ Top.edge <= Len(G.mod[Top.m].shadows) =>
            \A q \in 1 .. Top.pos - 1 : sw[G.mod[Top.m].shadows[Top.edge].over[q]] = "pass"
  BY <1>2, Zenon DEF InShadow
<1>9. Top.edge \in 1 .. Len(G.mod[Top.m].shadows)
  <2>1. PICK n \in Nat : n = Len(G.mod[Top.m].shadows)
    BY <1>1, <1>2, CostsAre, SMTT(30)
  <2>2. Top.edge \in 1 .. n + 1 /\ Top.edge <= n
    BY <1>2, <1>e, <2>1, Zenon DEF Shadows
  <2>3. QED
    BY <2>1, <2>2
<1>10. PICK over \in Seq(DOMAIN G.shadow) : over = G.mod[Top.m].shadows[Top.edge].over
  BY <1>1, <1>2, <1>9, OverIs
<1>11. \A q \in 1 .. Top.pos - 1 : sw[over[q]] = "pass"
  <2>1. Top.edge <= Len(G.mod[Top.m].shadows)
    BY <1>2, Zenon DEF Shadows
  <2>2. QED
    BY <1>e, <1>10, <2>1, Zenon
<1>12. \A w \in Range(over) : Passes(G, w)
  <2> SUFFICES ASSUME NEW w \in Range(over) PROVE Passes(G, w)
    OBVIOUS
  <2>1. PICK q \in 1 .. Len(over) : over[q] = w
    BY DEF Range
  <2>2. q \in 1 .. Top.pos - 1
    BY <1>2, <1>10, SMTT(30) DEF Shadows
  <2>3. sw[w] = "pass" /\ w \in DOMAIN G.shadow
    BY <1>11, <2>1, <2>2
  <2>4. QED
    BY <1>1, <1>7, <2>3, Verdicts
<1>13. ShadowCost(G, G.mod[Top.m].shadows[Top.edge]) = 0
  BY <1>10, <1>12 DEF ShadowCost
<1>14. ShadowSum(Top.m, Top.edge) = ShadowSum(Top.m, Top.edge - 1)
  <2>1. ShadowSum(Top.m, Top.edge - 1) \in Nat
        /\ ShadowSum(Top.m, Top.edge) = ShadowSum(Top.m, Top.edge - 1) + 0
    BY <1>1, <1>2, <1>7, <1>9, <1>13, SpentIs
  <2>2. QED
    BY <2>1
<1>15. ShadowCosted(f)
  <2>1. f.edge - 1 = Top.edge
    BY <1>4, <1>5
  <2>2. QED
    BY <1>5, <1>6, <1>14, <2>1 DEF ShadowCosted
<1>16. Costed(f, ModeOf(pc', f))
  BY <1>8, <1>15, <1>x DEF Costed, ModeOf
<1>17. SearchInv'
  BY <1>1, <1>5, <1>16, <1>x, TopSearch DEF ShadowEdgePassed, graph_vars
<1>18. \A x \in Var : sp[x].value = TRUE => sp[x].chain # None
  BY DEF CostInv, VarCosts
<1>19. CostInv'
  BY <1>1, <1>18, CostsKept DEF ShadowEdgePassed, graph_vars
<1>20. QED
  BY <1>17, <1>19

(* The instance that the frame on top is at, and its edge.                 *)
LEMMA AtInstance ==
    ASSUME RunInv, Len(X) > 1, ModeOf(pc, Top) = "shadow",
           Top.edge <= Len(Shadows), Top.pos <= Len(Shadows[Top.edge].over)
    PROVE  /\ Top \in Frame /\ Top.m \in Mod /\ mp[Top.m].chain = FALSE
           /\ Top.edge \in 1 .. Len(G.mod[Top.m].shadows) /\ Top.pos \in Nat
           /\ W \in Range(G.mod[Top.m].shadows[Top.edge].over) /\ W \in DOMAIN G.shadow
           /\ G.shadow[W].x \in Var \cup Given
<1>1. /\ InShadow(Top, mp, sw) /\ Top.m \in Mod /\ Top.edge \in Nat /\ Top.pos \in Nat
      /\ W \in DOMAIN G.shadow /\ G.shadow[W].x \in Var \cup Given /\ Top.pos >= 1
  BY TopShadow
<1>2. Top.edge \in 1 .. Len(G.mod[Top.m].shadows) + 1 /\ mp[Top.m].chain = FALSE
  BY <1>1, Zenon DEF InShadow
<1>g. G \in Graphs
  BY DEF RunInv, TypeInv
<1>3. Top.edge \in 1 .. Len(G.mod[Top.m].shadows)
  <2>1. PICK n \in Nat : n = Len(G.mod[Top.m].shadows)
    BY <1>1, <1>g, CostsAre
  <2>2. Top.edge \in 1 .. n + 1 /\ Top.edge <= n
    BY <1>2, <2>1 DEF Shadows
  <2>3. QED
    BY <2>1, <2>2
<1>4. W \in Range(G.mod[Top.m].shadows[Top.edge].over)
  <2>1. PICK over \in Seq(DOMAIN G.shadow) : over = G.mod[Top.m].shadows[Top.edge].over
    BY <1>1, <1>3, <1>g, OverIs
  <2>2. Top.pos \in 1 .. Len(over)
    BY <1>1, <2>1 DEF Shadows
  <2>3. W = over[Top.pos]
    BY <2>1 DEF W, Shadows
  <2>4. Top.pos \in DOMAIN over
    BY <2>2
  <2>5. QED
    BY <2>1, <2>3, <2>4, Zenon DEF Range
<1>5. Top \in Frame
  BY TopFrame
<1>6. QED
  BY <1>1, <1>2, <1>3, <1>4, <1>5

LEMMA PassTop ==
    ASSUME RunInv, SearchInv, Len(X) > 1, ModeOf(pc, Top) = "shadow", G' = G, truth' = truth,
           sp' = sp, X' = SetTop([Top EXCEPT !.pos = @ + 1]), pc' = "shadow"
    PROVE  SearchInv'
<1>1. PICK f : f = [Top EXCEPT !.pos = @ + 1]
  OBVIOUS
<1>2. Top \in Frame
  BY TopFrame
<1>3. /\ f.x = Top.x /\ f.beta = Top.beta /\ f.m = Top.m /\ f.costS = Top.costS
      /\ f.betaS = Top.betaS /\ f.edge = Top.edge /\ f.mbeta = Top.mbeta
  BY <1>1, <1>2 DEF Frame
<1>4. Aimed(Top) /\ ShadowCosted(Top)
  BY DEF SearchInv, TopCost, Costed
<1>5. Aimed(f) /\ ShadowCosted(f)
  BY <1>3, <1>4 DEF Aimed, ShadowCosted
<1>6. Costed(f, ModeOf(pc', f))
  BY <1>5 DEF Costed, ModeOf
<1>7. X' = [X EXCEPT ![Len(X)] = f]
  BY <1>1, SMTT(30) DEF SetTop
<1>8. QED
  BY <1>3, <1>6, <1>7, TopSearch

LEMMA PenalizeTop ==
    ASSUME RunInv, truth = TrueCosts(G), SearchInv, Len(X) > 1, ModeOf(pc, Top) = "shadow",
           Top.edge <= Len(Shadows), Top.pos <= Len(Shadows[Top.edge].over), ~Passes(G, W),
           G' = G, truth' = truth, sp' = sp, mp' = mp, Penalize(X, Top)
    PROVE  SearchInv'
<1>1. PICK f : f = [Top EXCEPT !.costS = Top.costS + G.mod[Top.m].shadows[Top.edge].penalty,
                               !.edge = @ + 1, !.pos = 1]
  OBVIOUS
<1>2. /\ Top \in Frame /\ Top.m \in Mod /\ mp[Top.m].chain = FALSE
      /\ Top.edge \in 1 .. Len(G.mod[Top.m].shadows)
      /\ W \in Range(G.mod[Top.m].shadows[Top.edge].over)
  BY AtInstance, Zenon
<1>3. Aimed(Top) /\ ShadowCosted(Top)
  BY DEF SearchInv, TopCost, Costed
<1>4. G \in Graphs
  BY DEF RunInv, TypeInv
<1>5. /\ f.x = Top.x /\ f.beta = Top.beta /\ Aimed(f)
      /\ f.costS > f.betaS => Overspent(f, mp)
      /\ ~(f.costS > f.betaS) => ShadowCosted(f)
      /\ f.costS = Top.costS + G.mod[Top.m].shadows[Top.edge].penalty /\ f.betaS = Top.betaS
  BY <1>1, <1>2, <1>3, <1>4, Penalized, Zenon
<1>6. /\ X' = [X EXCEPT ![Len(X)] = f]
      /\ pc' = IF f.costS > f.betaS THEN "bound" ELSE "shadow"
  BY <1>1, <1>5, Zenon DEF Penalize
<1>7. Costed(f, ModeOf(pc', f))
  BY <1>5, <1>6 DEF Costed, ModeOf
<1>8. pc' = "bound" => Overspent(f, mp')
  BY <1>5, <1>6
<1>9. pc' \notin {"solve", "chosen", "failed"}
  BY <1>6
<1>10. QED
  BY <1>5, <1>6, <1>7, <1>8, <1>9, TopSearch, Zenon

LEMMA OptShadow == ASSUME RunInv, CostInv, SearchInv, Shadow PROVE CostInv' /\ SearchInv'
<1>1. Len(X) > 1 /\ ModeOf(pc, Top) = "shadow" /\ G \in Graphs /\ pc = "shadow" /\ TypeInv
  BY DEF Shadow, RunInv, TypeInv, Where, Searching, ModeOf
<1>2. Top.edge <= Len(Shadows) /\ Top.pos <= Len(Shadows[Top.edge].over)
  BY DEF Shadow
<1>3. W \in DOMAIN G.shadow /\ G.shadow[W].x \in Var \cup Given /\ sw[W] \in {"none", "pass", "fail"}
  BY <1>1, <1>2, TopShadow
<1>4. Top \in Frame
  BY <1>1, TopFrame
<1>5. G' = G /\ truth' = truth /\ sp' = sp /\ mp' = mp /\ sw' = sw /\ have' = have
  BY DEF Shadow, graph_vars
<1>6. Var \cap Given = {}
  BY <1>1, VarIs
<1>7. Aimed(Top) /\ ShadowCosted(Top)
  BY <1>1 DEF SearchInv, TopCost, Costed
<1>8. truth = TrueCosts(G) /\ VarCosts /\ Guarded
  BY DEF CostInv
<1>9. \A x \in Var : sp[x].value = TRUE => sp[x].chain # None
  BY <1>8 DEF VarCosts
<1>10. ASSUME status' = status \/ status'.code = "VREF" PROVE CostInv'
  BY <1>1, <1>5, <1>9, <1>10, CostsKept
<1>11. CASE sw[W] = "pass"
  <2>1. X' = SetTop([Top EXCEPT !.pos = @ + 1]) /\ pc' = "shadow" /\ status' = status
    BY <1>1, <1>11 DEF Shadow
  <2>2. QED
    BY <1>1, <1>5, <1>10, <2>1, PassTop
<1>12. CASE sw[W] = "fail"
  <2>1. Penalize(X, Top) /\ status' = status
    BY <1>1, <1>12 DEF Shadow
  <2>2. ~Passes(G, W)
    BY <1>1, <1>3, <1>8, <1>12, Verdicts
  <2>3. QED
    BY <1>1, <1>2, <1>5, <1>8, <1>10, <2>1, <2>2, PenalizeTop
<1>13. CASE sw[W] = "none" /\ G.shadow[W].x \in Given
  <2>0. /\ IF G.shadow[W].x \in have THEN pc' = "check" /\ UNCHANGED status
           ELSE Vref(G.shadow[W].x)
        /\ X' = X
    BY <1>6, <1>13 DEF Shadow
  <2>1. X' = X /\ pc' \in {"check", "yield"} /\ (status' = status \/ status'.code = "VREF")
    BY <2>0 DEF Vref
  <2>2. SearchInv'
    BY <1>1, <1>5, <2>1, SearchKept DEF Deciding
  <2>3. QED
    BY <1>10, <2>1, <2>2
<1>14. CASE sw[W] = "none" /\ G.shadow[W].x \in Var /\ sp[G.shadow[W].x].chain = None
  <2>1. PICK f : f = [Top EXCEPT !.where = "shadow"]
    OBVIOUS
  <2>2. /\ X' = [X EXCEPT ![Len(X)] = f] /\ pc' = "solve" /\ status' = status
        /\ arg' = [arg EXCEPT !.x = G.shadow[W].x, !.beta = MaxCost]
    BY <1>1, <1>6, <1>14, <2>1 DEF Shadow, SetTop
  <2>3. arg'.beta = MaxCost
    <3>1. arg \in [x : Var \cup {None}, beta : Int, cost : Int]
      BY <1>1 DEF TypeInv
    <3>2. QED
      BY <2>2, <3>1
  <2>4. /\ f.x = Top.x /\ f.beta = Top.beta /\ f.m = Top.m /\ f.costS = Top.costS
        /\ f.betaS = Top.betaS /\ f.edge = Top.edge /\ f.mbeta = Top.mbeta /\ f.where = "shadow"
    BY <1>4, <2>1 DEF Frame
  <2>5. Aimed(f) /\ ShadowCosted(f)
    BY <1>7, <2>4 DEF Aimed, ShadowCosted
  <2>6. Costed(f, ModeOf(pc', f))
    BY <2>2, <2>4, <2>5 DEF Costed, ModeOf
  <2>7. arg'.beta = Allowed(f)
    BY <2>3, <2>4 DEF Allowed
  <2>8. SearchInv'
    BY <1>1, <1>5, <2>2, <2>4, <2>6, <2>7, TopSearch
  <2>9. QED
    BY <1>10, <2>2, <2>8
<1>15. CASE sw[W] = "none" /\ G.shadow[W].x \in Var /\ sp[G.shadow[W].x].chain # None
  <2>1. X' = X /\ pc' \in {"check", "value"} /\ status' = status
    BY <1>1, <1>6, <1>15 DEF Shadow
  <2>2. SearchInv'
    BY <1>1, <1>5, <2>1, SearchKept DEF Deciding
  <2>3. QED
    BY <1>10, <2>1, <2>2
<1>16. QED
  BY <1>3, <1>11, <1>12, <1>13, <1>14, <1>15

LEMMA OptCheck == ASSUME RunInv, CostInv, SearchInv, Check PROVE CostInv' /\ SearchInv'
<1>1. Len(X) > 1 /\ ModeOf(pc, Top) = "shadow" /\ G \in Graphs /\ pc = "check" /\ TypeInv
  BY DEF Check, RunInv, TypeInv, Where, Searching, ModeOf
<1>2. AtShadow(Top, G.shadow[ShadowOf(Top)].x) /\ HasValue(G.shadow[ShadowOf(Top)].x)
  BY <1>1 DEF RunInv, StackInv, TopInv
<1>3. Top.edge <= Len(Shadows) /\ Top.pos <= Len(Shadows[Top.edge].over)
  BY <1>2 DEF AtShadow, Shadows
<1>4. W = ShadowOf(Top) /\ W \in DOMAIN G.shadow
  BY <1>1, <1>3, TopShadow
<1>5. /\ G' = G /\ truth' = truth /\ sp' = sp /\ mp' = mp /\ have' = have /\ status' = status
      /\ sw' = [w \in DOMAIN sw |->
                  IF w \notin Scanned(W) THEN sw[w]
                  ELSE IF sw[w] = "pass" \/ G.shadow[w].ok THEN "pass" ELSE "fail"]
  BY DEF Check, graph_vars
<1>6. sw \in [DOMAIN G.shadow -> {"none", "pass", "fail"}]
  BY <1>1 DEF TypeInv
<1>7. \A u \in Scanned(W) : HasValue(G.shadow[u].x)
  BY <1>1, <1>2, <1>4, ScannedIs
<1>8. truth = TrueCosts(G) /\ VarCosts /\ ModCosts /\ Guarded /\ ErrorsAreHonest
  BY DEF CostInv
<1>9. \A u \in DOMAIN G.shadow : G.shadow[u].ok \in BOOLEAN
  BY <1>1, SolverAssumption DEF IsGraph
<1>10. ASSUME NEW u \in DOMAIN G.shadow, sw'[u] # "none"
       PROVE  \/ HasValue(G.shadow[u].x) /\ ((sw'[u] = "pass") <=> G.shadow[u].ok)
              \/ sw'[u] = "fail" /\ G.shadow[u].x \in Var \ Computable(G)
  <2>1. CASE u \notin Scanned(W)
    <3>1. sw'[u] = sw[u]
      BY <1>5, <1>6, <2>1
    <3>2. QED
      BY <1>8, <1>10, <3>1 DEF Guarded
  <2>2. CASE u \in Scanned(W)
    <3>1. sw'[u] = IF sw[u] = "pass" \/ G.shadow[u].ok THEN "pass" ELSE "fail"
      BY <1>5, <1>6, <2>2
    <3>2. sw[u] = "pass" => G.shadow[u].ok
      BY <1>1, <1>8, Verdicts DEF Passes, PassesWith
    <3>3. (sw'[u] = "pass") <=> G.shadow[u].ok
      BY <1>9, <3>1, <3>2
    <3>4. QED
      BY <1>7, <2>2, <3>3
  <2>3. QED
    BY <2>1, <2>2
<1>11. Var' = Var /\ Mod' = Mod /\ \A x : HasValue(x)' <=> HasValue(x)
  BY <1>5 DEF Var, Mod, HasValue
<1>12. Guarded'
  BY <1>5, <1>10, <1>11, Zenon DEF Guarded
<1>13. VarCosts' /\ ModCosts'
  BY <1>5, <1>8, <1>11, Zenon DEF VarCosts, ModCosts
<1>14. ErrorsAreHonest'
  BY <1>5, <1>8, HonestKept
<1>15. CostInv'
  BY <1>5, <1>8, <1>12, <1>13, <1>14 DEF CostInv
<1>16. CASE sw'[W] = "pass"
  <2>1. X' = SetTop([Top EXCEPT !.pos = @ + 1]) /\ pc' = "shadow"
    BY <1>16 DEF Check
  <2>2. QED
    BY <1>1, <1>5, <1>15, <2>1, PassTop
<1>17. CASE sw'[W] # "pass"
  <2>1. Penalize(X, Top)
    BY <1>17 DEF Check
  <2>2. W \in Scanned(W)
    BY <1>1, <1>4, ScannedIs
  <2>3. ~G.shadow[W].ok
    BY <1>4, <1>5, <1>6, <1>17, <2>2
  <2>4. ~Passes(G, W)
    BY <2>3 DEF Passes, PassesWith
  <2>5. QED
    BY <1>1, <1>3, <1>5, <1>8, <1>15, <2>1, <2>4, PenalizeTop
<1>18. QED
  BY <1>16, <1>17

-----------------------------------------------------------------------------
(* The loop over parameters.                                               *)

(* A variable that got its chain is not on the stack.                      *)
LEMMA NotMarked ==
    ASSUME RunInv, Marked, pc # "chosen", NEW y \in Var, sp[y].chain # None
    PROVE  sp[y].cost >= 0 /\ sp[y].cost \in Int
<1>1. sp[y].cost \in Int
  BY DEF RunInv, TypeInv, VarState
<1>2. ASSUME sp[y].cost < 0 PROVE FALSE
  <2>1. PICK i \in 2 .. Len(X) : X[i].x = y
    BY <1>2 DEF Marked
  <2>2. PICK n \in Nat : n = Len(X)
    <3>1. X \in Seq(Frame \cup {Base})
      BY DEF RunInv, StackInv, Stacked
    <3>2. QED
      BY <3>1, SeqIs, Zenon
  <2>3. n > 1
    BY <2>1, <2>2
  <2>4. CASE i = n
    BY <2>1, <2>2, <2>3, <2>4 DEF RunInv, StackInv, TopInv, Top
  <2>5. CASE i # n
    <3>1. i \in 2 .. Len(X) - 1
      BY <2>1, <2>2, <2>5
    <3>2. Sleeps(X[i], X[i + 1].x, sp, mp, sw)
      BY <2>2, <2>3, <3>1, Sleeping
    <3>3. QED
      BY <2>1, <3>2, Zenon DEF Sleeps
  <2>6. QED
    BY <2>4, <2>5
<1>3. QED
  BY <1>1, <1>2

LEMMA KnownCost ==
    ASSUME RunInv, CostInv, SearchInv, pc # "chosen", NEW y \in Var, sp[y].chain # None
    PROVE  sp[y].cost = truth[y]
<1>1. sp[y].cost >= 0
  BY NotMarked DEF SearchInv
<1>2. QED
  BY <1>1 DEF CostInv, VarCosts

(* One more parameter with a chain, or one that is not known to cost less. *)
Seen(g, f, cost) == g = [f EXCEPT !.ssmax = Larger(f.ssmax, cost), !.pos = @ + 1]

LEMMA ParamSeen ==
    ASSUME G \in Graphs, truth \in [Var -> 0 .. Inf], NEW f \in Frame, f.m \in Mod,
           f.edge \in 1 .. Len(G.mod[f.m].params), f.pos >= 1,
           f.pos <= Len(G.mod[f.m].params[f.edge]), ParamCosted(f), NEW y \in Var,
           G.mod[f.m].params[f.edge][f.pos] = y, f.costS + truth[y] <= f.betaS,
           NEW g, Seen(g, f, truth[y])
    PROVE  /\ g.x = f.x /\ g.beta = f.beta /\ (Aimed(f) => Aimed(g))
           /\ ParamCosted(g)
<1>1. /\ g.x = f.x /\ g.beta = f.beta /\ g.m = f.m /\ g.mbeta = f.mbeta
      /\ g.betaS = f.betaS /\ g.costS = f.costS /\ g.edge = f.edge
      /\ g.pos = f.pos + 1 /\ g.ssmax = Larger(f.ssmax, truth[y])
  BY DEF Frame, Seen
<1>2. truth[y] \in Nat /\ f.ssmax \in Nat /\ f.pos \in Nat /\ f.costS \in Int /\ f.betaS \in Int
  <2>1. truth[y] \in 0 .. Inf /\ Inf \in Nat
    BY SolverAssumption
  <2>2. QED
    BY <2>1 DEF Frame
<1>3. /\ g.ssmax \in Nat /\ g.ssmax >= f.ssmax /\ g.ssmax >= truth[y]
      /\ (g.ssmax = f.ssmax \/ g.ssmax = truth[y])
  BY <1>1, <1>2, SMTT(30) DEF Larger
<1>4. f.costS = Spent(f.m, f.edge) /\ f.costS + f.ssmax <= f.betaS
  BY DEF ParamCosted
<1>5. g.costS + g.ssmax <= g.betaS
  BY <1>1, <1>2, <1>3, <1>4
<1>6. PICK p \in Seq(Var) : p = G.mod[f.m].params[f.edge]
  <2>1. PICK ps \in Seq(Seq(Var)) : ps = G.mod[f.m].params
    BY ModIs
  <2>2. f.edge \in DOMAIN ps
    BY <2>1
  <2>3. ps[f.edge] \in Seq(Var)
    BY <2>2, SeqIs, Zenon
  <2>4. QED
    BY <2>1, <2>3
<1>7. f.edge > 0
  <2>1. PICK n \in Nat : n = Len(G.mod[f.m].params)
    BY ParamsIs, SMTT(30)
  <2>2. QED
    BY <2>1
<1>8. /\ \A k \in 1 .. f.pos - 1 : truth[p[k]] <= f.ssmax
      /\ f.ssmax = 0 \/ \E k \in 1 .. f.pos - 1 : f.ssmax = truth[p[k]]
  BY <1>6, <1>7, Zenon DEF ParamCosted
<1>9. \A k \in 1 .. g.pos - 1 : truth[p[k]] <= g.ssmax
  <2> SUFFICES ASSUME NEW k \in 1 .. g.pos - 1 PROVE truth[p[k]] <= g.ssmax
    OBVIOUS
  <2>1. CASE k = f.pos
    BY <1>3, <1>6, <2>1
  <2>2. CASE k # f.pos
    <3>0. PICK n \in Nat : n = Len(p) /\ DOMAIN p = 1 .. n
      BY SeqIs, Zenon
    <3>n. f.pos <= n
      BY <1>6, <3>0, Zenon
    <3>1. k \in 1 .. f.pos - 1 /\ k \in DOMAIN p
      BY <1>1, <1>2, <2>2, <3>0, <3>n, SMTT(30)
    <3>2. p[k] \in Var
      BY <3>1
    <3>3. truth[p[k]] \in 0 .. Inf
      BY <3>2
    <3>4. truth[p[k]] <= f.ssmax
      BY <1>8, <3>1
    <3>5. Inf \in Nat
      BY SolverAssumption
    <3>6. QED
      BY <1>2, <1>3, <3>3, <3>4, <3>5, SMTT(30)
  <2>3. QED
    BY <2>1, <2>2
<1>10. g.ssmax = 0 \/ \E k \in 1 .. g.pos - 1 : g.ssmax = truth[p[k]]
  <2>1. CASE g.ssmax = truth[y]
    <3>1. f.pos \in 1 .. g.pos - 1 /\ p[f.pos] = y
      BY <1>1, <1>2, <1>6
    <3>2. QED
      BY <2>1, <3>1
  <2>2. CASE g.ssmax = f.ssmax
    <3>1. \A k \in 1 .. f.pos - 1 : k \in 1 .. g.pos - 1
      BY <1>1, <1>2
    <3>2. QED
      BY <1>8, <2>2, <3>1
  <2>3. QED
    BY <1>3, <2>1, <2>2
<1>11. ParamCosted(g)
  BY <1>1, <1>4, <1>5, <1>6, <1>9, <1>10, Zenon DEF ParamCosted
<1>12. Aimed(f) => Aimed(g)
  BY <1>1, Zenon DEF Aimed
<1>13. QED
  BY <1>1, <1>11, <1>12

(* A parameter is on an edge that costs at least as much.                  *)
LEMMA ParamWithin ==
    ASSUME G \in Graphs, truth = TrueCosts(G), NEW m \in Mod, NEW e \in 1 .. Len(G.mod[m].params),
           NEW k \in Nat, k >= 1, k <= Len(G.mod[m].params[e])
    PROVE  /\ Spent(m, e) \in Nat /\ Spent(m, 0) \in Nat
           /\ Spent(m, e) + truth[G.mod[m].params[e][k]] <= Spent(m, 0)
<1>1. PICK n \in Nat : n = Len(G.mod[m].params)
  BY ParamsIs
<1>2. e \in 0 .. n /\ e - 1 \in 0 .. n /\ 0 \in 0 .. n
  BY <1>1
<1>3. PICK p \in Seq(Var) : p = G.mod[m].params[e]
  <2>1. PICK ps \in Seq(Seq(Var)) : ps = G.mod[m].params
    BY ModIs
  <2>2. e \in DOMAIN ps
    BY <2>1
  <2>3. ps[e] \in Seq(Var)
    BY <2>2, SeqIs, Zenon
  <2>4. QED
    BY <2>1, <2>3
<1>4. k \in DOMAIN p
  BY <1>3
<1>5. p[k] \in Range(p) /\ Range(p) \subseteq Var
  BY <1>4 DEF Range
<1>6. truth \in [Var -> 0 .. Inf] /\ Inf \in Nat
  BY TruthIs, SolverAssumption
<1>7. EdgeCost(p, truth) \in 0 .. Inf /\ truth[p[k]] <= EdgeCost(p, truth) /\ truth[p[k]] \in 0 .. Inf
  BY <1>5, <1>6, EdgeCostIs
<1>8. /\ Spent(m, e) \in Nat /\ Spent(m, e - 1) \in Nat /\ Spent(m, 0) \in Nat
      /\ Spent(m, e - 1) <= Spent(m, 0)
  BY <1>1, <1>2, SpentIs
<1>9. Spent(m, e - 1) = Spent(m, e) + EdgeCost(G.mod[m].params[e], truth)
  BY SpentIs
<1>10. Spent(m, e - 1) = Spent(m, e) + EdgeCost(p, truth)
  BY <1>3, <1>9, Zenon
<1>11. Spent(m, e) + truth[p[k]] <= Spent(m, 0)
  BY <1>6, <1>7, <1>8, <1>10
<1>12. QED
  BY <1>3, <1>8, <1>11

LEMMA OptParam == ASSUME RunInv, CostInv, SearchInv, Param PROVE CostInv' /\ SearchInv'
<1>1. Len(X) > 1 /\ ModeOf(pc, Top) = "param" /\ G \in Graphs /\ pc = "param" /\ TypeInv
  BY DEF Param, RunInv, TypeInv, Where, Searching, ModeOf
<1>2. Top.edge > 0 /\ Top.pos <= Len(Params[Top.edge])
  BY DEF Param
<1>3. /\ InParam(Top, mp, sp) /\ Top.m \in Mod /\ Top.edge \in Nat /\ Top.pos \in Nat
      /\ Top.costS \in Int /\ Top.betaS \in Int /\ Top.ssmax \in Nat /\ Top.pos >= 1
      /\ Params[Top.edge] \in Seq(Var) /\ Params[Top.edge][Top.pos] \in Var
      /\ sp[Params[Top.edge][Top.pos]].cost \in Int /\ Top.edge <= Len(Params)
      /\ Len(Params) \in Nat /\ Len(Params[Top.edge]) \in Nat
  BY <1>1, <1>2, TopParam
<1>4. PICK y \in Var : y = Params[Top.edge][Top.pos]
  BY <1>3
<1>5. Top \in Frame
  BY <1>1, TopFrame
<1>6. /\ mp[Top.m].chain = FALSE /\ Top.costS >= 0 /\ Top.betaS <= MaxCost
  BY <1>3, Zenon DEF InParam
<1>7. Aimed(Top) /\ ParamCosted(Top)
  BY <1>1 DEF SearchInv, TopCost, Costed
<1>8. G' = G /\ truth' = truth /\ sp' = sp /\ mp' = mp /\ sw' = sw /\ have' = have /\ status' = status
  BY DEF Param, graph_vars
<1>9. truth = TrueCosts(G) /\ VarCosts
  BY DEF CostInv
<1>10. CostInv'
  <2>1. \A x \in Var : sp[x].value = TRUE => sp[x].chain # None
    BY <1>9 DEF VarCosts
  <2>2. QED
    BY <1>1, <1>8, <2>1, CostsKept
<1>11. /\ truth \in [Var -> 0 .. Inf] /\ Inf \in Nat /\ MaxCost \in Nat /\ MaxCost < Inf
  BY <1>1, <1>9, TruthIs, SolverAssumption
<1>12. Top.costS = Spent(Top.m, Top.edge) /\ Top.costS + Top.ssmax <= Top.betaS
  BY <1>7 DEF ParamCosted
<1>13. CASE Top.costS + sp[y].cost > Top.betaS
  <2>1. PICK f : f = [Top EXCEPT !.costS = Cap(Top.costS + sp[y].cost)]
    OBVIOUS
  <2>2. X' = [X EXCEPT ![Len(X)] = f] /\ pc' = "bound"
    BY <1>4, <1>13, <2>1 DEF Param, SetTop
  <2>3. /\ f.x = Top.x /\ f.beta = Top.beta /\ f.m = Top.m /\ f.mbeta = Top.mbeta
        /\ f.betaS = Top.betaS /\ f.costS = Cap(Top.costS + sp[y].cost)
    BY <1>5, <2>1 DEF Frame
  <2>4. Aimed(f)
    BY <1>7, <2>3 DEF Aimed
  <2>5. PICK S \in Nat : S = Top.costS + sp[y].cost /\ S > Top.betaS
    <3>1. Top.costS <= Top.betaS
      BY <1>3, <1>12
    <3>2. Top.costS + sp[y].cost \in Nat
      BY <1>3, <1>4, <1>6, <1>13, <3>1, SMTT(30)
    <3>3. QED
      BY <1>13, <3>2
  <2>6. Cap(S) \in 0 .. Inf /\ Cap(S) <= S /\ (S <= Inf => Cap(S) = S) /\ (S >= Inf => Cap(S) = Inf)
    BY CapIs
  <2>7. f.costS > f.betaS
    <3>1. CASE S <= Inf
      BY <2>3, <2>5, <2>6, <3>1
    <3>2. CASE S > Inf
      BY <1>3, <1>6, <1>11, <2>3, <2>5, <2>6, <3>2
    <3>3. QED
      BY <1>11, <2>5, <3>1, <3>2
  <2>8. S <= Spent(Top.m, 0) /\ Spent(Top.m, 0) \in Nat
    <3>1. sp[y].cost <= truth[y] /\ sp[y].cost \in Int /\ truth[y] \in 0 .. Inf
      BY <1>3, <1>4, <1>9, <1>11 DEF VarCosts
    <3>2. Top.edge \in 1 .. Len(G.mod[Top.m].params) /\ Top.pos <= Len(G.mod[Top.m].params[Top.edge])
      BY <1>2, <1>3, SMTT(30) DEF Params
    <3>3. /\ Spent(Top.m, Top.edge) \in Nat /\ Spent(Top.m, 0) \in Nat
          /\ Spent(Top.m, Top.edge) + truth[y] <= Spent(Top.m, 0)
      BY <1>1, <1>3, <1>4, <1>9, <3>2, ParamWithin DEF Params
    <3>4. QED
      BY <1>11, <1>12, <2>5, <3>1, <3>3
  <2>9. f.costS <= Spent(f.m, 0)
    BY <2>3, <2>5, <2>6, <2>8
  <2>10. Overspent(f, mp')
    <3>1. f.costS >= 0
      BY <1>11, <2>3, <2>5, <2>6
    <3>2. QED
      BY <1>6, <1>8, <2>3, <2>4, <2>7, <2>9, <3>1 DEF Overspent
  <2>11. Costed(f, ModeOf(pc', f))
    BY <2>2 DEF Costed, ModeOf
  <2>12. SearchInv'
    BY <1>1, <1>8, <2>2, <2>3, <2>10, <2>11, TopSearch
  <2>13. QED
    BY <1>10, <2>12
<1>14. CASE ~(Top.costS + sp[y].cost > Top.betaS) /\ sp[y].chain # None
  <2>1. PICK f : f = [Top EXCEPT !.ssmax = Larger(Top.ssmax, sp[y].cost), !.pos = @ + 1]
    OBVIOUS
  <2>2. X' = [X EXCEPT ![Len(X)] = f] /\ pc' = "param"
    BY <1>1, <1>4, <1>14, <2>1 DEF Param, SetTop
  <2>3. sp[y].cost = truth[y] /\ truth[y] \in 0 .. Inf
    BY <1>1, <1>11, <1>14, KnownCost
  <2>4. Top.costS + truth[y] <= Top.betaS
    BY <1>3, <1>11, <1>14, <2>3, SMTT(30)
  <2>5. Top.edge \in 1 .. Len(G.mod[Top.m].params) /\ Top.pos <= Len(G.mod[Top.m].params[Top.edge])
    BY <1>2, <1>3 DEF Params
  <2>6. G.mod[Top.m].params[Top.edge][Top.pos] = y
    BY <1>4 DEF Params
  <2>7. f.x = Top.x /\ f.beta = Top.beta /\ Aimed(f) /\ ParamCosted(f)
    <3>1. PICK t \in Frame : t = Top
      BY <1>5
    <3>2. Seen(f, t, truth[y])
      BY <2>1, <2>3, <3>1 DEF Seen
    <3>3. /\ t.m \in Mod /\ t.edge \in 1 .. Len(G.mod[t.m].params) /\ t.pos >= 1
          /\ t.pos <= Len(G.mod[t.m].params[t.edge]) /\ ParamCosted(t) /\ Aimed(t)
          /\ G.mod[t.m].params[t.edge][t.pos] = y /\ t.costS + truth[y] <= t.betaS
      BY <1>3, <1>7, <2>4, <2>5, <2>6, <3>1
    <3>4. truth \in [Var -> 0 .. Inf]
      BY <1>11
    <3>5. /\ f.x = t.x /\ f.beta = t.beta /\ (Aimed(t) => Aimed(f)) /\ ParamCosted(f)
      BY <1>1, <3>2, <3>3, <3>4, ParamSeen
    <3>6. QED
      BY <3>1, <3>3, <3>5
  <2>8. Costed(f, ModeOf(pc', f))
    BY <2>2, <2>7 DEF Costed, ModeOf
  <2>9. SearchInv'
    BY <1>1, <1>8, <2>2, <2>7, <2>8, TopSearch
  <2>10. QED
    BY <1>10, <2>9
<1>15. CASE ~(Top.costS + sp[y].cost > Top.betaS) /\ sp[y].chain = None
  <2>1. PICK f : f = [Top EXCEPT !.where = "param"]
    OBVIOUS
  <2>2. /\ X' = [X EXCEPT ![Len(X)] = f] /\ pc' = "solve"
        /\ arg' = [arg EXCEPT !.x = y, !.beta = Top.betaS - Top.costS]
    BY <1>4, <1>15, <2>1 DEF Param, SetTop
  <2>3. arg'.beta = Top.betaS - Top.costS
    <3>1. arg \in [x : Var \cup {None}, beta : Int, cost : Int]
      BY <1>1 DEF TypeInv
    <3>2. QED
      BY <2>2, <3>1
  <2>4. /\ f.x = Top.x /\ f.beta = Top.beta /\ f.m = Top.m /\ f.mbeta = Top.mbeta
        /\ f.betaS = Top.betaS /\ f.costS = Top.costS /\ f.edge = Top.edge
        /\ f.pos = Top.pos /\ f.ssmax = Top.ssmax /\ f.where = "param"
    BY <1>5, <2>1 DEF Frame
  <2>5. Aimed(f) /\ ParamCosted(f)
    BY <1>7, <2>4, Zenon DEF Aimed, ParamCosted
  <2>6. Costed(f, ModeOf(pc', f))
    BY <2>2, <2>4, <2>5 DEF Costed, ModeOf
  <2>7. arg'.beta = Allowed(f)
    BY <2>3, <2>4 DEF Allowed
  <2>8. SearchInv'
    BY <1>1, <1>8, <2>2, <2>4, <2>6, <2>7, TopSearch
  <2>9. QED
    BY <1>10, <2>8
<1>16. QED
  BY <1>13, <1>14, <1>15

LEMMA OptParamEdgeDone ==
    ASSUME RunInv, CostInv, SearchInv, ParamEdgeDone PROVE CostInv' /\ SearchInv'
<1>1. Len(X) > 1 /\ ModeOf(pc, Top) = "param" /\ G \in Graphs /\ pc = "param" /\ TypeInv
  BY DEF ParamEdgeDone, RunInv, TypeInv, Where, Searching, ModeOf
<1>2. Top.edge > 0 /\ Top.pos > Len(Params[Top.edge])
  BY DEF ParamEdgeDone
<1>3. /\ InParam(Top, mp, sp) /\ Top.m \in Mod /\ Top.edge \in Nat /\ Top.pos \in Nat
      /\ Top.costS \in Int /\ Top.betaS \in Int /\ Top.ssmax \in Nat
      /\ Params[Top.edge] \in Seq(Var) /\ Top.edge <= Len(Params)
      /\ Len(Params) \in Nat /\ Len(Params[Top.edge]) \in Nat
  BY <1>1, <1>2, TopParam
<1>4. PICK q \in Seq(Var) : q = Params[Top.edge] /\ q = G.mod[Top.m].params[Top.edge]
  BY <1>3 DEF Params
<1>5. Top \in Frame
  BY <1>1, TopFrame
<1>6. Top.pos <= Len(q) + 1
  <2>1. Top.edge > 0 => Top.pos <= Len(G.mod[Top.m].params[Top.edge]) + 1
    BY <1>3, Zenon DEF InParam
  <2>2. QED
    BY <1>2, <1>4, <2>1
<1>7. Aimed(Top) /\ ParamCosted(Top)
  BY <1>1 DEF SearchInv, TopCost, Costed
<1>8. G' = G /\ truth' = truth /\ sp' = sp /\ mp' = mp /\ sw' = sw /\ have' = have /\ status' = status
  BY DEF ParamEdgeDone, graph_vars
<1>9. truth = TrueCosts(G) /\ VarCosts
  BY DEF CostInv
<1>10. CostInv'
  <2>1. \A x \in Var : sp[x].value = TRUE => sp[x].chain # None
    BY <1>9 DEF VarCosts
  <2>2. QED
    BY <1>1, <1>8, <2>1, CostsKept
<1>11. truth \in [Var -> 0 .. Inf] /\ Inf \in Nat
  BY <1>1, <1>9, TruthIs, SolverAssumption
<1>12. /\ Top.costS = Spent(Top.m, Top.edge) /\ Top.costS + Top.ssmax <= Top.betaS
       /\ \A k \in 1 .. Top.pos - 1 : truth[q[k]] <= Top.ssmax
       /\ Top.ssmax = 0 \/ \E k \in 1 .. Top.pos - 1 : Top.ssmax = truth[q[k]]
  BY <1>2, <1>4, <1>7, Zenon DEF ParamCosted
<1>13. PICK n \in Nat : n = Len(q) /\ DOMAIN q = 1 .. n /\ n = Top.pos - 1
  <2>1. PICK n \in Nat : n = Len(q) /\ DOMAIN q = 1 .. n
    BY SeqIs, Zenon
  <2>2. Top.pos > n /\ Top.pos <= n + 1
    BY <1>2, <1>4, <1>6, <2>1, Zenon
  <2>3. n = Top.pos - 1
    BY <1>3, <2>2
  <2>4. QED
    BY <2>1, <2>3
<1>14. Top.ssmax = EdgeCost(q, truth)
  <2>1. Range(q) \subseteq Var /\ \A k \in 1 .. n : q[k] \in Range(q)
    BY <1>13 DEF Range
  <2>2. /\ EdgeCost(q, truth) \in 0 .. Inf /\ \A y \in Range(q) : truth[y] <= EdgeCost(q, truth)
        /\ EdgeCost(q, truth) = 0 \/ \E y \in Range(q) : EdgeCost(q, truth) = truth[y]
    BY <1>1, <1>11, <2>1, EdgeCostIs
  <2>3. Top.ssmax <= EdgeCost(q, truth)
    <3>1. CASE Top.ssmax = 0
      BY <1>11, <2>2, <3>1
    <3>2. CASE Top.ssmax # 0
      <4>1. PICK k \in 1 .. n : Top.ssmax = truth[q[k]]
        BY <1>12, <1>13, <3>2
      <4>2. QED
        BY <2>1, <2>2, <4>1
    <3>3. QED
      BY <3>1, <3>2
  <2>4. EdgeCost(q, truth) <= Top.ssmax
    <3>1. CASE EdgeCost(q, truth) = 0
      BY <1>3, <3>1
    <3>2. CASE EdgeCost(q, truth) # 0
      <4>1. PICK y \in Range(q) : EdgeCost(q, truth) = truth[y]
        BY <2>2, <3>2
      <4>2. PICK k \in 1 .. n : q[k] = y
        BY <1>13 DEF Range
      <4>3. QED
        BY <1>12, <1>13, <4>1, <4>2
    <3>3. QED
      BY <3>1, <3>2
  <2>5. PICK a \in Nat : a = EdgeCost(q, truth)
    BY <1>11, <2>2
  <2>6. QED
    BY <1>3, <2>3, <2>4, <2>5
<1>15. PICK f : f = [Top EXCEPT !.costS = @ + Top.ssmax, !.edge = @ - 1, !.pos = 1, !.ssmax = 0]
  OBVIOUS
<1>16. X' = [X EXCEPT ![Len(X)] = f] /\ pc' = "param"
  BY <1>1, <1>15 DEF ParamEdgeDone, SetTop
<1>17. /\ f.x = Top.x /\ f.beta = Top.beta /\ f.m = Top.m /\ f.mbeta = Top.mbeta
       /\ f.betaS = Top.betaS /\ f.costS = Top.costS + Top.ssmax /\ f.edge = Top.edge - 1
       /\ f.pos = 1 /\ f.ssmax = 0
  BY <1>5, <1>15 DEF Frame
<1>18. Aimed(f)
  BY <1>7, <1>17 DEF Aimed
<1>19. f.costS = Spent(f.m, f.edge)
  <2>1. Top.edge \in 1 .. Len(G.mod[Top.m].params)
    BY <1>2, <1>3 DEF Params
  <2>2. Spent(Top.m, Top.edge - 1) = Spent(Top.m, Top.edge) + EdgeCost(q, truth)
    BY <1>1, <1>3, <1>4, <1>9, <2>1, SpentIs
  <2>3. QED
    BY <1>12, <1>14, <1>17, <2>2
<1>20. f.costS + f.ssmax <= f.betaS
  BY <1>3, <1>12, <1>17
<1>21. ParamCosted(f)
  BY <1>17, <1>19, <1>20 DEF ParamCosted
<1>22. Costed(f, ModeOf(pc', f))
  BY <1>16, <1>18, <1>21 DEF Costed, ModeOf
<1>23. SearchInv'
  BY <1>1, <1>8, <1>16, <1>17, <1>22, TopSearch
<1>24. QED
  BY <1>10, <1>23

(* A model within a bound that no other model is below costs what its      *)
(* variable costs.                                                         *)
LEMMA CheapestIs ==
    ASSUME G \in Graphs, truth = TrueCosts(G), NEW x \in Var, NEW m \in ModelsOf(G, x),
           NEW cost \in Int, cost = ModelCost(G, m, truth), cost <= MaxCost,
           \A l \in ModelsOf(G, x) : l = m \/ cost <= ModelCost(G, l, truth)
    PROVE  cost = truth[x]
<1>1. /\ truth \in [Var -> 0 .. Inf] /\ Inf \in Nat /\ MaxCost \in Nat /\ MaxCost < Inf
  BY TruthIs, SolverAssumption
<1>2. truth[x] <= cost /\ truth[x] \in Nat
  BY <1>1, TruthIs
<1>3. truth[x] = Inf \/ \E l \in ModelsOf(G, x) : truth[x] = ModelCost(G, l, truth)
  BY TruthIs
<1>4. CASE truth[x] = Inf
  BY <1>1, <1>2, <1>4
<1>5. CASE truth[x] # Inf
  <2>1. PICK l \in ModelsOf(G, x) : truth[x] = ModelCost(G, l, truth)
    BY <1>3, <1>5
  <2>2. cost <= truth[x]
    BY <2>1
  <2>3. QED
    BY <1>2, <2>2
<1>6. QED
  BY <1>4, <1>5

(* A model of finite cost has no failing shadow of infinite penalty.       *)
LEMMA FiniteShadows ==
    ASSUME G \in Graphs, truth = TrueCosts(G), NEW m \in Mod, ModelCost(G, m, truth) < Inf
    PROVE  \A i \in 1 .. Len(G.mod[m].shadows) : ShadowCost(G, G.mod[m].shadows[i]) < Inf
<1>1. 0 \in 0 .. Len(G.mod[m].params)
  BY ParamsIs
<1>2. PICK S \in Nat : S = Spent(m, 0)
  BY <1>1, SpentIs
<1>3. Cap(S) <= ModelCost(G, m, truth)
  BY <1>2, SpentIs, CostfIs
<1>4. S < Inf
  <2>1. truth \in [Var -> 0 .. Inf] /\ Inf \in Nat
    BY TruthIs, SolverAssumption
  <2>2. ModelCost(G, m, truth) \in 0 .. Inf
    BY <2>1, ModelCostIs
  <2>3. Cap(S) < Inf
    BY <1>2, <1>3, <2>1, <2>2, CapIs
  <2>4. QED
    BY <1>2, <2>3, CapIs
<1>5. ShadowTotal(m) <= S /\ ShadowTotal(m) \in Nat
  BY <1>1, <1>2, SpentIs
<1>6. ASSUME NEW i \in 1 .. Len(G.mod[m].shadows)
      PROVE  ShadowCost(G, G.mod[m].shadows[i]) < Inf
  <2>1. /\ ShadowSum(m, i - 1) \in Nat /\ ShadowSum(m, i) \in Nat
        /\ ShadowSum(m, i) = ShadowSum(m, i - 1) + ShadowCost(G, G.mod[m].shadows[i])
        /\ ShadowSum(m, i) <= ShadowTotal(m)
    BY <1>6, SpentIs
  <2>2. ShadowCost(G, G.mod[m].shadows[i]) \in Nat
    BY <1>6, CostsAre
  <2>3. QED
    BY <1>2, <1>4, <1>5, <2>1, <2>2, SolverAssumption
<1>7. QED
  BY <1>6

(* Variables with chains to all parameters of a model of finite cost.      *)
LEMMA SolvedComputes ==
    ASSUME G \in Graphs, VarCosts, NEW x \in Var, NEW m \in ModelsOf(G, x),
           \A i \in 1 .. Len(G.mod[m].shadows) : ShadowCost(G, G.mod[m].shadows[i]) < Inf,
           \A e \in DOMAIN G.mod[m].params : \A k \in DOMAIN G.mod[m].params[e] :
              sp[G.mod[m].params[e][k]].chain # None
    PROVE  x \in Computable(G)
<1>1. m \in Mod
  BY GraphIs
<1>2. ASSUME NEW i \in 1 .. Len(G.mod[m].params)
      PROVE  Range(G.mod[m].params[i]) \subseteq Computable(G)
  <2> SUFFICES ASSUME NEW y \in Range(G.mod[m].params[i]) PROVE y \in Computable(G)
    OBVIOUS
  <2>1. i \in DOMAIN G.mod[m].params /\ y \in Var
    BY <1>1, ParamsIs
  <2>2. PICK k \in DOMAIN G.mod[m].params[i] : y = G.mod[m].params[i][k]
    BY DEF Range
  <2>3. sp[y].chain # None
    BY <2>1, <2>2
  <2>4. QED
    BY <2>1, <2>3 DEF VarCosts
<1>3. QED
  BY <1>2, ComputableBy

LEMMA OptChainSolved ==
    ASSUME RunInv, CostInv, SearchInv, ChainSolved PROVE CostInv' /\ SearchInv'
<1>1. Len(X) > 1 /\ ModeOf(pc, Top) = "param" /\ G \in Graphs /\ pc = "param" /\ TypeInv
  BY DEF ChainSolved, RunInv, TypeInv, Where, Searching, ModeOf
<1>2. Top.edge = 0
  BY DEF ChainSolved
<1>3. /\ InParam(Top, mp, sp) /\ Top.m \in Mod /\ Top.costS \in Int /\ Top.betaS \in Int
      /\ Top.ssmax \in Nat
  BY <1>1, TopParam
<1>4. Top \in Frame /\ Top.beta <= MaxCost /\ sp[Top.x].cost < 0 /\ Top.x \in Var
      /\ X = [X EXCEPT ![Len(X)] = Top]
  BY <1>1, TopFrame
<1>5. mp[Top.m].chain = FALSE /\ Top.costS >= 0
  BY <1>3, Zenon DEF InParam
<1>6. \A e \in DOMAIN G.mod[Top.m].params : \A k \in DOMAIN G.mod[Top.m].params[e] :
         sp[G.mod[Top.m].params[e][k]].chain # None
  <2>1. \A e \in DOMAIN G.mod[Top.m].params : \A k \in DOMAIN G.mod[Top.m].params[e] :
           e > Top.edge => sp[G.mod[Top.m].params[e][k]].chain # None
    BY <1>3, Zenon DEF InParam
  <2>2. PICK n \in Nat : DOMAIN G.mod[Top.m].params = 1 .. n
    BY <1>1, <1>3, ParamsIs
  <2>3. \A e \in DOMAIN G.mod[Top.m].params : e > Top.edge
    BY <1>2, <2>2
  <2>4. QED
    BY <2>1, <2>3, Zenon
<1>7. Aimed(Top) /\ ParamCosted(Top)
  BY <1>1 DEF SearchInv, TopCost, Costed
<1>8. PICK cost : cost = Costf(G, Top.m, Top.costS)
  OBVIOUS
<1>9. /\ G' = G /\ truth' = truth /\ sw' = sw /\ have' = have /\ status' = status /\ X' = X
      /\ mp' = [mp EXCEPT ![Top.m] = [cost |-> cost, chain |-> TRUE, value |-> FALSE]]
      /\ sp' = [sp EXCEPT ![Top.x].chain = [ei |-> Top.ei, m |-> Top.m]]
      /\ arg' = [arg EXCEPT !.cost = cost] /\ pc' = "chosen"
  BY <1>8 DEF ChainSolved, graph_vars
<1>10. truth = TrueCosts(G) /\ VarCosts /\ ModCosts /\ Guarded /\ ErrorsAreHonest
  BY DEF CostInv
<1>11. PICK S \in Nat : S = Top.costS
  BY <1>3, <1>5
<1>12. cost = ModelCost(G, Top.m, truth)
  BY <1>1, <1>2, <1>3, <1>7, <1>8, <1>10, SpentIs DEF ParamCosted
<1>13. MaxCost \in Nat /\ Inf \in Nat /\ cost \in 0 .. Inf /\ cost \in Int
  <2>1. Costf(G, Top.m, S) \in 0 .. Inf
    BY <1>1, <1>3, CostfIs
  <2>2. QED
    BY <1>8, <1>11, <2>1, SolverAssumption
<1>14. PICK mbeta \in Int : mbeta = Top.mbeta
  BY <1>4 DEF Frame
<1>15. mbeta <= Top.beta /\ mbeta <= MaxCost /\ Top.beta \in Int
  BY <1>4, <1>7, <1>13, <1>14 DEF Aimed, Frame
<1>16. cost <= mbeta
  <2>1. Top.costS <= Top.betaS
    BY <1>3, <1>7 DEF ParamCosted
  <2>2. S <= CostfInvS(G, Top.m, mbeta)
    BY <1>7, <1>11, <1>14, <2>1 DEF Aimed
  <2>3. QED
    BY <1>1, <1>3, <1>8, <1>11, <1>15, <2>2, WithinBound
<1>17. cost = truth[Top.x]
  <2>1. Top.m \in ModelsOf(G, Top.x)
    BY <1>7 DEF Aimed
  <2>2. ASSUME NEW l \in ModelsOf(G, Top.x) PROVE l = Top.m \/ cost <= ModelCost(G, l, truth)
    <3>1. l = Top.m \/ mbeta <= ModelCost(G, l, truth)
      BY <1>7, <1>14 DEF Aimed
    <3>2. l \in Mod
      BY <1>1, <1>4, GraphIs
    <3>3. ModelCost(G, l, truth) \in 0 .. Inf
      <4>1. truth \in [Var -> 0 .. Inf]
        BY <1>1, <1>10, TruthIs
      <4>2. QED
        BY <1>1, <3>2, <4>1, ModelCostIs
    <3>4. QED
      BY <1>13, <1>16, <3>1, <3>3
  <2>3. cost <= MaxCost
    BY <1>13, <1>15, <1>16
  <2>4. QED
    BY <1>1, <1>4, <1>10, <1>12, <1>13, <2>1, <2>2, <2>3, CheapestIs
<1>18. Top.x \in Computable(G) /\ Top.m \in ModelsOf(G, Top.x)
  <2>1. Top.m \in ModelsOf(G, Top.x)
    BY <1>7 DEF Aimed
  <2>2. cost < Inf
    BY <1>13, <1>15, <1>16, SolverAssumption
  <2>3. \A i \in 1 .. Len(G.mod[Top.m].shadows) : ShadowCost(G, G.mod[Top.m].shadows[i]) < Inf
    BY <1>1, <1>3, <1>10, <1>12, <2>2, FiniteShadows
  <2>4. QED
    BY <1>1, <1>4, <1>6, <1>10, <2>1, <2>3, SolvedComputes
<1>19. Var' = Var /\ Mod' = Mod
  BY <1>9 DEF Var, Mod
<1>20. sp \in [Var -> VarState] /\ mp \in [Mod -> ModState]
  BY <1>1 DEF TypeInv
<1>21. /\ \A m \in Mod : m # Top.m => mp'[m] = mp[m]
       /\ mp'[Top.m].cost = cost /\ mp'[Top.m].chain = TRUE
  BY <1>3, <1>9, <1>20
<1>22. /\ \A x \in Var : x # Top.x => sp'[x] = sp[x]
       /\ sp'[Top.x].chain = [ei |-> Top.ei, m |-> Top.m]
       /\ sp'[Top.x].cost = sp[Top.x].cost /\ sp'[Top.x].value = sp[Top.x].value
  <2>1. sp[Top.x] \in VarState
    BY <1>4, <1>20
  <2>2. QED
    BY <1>4, <1>9, <1>20, <2>1 DEF VarState
<1>23. VarCosts'
  <2>1. ASSUME NEW x \in Var
        PROVE  /\ sp'[x].cost <= truth[x]
               /\ sp'[x].value = TRUE => sp'[x].chain # None
               /\ sp'[x].chain # None =>
                     /\ x \in Computable(G) /\ sp'[x].chain.m \in ModelsOf(G, x)
                     /\ sp'[x].cost >= 0 =>
                           /\ sp'[x].cost = truth[x] /\ mp'[sp'[x].chain.m].chain = TRUE
                           /\ mp'[sp'[x].chain.m].cost = truth[x]
    <3>1. CASE x = Top.x
      <4>1. ~(sp'[x].cost >= 0) /\ sp'[x].cost <= truth[x]
        <5>1. sp[x].cost \in Int
          BY <1>20 DEF VarState
        <5>2. QED
          BY <1>4, <1>10, <1>22, <3>1, <5>1 DEF VarCosts
      <4>2. sp'[x].chain.m = Top.m
        BY <1>22, <3>1
      <4>3. sp'[x].value = TRUE => sp'[x].chain # None
        <5>1. Top.ei \in Nat
          BY <1>4 DEF Frame
        <5>2. [ei |-> Top.ei, m |-> Top.m] \in Link /\ None \notin Link
          BY <1>1, <1>3, <5>1, VarIs DEF Link
        <5>3. QED
          BY <1>22, <3>1, <5>2
      <4>4. QED
        BY <1>18, <3>1, <4>1, <4>2, <4>3
    <3>2. CASE x # Top.x
      <4>1. sp'[x] = sp[x]
        BY <1>22, <3>2
      <4>2. /\ sp[x].cost <= truth[x]
            /\ sp[x].value = TRUE => sp[x].chain # None
            /\ sp[x].chain # None =>
                  /\ x \in Computable(G) /\ sp[x].chain.m \in ModelsOf(G, x)
                  /\ sp[x].cost >= 0 =>
                        /\ sp[x].cost = truth[x] /\ mp[sp[x].chain.m].chain = TRUE
                        /\ mp[sp[x].chain.m].cost = truth[x]
        BY <1>10 DEF VarCosts
      <4>3. sp[x].chain # None => sp[x].chain.m \in Mod
        BY <1>20 DEF VarState, Link
      <4>4. mp[sp[x].chain.m].chain = TRUE => sp[x].chain.m # Top.m
        BY <1>5
      <4>5. QED
        BY <1>21, <4>1, <4>2, <4>3, <4>4
    <3>3. QED
      BY <3>1, <3>2
  <2>2. QED
    BY <1>9, <1>19, <2>1, Zenon DEF VarCosts
<1>24. ModCosts'
  <2>1. Cap(G.mod[Top.m].k) <= cost
    BY <1>1, <1>3, <1>8, <1>11, CostfIs
  <2>c. cost <= cost
    BY <1>13
  <2>2. ASSUME NEW m \in Mod
        PROVE  /\ Cap(G.mod[m].k) <= mp'[m].cost /\ mp'[m].cost <= ModelCost(G, m, truth)
               /\ mp'[m].chain = TRUE => mp'[m].cost = ModelCost(G, m, truth)
    <3>1. CASE m = Top.m
      BY <1>12, <1>21, <2>1, <2>c, <3>1
    <3>2. CASE m # Top.m
      BY <1>10, <1>21, <3>2 DEF ModCosts
    <3>3. QED
      BY <3>1, <3>2
  <2>3. QED
    BY <1>9, <1>19, <2>2, Zenon DEF ModCosts
<1>25. Guarded'
  <2>1. \A x \in Var : sp[x].value = TRUE => sp'[x].value = TRUE
    BY <1>22
  <2>2. \A x \in Var : sp[x].value \in BOOLEAN
    BY <1>20 DEF VarState
  <2>3. QED
    BY <1>1, <1>9, <1>10, <2>1, <2>2, GuardedKept
<1>26. ErrorsAreHonest'
  BY <1>9, <1>10, HonestKept
<1>27. CostInv'
  BY <1>9, <1>10, <1>23, <1>24, <1>25, <1>26 DEF CostInv
<1>28. SearchInv'
  <2>1. \A x \in Var : sp'[x].cost = sp[x].cost
    BY <1>22
  <2>2. arg'.cost = cost
    <3>1. arg \in [x : Var \cup {None}, beta : Int, cost : Int]
      BY <1>1 DEF TypeInv
    <3>2. QED
      BY <1>9, <3>1
  <2>3. cost <= Top.beta
    BY <1>13, <1>15, <1>16
  <2>4. sp'[Top.x].chain.m = Top.m
    BY <1>22
  <2>5. GotChain(Top, arg'.cost, sp', mp')
    BY <1>17, <1>21, <2>2, <2>3, <2>4 DEF GotChain
  <2>6. Costed(Top, ModeOf(pc', Top))
    BY <1>9 DEF Costed, ModeOf
  <2>7. QED
    BY <1>1, <1>4, <1>9, <2>1, <2>5, <2>6, TopSearch
<1>29. QED
  BY <1>27, <1>28

-----------------------------------------------------------------------------
(* Bounds, candidates and the entry of the search.                         *)

(* A model whose bound is raised.                                          *)
LEMMA BoundRaised ==
    ASSUME TypeInv, VarCosts, ModCosts, G' = G, truth' = truth, NEW m \in Mod,
           mp[m].chain = FALSE, NEW cost \in Int,
           mp' = [mp EXCEPT ![m].cost = cost], Cap(G.mod[m].k) <= cost,
           cost <= ModelCost(G, m, truth),
           \A x \in Var : /\ sp'[x].chain = sp[x].chain /\ sp'[x].value = sp[x].value
                          /\ sp'[x].cost <= truth[x]
                          /\ sp'[x].chain # None => sp'[x].cost = sp[x].cost
    PROVE  VarCosts' /\ ModCosts'
<1>1. Var' = Var /\ Mod' = Mod /\ G \in Graphs
  BY DEF Var, Mod, TypeInv
<1>2. sp \in [Var -> VarState] /\ mp \in [Mod -> ModState]
  BY DEF TypeInv
<1>3. /\ \A l \in Mod : l # m => mp'[l] = mp[l]
      /\ mp'[m].cost = cost /\ mp'[m].chain = FALSE
  <2>1. mp[m] \in ModState
    BY <1>2
  <2>2. QED
    BY <1>2, <2>1 DEF ModState
<1>4. ASSUME NEW x \in Var
      PROVE  /\ sp'[x].cost <= truth[x]
             /\ sp'[x].value = TRUE => sp'[x].chain # None
             /\ sp'[x].chain # None =>
                   /\ x \in Computable(G) /\ sp'[x].chain.m \in ModelsOf(G, x)
                   /\ sp'[x].cost >= 0 =>
                         /\ sp'[x].cost = truth[x] /\ mp'[sp'[x].chain.m].chain = TRUE
                         /\ mp'[sp'[x].chain.m].cost = truth[x]
  <2>1. /\ sp[x].value = TRUE => sp[x].chain # None
        /\ sp[x].chain # None =>
              /\ x \in Computable(G) /\ sp[x].chain.m \in ModelsOf(G, x)
              /\ sp[x].cost >= 0 =>
                    /\ sp[x].cost = truth[x] /\ mp[sp[x].chain.m].chain = TRUE
                    /\ mp[sp[x].chain.m].cost = truth[x]
    BY DEF VarCosts
  <2>2. sp[x].chain # None => sp[x].chain.m \in Mod
    BY <1>2 DEF VarState, Link
  <2>3. QED
    BY <1>3, <2>1, <2>2
<1>5. ASSUME NEW l \in Mod
      PROVE  /\ Cap(G.mod[l].k) <= mp'[l].cost /\ mp'[l].cost <= ModelCost(G, l, truth)
             /\ mp'[l].chain = TRUE => mp'[l].cost = ModelCost(G, l, truth)
  BY <1>3 DEF ModCosts
<1>6. VarCosts'
  BY <1>1, <1>4, ZenonT(40) DEF VarCosts
<1>7. ModCosts'
  BY <1>1, <1>5, Zenon DEF ModCosts
<1>8. QED
  BY <1>6, <1>7

LEMMA OptXBound ==
    ASSUME RunInv, CostInv, SearchInv, XBound
    PROVE  CostInv' /\ pc' = "candidate" /\ SearchInv'
<1>1. Len(X) > 1 /\ G \in Graphs /\ pc = "bound" /\ TypeInv
  BY DEF XBound, RunInv, TypeInv, Where, Searching
<1>2. Top \in Frame /\ Top.beta <= MaxCost /\ Top.x \in Var /\ X = [X EXCEPT ![Len(X)] = Top]
  BY <1>1, TopFrame
<1>3. Top.m \in Mod
  BY <1>1 DEF RunInv, StackInv, TopInv
<1>4. /\ Aimed(Top) /\ Top.costS >= 0 /\ Top.costS > Top.betaS /\ Top.costS <= Spent(Top.m, 0)
      /\ mp[Top.m].chain = FALSE
  BY <1>1 DEF SearchInv, TopCost, Overspent
<1>5. Top.costS \in Int /\ Top.betaS \in Int /\ Top.mbeta \in Int /\ Top.beta \in Int
  BY <1>2 DEF Frame
<1>6. truth = TrueCosts(G) /\ VarCosts /\ ModCosts /\ Guarded /\ ErrorsAreHonest
  BY DEF CostInv
<1>7. /\ G' = G /\ truth' = truth /\ sp' = sp /\ sw' = sw /\ have' = have /\ X' = X /\ arg' = arg
      /\ mp' = [mp EXCEPT ![Top.m].cost = CandidateBound]
  BY DEF XBound, graph_vars
<1>8. PICK mbeta \in Int : mbeta = Top.mbeta /\ mbeta <= MaxCost
  <2>1. MaxCost \in Nat /\ Top.mbeta <= Top.beta
    BY <1>4, SolverAssumption DEF Aimed
  <2>2. QED
    BY <1>2, <1>5, <2>1
<1>9. PICK S \in Nat : S = Top.costS
  BY <1>4, <1>5
<1>10. PICK cost \in Int : cost = Costf(G, Top.m, S) /\ cost \in 0 .. Inf
  <2>1. Costf(G, Top.m, S) \in 0 .. Inf /\ Inf \in Nat
    BY <1>1, <1>3, CostfIs, SolverAssumption
  <2>2. QED
    BY <2>1
<1>11. CandidateBound = cost
  BY <1>9, <1>10 DEF CandidateBound
<1>12. ~(cost <= mbeta)
  <2>1. ~(S <= CostfInvS(G, Top.m, mbeta))
    BY <1>4, <1>5, <1>8, <1>9 DEF Aimed
  <2>2. QED
    BY <1>1, <1>3, <1>8, <1>10, <2>1, WithinBound
<1>13. pc' = "candidate" /\ status' = status
  BY <1>8, <1>11, <1>12 DEF XBound
<1>14. Cap(G.mod[Top.m].k) <= cost
  BY <1>1, <1>3, <1>10, CostfIs
<1>15. cost <= ModelCost(G, Top.m, truth)
  <2>1. PICK R \in Nat : R = Spent(Top.m, 0)
    <3>1. 0 \in 0 .. Len(G.mod[Top.m].params)
      <4>1. PICK np \in Nat : np = Len(G.mod[Top.m].params)
        BY <1>1, <1>3, ParamsIs
      <4>2. QED
        BY <4>1
    <3>2. QED
      BY <1>1, <1>3, <1>6, <3>1, SpentIs
  <2>2. ModelCost(G, Top.m, truth) = Costf(G, Top.m, R)
    BY <1>1, <1>3, <1>6, <2>1, SpentIs
  <2>3. QED
    BY <1>1, <1>3, <1>4, <1>9, <1>10, <2>1, <2>2, CostfIs
<1>16. VarCosts' /\ ModCosts'
  <2>1. \A x \in Var : /\ sp'[x].chain = sp[x].chain /\ sp'[x].value = sp[x].value
                       /\ sp'[x].cost <= truth[x]
                       /\ sp'[x].chain # None => sp'[x].cost = sp[x].cost
    BY <1>6, <1>7 DEF VarCosts
  <2>2. QED
    BY <1>1, <1>3, <1>4, <1>6, <1>7, <1>11, <1>14, <1>15, <2>1, BoundRaised
<1>17. Guarded'
  <2>1. \A x \in Var : sp[x].value \in BOOLEAN
    BY <1>1 DEF TypeInv, VarState
  <2>2. QED
    BY <1>1, <1>6, <1>7, <2>1, GuardedKept
<1>18. ErrorsAreHonest'
  BY <1>6, <1>7, <1>13, HonestKept
<1>19. CostInv'
  BY <1>6, <1>7, <1>16, <1>17, <1>18 DEF CostInv
<1>20. Costed(Top, ModeOf(pc', Top))
  BY <1>13 DEF Costed, ModeOf
<1>21. SearchInv'
  BY <1>1, <1>2, <1>7, <1>13, <1>20, TopSearch
<1>22. QED
  BY <1>13, <1>19, <1>21

(* A variable that is searched for gets a chain.                           *)
LEMMA ChainGiven ==
    ASSUME TypeInv, VarCosts, G' = G, truth' = truth, mp' = mp,
           NEW x \in Var, sp[x].cost < 0, x \in Computable(G),
           NEW cand \in Link, cand.m \in ModelsOf(G, x), sp' = [sp EXCEPT ![x].chain = cand]
    PROVE  /\ VarCosts' /\ sp'[x].chain = cand
           /\ \A y \in Var : sp'[y].cost = sp[y].cost /\ sp'[y].value = sp[y].value
<1>1. Var' = Var /\ G \in Graphs
  BY DEF Var, TypeInv
<1>2. sp \in [Var -> VarState]
  BY DEF TypeInv
<1>3. /\ \A y \in Var : y # x => sp'[y] = sp[y]
      /\ sp'[x].chain = cand /\ sp'[x].cost = sp[x].cost /\ sp'[x].value = sp[x].value
  <2>1. sp[x] \in VarState
    BY <1>2
  <2>2. QED
    BY <1>2, <2>1 DEF VarState
<1>4. cand # None
  BY <1>1, VarIs
<1>5. sp[x].cost \in Int
  BY <1>2 DEF VarState
<1>6. ASSUME NEW y \in Var
      PROVE  /\ sp'[y].cost <= truth[y]
             /\ sp'[y].value = TRUE => sp'[y].chain # None
             /\ sp'[y].chain # None =>
                   /\ y \in Computable(G) /\ sp'[y].chain.m \in ModelsOf(G, y)
                   /\ sp'[y].cost >= 0 =>
                         /\ sp'[y].cost = truth[y] /\ mp'[sp'[y].chain.m].chain = TRUE
                         /\ mp'[sp'[y].chain.m].cost = truth[y]
  <2>1. CASE y = x
    <3>1. ~(sp'[y].cost >= 0)
      BY <1>3, <1>5, <2>1
    <3>2. sp'[y].cost <= truth[y]
      BY <1>3, <2>1 DEF VarCosts
    <3>3. QED
      BY <1>3, <1>4, <2>1, <3>1, <3>2
  <2>2. CASE y # x
    BY <1>3, <2>2 DEF VarCosts
  <2>3. QED
    BY <2>1, <2>2
<1>7. VarCosts'
  BY <1>1, <1>6, Zenon DEF VarCosts
<1>8. QED
  BY <1>3, <1>7

LEMMA OptCandidate ==
    ASSUME RunInv, CostInv, SearchInv, Candidate
    PROVE  CostInv' /\ SearchInv'
<1>1. Len(X) > 1 /\ G \in Graphs /\ pc = "candidate" /\ TypeInv
  BY DEF Candidate, RunInv, TypeInv, Where, Searching
<1>2. /\ Top \in Frame /\ X = [X EXCEPT ![Len(X)] = Top] /\ Top.x \in Var /\ Top.beta \in Int
      /\ Top.beta <= MaxCost /\ sp[Top.x].cost < 0
  BY <1>1, TopFrame DEF Frame
<1>3. PICK best : best = Best(Top.x, Top.beta)
  OBVIOUS
<1>4. mp \in [Mod -> ModState] /\ arg \in [x : Var \cup {None}, beta : Int, cost : Int]
  BY <1>1 DEF TypeInv
<1>5. /\ best.cost \in Int /\ best.beta \in Int /\ best.beta <= Top.beta /\ best.cost <= Inf
      /\ \A m \in ModelsOf(G, Top.x) : best.cost <= mp[m].cost
      /\ best.cost < Inf =>
            /\ best.cand.m \in ModelsOf(G, Top.x) /\ best.cost = mp[best.cand.m].cost
            /\ \A m \in ModelsOf(G, Top.x) : m = best.cand.m \/ best.beta <= mp[m].cost
      /\ best.cost <= Top.beta => best.cost <= best.beta
  BY <1>1, <1>2, <1>3, <1>4, BestOf
<1>6. truth = TrueCosts(G) /\ VarCosts /\ ModCosts /\ Guarded /\ ErrorsAreHonest
  BY DEF CostInv
<1>7. /\ truth \in [Var -> 0 .. Inf] /\ Inf \in Nat /\ MaxCost \in Nat /\ MaxCost < Inf
  BY <1>1, <1>6, TruthIs, SolverAssumption
<1>8. G' = G /\ truth' = truth /\ mp' = mp /\ sw' = sw /\ have' = have /\ status' = status
  BY DEF Candidate, graph_vars
<1>9. ASSUME NEW m \in ModelsOf(G, Top.x)
      PROVE  /\ m \in Mod /\ mp[m].cost \in Int /\ ModelCost(G, m, truth) \in Int
             /\ mp[m].cost <= ModelCost(G, m, truth)
  <2>1. m \in Mod
    BY <1>1, <1>2, GraphIs
  <2>2. ModelCost(G, m, truth) \in 0 .. Inf
    BY <1>1, <1>7, <2>1, ModelCostIs
  <2>3. QED
    BY <1>4, <1>6, <1>7, <2>1, <2>2 DEF ModCosts, ModState
<1>10. best.cost <= truth[Top.x]
  <2>1. \/ truth[Top.x] = Inf
        \/ \E m \in ModelsOf(G, Top.x) : truth[Top.x] = ModelCost(G, m, truth)
    BY <1>1, <1>2, <1>6, TruthIs
  <2>2. ASSUME NEW m \in ModelsOf(G, Top.x), truth[Top.x] = ModelCost(G, m, truth)
        PROVE  best.cost <= truth[Top.x]
    BY <1>5, <1>9, <2>2
  <2>3. QED
    BY <1>5, <2>1, <2>2
<1>11. ASSUME sp' = sp PROVE CostInv'
  <2>1. \A x \in Var : sp[x].value = TRUE => sp[x].chain # None
    BY <1>6 DEF VarCosts
  <2>2. QED
    BY <1>1, <1>8, <1>11, <2>1, CostsKept
<1>12. CASE best.cost > Top.beta
  <2>1. pc' = "failed" /\ arg' = [arg EXCEPT !.cost = best.cost] /\ X' = X /\ sp' = sp
    BY <1>3, <1>12 DEF Candidate
  <2>2. arg'.cost = best.cost
    BY <1>4, <2>1
  <2>3. NotFound(Top, arg'.cost)
    BY <1>2, <1>5, <1>10, <1>12, <2>2 DEF NotFound
  <2>4. Costed(Top, ModeOf(pc', Top))
    BY <2>1 DEF Costed, ModeOf
  <2>5. SearchInv'
    BY <1>1, <1>2, <1>8, <2>1, <2>3, <2>4, TopSearch
  <2>6. QED
    BY <1>11, <2>1, <2>5
<1>13. CASE ~(best.cost > Top.beta)
  <2>1. best.cost <= Top.beta /\ best.cost < Inf /\ best.cost <= best.beta /\ best.beta <= MaxCost
    BY <1>2, <1>5, <1>7, <1>13
  <2>2. /\ best.cand \in Link /\ best.cand.m \in Mod /\ best.cand.ei \in Nat
        /\ CostfInvS(G, best.cand.m, best.beta) \in Int
    BY <1>1, <1>3, <2>1, Chosen
  <2>3. PICK m \in ModelsOf(G, Top.x) : m = best.cand.m /\ m \in Mod
    BY <1>5, <2>1, <2>2
  <2>4. PICK f : f = [Top EXCEPT !.m = m, !.ei = best.cand.ei, !.mbeta = best.beta,
                                 !.betaS = CostfInvS(G, m, best.beta), !.costS = 0,
                                 !.edge = 1, !.pos = 1]
    OBVIOUS
  <2>5. X' = [X EXCEPT ![Len(X)] = f]
    BY <1>3, <1>13, <2>3, <2>4 DEF Candidate, SetTop
  <2>6. PICK ei \in Nat, beta \in Int, b \in Int :
           ei = best.cand.ei /\ beta = best.beta /\ b = CostfInvS(G, m, best.beta)
    BY <1>5, <2>2, <2>3
  <2>7. Tried(f, Top, m, ei, beta, b)
    BY <2>4, <2>6 DEF Tried
  <2>8. /\ f \in Frame /\ f.x = Top.x /\ f.beta = Top.beta /\ f.m = m /\ f.betaS = b
        /\ f.costS = 0 /\ f.edge = 1 /\ f.pos = 1
    BY <1>2, <2>3, <2>6, <2>7, TriedFrame
  <2>9. f.mbeta = beta
    BY <1>2, <2>7 DEF Tried, Frame
  <2>10. mp[m].chain \in BOOLEAN
    BY <1>4, <2>3 DEF ModState
  <2>11. best.cost = mp[m].cost
    BY <1>5, <2>1, <2>3
  <2>12. CASE mp[m].chain = TRUE
    <3>1. /\ pc' = "chosen" /\ arg' = [arg EXCEPT !.cost = best.cost]
          /\ sp' = [sp EXCEPT ![Top.x].chain = best.cand]
      BY <1>3, <1>13, <2>3, <2>12 DEF Candidate
    <3>2. best.cost = ModelCost(G, m, truth)
      BY <1>6, <2>3, <2>11, <2>12 DEF ModCosts
    <3>3. best.cost = truth[Top.x]
      <4>1. truth[Top.x] <= ModelCost(G, m, truth) /\ truth[Top.x] \in 0 .. Inf
        BY <1>1, <1>2, <1>6, <1>7, TruthIs
      <4>2. QED
        BY <1>5, <1>7, <1>10, <3>2, <4>1
    <3>4. Top.x \in Computable(G)
      <4>1. \A e \in DOMAIN G.mod[m].params : \A k \in DOMAIN G.mod[m].params[e] :
               sp[G.mod[m].params[e][k]].chain # None
        <5> SUFFICES ASSUME NEW e \in DOMAIN G.mod[m].params, NEW k \in DOMAIN G.mod[m].params[e]
                     PROVE  sp[G.mod[m].params[e][k]].chain # None
          OBVIOUS
        <5>1. PICK y : y = G.mod[m].params[e][k]
          OBVIOUS
        <5>2. IsParam(m, y)
          BY <5>1 DEF IsParam
        <5>3. y \in Range(G.mod[m].params[e])
          BY <5>1 DEF Range
        <5>4. y \in Var
          BY <1>1, <2>3, <5>3, ParamsIs
        <5>5. QED
          BY <2>3, <2>12, <5>1, <5>2, <5>4, Zenon DEF RunInv, ChainInv
      <4>2. \A i \in 1 .. Len(G.mod[m].shadows) : ShadowCost(G, G.mod[m].shadows[i]) < Inf
        BY <1>1, <1>6, <2>1, <2>3, <3>2, FiniteShadows
      <4>3. QED
        BY <1>1, <1>2, <1>6, <2>3, <4>1, <4>2, SolvedComputes, SMTT(30)
    <3>5. PICK cand \in Link : cand = best.cand /\ cand.m = m
      BY <2>2, <2>3
    <3>6. /\ VarCosts' /\ sp'[Top.x].chain = cand
          /\ \A y \in Var : sp'[y].cost = sp[y].cost /\ sp'[y].value = sp[y].value
      BY <1>1, <1>2, <1>6, <1>8, <3>1, <3>4, <3>5, ChainGiven
    <3>7. arg'.cost = best.cost
      BY <1>4, <3>1
    <3>8. GotChain(f, arg'.cost, sp', mp')
      BY <1>8, <2>1, <2>8, <2>11, <3>3, <3>5, <3>6, <3>7 DEF GotChain
    <3>9. Costed(f, ModeOf(pc', f))
      BY <3>1 DEF Costed, ModeOf
    <3>10. SearchInv'
      BY <1>1, <1>8, <2>5, <2>8, <3>1, <3>6, <3>8, <3>9, TopSearch
    <3>11. Guarded'
      <4>1. \A y \in Var : sp[y].value \in BOOLEAN
        BY <1>1 DEF TypeInv, VarState
      <4>2. QED
        BY <1>1, <1>6, <1>8, <3>6, <4>1, GuardedKept
    <3>12. ModCosts' /\ ErrorsAreHonest'
      <4>1. Mod' = Mod
        BY <1>8 DEF Mod
      <4>2. ModCosts'
        BY <1>6, <1>8, <4>1 DEF ModCosts
      <4>3. QED
        BY <1>6, <1>8, <4>2, HonestKept
    <3>13. QED
      BY <1>6, <1>8, <3>6, <3>10, <3>11, <3>12 DEF CostInv
  <2>13. CASE mp[m].chain = FALSE
    <3>1. pc' = "shadow" /\ arg' = arg /\ sp' = sp
      BY <1>3, <1>13, <2>3, <2>13 DEF Candidate
    <3>2. ASSUME NEW l \in ModelsOf(G, Top.x) PROVE l = m \/ beta <= ModelCost(G, l, truth)
      <4>1. l = m \/ best.beta <= mp[l].cost
        BY <1>5, <2>1, <2>3
      <4>2. QED
        BY <1>9, <2>6, <4>1
    <3>3. Aimed(f)
      BY <1>5, <2>3, <2>6, <2>8, <2>9, <3>2 DEF Aimed
    <3>4. 0 <= b
      <4>1. Costf(G, m, 0) = Cap(G.mod[m].k)
        <5>1. PICK k \in Nat, c \in Nat \ {0} : k = G.mod[m].k /\ c = G.mod[m].c
          BY <1>1, <2>3, ModIs
        <5>2. k + c * 0 = k
          OBVIOUS
        <5>3. QED
          BY <5>1, <5>2 DEF Costf
      <4>2. PICK cost \in 0 .. Inf : cost = Costf(G, m, 0)
        <5>1. 0 \in Nat
          OBVIOUS
        <5>2. QED
          BY <1>1, <2>3, <5>1, CostfIs
      <4>3. cost <= mp[m].cost
        BY <1>6, <2>3, <4>1, <4>2 DEF ModCosts
      <4>4. Costf(G, m, 0) <= beta
        BY <1>5, <1>7, <2>1, <2>6, <2>11, <4>2, <4>3
      <4>5. 0 \in Nat /\ beta <= MaxCost
        BY <2>1, <2>6
      <4>6. 0 <= CostfInvS(G, m, beta)
        BY <1>1, <2>3, <4>4, <4>5, WithinBound
      <4>7. QED
        BY <2>6, <4>6
    <3>5. ShadowCosted(f)
      <4>1. f.edge - 1 = 0 /\ ShadowSum(m, 0) = 0
        BY <1>1, <1>6, <2>3, <2>8, SpentIs
      <4>2. QED
        BY <2>8, <3>4, <4>1 DEF ShadowCosted
    <3>6. Costed(f, ModeOf(pc', f))
      BY <3>1, <3>3, <3>5 DEF Costed, ModeOf
    <3>7. SearchInv'
      BY <1>1, <1>8, <2>5, <2>8, <3>1, <3>6, TopSearch
    <3>8. QED
      BY <1>11, <3>1, <3>7
  <2>14. QED
    BY <2>10, <2>12, <2>13
<1>14. QED
  BY <1>12, <1>13

(* A variable without a chain may be marked, or get a higher cost.         *)
LEMMA VarsKept ==
    ASSUME VarCosts, G' = G, truth' = truth, mp' = mp,
           \A x \in Var : /\ sp'[x].chain = sp[x].chain /\ sp'[x].value = sp[x].value
                          /\ sp'[x].cost <= truth[x]
                          /\ sp'[x].chain # None => sp'[x].cost = sp[x].cost
    PROVE  VarCosts'
<1>1. Var' = Var
  BY DEF Var
<1>2. ASSUME NEW x \in Var
      PROVE  /\ sp'[x].cost <= truth[x]
             /\ sp'[x].value = TRUE => sp'[x].chain # None
             /\ sp'[x].chain # None =>
                   /\ x \in Computable(G) /\ sp'[x].chain.m \in ModelsOf(G, x)
                   /\ sp'[x].cost >= 0 =>
                         /\ sp'[x].cost = truth[x] /\ mp'[sp'[x].chain.m].chain = TRUE
                         /\ mp'[sp'[x].chain.m].cost = truth[x]
  BY DEF VarCosts
<1>3. QED
  BY <1>1, <1>2, Zenon DEF VarCosts

(* What a frame waits for is a variable that its own depends on.           *)
LEMMA WaitsFor ==
    ASSUME G \in Graphs, NEW f \in Frame, NEW y \in Var, Aimed(f), Waits(f, y, sw),
           f.where = "shadow" => InShadow(f, mp, sw), f.where = "param" => InParam(f, mp, sp)
    PROVE  y \in Direct(G, f.x)
<1>1. f.x \in Var /\ f.m \in ModelsOf(G, f.x) /\ f.edge \in Nat /\ f.pos \in Nat
  BY DEF Aimed, Frame
<1>2. f.m \in Mod
  BY <1>1, GraphIs, SMTT(30)
<1>3. CASE f.where = "shadow"
  <2>1. /\ f.edge <= Len(G.mod[f.m].shadows) /\ f.pos <= Len(G.mod[f.m].shadows[f.edge].over)
        /\ G.shadow[G.mod[f.m].shadows[f.edge].over[f.pos]].x = y
    BY <1>3, Zenon DEF Waits, AtShadow, ShadowOf
  <2>2. f.edge \in 1 .. Len(G.mod[f.m].shadows) + 1 /\ f.pos >= 1
    BY <1>3, Zenon DEF InShadow
  <2>3. PICK n \in Nat : n = Len(G.mod[f.m].shadows)
    BY <1>2, CostsAre
  <2>4. f.edge \in 1 .. n
    <3>1. f.edge \in 1 .. n + 1 /\ f.edge <= n
      BY <2>1, <2>2, <2>3, Zenon
    <3>2. QED
      BY <3>1
  <2>5. PICK over \in Seq(DOMAIN G.shadow) : over = G.mod[f.m].shadows[f.edge].over
    BY <1>2, <2>3, <2>4, OverIs
  <2>6. f.pos \in DOMAIN over
    <3>1. f.pos <= Len(over) /\ f.pos >= 1
      BY <2>1, <2>2, <2>5, Zenon
    <3>2. QED
      BY <1>1, <2>5, <3>1, SMTT(30)
  <2>7. over[f.pos] \in Range(over)
    BY <2>6 DEF Range
  <2>8. G.shadow[over[f.pos]].x = y
    BY <2>1, <2>5, Zenon
  <2>9. QED
    BY <1>1, <2>3, <2>4, <2>5, <2>7, <2>8, DirectIs, ZenonT(40)
<1>4. CASE f.where = "param"
  <2>1. /\ f.edge >= 1 /\ f.pos <= Len(G.mod[f.m].params[f.edge])
        /\ G.mod[f.m].params[f.edge][f.pos] = y
    BY <1>4 DEF Waits
  <2>2. f.edge \in 0 .. Len(G.mod[f.m].params) /\ f.pos >= 1
    BY <1>4, Zenon DEF InParam
  <2>3. PICK n \in Nat : n = Len(G.mod[f.m].params) /\ DOMAIN G.mod[f.m].params = 1 .. n
    BY <1>2, ParamsIs
  <2>4. f.edge \in 1 .. n
    BY <2>1, <2>2, <2>3
  <2>5. PICK p \in Seq(Var) : p = G.mod[f.m].params[f.edge]
    <3>1. PICK ps \in Seq(Seq(Var)) : ps = G.mod[f.m].params
      BY <1>2, ModIs
    <3>2. f.edge \in DOMAIN ps
      BY <2>3, <2>4, <3>1
    <3>3. ps[f.edge] \in Seq(Var)
      BY <3>2, SeqIs, Zenon
    <3>4. QED
      BY <3>1, <3>3
  <2>6. f.pos \in DOMAIN p
    BY <1>1, <2>1, <2>2, <2>5
  <2>7. y \in Range(p)
    BY <2>1, <2>5, <2>6 DEF Range
  <2>8. QED
    BY <1>1, <2>3, <2>4, <2>5, <2>7, DirectIs
<1>5. QED
  BY <1>3, <1>4 DEF Waits

(* A variable that is searched for while it is searched for depends on     *)
(* itself.                                                                 *)
LEMMA CycleIs ==
    ASSUME RunInv, SearchInv, pc = "solve", sp[arg.x].cost < 0
    PROVE  arg.x \in Depends(G, arg.x)
<1>1. G \in Graphs /\ arg.x \in Var
  BY DEF RunInv, TypeInv, Where
<1>2. PICK n \in Nat : n = Len(X)
  <2>1. X \in Seq(Frame \cup {Base})
    BY DEF RunInv, StackInv, Stacked
  <2>2. QED
    BY <2>1, SeqIs, Zenon
<1>3. PICK i \in 2 .. n : X[i].x = arg.x
  BY <1>1, <1>2 DEF SearchInv, Marked
<1>4. n > 1 /\ Len(X) > 1 /\ Top = X[n]
  BY <1>2, <1>3 DEF Top
<1>5. arg.x \in Direct(G, X[n].x)
  <2>1. Waits(Top, arg.x, sw) /\ Ready(Top, pc, X, sp, mp, sw) /\ Top \in Frame
    BY <1>4, TopFrame DEF RunInv, StackInv, TopInv
  <2>2. Top.where \in {"shadow", "param"} /\ ModeOf(pc, Top) = Top.where
    BY <2>1 DEF Waits, ModeOf
  <2>3. /\ Top.where = "shadow" => InShadow(Top, mp, sw)
        /\ Top.where = "param" => InParam(Top, mp, sp)
    BY <2>1, <2>2 DEF Ready
  <2>4. Aimed(Top)
    BY <1>4, <2>2 DEF SearchInv, TopCost, Costed
  <2>5. QED
    BY <1>1, <1>4, <2>1, <2>3, <2>4, WaitsFor
<1>6. ASSUME NEW j \in 2 .. n - 1 PROVE X[j + 1].x \in Direct(G, X[j].x) /\ X[j + 1].x \in Var
  <2>1. j \in 2 .. Len(X) - 1 /\ j + 1 \in 2 .. Len(X)
    BY <1>2
  <2>2. /\ Sleeps(X[j], X[j + 1].x, sp, mp, sw) /\ X[j] \in Frame
        /\ X[j + 1] \in Frame
    BY <1>4, <2>1, Sleeping DEF RunInv, StackInv, Stacked
  <2>3. Costed(X[j], X[j].where)
    BY <2>1 DEF SearchInv, CostStack
  <2>4. Aimed(X[j])
    BY <2>2, <2>3 DEF Sleeps, Waits, Costed
  <2>5. X[j + 1].x \in Var
    BY <2>2 DEF Frame
  <2>6. /\ Waits(X[j], X[j + 1].x, sw)
        /\ X[j].where = "shadow" => InShadow(X[j], mp, sw)
        /\ X[j].where = "param" => InParam(X[j], mp, sp)
    BY <2>2, Zenon DEF Sleeps
  <2>7. PICK f \in Frame : f = X[j]
    BY <2>2
  <2>8. PICK y \in Var : y = X[j + 1].x
    BY <2>5
  <2>9. y \in Direct(G, f.x)
    BY <1>1, <2>4, <2>6, <2>7, <2>8, WaitsFor
  <2>10. QED
    BY <2>7, <2>8, <2>9
<1> DEFINE P(j) == Direct(G, X[j].x) \subseteq Depends(G, arg.x)
           T == {j \in Nat : i <= j /\ j <= n /\ ~P(j)}
<1>7. P(i)
  BY <1>1, <1>3, DependsIs
<1>8. ASSUME NEW j \in 2 .. n - 1, P(j) PROVE P(j + 1)
  <2>1. X[j + 1].x \in Depends(G, arg.x) \cap Var
    BY <1>6, <1>8
  <2>2. QED
    BY <1>1, <2>1, DependsIs
<1> HIDE DEF P
<1>9. T = {}
  <2> SUFFICES ASSUME T # {} PROVE FALSE
    OBVIOUS
  <2>1. PICK k \in T : \A j \in T : k <= j
    BY LeastNatural
  <2>2. k # i
    BY <1>7, <2>1
  <2>3. /\ k - 1 \in 2 .. n - 1 /\ k - 1 \in Nat /\ i <= k - 1 /\ k - 1 <= n /\ ~(k <= k - 1)
        /\ k - 1 + 1 = k
    BY <1>3, <2>1, <2>2
  <2>4. P(k - 1)
    BY <2>1, <2>3
  <2>5. P(k)
    BY <1>8, <2>3, <2>4
  <2>6. QED
    BY <2>1, <2>5
<1>10. P(n)
  <2>1. ~(n \in Nat /\ i <= n /\ n <= n /\ ~P(n))
    BY <1>9, Zenon
  <2>2. QED
    BY <1>3, <2>1
<1>11. QED
  BY <1>5, <1>10 DEF P

LEMMA OptXSolve ==
    ASSUME RunInv, CostInv, SearchInv, XSolve
    PROVE  CostInv' /\ (pc' # "error" => SearchInv')
<1>1. /\ G \in Graphs /\ pc = "solve" /\ arg.x \in Var /\ sp[arg.x].chain = None
      /\ arg.beta <= MaxCost /\ TypeInv
  BY DEF XSolve, RunInv, TypeInv, Where
<1>2. G' = G /\ truth' = truth /\ mp' = mp /\ sw' = sw /\ have' = have
  BY DEF XSolve, graph_vars
<1>3. truth = TrueCosts(G) /\ VarCosts /\ ModCosts /\ Guarded /\ ErrorsAreHonest
  BY DEF CostInv
<1>4. /\ sp \in [Var -> VarState] /\ arg \in [x : Var \cup {None}, beta : Int, cost : Int]
  BY <1>1 DEF TypeInv
<1>5. /\ truth \in [Var -> 0 .. Inf] /\ Inf \in Nat /\ MaxCost \in Nat /\ MaxCost < Inf
  BY <1>1, <1>3, TruthIs, SolverAssumption
<1>6. ModCosts'
  <2>1. Mod' = Mod
    BY <1>2 DEF Mod
  <2>2. QED
    BY <1>2, <1>3, <2>1 DEF ModCosts
<1>7. ASSUME \A y \in Var : sp'[y].value = sp[y].value PROVE Guarded'
  <2>1. \A y \in Var : sp[y].value \in BOOLEAN
    BY <1>4 DEF VarState
  <2>2. QED
    BY <1>1, <1>2, <1>3, <1>7, <2>1, GuardedKept
<1>8. CASE pc' = "error"
  <2>1. /\ sp' = sp
        /\ \/ status'.code = "DEPTH"
           \/ status'.code = "NYI" /\ status'.of = arg.x /\ sp[arg.x].cost < 0
    BY <1>8 DEF XSolve, Error
  <2>2. VarCosts'
    BY <1>2, <1>3, <2>1, VarsKept DEF VarCosts
  <2>3. ErrorsAreHonest'
    <3>1. CASE status'.code = "DEPTH"
      BY <1>2, <1>3, <3>1, HonestKept
    <3>2. CASE status'.code = "NYI" /\ status'.of = arg.x /\ sp[arg.x].cost < 0
      <4>1. arg.x \in Depends(G, arg.x)
        BY <1>1, <3>2, CycleIs
      <4>2. QED
        BY <1>2, <3>2, <4>1, Zenon DEF ErrorsAreHonest
    <3>3. QED
      BY <2>1, <3>1, <3>2
  <2>4. QED
    BY <1>2, <1>3, <1>6, <1>7, <1>8, <2>1, <2>2, <2>3 DEF CostInv
<1>9. CASE pc' # "error"
  <2>1. PICK f : f = [x |-> arg.x, beta |-> arg.beta, ncand |-> NCand(arg.x), where |-> "none",
                      m |-> None, ei |-> 0, mbeta |-> 0, costS |-> 0, betaS |-> 0,
                      edge |-> 1, pos |-> 1, ssmax |-> 0]
    OBVIOUS
  <2>2. /\ X' = Append(X, f) /\ sp' = [sp EXCEPT ![arg.x].cost = -1]
        /\ arg' = [arg EXCEPT !.cost = Inf] /\ status' = status
        /\ pc' = IF NCand(arg.x) > 0 THEN "candidate" ELSE "failed"
    BY <1>9, <2>1 DEF XSolve, Error
  <2>3. f.x = arg.x /\ f.beta = arg.beta
    BY <2>1
  <2>4. NewCost(arg.x, -1)
    BY <2>2 DEF NewCost
  <2>5. /\ sp'[arg.x].cost = -1
        /\ \A y \in Var : sp'[y].chain = sp[y].chain /\ sp'[y].value = sp[y].value
        /\ \A y \in Var : y # arg.x => sp'[y].cost = sp[y].cost
    BY <1>1, <1>4, <2>4, CostSet
  <2>6. VarCosts'
    <3>1. ASSUME NEW y \in Var
          PROVE  /\ sp'[y].chain = sp[y].chain /\ sp'[y].value = sp[y].value
                 /\ sp'[y].cost <= truth[y]
                 /\ sp'[y].chain # None => sp'[y].cost = sp[y].cost
      <4>1. CASE y = arg.x
        <5>1. truth[y] \in 0 .. Inf
          BY <1>5
        <5>2. QED
          BY <1>1, <2>5, <4>1, <5>1
      <4>2. CASE y # arg.x
        BY <1>3, <2>5, <4>2 DEF VarCosts
      <4>3. QED
        BY <4>1, <4>2
    <3>2. QED
      BY <1>2, <1>3, <3>1, VarsKept
  <2>7. CostInv'
    <3>1. ErrorsAreHonest'
      BY <1>2, <1>3, <2>2, HonestKept
    <3>2. QED
      BY <1>2, <1>3, <1>6, <1>7, <2>5, <2>6, <3>1 DEF CostInv
  <2>8. X \in Seq(Frame \cup {Base}) /\ Len(X) >= 1
    BY DEF RunInv, StackInv, Stacked
  <2>9. PICK n \in Nat : n = Len(X) /\ n >= 1
    BY <2>8, SeqIs, Zenon
  <2>10. Len(X') = n + 1 /\ X'[n + 1] = f /\ \A i \in 1 .. n : X'[i] = X[i]
    BY <2>2, <2>8, <2>9
  <2>11. CostStack(X')
    <3>1. CostStack(X) /\ f.beta = Allowed(X[n])
      BY <1>1, <2>3, <2>9 DEF SearchInv, TopCost, Top
    <3>2. n > 1 => Costed(X[n], X[n].where)
      BY <1>1, <2>9 DEF SearchInv, TopCost, Top, ModeOf
    <3>3. QED
      BY <2>9, <2>10, <3>1, <3>2, CostPush
  <2>12. CostStack(X)'
    BY <1>2, <2>11, CostPrimes
  <2>13. Top' = f
    BY <2>10 DEF Top
  <2>14. TopCost'
    <3>1. pc' \in {"candidate", "failed"}
      BY <2>2
    <3>2. pc' = "failed" => NotFound(f, arg'.cost)
      <4>1. arg'.cost = Inf
        BY <1>4, <2>2
      <4>2. NCand(arg.x) \in Nat
        BY <1>1, CandidatesCounted
      <4>3. ASSUME pc' = "failed" PROVE ModelsOf(G, arg.x) = {}
        <5>1. NCand(arg.x) = 0
          BY <2>2, <4>2, <4>3
        <5>2. QED
          BY <1>1, <5>1, NoCands
      <4>4. ASSUME pc' = "failed" PROVE truth[arg.x] = Inf
        BY <1>1, <1>3, <4>3, <4>4, TruthIs
      <4>5. arg.beta < Inf
        BY <1>1, <1>4, <1>5
      <4>6. QED
        BY <1>5, <2>3, <4>1, <4>4, <4>5 DEF NotFound
    <3>3. pc' = "failed" => NotFound(Top, arg.cost)'
      <4>1. \A g, cost : NotFound(g, cost)' <=> NotFound(g, cost)
        BY <1>2, FramePrimes
      <4>2. QED
        BY <2>13, <3>2, <4>1, Zenon
    <3>4. Costed(Top, ModeOf(pc, Top))'
      BY <3>1 DEF Costed, ModeOf
    <3>5. QED
      BY <3>1, <3>3, <3>4 DEF TopCost
  <2>15. Marked'
    <3>1. Var' = Var
      BY <1>2 DEF Var
    <3>2. ASSUME NEW y \in Var, sp'[y].cost < 0 PROVE \E i \in 2 .. n + 1 : X'[i].x = y
      <4>1. CASE y = arg.x
        <5>1. n + 1 \in 2 .. n + 1
          BY <2>9
        <5>2. QED
          BY <2>3, <2>10, <4>1, <5>1
      <4>2. CASE y # arg.x
        <5>1. sp[y].cost < 0
          BY <2>5, <3>2, <4>2
        <5>2. PICK i \in 2 .. n : X[i].x = y
          BY <2>9, <5>1 DEF SearchInv, Marked
        <5>3. i \in 2 .. n + 1 /\ i \in 1 .. n
          OBVIOUS
        <5>4. QED
          BY <2>10, <5>2, <5>3
      <4>3. QED
        BY <4>1, <4>2
    <3>3. QED
      BY <2>10, <3>1, <3>2 DEF Marked
  <2>16. QED
    BY <2>7, <2>12, <2>14, <2>15 DEF SearchInv
<1>10. QED
  BY <1>8, <1>9

-----------------------------------------------------------------------------
(* Back from the search of a variable.                                     *)

(* The frame below the top.                                                *)
LEMMA BelowCosted ==
    ASSUME RunInv, SearchInv, Len(X) > 1
    PROVE  /\ Top.beta = Allowed(Below)
           /\ Len(X) > 2 => Costed(Below, Below.where) /\ Below = X[Len(X) - 1]
<1>1. PICK n \in Nat : n = Len(X) /\ n > 1
  BY TopFrame
<1>2. Below = X[n - 1] /\ Top = X[n] /\ CostStack(X)
  BY <1>1 DEF Below, Top, SearchInv
<1>3. X[n].beta = Allowed(X[n - 1])
  <2>1. n \in 2 .. n
    BY <1>1
  <2>2. QED
    BY <1>1, <1>2, <2>1 DEF CostStack
<1>4. ASSUME n > 2 PROVE Costed(X[n - 1], X[n - 1].where)
  <2>1. n - 1 \in 2 .. n - 1
    BY <1>1, <1>4
  <2>2. QED
    BY <1>1, <1>2, <2>1 DEF CostStack
<1>5. QED
  BY <1>1, <1>2, <1>3, <1>4

(* Marks are taken back with the frames.                                   *)
LEMMA MarkedPop ==
    ASSUME RunInv, SearchInv, NEW n \in Nat, n = Len(X), n > 1, G' = G, ~(sp'[Top.x].cost < 0),
           \A y \in Var : y # Top.x => sp'[y].cost = sp[y].cost,
           n - 1 = Len(X'), \A i \in 2 .. n - 1 : X'[i].x = X[i].x
    PROVE  Marked'
<1>1. Var' = Var
  BY DEF Var
<1>2. ASSUME NEW y \in Var, sp'[y].cost < 0 PROVE \E i \in 2 .. n - 1 : X'[i].x = y
  <2>1. y # Top.x /\ sp[y].cost < 0
    BY <1>2
  <2>2. PICK i \in 2 .. n : X[i].x = y
    BY <2>1 DEF SearchInv, Marked
  <2>3. i # n
    BY <2>1, <2>2 DEF Top
  <2>4. i \in 2 .. n - 1
    BY <2>3
  <2>5. QED
    BY <2>2, <2>4
<1>3. QED
  BY <1>1, <1>2 DEF Marked

LEMMA PopLast ==
    ASSUME RunInv, SearchInv, Len(X) = 2, G' = G, truth' = truth, ~(sp'[Top.x].cost < 0),
           \A y \in Var : y # Top.x => sp'[y].cost = sp[y].cost,
           X' = Pop, pc' # "solve"
    PROVE  SearchInv'
<1>1. X \in Seq(Frame \cup {Base}) /\ CostStack(X)
  BY DEF RunInv, StackInv, Stacked, SearchInv
<1>2. PICK n \in Nat : n = 2 /\ n > 1
  OBVIOUS
<1>n. n = Len(X) /\ n - 1 = Len(X') /\ X'[1] = X[1]
  BY <1>1, <1>2 DEF Pop
<1>3. CostStack(X')
  <2>1. \A i \in 1 .. n - 1 : X'[i] = X[i]
    BY <1>2, <1>n
  <2>2. QED
    BY <1>1, <1>2, <1>n, <2>1, CostPop
<1>4. CostStack(X)'
  BY <1>3, CostPrimes
<1>5. Marked'
  <2>1. \A i \in 2 .. n - 1 : X'[i].x = X[i].x
    BY <1>2
  <2>2. QED
    BY <1>2, <1>n, <2>1, MarkedPop
<1>6. TopCost'
  <2>1. ~(n - 1 > 1)
    BY <1>2
  <2>2. ~(Len(X') > 1)
    BY <1>n, <2>1, Zenon
  <2>3. QED
    BY <2>2 DEF TopCost
<1>7. QED
  BY <1>4, <1>5, <1>6 DEF SearchInv

LEMMA PopSearch ==
    ASSUME RunInv, SearchInv, Len(X) > 2, G' = G, truth' = truth, ~(sp'[Top.x].cost < 0),
           \A y \in Var : y # Top.x => sp'[y].cost = sp[y].cost,
           NEW f, f.x = Below.x, f.beta = Below.beta, X' = [Pop EXCEPT ![Len(Pop)] = f],
           Costed(f, ModeOf(pc', f)), pc' = "bound" => Overspent(f, mp'),
           pc' \notin {"solve", "chosen", "failed"}
    PROVE  SearchInv'
<1>1. PICK n \in Nat : n = Len(X) /\ n > 2
  <2>1. Len(X) > 1
    <3>1. X \in Seq(Frame \cup {Base})
      BY DEF RunInv, StackInv, Stacked
    <3>2. PICK n \in Nat : n = Len(X)
      BY <3>1, SeqIs, Zenon
    <3>3. QED
      BY <3>2
  <2>2. QED
    BY <2>1, TopFrame
<1>2. X \in Seq(Frame \cup {Base}) /\ CostStack(X) /\ Below = X[n - 1]
  BY <1>1 DEF RunInv, StackInv, Stacked, SearchInv, Below
<1>3. PICK Z : Z = Pop
  OBVIOUS
<1>4. Z \in Seq(Frame \cup {Base}) /\ Len(Z) = n - 1 /\ \A i \in 1 .. n - 1 : Z[i] = X[i]
  BY <1>1, <1>2, <1>3 DEF Pop
<1>5. CostStack(Z)
  BY <1>1, <1>2, <1>4, CostPop
<1>6. PICK k \in Nat : k = n - 1 /\ k > 1 /\ k = Len(Z)
  BY <1>1, <1>4
<1>7. Len(X') = k /\ X'[k] = f /\ \A i \in 1 .. k - 1 : X'[i] = Z[i]
  <2>1. X' = [Z EXCEPT ![k] = f]
    BY <1>3, <1>6
  <2>2. QED
    BY <1>4, <1>6, <2>1
<1>8. CostStack(X')
  <2>1. X'[k].beta = Z[k].beta
    BY <1>2, <1>4, <1>6, <1>7
  <2>2. PICK Y : Y = X'
    OBVIOUS
  <2>3. k = Len(Y) /\ Y[k].beta = Z[k].beta /\ \A i \in 1 .. k - 1 : Y[i] = Z[i]
    BY <1>7, <2>1, <2>2
  <2>4. CostStack(Y)
    BY <1>5, <1>6, <2>3, CostRetop
  <2>5. QED
    BY <2>2, <2>4
<1>9. CostStack(X)'
  BY <1>8, CostPrimes
<1>10. Top' = f
  BY <1>7 DEF Top
<1>11. TopCost'
  <2>0. PICK mode : mode = ModeOf(pc', f)
    OBVIOUS
  <2>1. Costed(f, mode)'
    BY <2>0, FramePrimes
  <2>2. \A mm : Overspent(f, mm)' <=> Overspent(f, mm)
    BY FramePrimes
  <2>3. Costed(Top, ModeOf(pc, Top))'
    BY <1>10, <2>0, <2>1, Zenon DEF ModeOf
  <2>4. pc' = "bound" => Overspent(Top, mp)'
    BY <1>10, <2>2, Zenon
  <2>5. QED
    BY <2>3, <2>4, Zenon DEF TopCost
<1>12. Marked'
  <2>1. n > 1 /\ n - 1 = Len(X')
    BY <1>1, <1>6, <1>7
  <2>2. ASSUME NEW i \in 2 .. n - 1 PROVE X'[i].x = X[i].x
    <3>1. i \in 1 .. n - 1 /\ (i = k \/ i \in 1 .. k - 1)
      BY <1>6
    <3>2. Z[i] = X[i]
      BY <1>4, <3>1
    <3>3. CASE i = k
      BY <1>2, <1>6, <1>7, <3>3
    <3>4. CASE i \in 1 .. k - 1
      BY <1>7, <3>2, <3>4
    <3>5. QED
      BY <3>1, <3>3, <3>4
  <2>3. QED
    BY <1>1, <2>1, <2>2, MarkedPop
<1>13. QED
  BY <1>9, <1>11, <1>12 DEF SearchInv

LEMMA OptXChosen == ASSUME RunInv, CostInv, SearchInv, XChosen PROVE CostInv' /\ SearchInv'
<1>1. Len(X) > 1 /\ G \in Graphs /\ pc = "chosen" /\ TypeInv
  BY DEF XChosen, RunInv, TypeInv, Where, Searching
<1>2. G' = G /\ truth' = truth /\ mp' = mp /\ sw' = sw /\ have' = have /\ status' = status
  BY DEF XChosen, graph_vars
<1>3. Top \in Frame /\ Top.x \in Var /\ Len(X) \in Nat /\ Top.beta <= MaxCost
  BY <1>1, TopFrame
<1>4. sp \in [Var -> VarState] /\ arg \in [x : Var \cup {None}, beta : Int, cost : Int]
  BY <1>1 DEF TypeInv
<1>5. truth = TrueCosts(G) /\ VarCosts /\ ModCosts /\ Guarded /\ ErrorsAreHonest
  BY DEF CostInv
<1>6. /\ truth \in [Var -> 0 .. Inf] /\ Inf \in Nat /\ MaxCost \in Nat /\ MaxCost < Inf
  BY <1>1, <1>5, TruthIs, SolverAssumption
<1>7. PICK cost \in Int : cost = arg.cost
  BY <1>4
<1>8. /\ cost = truth[Top.x] /\ cost <= Top.beta /\ mp[sp[Top.x].chain.m].cost = cost
  BY <1>1, <1>7 DEF SearchInv, TopCost, GotChain
<1>9. cost \in Nat /\ cost \in 0 .. Inf
  BY <1>3, <1>6, <1>8
<1>10. NewCost(Top.x, cost)
  BY <1>7 DEF XChosen, NewCost
<1>11. /\ sp'[Top.x].cost = cost
       /\ \A y \in Var : sp'[y].chain = sp[y].chain /\ sp'[y].value = sp[y].value
       /\ \A y \in Var : y # Top.x => sp'[y].cost = sp[y].cost
  BY <1>3, <1>4, <1>10, CostSet
<1>12. sp[Top.x].chain # None /\ mp[sp[Top.x].chain.m].chain = TRUE
  BY <1>1, <1>3 DEF RunInv, StackInv, TopInv, ChainInv
<1>13. VarCosts'
  <2>1. Var' = Var
    BY <1>2 DEF Var
  <2>2. ASSUME NEW y \in Var
        PROVE  /\ sp'[y].cost <= truth[y]
               /\ sp'[y].value = TRUE => sp'[y].chain # None
               /\ sp'[y].chain # None =>
                     /\ y \in Computable(G) /\ sp'[y].chain.m \in ModelsOf(G, y)
                     /\ sp'[y].cost >= 0 =>
                           /\ sp'[y].cost = truth[y] /\ mp'[sp'[y].chain.m].chain = TRUE
                           /\ mp'[sp'[y].chain.m].cost = truth[y]
    <3>1. CASE y = Top.x
      <4>1. sp'[y].cost = truth[y] /\ sp'[y].cost <= truth[y]
        BY <1>8, <1>9, <1>11, <3>1
      <4>2. /\ y \in Computable(G) /\ sp[y].chain.m \in ModelsOf(G, y)
        BY <1>5, <1>12, <3>1 DEF VarCosts
      <4>3. QED
        BY <1>2, <1>8, <1>11, <1>12, <3>1, <4>1, <4>2
    <3>2. CASE y # Top.x
      BY <1>2, <1>5, <1>11, <3>2 DEF VarCosts
    <3>3. QED
      BY <3>1, <3>2
  <2>3. QED
    BY <1>2, <2>1, <2>2, Zenon DEF VarCosts
<1>14. CostInv'
  <2>1. Mod' = Mod
    BY <1>2 DEF Mod
  <2>2. ModCosts'
    BY <1>2, <1>5, <2>1 DEF ModCosts
  <2>3. \A y \in Var : sp[y].value \in BOOLEAN
    BY <1>4 DEF VarState
  <2>4. Guarded'
    BY <1>1, <1>2, <1>5, <1>11, <2>3, GuardedKept
  <2>5. ErrorsAreHonest'
    BY <1>2, <1>5, HonestKept
  <2>6. QED
    BY <1>2, <1>5, <1>13, <2>2, <2>4, <2>5 DEF CostInv
<1>15. ~(sp'[Top.x].cost < 0)
  BY <1>9, <1>11
<1>16. CASE Len(X) = 2
  <2>1. Below.where = "done"
    BY <1>1, <1>16, BelowIs
  <2>2. X' = Pop /\ pc' = "chains"
    BY <2>1 DEF XChosen
  <2>3. SearchInv'
    BY <1>2, <1>11, <1>15, <1>16, <2>2, PopLast
  <2>4. QED
    BY <1>14, <2>3
<1>17. CASE Len(X) # 2
  <2>1. /\ Len(X) > 2 /\ Below \in Frame /\ Below.where \in {"shadow", "param"}
        /\ Sleeps(Below, Top.x, sp, mp, sw)
    BY <1>1, <1>17, BelowIs
  <2>2. Costed(Below, Below.where) /\ Top.beta = Allowed(Below)
    BY <1>1, <2>1, BelowCosted
  <2>3. CASE Below.where = "param"
    <3>1. PICK b \in Frame : b = Below
      BY <2>1
    <3>2. PICK f : Seen(f, b, truth[Top.x])
      BY DEF Seen
    <3>3. X' = [Pop EXCEPT ![Len(Pop)] = f] /\ pc' = "param"
      BY <1>7, <1>8, <2>3, <3>1, <3>2 DEF XChosen, Seen
    <3>4. Aimed(b) /\ ParamCosted(b)
      BY <2>2, <2>3, <3>1 DEF Costed
    <3>5. b.costS \in Int /\ b.betaS \in Int /\ b.edge \in Nat /\ b.pos \in Nat
      BY <3>1 DEF Frame
    <3>6. /\ b.edge >= 1 /\ b.pos <= Len(G.mod[b.m].params[b.edge])
          /\ G.mod[b.m].params[b.edge][b.pos] = Top.x
      BY <2>1, <2>3, <3>1 DEF Sleeps, Waits
    <3>7. b.m \in Mod /\ b.edge \in 0 .. Len(G.mod[b.m].params) /\ b.pos >= 1
      BY <2>1, <2>3, <3>1, Zenon DEF Sleeps, InParam
    <3>8. b.edge \in 1 .. Len(G.mod[b.m].params)
      <4>1. PICK np \in Nat : np = Len(G.mod[b.m].params)
        BY <1>1, <3>7, ParamsIs
      <4>2. b.edge \in 0 .. np /\ b.edge >= 1
        BY <3>6, <3>7, <4>1, Zenon
      <4>3. QED
        BY <4>1, <4>2
    <3>9. b.costS + truth[Top.x] <= b.betaS
      <4>1. cost <= b.betaS - b.costS
        BY <1>8, <2>2, <2>3, <3>1 DEF Allowed
      <4>2. b.costS + cost <= b.betaS
        BY <3>5, <4>1, SMTT(30)
      <4>3. QED
        BY <1>8, <4>2
    <3>10. f.x = b.x /\ f.beta = b.beta /\ (Aimed(b) => Aimed(f)) /\ ParamCosted(f)
      BY <1>1, <1>3, <1>6, <3>2, <3>4, <3>6, <3>7, <3>8, <3>9, ParamSeen, Zenon
    <3>11. Costed(f, ModeOf(pc', f))
      BY <3>3, <3>4, <3>10 DEF Costed, ModeOf
    <3>12. f.x = Below.x /\ f.beta = Below.beta
      BY <3>1, <3>10
    <3>13. SearchInv'
      BY <1>2, <1>11, <1>15, <2>1, <3>3, <3>11, <3>12, PopSearch
    <3>14. QED
      BY <1>14, <3>13
  <2>4. CASE Below.where = "shadow"
    <3>1. X' = Pop /\ pc' = "value"
      BY <2>4 DEF XChosen
    <3>2. X' = [Pop EXCEPT ![Len(Pop)] = Below]
      <4>1. PICK Z : Z = Pop
        OBVIOUS
      <4>2. PICK n \in Nat : n = Len(X) /\ n > 2
        BY <1>3, <2>1
      <4>3. X \in Seq(Frame \cup {Base})
        BY DEF RunInv, StackInv, Stacked
      <4>4. Z \in Seq(Frame \cup {Base}) /\ Len(Z) = n - 1 /\ Z[n - 1] = X[n - 1]
        BY <4>1, <4>2, <4>3 DEF Pop
      <4>5. Z = [Z EXCEPT ![Len(Z)] = X[n - 1]]
        BY <4>2, <4>4
      <4>6. QED
        BY <3>1, <4>1, <4>2, <4>5 DEF Below
    <3>3. Costed(Below, ModeOf(pc', Below))
      BY <2>2, <2>4, <3>1 DEF ModeOf
    <3>4. SearchInv'
      BY <1>2, <1>11, <1>15, <2>1, <3>1, <3>2, <3>3, PopSearch
    <3>5. QED
      BY <1>14, <3>4
  <2>5. QED
    BY <2>1, <2>3, <2>4
<1>18. QED
  BY <1>16, <1>17

(* What a search that failed says of the variable.                         *)
LEMMA FailedIs ==
    ASSUME RunInv, CostInv, SearchInv, XFailed
    PROVE  /\ G \in Graphs /\ Top \in Frame /\ Top.x \in Var /\ Len(X) > 1 /\ Len(X) \in Nat
           /\ G' = G /\ truth' = truth /\ have' = have
           /\ arg.cost \in Nat /\ arg.cost <= truth[Top.x] /\ Top.beta < arg.cost
           /\ sp[Top.x].chain = None
           /\ sp'[Top.x].cost = arg.cost /\ ~(sp'[Top.x].cost < 0)
           /\ \A y \in Var : sp'[y].chain = sp[y].chain /\ sp'[y].value = sp[y].value
           /\ \A y \in Var : y # Top.x => sp'[y].cost = sp[y].cost
           /\ \A y \in Var : /\ sp'[y].chain = sp[y].chain /\ sp'[y].value = sp[y].value
                             /\ sp'[y].cost <= truth[y]
                             /\ sp'[y].chain # None => sp'[y].cost = sp[y].cost
<1>1. Len(X) > 1 /\ G \in Graphs /\ pc = "failed" /\ TypeInv
  BY DEF XFailed, RunInv, TypeInv, Where, Searching
<1>2. G' = G /\ truth' = truth /\ have' = have
  BY DEF XFailed, graph_vars
<1>3. Top \in Frame /\ Top.x \in Var /\ Len(X) \in Nat /\ Top.beta <= MaxCost
  BY <1>1, TopFrame
<1>4. sp \in [Var -> VarState] /\ arg \in [x : Var \cup {None}, beta : Int, cost : Int]
  BY <1>1 DEF TypeInv
<1>5. truth = TrueCosts(G) /\ VarCosts
  BY DEF CostInv
<1>6. truth \in [Var -> 0 .. Inf] /\ Inf \in Nat /\ MaxCost \in Nat
  BY <1>1, <1>5, TruthIs, SolverAssumption
<1>7. PICK cost \in Int : cost = arg.cost
  BY <1>4
<1>8. Top.beta < cost /\ cost <= truth[Top.x]
  BY <1>1, <1>7 DEF SearchInv, TopCost, NotFound
<1>9. Top.beta \in Int /\ Top.beta >= 0
  <2>1. Top.beta = Allowed(Below)
    BY <1>1, BelowCosted
  <2>2. CASE Below.where = "param"
    <3>1. /\ Len(X) > 2 /\ Below \in Frame
      BY <1>1, <2>2, BelowIs
    <3>2. ParamCosted(Below)
      BY <1>1, <2>2, <3>1, BelowCosted DEF Costed
    <3>3. /\ Below.costS \in Int /\ Below.betaS \in Int /\ Below.ssmax \in Nat
          /\ Below.costS + Below.ssmax <= Below.betaS
      BY <3>1, <3>2 DEF Frame, ParamCosted
    <3>4. QED
      BY <2>1, <2>2, <3>3 DEF Allowed
  <2>3. CASE Below.where # "param"
    BY <1>6, <2>1, <2>3 DEF Allowed
  <2>4. QED
    BY <2>2, <2>3
<1>10. cost \in Nat
  BY <1>8, <1>9
<1>11. sp[Top.x].chain = None
  BY <1>1 DEF RunInv, StackInv, TopInv
<1>12. NewCost(Top.x, cost)
  BY <1>7 DEF XFailed, NewCost, KnownBound
<1>13. /\ sp'[Top.x].cost = cost
       /\ \A y \in Var : sp'[y].chain = sp[y].chain /\ sp'[y].value = sp[y].value
       /\ \A y \in Var : y # Top.x => sp'[y].cost = sp[y].cost
  BY <1>3, <1>4, <1>12, CostSet
<1>14. ASSUME NEW y \in Var
       PROVE  /\ sp'[y].chain = sp[y].chain /\ sp'[y].value = sp[y].value
              /\ sp'[y].cost <= truth[y]
              /\ sp'[y].chain # None => sp'[y].cost = sp[y].cost
  <2>1. CASE y = Top.x
    BY <1>8, <1>11, <1>13, <2>1
  <2>2. CASE y # Top.x
    BY <1>5, <1>13, <2>2 DEF VarCosts
  <2>3. QED
    BY <2>1, <2>2
<1>15. ~(cost < 0)
  BY <1>10
<1>16. QED
  BY <1>1, <1>2, <1>3, <1>7, <1>8, <1>10, <1>11, <1>13, <1>14, <1>15

(* The search of a parameter failed: its model costs at least as much.     *)
LEMMA OptParamFailed ==
    ASSUME RunInv, CostInv, SearchInv, XFailed, Below.where = "param"
    PROVE  CostInv' /\ SearchInv'
<1>1. /\ G \in Graphs /\ Top.x \in Var /\ Len(X) > 1 /\ Len(X) \in Nat
      /\ G' = G /\ truth' = truth /\ have' = have
      /\ arg.cost \in Nat /\ arg.cost <= truth[Top.x] /\ ~(sp'[Top.x].cost < 0)
      /\ \A y \in Var : sp'[y].chain = sp[y].chain /\ sp'[y].value = sp[y].value
      /\ \A y \in Var : y # Top.x => sp'[y].cost = sp[y].cost
      /\ \A y \in Var : /\ sp'[y].chain = sp[y].chain /\ sp'[y].value = sp[y].value
                        /\ sp'[y].cost <= truth[y]
                        /\ sp'[y].chain # None => sp'[y].cost = sp[y].cost
  BY FailedIs
<1>2. TypeInv
  BY DEF RunInv
<1>3. truth = TrueCosts(G) /\ VarCosts /\ ModCosts /\ Guarded /\ ErrorsAreHonest
  BY DEF CostInv
<1>4. truth \in [Var -> 0 .. Inf] /\ Inf \in Nat
  BY <1>1, <1>3, TruthIs, SolverAssumption
<1>5. /\ Len(X) > 2 /\ Below \in Frame /\ Sleeps(Below, Top.x, sp, mp, sw)
  BY <1>1, BelowIs
<1>6. PICK b \in Frame : b = Below
  BY <1>5
<1>7. ParamCosted(b) /\ Aimed(b)
  BY <1>1, <1>5, <1>6, BelowCosted DEF Costed
<1>8. PICK cost \in Nat : cost = arg.cost
  BY <1>1
<1>9. /\ X' = Pop /\ pc' = "candidate" /\ sw' = sw /\ status' = status
      /\ mp' = [mp EXCEPT ![b.m].cost = Costf(G, b.m, Cap(b.costS + cost))]
  BY <1>6, <1>8 DEF XFailed
<1>10. b.costS \in Int /\ b.betaS \in Int /\ b.edge \in Nat /\ b.pos \in Nat
  BY <1>6 DEF Frame
<1>11. /\ b.edge >= 1 /\ b.pos <= Len(G.mod[b.m].params[b.edge])
       /\ G.mod[b.m].params[b.edge][b.pos] = Top.x
  BY <1>5, <1>6 DEF Sleeps, Waits
<1>12. /\ b.m \in Mod /\ b.edge \in 0 .. Len(G.mod[b.m].params) /\ b.pos >= 1
       /\ mp[b.m].chain = FALSE
  BY <1>5, <1>6, Zenon DEF Sleeps, InParam
<1>13. b.edge \in 1 .. Len(G.mod[b.m].params)
  <2>1. PICK np \in Nat : np = Len(G.mod[b.m].params)
    BY <1>1, <1>12, ParamsIs
  <2>2. b.edge \in 0 .. np /\ b.edge >= 1
    BY <1>11, <1>12, <2>1, Zenon
  <2>3. QED
    BY <2>1, <2>2
<1>14. /\ Spent(b.m, b.edge) \in Nat /\ Spent(b.m, 0) \in Nat
       /\ Spent(b.m, b.edge) + truth[Top.x] <= Spent(b.m, 0)
  BY <1>1, <1>3, <1>10, <1>11, <1>12, <1>13, ParamWithin
<1>15. PICK S \in Nat : S = b.costS + cost
  <2>1. b.costS \in Nat
    BY <1>7, <1>14 DEF ParamCosted
  <2>2. QED
    BY <2>1
<1>16. PICK R \in Nat : R = Spent(b.m, 0)
  BY <1>14
<1>17. S <= R
  <2>1. b.costS = Spent(b.m, b.edge)
    BY <1>7 DEF ParamCosted
  <2>2. truth[Top.x] \in 0 .. Inf /\ cost <= truth[Top.x]
    BY <1>1, <1>4, <1>8
  <2>3. b.costS + truth[Top.x] <= R
    BY <1>14, <1>16, <2>1
  <2>4. QED
    BY <1>10, <1>15, <2>2, <2>3, <1>4
<1>18. PICK c \in Int : c = Costf(G, b.m, S) /\ Cap(G.mod[b.m].k) <= c /\ c <= Costf(G, b.m, R)
                        /\ c = Costf(G, b.m, Cap(S))
  <2>1. /\ Costf(G, b.m, S) \in 0 .. Inf /\ Cap(G.mod[b.m].k) <= Costf(G, b.m, S)
        /\ Costf(G, b.m, Cap(S)) = Costf(G, b.m, S) /\ Costf(G, b.m, S) <= Costf(G, b.m, R)
    BY <1>1, <1>12, <1>17, CostfIs
  <2>2. QED
    BY <2>1, <1>4
<1>19. c <= ModelCost(G, b.m, truth)
  <2>1. ModelCost(G, b.m, truth) = Costf(G, b.m, R)
    BY <1>1, <1>3, <1>12, <1>16, SpentIs
  <2>2. QED
    BY <1>18, <2>1
<1>20. mp' = [mp EXCEPT ![b.m].cost = c]
  BY <1>9, <1>15, <1>18
<1>21. VarCosts' /\ ModCosts'
  BY <1>1, <1>2, <1>3, <1>12, <1>18, <1>19, <1>20, BoundRaised
<1>22. CostInv'
  <2>1. \A y \in Var : sp[y].value \in BOOLEAN
    BY <1>2 DEF TypeInv, VarState
  <2>2. Guarded'
    BY <1>1, <1>3, <1>9, <2>1, GuardedKept
  <2>3. ErrorsAreHonest'
    BY <1>1, <1>3, <1>9, HonestKept
  <2>4. QED
    BY <1>1, <1>3, <1>21, <2>2, <2>3 DEF CostInv
<1>23. X' = [Pop EXCEPT ![Len(Pop)] = Below]
  <2>1. PICK Z : Z = Pop
    OBVIOUS
  <2>2. PICK n \in Nat : n = Len(X) /\ n > 2
    BY <1>1, <1>5
  <2>3. X \in Seq(Frame \cup {Base})
    BY DEF RunInv, StackInv, Stacked
  <2>4. Z \in Seq(Frame \cup {Base}) /\ Len(Z) = n - 1 /\ Z[n - 1] = X[n - 1]
    BY <2>1, <2>2, <2>3 DEF Pop
  <2>5. Z = [Z EXCEPT ![Len(Z)] = X[n - 1]]
    BY <2>2, <2>4
  <2>6. QED
    BY <1>9, <2>1, <2>2, <2>5 DEF Below
<1>24. Costed(Below, ModeOf(pc', Below))
  BY <1>9 DEF Costed, ModeOf
<1>25. SearchInv'
  BY <1>1, <1>5, <1>9, <1>23, <1>24, PopSearch
<1>26. QED
  BY <1>22, <1>25

(* A shadow of a variable without a chain has failed.                      *)
LEMMA GuardFails ==
    ASSUME TypeInv, Guarded, G' = G, have' = have, NEW w \in DOMAIN G.shadow,
           sw' = [sw EXCEPT ![w] = "fail"], G.shadow[w].x \in Var \ Computable(G),
           \A x \in Var : sp'[x].value = sp[x].value
    PROVE  Guarded'
<1>1. G \in Graphs /\ sw \in [DOMAIN G.shadow -> {"none", "pass", "fail"}]
  BY DEF TypeInv
<1>2. Var' = Var
  BY DEF Var
<1>3. ASSUME NEW x \in Var \cup Given PROVE HasValue(x)' <=> HasValue(x)
  BY <1>3 DEF HasValue
<1>4. ASSUME NEW v \in DOMAIN G.shadow, sw'[v] # "none"
      PROVE  \/ HasValue(G.shadow[v].x)' /\ ((sw'[v] = "pass") <=> G.shadow[v].ok)
             \/ sw'[v] = "fail" /\ G.shadow[v].x \in Var \ Computable(G)
  <2>1. CASE v = w
    <3>1. sw'[v] = "fail"
      BY <1>1, <2>1
    <3>2. QED
      BY <2>1, <3>1
  <2>2. CASE v # w
    <3>1. sw'[v] = sw[v]
      BY <1>1, <2>2
    <3>2. \/ HasValue(G.shadow[v].x) /\ ((sw[v] = "pass") <=> G.shadow[v].ok)
          \/ sw[v] = "fail" /\ G.shadow[v].x \in Var \ Computable(G)
      BY <1>4, <3>1 DEF Guarded
    <3>3. PICK x \in Var \cup Given : x = G.shadow[v].x
      BY <1>1, VarIs
    <3>4. HasValue(x)' <=> HasValue(x)
      BY <1>3
    <3>5. HasValue(G.shadow[v].x)' <=> HasValue(x)'
      BY <3>3 DEF HasValue
    <3>6. QED
      BY <3>1, <3>2, <3>3, <3>4, <3>5, Zenon
  <2>3. QED
    BY <2>1, <2>2
<1>5. QED
  BY <1>2, <1>4, Zenon DEF Guarded

(* The search of a guard's variable failed: the guard counts as failed.    *)
LEMMA OptShadowFailed ==
    ASSUME RunInv, CostInv, SearchInv, XFailed, Below.where = "shadow"
    PROVE  CostInv' /\ SearchInv'
<1>1. /\ G \in Graphs /\ Top.x \in Var /\ Len(X) > 1 /\ Len(X) \in Nat
      /\ G' = G /\ truth' = truth /\ have' = have
      /\ arg.cost \in Nat /\ arg.cost <= truth[Top.x] /\ Top.beta < arg.cost
      /\ ~(sp'[Top.x].cost < 0)
      /\ \A y \in Var : sp'[y].chain = sp[y].chain /\ sp'[y].value = sp[y].value
      /\ \A y \in Var : y # Top.x => sp'[y].cost = sp[y].cost
      /\ \A y \in Var : /\ sp'[y].chain = sp[y].chain /\ sp'[y].value = sp[y].value
                        /\ sp'[y].cost <= truth[y]
                        /\ sp'[y].chain # None => sp'[y].cost = sp[y].cost
  BY FailedIs
<1>2. TypeInv
  BY DEF RunInv
<1>3. truth = TrueCosts(G) /\ VarCosts /\ ModCosts /\ Guarded /\ ErrorsAreHonest
  BY DEF CostInv
<1>4. truth \in [Var -> 0 .. Inf] /\ Inf \in Nat /\ MaxCost \in Nat
  BY <1>1, <1>3, TruthIs, SolverAssumption
<1>5. /\ Len(X) > 2 /\ Below \in Frame /\ Sleeps(Below, Top.x, sp, mp, sw)
  BY <1>1, BelowIs
<1>6. PICK b \in Frame : b = Below
  BY <1>5
<1>7. /\ Costed(b, "shadow") /\ Top.beta = MaxCost
  BY <1>1, <1>5, <1>6, BelowCosted DEF Allowed
<1>8. ShadowCosted(b) /\ Aimed(b)
  BY <1>7 DEF Costed
<1>9. /\ AtShadow(b, Top.x) /\ InShadow(b, mp, sw) /\ sw[ShadowOf(b)] = "none"
  BY <1>5, <1>6 DEF Sleeps, Waits
<1>10. PICK w \in DOMAIN G.shadow : w = ShadowOf(b)
  BY <1>1, <1>9, ShadowIs
<1>11. G.shadow[w].x = Top.x /\ b.m \in Mod /\ mp[b.m].chain = FALSE
  BY <1>9, <1>10, Zenon DEF AtShadow, InShadow
<1>12. Top.x \notin Computable(G)
  <2>1. truth[Top.x] > MaxCost
    <3>1. truth[Top.x] \in 0 .. Inf
      BY <1>1, <1>4
    <3>2. QED
      BY <1>1, <1>4, <1>7, <3>1
  <2>2. ASSUME Top.x \in Computable(G) PROVE FALSE
    <3>1. truth[Top.x] <= MaxCost
      BY <1>1, <1>3, <2>2, RangeAssumption
    <3>2. truth[Top.x] \in 0 .. Inf
      BY <1>1, <1>4
    <3>3. QED
      BY <1>4, <2>1, <3>1, <3>2
  <2>3. QED
    BY <2>2
<1>13. ~Passes(G, w)
  <2>1. Var \cap Given = {}
    BY <1>1, SolverAssumption DEF IsGraph, Var
  <2>2. QED
    BY <1>1, <1>11, <1>12, <2>1 DEF Passes, PassesWith
<1>14. PICK f : f = [b EXCEPT !.costS = b.costS + G.mod[b.m].shadows[b.edge].penalty,
                              !.edge = @ + 1, !.pos = 1]
  OBVIOUS
<1>15. /\ X' = [Pop EXCEPT ![Len(Pop)] = f] /\ mp' = mp /\ status' = status
       /\ sw' = [sw EXCEPT ![w] = "fail"]
       /\ pc' = IF b.costS + G.mod[b.m].shadows[b.edge].penalty > b.betaS THEN "bound" ELSE "shadow"
  BY <1>6, <1>10, <1>14, Zenon DEF XFailed, Penalize, ShadowOf
<1>16. b.edge \in 1 .. Len(G.mod[b.m].shadows) /\ w \in Range(G.mod[b.m].shadows[b.edge].over)
  <2>1. /\ b.edge <= Len(G.mod[b.m].shadows) /\ b.pos <= Len(G.mod[b.m].shadows[b.edge].over)
        /\ b.edge \in 1 .. Len(G.mod[b.m].shadows) + 1 /\ b.pos >= 1
        /\ w = G.mod[b.m].shadows[b.edge].over[b.pos]
    BY <1>9, <1>10, Zenon DEF AtShadow, InShadow, ShadowOf
  <2>2. PICK n \in Nat : n = Len(G.mod[b.m].shadows)
    BY <1>1, <1>11, CostsAre
  <2>3. b.edge \in 1 .. n + 1 /\ b.edge <= n
    BY <2>1, <2>2, Zenon
  <2>4. b.edge \in 1 .. n
    BY <2>3
  <2>5. PICK over \in Seq(DOMAIN G.shadow) : over = G.mod[b.m].shadows[b.edge].over
    BY <1>1, <1>11, <2>2, <2>4, OverIs
  <2>6. PICK k \in Nat : k = Len(over) /\ DOMAIN over = 1 .. k
    BY <2>5, SeqIs, Zenon
  <2>7. b.pos <= k /\ b.pos \in Nat /\ b.pos >= 1
    <3>1. b.pos \in Nat
      BY <1>6 DEF Frame
    <3>2. QED
      BY <2>1, <2>5, <2>6, <3>1, Zenon
  <2>8. b.pos \in DOMAIN over
    BY <2>6, <2>7
  <2>9. w \in Range(over)
    BY <2>1, <2>5, <2>8, ZenonT(40) DEF Range
  <2>10. QED
    BY <2>2, <2>4, <2>5, <2>9
<1>17. /\ f.x = b.x /\ f.beta = b.beta /\ Aimed(f)
       /\ f.costS > f.betaS => Overspent(f, mp)
       /\ ~(f.costS > f.betaS) => ShadowCosted(f)
       /\ f.costS = b.costS + G.mod[b.m].shadows[b.edge].penalty /\ f.betaS = b.betaS
  <2>1. G \in Graphs /\ truth = TrueCosts(G)
    BY <1>1, <1>3
  <2>2. b.m \in Mod /\ mp[b.m].chain = FALSE
    BY <1>11
  <2>3. QED
    BY <1>8, <1>13, <1>14, <1>16, <2>1, <2>2, Penalized, Zenon
<1>18. f.x = Below.x /\ f.beta = Below.beta
  BY <1>6, <1>17
<1>19. pc' = "bound" => Overspent(f, mp')
  BY <1>15, <1>17
<1>20. Costed(f, ModeOf(pc', f))
  BY <1>15, <1>17 DEF Costed, ModeOf
<1>21. pc' \notin {"solve", "chosen", "failed"}
  BY <1>15, SMTT(30)
<1>22. SearchInv'
  BY <1>1, <1>5, <1>15, <1>18, <1>19, <1>20, <1>21, PopSearch, Zenon
<1>23. VarCosts'
  BY <1>1, <1>3, <1>15, VarsKept
<1>24. Guarded'
  BY <1>1, <1>2, <1>3, <1>11, <1>12, <1>15, GuardFails
<1>25. ModCosts' /\ ErrorsAreHonest'
  <2>1. Mod' = Mod
    BY <1>1 DEF Mod
  <2>2. ModCosts'
    BY <1>1, <1>3, <1>15, <2>1 DEF ModCosts
  <2>3. ErrorsAreHonest'
    BY <1>1, <1>3, <1>15, HonestKept
  <2>4. QED
    BY <2>2, <2>3
<1>26. QED
  BY <1>1, <1>3, <1>22, <1>23, <1>24, <1>25 DEF CostInv

(* A root whose search failed has no chain.                                *)
LEMMA OptRootFailed ==
    ASSUME RunInv, CostInv, SearchInv, XFailed, Below.where = "done"
    PROVE  CostInv' /\ pc' = "error"
<1>1. /\ G \in Graphs /\ Top.x \in Var /\ Len(X) > 1
      /\ G' = G /\ truth' = truth /\ have' = have
      /\ arg.cost \in Nat /\ arg.cost <= truth[Top.x] /\ Top.beta < arg.cost
      /\ \A y \in Var : sp'[y].chain = sp[y].chain /\ sp'[y].value = sp[y].value
      /\ \A y \in Var : /\ sp'[y].chain = sp[y].chain /\ sp'[y].value = sp[y].value
                        /\ sp'[y].cost <= truth[y]
                        /\ sp'[y].chain # None => sp'[y].cost = sp[y].cost
  BY FailedIs
<1>2. TypeInv
  BY DEF RunInv
<1>3. truth = TrueCosts(G) /\ VarCosts /\ ModCosts /\ Guarded /\ ErrorsAreHonest
  BY DEF CostInv
<1>4. truth \in [Var -> 0 .. Inf] /\ Inf \in Nat /\ MaxCost \in Nat
  BY <1>1, <1>3, TruthIs, SolverAssumption
<1>5. Top.beta = MaxCost
  BY <1>1, BelowCosted DEF Allowed
<1>6. Top.x \notin Computable(G)
  <2>1. truth[Top.x] \in 0 .. Inf
    BY <1>1, <1>4
  <2>2. truth[Top.x] > MaxCost
    BY <1>1, <1>4, <1>5, <2>1
  <2>3. ASSUME Top.x \in Computable(G) PROVE FALSE
    <3>1. truth[Top.x] <= MaxCost
      BY <1>1, <1>3, <2>3, RangeAssumption
    <3>2. QED
      BY <1>4, <2>1, <2>2, <3>1
  <2>4. QED
    BY <2>3
<1>7. /\ mp' = mp /\ sw' = sw /\ pc' = "error" /\ status'.code = "CHAIN" /\ status'.of = Top.x
  BY DEF XFailed, Error
<1>8. VarCosts'
  BY <1>1, <1>3, <1>7, VarsKept
<1>9. ModCosts'
  BY <1>1, <1>3, <1>7 DEF ModCosts, Mod
<1>10. Guarded'
  <2>1. \A y \in Var : sp[y].value \in BOOLEAN
    BY <1>2 DEF TypeInv, VarState
  <2>2. QED
    BY <1>1, <1>3, <1>7, <2>1, GuardedKept
<1>11. ErrorsAreHonest'
  BY <1>1, <1>6, <1>7 DEF ErrorsAreHonest
<1>12. QED
  BY <1>1, <1>3, <1>7, <1>8, <1>9, <1>10, <1>11 DEF CostInv

LEMMA OptXFailed ==
    ASSUME RunInv, CostInv, SearchInv, XFailed
    PROVE  CostInv' /\ (pc' # "error" => SearchInv')
<1>1. Len(X) > 1
  BY DEF XFailed, RunInv, Where, Searching
<1>2. Below.where \in {"done", "shadow", "param"}
  BY <1>1, BelowIs
<1>3. QED
  BY <1>2, OptParamFailed, OptShadowFailed, OptRootFailed, SMTT(30)

-----------------------------------------------------------------------------
(* Values, roots and the driver.                                           *)

(* Steps that change neither costs nor chains nor the work stack.          *)
LEMMA OptQuiet ==
    ASSUME RunInv, CostInv, SearchInv,
           G' = G, truth' = truth, sp' = sp, mp' = mp, sw' = sw, X' = X, have \subseteq have',
           status' = status \/ status'.code \notin {"CHAIN", "NYI"},
           pc' # "error" /\ Len(X) > 1 => pc \in Deciding /\ pc' \in Deciding,
           pc' = "solve" => arg'.beta = Allowed(Top)
    PROVE  CostInv' /\ (pc' # "error" => SearchInv')
<1>1. TypeInv
  BY DEF RunInv
<1>2. \A x \in Var : sp[x].value = TRUE => sp[x].chain # None
  BY DEF CostInv, VarCosts
<1>3. CostInv'
  BY <1>1, <1>2, CostsKept
<1>4. ASSUME pc' # "error" PROVE SearchInv'
  BY <1>4, SearchKept
<1>5. QED
  BY <1>3, <1>4

LEMMA OptComputeValue ==
    ASSUME RunInv, CostInv, SearchInv, ComputeValue
    PROVE  CostInv' /\ (pc' # "error" => SearchInv')
<1>1. /\ TypeInv /\ pc = "value" /\ arg.x \in Var
      /\ mp \in [Mod -> ModState] /\ sp \in [Var -> VarState]
  BY DEF ComputeValue, RunInv, TypeInv, Where
<1>2. G' = G /\ truth' = truth /\ X' = X /\ sw' = sw /\ have' = have
  BY DEF ComputeValue, graph_vars, root_vars
<1>3. \A x \in Var : sp[x].value = TRUE => sp[x].chain # None
  BY DEF CostInv, VarCosts
<1>4. CASE sp[arg.x].chain = None
  <2>1. sp' = sp /\ mp' = mp /\ pc' = "error" /\ status'.code = "ASSERT"
    BY <1>4 DEF ComputeValue, Error
  <2>2. CostInv'
    BY <1>1, <1>2, <1>3, <2>1, CostsKept
  <2>3. QED
    BY <2>1, <2>2
<1>5. CASE sp[arg.x].chain # None
  <2>1. PICK m : m = sp[arg.x].chain.m
    OBVIOUS
  <2>2. m \in Mod
    BY <1>1, <1>5, <2>1 DEF VarState, Link
  <2>3. /\ sp' = [sp EXCEPT ![arg.x].value = TRUE] /\ mp' = [mp EXCEPT ![m].value = TRUE]
        /\ pc' \in {"args", "unpack"} /\ status' = status
    BY <1>5, <2>1 DEF ComputeValue
  <2>4. /\ \A x \in Var : x # arg.x => sp'[x] = sp[x]
        /\ sp'[arg.x].cost = sp[arg.x].cost /\ sp'[arg.x].chain = sp[arg.x].chain
        /\ sp'[arg.x].value = TRUE
    <3>1. sp[arg.x] \in VarState
      BY <1>1
    <3>2. QED
      BY <1>1, <2>3, <3>1 DEF VarState
  <2>5. \A l \in Mod : mp'[l].cost = mp[l].cost /\ mp'[l].chain = mp[l].chain
    <3>1. mp[m] \in ModState
      BY <1>1, <2>2
    <3>2. QED
      BY <1>1, <2>2, <2>3, <3>1 DEF ModState
  <2>6. \A x \in Var : /\ sp'[x].cost = sp[x].cost /\ sp'[x].chain = sp[x].chain
                       /\ sp[x].value = TRUE => sp'[x].value = TRUE
                       /\ sp'[x].value = TRUE => sp'[x].chain # None
    BY <1>3, <1>5, <2>4
  <2>7. CostInv'
    BY <1>1, <1>2, <2>3, <2>5, <2>6, CostsKept
  <2>8. pc \in Deciding /\ pc' \in Deciding /\ pc' # "solve"
    BY <1>1, <2>3 DEF Deciding
  <2>9. SearchInv'
    BY <1>2, <2>6, <2>8, SearchKept
  <2>10. QED
    BY <2>7, <2>9
<1>6. QED
  BY <1>4, <1>5

LEMMA OptCompute ==
    ASSUME RunInv, CostInv, SearchInv, Compute
    PROVE  CostInv' /\ (pc' # "error" => SearchInv')
<1>1. CASE ComputeValue
  BY <1>1, OptComputeValue
<1>2. CASE Args
  <2>1. /\ G' = G /\ truth' = truth /\ sp' = sp /\ mp' = mp /\ sw' = sw /\ X' = X
        /\ have' = have /\ status' = status /\ pc = "args" /\ pc' \in {"args", "value"}
    BY <1>2, Zenon DEF Args, graph_vars, root_vars
  <2>2. pc \in Deciding /\ pc' \in Deciding /\ pc' # "solve" /\ have \subseteq have'
    BY <2>1 DEF Deciding
  <2>3. QED
    BY <2>1, <2>2, OptQuiet
<1>3. CASE Modcall
  <2>1. /\ G' = G /\ truth' = truth /\ sp' = sp /\ mp' = mp /\ sw' = sw /\ X' = X
        /\ have' = have /\ status'.code \notin {"CHAIN", "NYI"} /\ pc = "args" /\ pc' = "yield"
    BY <1>3 DEF Modcall, Vref, graph_vars, root_vars, search_vars
  <2>2. pc \in Deciding /\ pc' \in Deciding /\ pc' # "solve" /\ have \subseteq have'
    BY <2>1 DEF Deciding
  <2>3. QED
    BY <2>1, <2>2, OptQuiet
<1>4. CASE Unpack
  <2>1. /\ G' = G /\ truth' = truth /\ sp' = sp /\ mp' = mp /\ sw' = sw /\ X' = X
        /\ have' = have /\ status' = status /\ pc = "unpack" /\ pc' \in {"args", "check", "values"}
        /\ Len(X) > 1 => pc' \in {"args", "check"}
    BY <1>4 DEF Unpack, graph_vars, root_vars, search_vars
  <2>2. /\ pc' # "solve" /\ have \subseteq have'
        /\ Len(X) > 1 => pc \in Deciding /\ pc' \in Deciding
    BY <2>1 DEF Deciding
  <2>3. QED
    BY <2>1, <2>2, OptQuiet
<1>5. QED
  BY <1>1, <1>2, <1>3, <1>4 DEF Compute

(* The first frame of the work stack lets roots cost up to MaxCost.        *)
LEMMA BaseAllows ==
    ASSUME RunInv, Len(X) = 1
    PROVE  Allowed(Top) = MaxCost
<1>1. X[1] = Base
  BY DEF RunInv, StackInv, Stacked
<1>2. Top = Base
  BY <1>1 DEF Top
<1>3. QED
  BY <1>2 DEF Allowed, Base

LEMMA OptSolve ==
    ASSUME RunInv, CostInv, SearchInv, Solve
    PROVE  CostInv' /\ (pc' # "error" => SearchInv')
<1>1. pc \in Passing
  BY DEF Solve, Start, Givens, Chains, Values, Collect, Passing
<1>2. Len(X) = 1
  BY <1>1 DEF RunInv, Where
<1>3. ~(Len(X) > 1)
  BY <1>2
<1>4. /\ G' = G /\ truth' = truth /\ sp' = sp /\ mp' = mp /\ sw' = sw /\ X' = X /\ have' = have
      /\ status' = status \/ status'.code \notin {"CHAIN", "NYI"}
  <2>1. CASE Start
    BY <2>1 DEF Start, graph_vars, search_vars
  <2>2. CASE Givens
    BY <2>2 DEF Givens, Vref, graph_vars, search_vars
  <2>3. CASE Chains
    BY <2>3 DEF Chains, graph_vars
  <2>4. CASE Values
    BY <2>4 DEF Values, graph_vars
  <2>5. CASE Collect
    BY <2>5 DEF Collect, graph_vars, search_vars
  <2>6. QED
    BY <2>1, <2>2, <2>3, <2>4, <2>5 DEF Solve
<1>5. ASSUME pc' = "solve" PROVE arg'.beta = Allowed(Top)
  <2>1. ~Start /\ ~Givens /\ ~Values /\ ~Collect
    BY <1>1, <1>5 DEF Start, Givens, Values, Collect, Vref
  <2>2. Chains
    BY <2>1 DEF Solve
  <2>3. arg' = [arg EXCEPT !.x = Root[cur.j], !.beta = MaxCost]
    BY <1>5, <2>2 DEF Chains
  <2>4. arg \in [x : Var \cup {None}, beta : Int, cost : Int]
    BY DEF RunInv, TypeInv
  <2>5. arg'.beta = MaxCost
    BY <2>3, <2>4
  <2>6. QED
    BY <1>2, <2>5, BaseAllows
<1>6. QED
  BY <1>3, <1>4, <1>5, OptQuiet

LEMMA OptDriver ==
    ASSUME RunInv, CostInv, SearchInv,
           \/ \E r \in G.roots : SetRoot(r)
           \/ \E y \in G.given : SetValue(y)
           \/ Continue
    PROVE  CostInv' /\ (pc' # "error" => SearchInv')
<1>1. pc = "yield"
  BY DEF SetRoot, SetValue, Continue, Suspended
<1>2. CASE \E r \in G.roots : SetRoot(r)
  <2>1. /\ G' = G /\ truth' = truth /\ sp' = sp /\ mp' = mp /\ sw' = sw /\ X' = X
        /\ have' = have /\ status' = status /\ pc' = pc
    BY <1>2 DEF SetRoot, graph_vars, search_vars
  <2>2. pc \in Deciding /\ pc' \in Deciding /\ pc' # "solve" /\ have \subseteq have'
    BY <1>1, <2>1 DEF Deciding
  <2>3. QED
    BY <2>1, <2>2, OptQuiet
<1>3. CASE \E y \in G.given : SetValue(y)
  <2>1. /\ G' = G /\ truth' = truth /\ sp' = sp /\ mp' = mp /\ sw' = sw /\ X' = X
        /\ have \subseteq have'
        /\ status' = status \/ status'.code = "INVAL"
        /\ pc' = pc \/ pc' = "error"
    BY <1>3 DEF SetValue, Error, graph_vars, search_vars
  <2>2. /\ pc' # "solve"
        /\ pc' # "error" => pc \in Deciding /\ pc' \in Deciding
    BY <1>1, <2>1 DEF Deciding
  <2>3. QED
    BY <2>1, <2>2, OptQuiet
<1>4. CASE Continue
  <2>1. /\ G' = G /\ truth' = truth /\ sp' = sp /\ mp' = mp /\ sw' = sw /\ X' = X /\ have' = have
    BY <1>4 DEF Continue, graph_vars, search_vars, root_vars
  <2>2. \/ status.code = "OK" /\ Len(X) = 1
        \/ status.code = "MODCALL"
        \/ status.code = "VREF"
    BY <1>1 DEF RunInv, Where
  <2>3. status' = status \/ status'.code = "NVALUE"
    <3>1. CASE status.code = "OK" /\ Len(X) = 1
      BY <1>4, <3>1 DEF Continue
    <3>2. CASE status.code = "MODCALL"
      BY <1>4, <3>2 DEF Continue
    <3>3. CASE status.code = "VREF"
      BY <1>4, <3>3 DEF Continue, Error
    <3>4. QED
      BY <2>2, <3>1, <3>2, <3>3
  <2>4. /\ pc' \in {"start", "unpack", "args", "shadow", "givens", "error"}
        /\ Len(X) > 1 => pc' \in {"unpack", "args", "shadow", "error"}
    <3>1. CASE status.code = "OK" /\ Len(X) = 1
      <4>1. ~(Len(X) > 1) /\ pc' = "start"
        BY <1>4, <3>1 DEF Continue
      <4>2. QED
        BY <4>1
    <3>2. CASE status.code = "MODCALL"
      BY <1>4, <3>2 DEF Continue
    <3>3. CASE status.code = "VREF"
      BY <1>4, <3>3 DEF Continue, Error
    <3>4. QED
      BY <2>2, <3>1, <3>2, <3>3
  <2>5. /\ pc' # "solve" /\ have \subseteq have'
        /\ pc' # "error" /\ Len(X) > 1 => pc \in Deciding /\ pc' \in Deciding
    BY <1>1, <2>1, <2>4 DEF Deciding
  <2>6. QED
    BY <2>1, <2>3, <2>5, OptQuiet
<1>5. QED
  BY <1>2, <1>3, <1>4

-----------------------------------------------------------------------------
(* The invariant, and what follows from it.                                *)

LEMMA OptInitially == Init => OptInv
<1> SUFFICES ASSUME Init PROVE OptInv
  OBVIOUS
<1>1. /\ G \in Graphs /\ truth = TrueCosts(G) /\ pc = "start" /\ X = <<Base>>
      /\ sp = [x \in Var |-> [cost |-> 0, chain |-> None, value |-> FALSE]]
      /\ mp = [m \in Mod |-> [cost |-> G.mod[m].cmin, chain |-> FALSE, value |-> FALSE]]
      /\ sw = [w \in DOMAIN G.shadow |-> "none"]
      /\ status = [code |-> "OK", of |-> None, touch |-> FALSE]
  BY DEF Init, Base
<1>2. truth \in [Var -> 0 .. Inf] /\ Inf \in Nat
  BY <1>1, TruthIs, SolverAssumption
<1>3. VarCosts
  <2>1. \A x \in Var : sp[x].cost = 0 /\ sp[x].chain = None /\ sp[x].value = FALSE
    BY <1>1
  <2>2. \A x \in Var : 0 <= truth[x]
    <3>1. \A x \in Var : truth[x] \in 0 .. Inf
      BY <1>2
    <3>2. QED
      BY <1>2, <3>1
  <2>3. QED
    BY <2>1, <2>2 DEF VarCosts
<1>4. ModCosts
  <2>1. ASSUME NEW m \in Mod
        PROVE  /\ mp[m].cost = G.mod[m].cmin /\ mp[m].chain = FALSE
               /\ Cap(G.mod[m].k) <= G.mod[m].cmin
               /\ G.mod[m].cmin <= ModelCost(G, m, truth)
    <3>1. G.mod[m].cmin <= ModelCost(G, m, truth)
      <4>1. m \in DOMAIN G.mod
        BY DEF Mod
      <4>2. QED
        BY <1>1, <4>1, SolverAssumption
    <3>2. PICK k \in Nat, cmin \in Nat : k = G.mod[m].k /\ cmin = G.mod[m].cmin /\ k <= cmin
      <4>1. m \in DOMAIN G.mod /\ IsGraph(G)
        BY <1>1, SolverAssumption DEF Mod
      <4>2. G.mod[m].k \in Nat /\ G.mod[m].cmin \in Nat /\ G.mod[m].cmin >= G.mod[m].k
        BY <4>1, Zenon DEF IsGraph
      <4>3. QED
        BY <4>2
    <3>3. Cap(k) <= cmin
      BY <1>2, <3>2 DEF Cap, Smaller
    <3>4. mp[m].cost = G.mod[m].cmin /\ mp[m].chain = FALSE
      BY <1>1
    <3>5. QED
      BY <3>1, <3>2, <3>3, <3>4
  <2>2. QED
    BY <2>1 DEF ModCosts
<1>5. Guarded
  BY <1>1 DEF Guarded
<1>6. ErrorsAreHonest
  BY <1>1 DEF ErrorsAreHonest
<1>7. Len(X) = 1
  BY <1>1
<1>8. SearchInv
  <2>1. CostStack(X)
    BY <1>1 DEF CostStack
  <2>2. TopCost
    BY <1>1 DEF TopCost
  <2>3. Marked
    BY <1>1 DEF Marked
  <2>4. QED
    BY <2>1, <2>2, <2>3 DEF SearchInv
<1>9. DOMAIN sw = DOMAIN G.shadow
  BY <1>1
<1>10. QED
  BY <1>1, <1>3, <1>4, <1>5, <1>6, <1>8, <1>9 DEF OptInv, CostInv

LEMMA OptNext ==
    ASSUME RunInv, CostInv, SearchInv, Next, pc # "error"
    PROVE  CostInv' /\ (pc' # "error" => SearchInv')
<1>1. CASE SelectChain
  <2>1. CASE XSolve
    BY <2>1, OptXSolve
  <2>2. CASE Candidate
    BY <2>2, OptCandidate
  <2>3. CASE ShadowsDone
    BY <2>3, OptShadowsDone
  <2>4. CASE ShadowEdgePassed
    BY <2>4, OptShadowEdgePassed
  <2>5. CASE Shadow
    BY <2>5, OptShadow
  <2>6. CASE Check
    BY <2>6, OptCheck
  <2>7. CASE Param
    BY <2>7, OptParam
  <2>8. CASE ParamEdgeDone
    BY <2>8, OptParamEdgeDone
  <2>9. CASE ChainSolved
    BY <2>9, OptChainSolved
  <2>10. CASE XChosen
    BY <2>10, OptXChosen
  <2>11. CASE XFailed
    BY <2>11, OptXFailed
  <2>12. CASE XBound
    BY <2>12, OptXBound
  <2>13. QED
    BY <1>1, <2>1, <2>2, <2>3, <2>4, <2>5, <2>6, <2>7, <2>8, <2>9, <2>10, <2>11, <2>12
       DEF SelectChain
<1>2. CASE Compute
  BY <1>2, OptCompute
<1>3. CASE Solve
  BY <1>3, OptSolve
<1>4. CASE (\E r \in G.roots : SetRoot(r)) \/ (\E y \in G.given : SetValue(y)) \/ Continue
  BY <1>4, OptDriver
<1>5. ~ContinueError
  BY DEF ContinueError
<1>6. QED
  BY <1>1, <1>2, <1>3, <1>4, <1>5 DEF Next, Solver

(* The marks stay those of the graph's shadows.                            *)
LEMMA MarksKept ==
    ASSUME RunInv, DOMAIN sw = DOMAIN G.shadow, Next
    PROVE  G' = G /\ DOMAIN sw' = DOMAIN G'.shadow
<1>1. CASE SelectChain
  <2>1. CASE XSolve \/ Candidate \/ ShadowsDone \/ ShadowEdgePassed \/ Param \/ ParamEdgeDone
    BY <2>1 DEF XSolve, Candidate, ShadowsDone, ShadowEdgePassed, Param, ParamEdgeDone, graph_vars
  <2>2. CASE ChainSolved \/ XChosen \/ XBound
    BY <2>2 DEF ChainSolved, XChosen, XBound, graph_vars
  <2>3. CASE Shadow
    BY <2>3 DEF Shadow, graph_vars
  <2>4. CASE Check
    BY <2>4 DEF Check, graph_vars
  <2>5. CASE XFailed
    <3>1. Len(X) > 1
      BY <2>5 DEF XFailed, RunInv, Where, Searching
    <3>2. Below.where \in {"done", "shadow", "param"}
      BY <3>1, BelowIs, SMTT(30)
    <3>3. sw' = sw \/ \E w : sw' = [sw EXCEPT ![w] = "fail"]
      BY <2>5, <3>2 DEF XFailed
    <3>4. G' = G
      BY <2>5 DEF XFailed, graph_vars
    <3>5. QED
      BY <3>3, <3>4, SMTT(30)
  <2>6. QED
    BY <1>1, <2>1, <2>2, <2>3, <2>4, <2>5 DEF SelectChain
<1>2. CASE Compute
  BY <1>2, Zenon DEF Compute, ComputeValue, Args, Modcall, Unpack, graph_vars, search_vars
<1>3. CASE Solve
  BY <1>3 DEF Solve, Start, Givens, Chains, Values, Collect, graph_vars, search_vars
<1>4. CASE (\E r \in G.roots : SetRoot(r)) \/ (\E y \in G.given : SetValue(y)) \/ Continue
  BY <1>4 DEF SetRoot, SetValue, Continue, graph_vars, search_vars
<1>5. CASE ContinueError
  BY <1>5 DEF ContinueError, vars, graph_vars
<1>6. QED
  BY <1>1, <1>2, <1>3, <1>4, <1>5 DEF Next, Solver

LEMMA OptStutters == ASSUME OptInv, UNCHANGED vars PROVE OptInv'
<1>1. /\ G' = G /\ truth' = truth /\ sp' = sp /\ mp' = mp /\ sw' = sw /\ X' = X /\ pc' = pc
      /\ arg' = arg /\ have' = have /\ status' = status
  BY DEF vars, graph_vars
<1>2. Var' = Var /\ Mod' = Mod
  BY <1>1 DEF Var, Mod
<1>3. CostInv'
  <2>1. VarCosts' /\ ModCosts'
    BY <1>1, <1>2 DEF OptInv, CostInv, VarCosts, ModCosts
  <2>2. Guarded'
    <3>1. \A x : HasValue(x)' <=> HasValue(x)
      BY <1>1 DEF HasValue
    <3>2. QED
      BY <1>1, <1>2, <3>1 DEF OptInv, CostInv, Guarded
  <2>3. ErrorsAreHonest'
    BY <1>1 DEF OptInv, CostInv, ErrorsAreHonest
  <2>4. QED
    BY <1>1, <2>1, <2>2, <2>3 DEF OptInv, CostInv
<1>4. ASSUME SearchInv PROVE SearchInv'
  <2>1. CostStack(X)'
    BY <1>1, <1>4, CostPrimes DEF SearchInv
  <2>2. Top' = Top
    BY <1>1 DEF Top
  <2>3. /\ \A f, mode : Costed(f, mode)' <=> Costed(f, mode)
        /\ \A f, mm : Overspent(f, mm)' <=> Overspent(f, mm)
        /\ \A f, cost : NotFound(f, cost)' <=> NotFound(f, cost)
        /\ \A f, cost, s, mm : GotChain(f, cost, s, mm)' <=> GotChain(f, cost, s, mm)
        /\ \A f : Allowed(f)' = Allowed(f)
    BY <1>1, FramePrimes
  <2>4. TopCost'
    <3>1. Allowed(Top)' = Allowed(Top)
      BY <2>2 DEF Allowed
    <3>2. Costed(Top, ModeOf(pc, Top))' <=> Costed(Top, ModeOf(pc, Top))
      <4>1. PICK mode : mode = ModeOf(pc, Top)
        OBVIOUS
      <4>2. ModeOf(pc, Top)' = mode
        BY <1>1, <2>2, <4>1 DEF ModeOf
      <4>3. PICK t : t = Top
        OBVIOUS
      <4>4. Costed(t, mode)' <=> Costed(t, mode)
        BY <2>3
      <4>5. QED
        BY <2>2, <4>1, <4>2, <4>3, <4>4, Zenon DEF Costed, Aimed, ShadowCosted, ParamCosted
    <3>3. QED
      BY <1>1, <1>4, <2>2, <2>3, <3>1, <3>2 DEF SearchInv, TopCost
  <2>5. Marked'
    BY <1>1, <1>2, <1>4 DEF SearchInv, Marked
  <2>6. QED
    BY <2>1, <2>4, <2>5 DEF SearchInv
<1>5. QED
  BY <1>1, <1>3, <1>4 DEF OptInv

LEMMA OptPreserved == IInv /\ OptInv /\ [Next]_vars => OptInv'
<1> SUFFICES ASSUME IInv, OptInv, [Next]_vars PROVE OptInv'
  OBVIOUS
<1>1. CASE UNCHANGED vars
  BY <1>1, OptStutters
<1>2. CASE Next /\ pc = "error"
  BY <1>2, ErrorStays, OptStutters
<1>3. CASE Next /\ pc # "error"
  <2>1. RunInv /\ CostInv /\ SearchInv
    BY <1>3 DEF IInv, OptInv
  <2>2. CostInv' /\ (pc' # "error" => SearchInv')
    BY <1>3, <2>1, OptNext
  <2>3. G' = G /\ DOMAIN sw' = DOMAIN G'.shadow
    BY <1>3, <2>1, MarksKept DEF OptInv
  <2>4. QED
    BY <2>2, <2>3 DEF OptInv
<1>4. QED
  BY <1>1, <1>2, <1>3

(* For every graph whose finite costs stay below Inf, checks with infinite *)
(* penalties included: the bounds, chains and marks of the search are      *)
(* those of an optimal one throughout S_select_chain, whatever order the   *)
(* driver answers in.                                                      *)
THEOREM SearchInvariant == Spec => []OptInv
<1>1. QED
  BY OptInitially, OptPreserved, SolverInvariant, PTL DEF Spec

(* For the same graphs: what the search records for a variable or a model  *)
(* is never more than its least cost over all chains, in no step of        *)
(* x_solve, candidate, the loops over edges, x_bound or x_failed (the      *)
(* comment on the search state calls it the most important invariant of    *)
(* the solver).                                                            *)
THEOREM BoundsAreLow == Spec => []CostsAreLowBounds
<1>1. ASSUME OptInv PROVE CostsAreLowBounds
  BY <1>1 DEF OptInv, CostInv, VarCosts, ModCosts, CostsAreLowBounds
<1>2. QED
  BY <1>1, SearchInvariant, PTL

(* For the same graphs: a chain that S_select_chain has selected is a      *)
(* cheapest one, recorded at its cost, and the model behind it is solved   *)
(* at it.                                                                  *)
THEOREM SelectedChainsOptimal == Spec => []ChainsOptimal
<1>1. ASSUME OptInv PROVE ChainsOptimal
  BY <1>1 DEF OptInv, CostInv, VarCosts, ChainsOptimal
<1>2. QED
  BY <1>1, SearchInvariant, PTL

(* For the same graphs: S_check and S_checkscan mark a shadow only by a    *)
(* value that exists, or as failed when no chain computes its variable at  *)
(* a finite cost, that is, every model of it misses a parameter or fails a *)
(* check with an infinite penalty.                                         *)
THEOREM MarksFromValues == Spec => []GuardsSawValues
<1>1. ASSUME OptInv PROVE GuardsSawValues
  <2> SUFFICES ASSUME NEW w \in DOMAIN sw, sw[w] # "none"
               PROVE  /\ HasValue(G.shadow[w].x) => (sw[w] = "pass") = G.shadow[w].ok
                      /\ ~HasValue(G.shadow[w].x) =>
                            sw[w] = "fail" /\ G.shadow[w].x \in Var \ Computable(G)
    BY DEF GuardsSawValues
  <2>1. w \in DOMAIN G.shadow /\ G \in Graphs /\ Guarded /\ VarCosts
    BY <1>1 DEF OptInv, CostInv
  <2>2. \/ HasValue(G.shadow[w].x) /\ ((sw[w] = "pass") <=> G.shadow[w].ok)
        \/ sw[w] = "fail" /\ G.shadow[w].x \in Var \ Computable(G)
    BY <2>1 DEF Guarded
  <2>3. G.shadow[w].ok \in BOOLEAN /\ Var \cap Given = {}
    BY <2>1, VarIs, SolverAssumption DEF IsGraph, Var
  <2>4. ASSUME G.shadow[w].x \in Var \ Computable(G) PROVE ~HasValue(G.shadow[w].x)
    <3>1. ~(sp[G.shadow[w].x].value = TRUE) /\ G.shadow[w].x \notin Given
      BY <2>1, <2>3, <2>4 DEF VarCosts
    <3>2. QED
      BY <3>1 DEF HasValue
  <2>5. QED
    BY <2>2, <2>3, <2>4
<1>2. QED
  BY <1>1, SearchInvariant, PTL

(* For the same graphs: the solver reports FHKE_CHAIN only for a root that *)
(* no chain computes at a finite cost, and FHKE_NYI only for a variable    *)
(* that depends on itself.                                                 *)
THEOREM ErrorsReported == Spec => []ErrorsAreHonest
<1>1. ASSUME OptInv PROVE ErrorsAreHonest
  BY <1>1 DEF OptInv, CostInv
<1>2. QED
  BY <1>1, SearchInvariant, PTL

=============================================================================
