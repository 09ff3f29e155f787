---------------------------- MODULE ArenaProofs ----------------------------
(***************************************************************************)
(* Proofs about Arena, for every size of the first chunk, every set of     *)
(* requests and number of frames: allocations in use never overlap, arenas *)
(* of outer frames stay where they are, and when a new chunk is large      *)
(* enough.                                                                 *)
(***************************************************************************)
EXTENDS Arena, WellFoundedInduction, TLAPS

-----------------------------------------------------------------------------
(* The least-number principle, for proofs by a least counterexample where  *)
(* an induction would be needed.                                           *)

(* A set of numbers has an element below which, in any well-founded        *)
(* relation that agrees with <, there is none.                             *)
LEMMA LeastByRelation ==
    ASSUME NEW R, IsWellFoundedOn(R, Nat), \A x, y \in Nat : <<y, x>> \in R <=> y < x,
           NEW T, T \subseteq Nat, T # {}
    PROVE  \E x \in T : \A y \in T : x <= y
<1>1. PICK x \in T : \A y \in T : ~(<<y, x>> \in R)
  BY WFMin
<1>2. x \in Nat /\ \A y \in T : y \in Nat /\ ~(y < x)
  BY <1>1, Zenon
<1>3. \A y \in T : x <= y
  BY <1>2
<1>4. QED
  BY <1>3

(* Every nonempty set of natural numbers has a least element.              *)
LEMMA LeastNatural ==
    ASSUME NEW T, T \subseteq Nat, T # {}
    PROVE  \E x \in T : \A y \in T : x <= y
<1>1. \A x, y \in Nat : <<y, x>> \in OpToRel(<, Nat) <=> y < x
  BY DEF OpToRel
<1>2. QED
  BY <1>1, NatLessThanWellFounded, LeastByRelation

-----------------------------------------------------------------------------
(* Functions defined by recursion on 0 .. n, one step at a time: they      *)
(* exist, and their values stay in a set that every step stays in.         *)

Recursive(f, n, base, step) ==
    f = [i \in 0 .. n |-> IF i = 0 THEN base ELSE step[<<i, f[i - 1]>>]]

LEMMA RecursionType ==
    ASSUME NEW S, NEW n \in Nat, NEW base \in S, NEW step,
           \A i \in 1 .. n : \A s \in S : step[<<i, s>>] \in S,
           NEW f, Recursive(f, n, base, step)
    PROVE  f \in [0 .. n -> S]
<1> DEFINE T == {m \in Nat : m <= n /\ f[m] \notin S}
<1>1. /\ DOMAIN f = 0 .. n /\ f[0] = base
      /\ \A i \in 1 .. n : f[i] = step[<<i, f[i - 1]>>]
  <2>1. PICK g : g = f
    OBVIOUS
  <2>2. f = [i \in 0 .. n |-> IF i = 0 THEN base ELSE step[<<i, g[i - 1]>>]]
    BY <2>1, Zenon DEF Recursive
  <2>3. /\ DOMAIN f = 0 .. n
        /\ \A i \in 0 .. n : f[i] = IF i = 0 THEN base ELSE step[<<i, g[i - 1]>>]
    BY <2>2
  <2>4. 0 \in 0 .. n /\ \A i \in 1 .. n : i \in 0 .. n /\ i # 0
    OBVIOUS
  <2>5. f[0] = base /\ \A i \in 1 .. n : f[i] = step[<<i, g[i - 1]>>]
    BY <2>3, <2>4, Zenon
  <2>6. QED
    BY <2>1, <2>3, <2>5, Zenon
<1>2. T = {}
  <2> SUFFICES ASSUME T # {} PROVE FALSE
    OBVIOUS
  <2>1. PICK x \in T : \A y \in T : x <= y
    BY LeastNatural
  <2>2. x # 0
    BY <1>1, <2>1
  <2>3. x - 1 \in Nat /\ x - 1 <= n /\ ~(x <= x - 1) /\ x \in 1 .. n
    BY <2>1, <2>2
  <2>4. f[x - 1] \in S
    BY <2>1, <2>3
  <2>5. QED
    BY <1>1, <2>1, <2>3, <2>4
<1>3. \A m \in 0 .. n : f[m] \in S
  BY <1>2
<1>4. f = [i \in 0 .. n |-> f[i]]
  BY DEF Recursive
<1>5. QED
  BY <1>3, <1>4

LEMMA RecursionExists ==
    ASSUME NEW S, NEW n \in Nat, NEW base \in S, NEW step,
           \A i \in 1 .. n : \A s \in S : step[<<i, s>>] \in S
    PROVE  \E f : Recursive(f, n, base, step)
<1> DEFINE Exists(m) == \E f : Recursive(f, m, base, step)
           T == {m \in Nat : m <= n /\ ~Exists(m)}
<1> HIDE DEF Exists
<1> SUFFICES ASSUME T # {} PROVE FALSE
  <2>1. Exists(n)
    OBVIOUS
  <2>2. QED
    BY <2>1 DEF Exists
<1>1. PICK x \in T : \A y \in T : x <= y
  BY LeastNatural
<1>2. x # 0
  <2>1. Recursive([i \in 0 .. 0 |-> base], 0, base, step)
    BY DEF Recursive
  <2>2. Exists(0)
    BY <2>1 DEF Exists
  <2>3. QED
    BY <1>1, <2>2
<1>3. x \in Nat /\ x - 1 \in Nat /\ x - 1 <= n /\ ~(x <= x - 1)
  BY <1>1, <1>2
<1>4. x - 1 \notin T
  BY <1>1, <1>3
<1>5. Exists(x - 1)
  BY <1>3, <1>4
<1>6. PICK f : Recursive(f, x - 1, base, step)
  BY <1>5 DEF Exists
<1> DEFINE g == [i \in 0 .. x |-> IF i = x THEN step[<<x, f[x - 1]>>] ELSE f[i]]
<1>7. f[0] = base /\ \A i \in 1 .. x - 1 : f[i] = step[<<i, f[i - 1]>>]
  BY <1>3, <1>6 DEF Recursive
<1>8. \A i \in 0 .. x : g[i] = IF i = 0 THEN base ELSE step[<<i, g[i - 1]>>]
  <2> SUFFICES ASSUME NEW i \in 0 .. x
               PROVE  g[i] = IF i = 0 THEN base ELSE step[<<i, g[i - 1]>>]
    OBVIOUS
  <2>1. CASE i = 0
    BY <1>2, <1>3, <1>7, <2>1
  <2>2. CASE i # 0
    <3>1. g[i - 1] = f[i - 1]
      BY <1>3, <2>2
    <3>2. g[i] = step[<<i, f[i - 1]>>]
      <4>1. CASE i = x
        BY <4>1
      <4>2. CASE i # x
        <5>1. i \in 1 .. x - 1 /\ g[i] = f[i]
          BY <1>3, <2>2, <4>2
        <5>2. QED
          BY <1>7, <5>1
      <4>3. QED
        BY <4>1, <4>2
    <3> HIDE DEF g
    <3>3. QED
      BY <2>2, <3>1, <3>2
  <2>3. QED
    BY <2>1, <2>2
<1>9. g = [i \in 0 .. x |-> g[i]]
  OBVIOUS
<1> HIDE DEF g
<1>10. Recursive(g, x, base, step)
  BY <1>8, <1>9 DEF Recursive
<1>11. QED
  BY <1>1, <1>10 DEF Exists

-----------------------------------------------------------------------------
(* Doubling a positive size reaches every size.                            *)
LEMMA DoublingFits ==
    ASSUME NEW base \in Nat \ {0}, NEW L \in Nat
    PROVE  DoubledTo(base, L) \in Nat /\ DoubledTo(base, L) >= L /\ DoubledTo(base, L) >= base
<1> DEFINE Double(c) == IF c < L THEN 2 * c ELSE c
           step == [x \in (1 .. L) \X (Nat \ {0}) |-> Double(x[2])]
           D == Rounds(base, L)
<1>2. D = CHOOSE f : f = [j \in 0 .. L |-> IF j = 0 THEN base ELSE Double(f[j - 1])]
  BY DEF Rounds
<1>3. DoubledTo(base, L) = D[L]
  BY DEF DoubledTo
<1> HIDE DEF D
<1>4. \A i \in 1 .. L : \A c \in Nat \ {0} : step[<<i, c>>] = Double(c) /\ Double(c) \in Nat \ {0}
  OBVIOUS
<1> HIDE DEF step
<1>s. \A i \in 1 .. L : \A c \in Nat \ {0} : step[<<i, c>>] \in Nat \ {0}
  BY <1>4
<1>5. PICK f : Recursive(f, L, base, step)
  <2>1. \E f : Recursive(f, L, base, step)
    BY <1>s, RecursionExists
  <2>2. QED
    BY <2>1
<1>6. f \in [0 .. L -> Nat \ {0}]
  BY <1>s, <1>5, RecursionType
<1>7. f = [j \in 0 .. L |-> IF j = 0 THEN base ELSE Double(f[j - 1])]
  <2>1. \A j \in 0 .. L : f[j] = IF j = 0 THEN base ELSE step[<<j, f[j - 1]>>]
    BY <1>5 DEF Recursive
  <2>2. \A j \in 1 .. L : step[<<j, f[j - 1]>>] = Double(f[j - 1])
    <3>1. \A j \in 1 .. L : j - 1 \in 0 .. L
      OBVIOUS
    <3>2. QED
      BY <1>4, <1>6, <3>1
  <2> HIDE DEF Double
  <2>3. \A j \in 0 .. L : j # 0 => j \in 1 .. L
    OBVIOUS
  <2>4. \A j \in 0 .. L : f[j] = IF j = 0 THEN base ELSE Double(f[j - 1])
    BY <2>1, <2>2, <2>3
  <2>5. QED
    BY <1>6, <2>4
<1>8. D = [j \in 0 .. L |-> IF j = 0 THEN base ELSE Double(D[j - 1])]
  <2> HIDE DEF Double
  <2>1. QED
    BY <1>2, <1>7
<1>9. D[0] = base /\ \A j \in 1 .. L : D[j] = Double(D[j - 1])
  <2> HIDE DEF Double
  <2>1. QED
    BY <1>8
<1> DEFINE Reached(j) == D[j] \in Nat \ {0} /\ D[j] >= base /\ (D[j] >= L \/ D[j] > j)
           T == {j \in Nat : j <= L /\ ~Reached(j)}
<1>10. T = {}
  <2> SUFFICES ASSUME T # {} PROVE FALSE
    OBVIOUS
  <2>1. PICK x \in T : \A y \in T : x <= y
    BY LeastNatural
  <2>2. x # 0
    BY <1>9, <2>1
  <2>3. x - 1 \in Nat /\ x - 1 <= L /\ ~(x <= x - 1) /\ x \in 1 .. L
    BY <2>1, <2>2
  <2>4. Reached(x - 1)
    BY <2>1, <2>3
  <2>5. D[x] = Double(D[x - 1])
    BY <1>9, <2>3
  <2>6. Reached(x)
    BY <2>3, <2>4, <2>5
  <2>7. QED
    BY <2>1, <2>6
<1>11. Reached(L)
  BY <1>10
<1>12. QED
  BY <1>3, <1>11

-----------------------------------------------------------------------------
(* Arithmetic.                                                             *)

(* Aligning moves an address up by less than the alignment.                *)
LEMMA AlignBounds ==
    ASSUME NEW n \in Nat, NEW m \in Nat \ {0}
    PROVE  Align(n, m) \in Nat /\ n <= Align(n, m) /\ Align(n, m) < n + m
<1>1. n + m - 1 \in Nat
  OBVIOUS
<1>2. (n + m - 1) % m \in 0 .. m - 1
  BY <1>1
<1>3. QED
  BY <1>1, <1>2 DEF Align

(* What a successful bump gives: an address from the pointer on, with the  *)
(* allocation below the end.                                               *)
LEMMA BumpBounds ==
    ASSUME NEW mem \in Nat, NEW size \in Nat, NEW align \in Nat \ {0}, NEW end \in Nat,
           Bump(mem, size, align, end) # NULL
    PROVE  /\ Bump(mem, size, align, end) \in Nat
           /\ mem <= Bump(mem, size, align, end)
           /\ Bump(mem, size, align, end) + size < end
BY AlignBounds DEF Bump

(* No chunk is smaller than the first.                                     *)
Sizes == {n \in Nat : n >= InitSize}

(* The doubled size is large enough for the request with its alignment.    *)
LEMMA NewSizeFits ==
    ASSUME chunks \in Seq(Sizes), chunks # <<>>, NEW r \in Requests
    PROVE  /\ NewSize(r[1], r[2]) \in Sizes
           /\ NewSize(r[1], r[2]) >= r[1] + r[2] - 1 /\ NewSize(r[1], r[2]) >= 2 * InitSize
<1>1. PICK n \in Nat : n = r[1] + r[2] - 1
  BY NumbersAssumption
<1>2. chunks[Len(chunks)] \in Sizes
  BY DEF Sizes
<1>3. PICK base \in Nat \ {0} : base = 2 * chunks[Len(chunks)] /\ base >= 2 * InitSize
  BY <1>2, NumbersAssumption DEF Sizes
<1>4. NewSize(r[1], r[2]) = DoubledTo(base, n)
  BY <1>1, <1>3 DEF NewSize
<1>5. DoubledTo(base, n) \in Nat /\ DoubledTo(base, n) >= n /\ DoubledTo(base, n) >= base
  BY DoublingFits
<1>6. QED
  BY <1>1, <1>3, <1>4, <1>5, NumbersAssumption DEF Sizes

-----------------------------------------------------------------------------
(* An arena struct points into its chunk; what was allocated on the way to *)
(* a state lies inside the chunks, does not overlap, and is behind the     *)
(* struct that the state uses.                                             *)

Placed(cs, a) ==
    /\ a \in ArenaStruct /\ a.chunk \in 1 .. Len(cs)
    /\ Start <= a.mem /\ a.end = Start + cs[a.chunk]

Past(x, a) == x.chunk < a.chunk \/ (x.chunk = a.chunk /\ x.hi <= a.mem)

Sound(cs, s) ==
    /\ \A i \in DOMAIN s.allocs : LET x == s.allocs[i] IN
          /\ x.chunk \in 1 .. Len(cs)
          /\ Start <= x.lo /\ x.lo <= x.hi /\ x.hi <= Start + cs[x.chunk]
    /\ \A i, j \in DOMAIN s.allocs : i # j => ~Overlap(s.allocs[i], s.allocs[j])

Ahead(cs, s, a) ==
    /\ s \in State /\ Sound(cs, s) /\ Placed(cs, a)
    /\ \A i \in DOMAIN s.allocs : Past(s.allocs[i], a)

Keeps(cs, ds) == Len(cs) <= Len(ds) /\ \A c \in 1 .. Len(cs) : ds[c] = cs[c]

(* Every way in which a request is met moves the struct forward and gives  *)
(* memory in front of where it was.                                        *)
LEMMA AllocMoves ==
    ASSUME chunks \in Seq(Sizes), chunks # <<>>, NEW a, Placed(chunks, a), NEW q \in Requests
    PROVE  LET r == ArenaAlloc(a, q[1], q[2]) IN
           /\ r.chunks \in Seq(Sizes) /\ r.chunks # <<>> /\ Keeps(chunks, r.chunks)
           /\ Placed(r.chunks, r.arena)
           /\ a.chunk < r.arena.chunk \/ (a.chunk = r.arena.chunk /\ a.mem <= r.arena.mem)
           /\ r.p # NULL =>
                 /\ r.p \in Nat /\ Start <= r.p /\ r.p + q[1] = r.arena.mem
                 /\ r.chunk = r.arena.chunk /\ r.arena.mem <= r.arena.end
                 /\ a.chunk < r.chunk \/ a.mem <= r.p
<1> DEFINE size == q[1]
           align == q[2]
           r == ArenaAlloc(a, size, align)
           p == Bump(a.mem, size, align, a.end)
           roomy == Roomy(a, size, align)
           Moved(t) == /\ t.chunks \in Seq(Sizes) /\ t.chunks # <<>> /\ Keeps(chunks, t.chunks)
                       /\ Placed(t.chunks, t.arena)
                       /\ \/ a.chunk < t.arena.chunk
                          \/ a.chunk = t.arena.chunk /\ a.mem <= t.arena.mem
                       /\ t.p # NULL =>
                             /\ t.p \in Nat /\ Start <= t.p /\ t.p + size = t.arena.mem
                             /\ t.chunk = t.arena.chunk /\ t.arena.mem <= t.arena.end
                             /\ a.chunk < t.chunk \/ a.mem <= t.p
<1>1. size \in Nat /\ align \in Nat \ {0} /\ Start \in Nat
  BY NumbersAssumption
<1>2. /\ a \in ArenaStruct /\ a.chunk \in Nat /\ a.mem \in Nat /\ a.end \in Nat
      /\ a.chunk \in 1 .. Len(chunks) /\ Start <= a.mem /\ a.end = Start + chunks[a.chunk]
  BY DEF Placed, ArenaStruct
<1>3. NewSize(size, align) \in Sizes
  BY NewSizeFits
<1> HIDE DEF size, align
<1>4. ASSUME p # NULL PROVE Moved(FromOwn(a, p, size))
  <2>1. p \in Nat /\ a.mem <= p /\ p + size < a.end
    BY <1>1, <1>2, <1>4, BumpBounds
  <2> HIDE DEF p
  <2>2. FromOwn(a, p, size) = [chunks |-> chunks, arena |-> [a EXCEPT !.mem = p + size],
                               chunk |-> a.chunk, p |-> p]
    BY DEF FromOwn
  <2>3. [a EXCEPT !.mem = p + size]
          = [chunk |-> a.chunk, mem |-> p + size, end |-> a.end]
    BY <1>2 DEF ArenaStruct
  <2>4. QED
    BY <1>1, <1>2, <2>1, <2>2, <2>3 DEF Placed, Keeps, ArenaStruct
<1>5. ASSUME NEW c \in roomy PROVE Moved(FromLater(a, c, size, align))
  <2> DEFINE pc == Bump(Start, size, align, Start + chunks[c])
  <2>1. c \in a.chunk + 1 .. Len(chunks) /\ pc # NULL
    BY <1>5 DEF Roomy
  <2>2. c \in 1 .. Len(chunks) /\ a.chunk < c /\ c \in Nat /\ chunks[c] \in Nat
    BY <1>2, <2>1 DEF Sizes
  <2>3. pc \in Nat /\ Start <= pc /\ pc + size < Start + chunks[c]
    BY <1>1, <2>1, <2>2, BumpBounds
  <2>4. FromLater(a, c, size, align)
          = [chunks |-> chunks, chunk |-> c, p |-> pc,
             arena |-> [chunk |-> c, mem |-> pc + size, end |-> Start + chunks[c]]]
    BY DEF FromLater
  <2> HIDE DEF pc
  <2>5. QED
    BY <1>1, <1>2, <2>2, <2>3, <2>4 DEF Placed, Keeps, ArenaStruct
<1>6. Moved(FromNew(size, align))
  <2> DEFINE n == NewSize(size, align)
             pn == Bump(Start, size, align, Start + n)
             c == Len(chunks) + 1
  <2>1. n \in Nat \ {0} /\ n \in Sizes
    BY <1>3, NumbersAssumption DEF Sizes
  <2>2. pn # NULL => pn \in Nat /\ Start <= pn /\ pn + size < Start + n
    BY <1>1, <2>1, BumpBounds
  <2>3. FromNew(size, align)
          = [chunks |-> Append(chunks, n), chunk |-> c, p |-> pn,
             arena |-> [chunk |-> c, mem |-> IF pn = NULL THEN Start ELSE pn + size,
                        end |-> Start + n]]
    BY DEF FromNew
  <2> HIDE DEF n, pn
  <2>4. /\ Append(chunks, n) \in Seq(Sizes) /\ Len(Append(chunks, n)) = c
        /\ Append(chunks, n)[c] = n /\ c \in Nat
        /\ \A i \in 1 .. Len(chunks) : Append(chunks, n)[i] = chunks[i]
    BY <2>1
  <2>5. Keeps(chunks, Append(chunks, n)) /\ Append(chunks, n) # <<>>
    BY <2>4 DEF Keeps
  <2>6. a.chunk < c /\ 1 <= c
    BY <1>2
  <2> HIDE DEF c
  <2>7. QED
    BY <1>1, <2>1, <2>2, <2>3, <2>4, <2>5, <2>6 DEF Placed, ArenaStruct
<1>7. roomy # {} => (CHOOSE c \in roomy : \A d \in roomy : c <= d) \in roomy
  <2>1. roomy \subseteq Nat
    BY <1>2 DEF Roomy
  <2> HIDE DEF roomy
  <2>2. QED
    BY <2>1, LeastNatural
<1>8. Moved(r)
  <2>1. r = IF p # NULL THEN FromOwn(a, p, size)
            ELSE IF roomy # {}
            THEN FromLater(a, CHOOSE c \in roomy : \A d \in roomy : c <= d, size, align)
            ELSE FromNew(size, align)
    BY DEF ArenaAlloc
  <2> HIDE DEF r, p, roomy, Moved
  <2>2. QED
    BY <1>4, <1>5, <1>6, <1>7, <2>1
<1>9. QED
  BY <1>8 DEF size, align

(* A struct that has moved forward is still past everything.               *)
LEMMA AheadMoves ==
    ASSUME NEW cs \in Seq(Sizes), NEW ds \in Seq(Sizes), Keeps(cs, ds), NEW s, NEW a, NEW b,
           Ahead(cs, s, a), Placed(ds, b),
           a.chunk < b.chunk \/ (a.chunk = b.chunk /\ a.mem <= b.mem)
    PROVE  Ahead(ds, s, b)
<1>1. \A i \in DOMAIN s.allocs : s.allocs[i] \in Region
  <2>1. s.allocs \in Seq(Region)
    BY DEF Ahead, State
  <2>2. QED
    BY <2>1
<1>2. /\ a.chunk \in Nat /\ a.mem \in Nat /\ b.chunk \in Nat /\ b.mem \in Nat
  BY DEF Ahead, Placed, ArenaStruct
<1>3. \A i \in DOMAIN s.allocs : Past(s.allocs[i], b)
  BY <1>1, <1>2 DEF Ahead, Past, Region
<1>4. Sound(ds, s)
  BY <1>1 DEF Ahead, Sound, Keeps, Region
<1>5. QED
  BY <1>3, <1>4 DEF Ahead

(* So it is after the allocation that moved it.                            *)
LEMMA AheadAllocates ==
    ASSUME NEW cs \in Seq(Sizes), NEW ds \in Seq(Sizes), Keeps(cs, ds), NEW s, NEW a, NEW b,
           Ahead(cs, s, a), Placed(ds, b), NEW p \in Nat, NEW size \in Nat,
           a.chunk < b.chunk \/ (a.chunk = b.chunk /\ a.mem <= p),
           Start <= p, b.mem = p + size, b.mem <= b.end
    PROVE  Ahead(ds, [s EXCEPT !.allocs = Append(@, [chunk |-> b.chunk, lo |-> p, hi |-> p + size])], b)
<1> DEFINE x == [chunk |-> b.chunk, lo |-> p, hi |-> p + size]
           xs == Append(s.allocs, x)
           t == [s EXCEPT !.allocs = xs]
<1>1. /\ a.chunk \in Nat /\ a.mem \in Nat /\ b.chunk \in Nat /\ b.mem \in Nat
      /\ b.chunk \in 1 .. Len(ds) /\ b.end = Start + ds[b.chunk]
  BY DEF Ahead, Placed, ArenaStruct
<1>2. s.allocs \in Seq(Region) /\ s \in State
  BY DEF Ahead, State
<1>3. x \in Region /\ x.chunk = b.chunk /\ x.lo = p /\ x.hi = p + size
  BY <1>1 DEF Region
<1> HIDE DEF x
<1>4. t \in State /\ t.allocs = xs
  <2>1. xs \in Seq(Region)
    BY <1>2, <1>3
  <2> HIDE DEF xs
  <2>2. QED
    BY <1>2, <2>1 DEF State
<1>5. /\ DOMAIN xs = 1 .. Len(s.allocs) + 1 /\ DOMAIN s.allocs = 1 .. Len(s.allocs)
      /\ xs[Len(s.allocs) + 1] = x
      /\ \A i \in DOMAIN s.allocs : xs[i] = s.allocs[i]
  BY <1>2, <1>3
<1>6. \A i \in DOMAIN s.allocs : s.allocs[i] \in Region
  BY <1>2
<1>7. Ahead(ds, s, b)
  <2>1. a.chunk < b.chunk \/ (a.chunk = b.chunk /\ a.mem <= b.mem)
    BY <1>1
  <2>2. QED
    BY <2>1, AheadMoves
<1> HIDE DEF xs, t
<1>8. \A i \in DOMAIN xs : i \in DOMAIN s.allocs \/ i = Len(s.allocs) + 1
  BY <1>5, <1>2
<1>9. \A i \in DOMAIN s.allocs : ~Overlap(s.allocs[i], x) /\ ~Overlap(x, s.allocs[i])
  <2> SUFFICES ASSUME NEW i \in DOMAIN s.allocs, s.allocs[i].chunk = b.chunk
               PROVE  s.allocs[i].hi <= p
    BY <1>3, <1>6 DEF Overlap, Region
  <2>1. Past(s.allocs[i], a)
    BY DEF Ahead
  <2>2. QED
    BY <1>1, <1>6, <2>1 DEF Past, Region
<1>10. Sound(ds, t)
  <2>1. ASSUME NEW i \in DOMAIN xs
        PROVE  /\ xs[i].chunk \in 1 .. Len(ds)
               /\ Start <= xs[i].lo /\ xs[i].lo <= xs[i].hi
               /\ xs[i].hi <= Start + ds[xs[i].chunk]
    <3>1. CASE i \in DOMAIN s.allocs
      BY <1>5, <1>7, <3>1 DEF Ahead, Sound
    <3>2. CASE i = Len(s.allocs) + 1
      <4>1. xs[i] = x
        BY <1>5, <3>2
      <4>2. QED
        BY <1>1, <1>3, <4>1
    <3>3. QED
      BY <1>8, <3>1, <3>2
  <2>2. \A i, j \in DOMAIN xs : i # j => ~Overlap(xs[i], xs[j])
    BY <1>5, <1>7, <1>8, <1>9 DEF Ahead, Sound
  <2>3. QED
    BY <1>4, <2>1, <2>2 DEF Sound
<1>11. ASSUME NEW i \in DOMAIN xs
       PROVE  Past(xs[i], b)
  <2>1. CASE i \in DOMAIN s.allocs
    BY <1>5, <1>7, <2>1 DEF Ahead
  <2>2. CASE i = Len(s.allocs) + 1
    <3>1. xs[i] = x
      BY <1>5, <2>2
    <3>2. QED
      BY <1>1, <1>3, <3>1 DEF Past
  <2>3. QED
    BY <1>8, <2>1, <2>2
<1>12. QED
  BY <1>4, <1>10, <1>11 DEF Ahead, t, xs, x

-----------------------------------------------------------------------------
(* The inductive invariant.  A state uses an arena of its own frame or of  *)
(* an outer one, and a savepoint none that is deeper than those of later   *)
(* savepoints and of the current state: a frame that gets its own struct   *)
(* cannot take it from a savepoint.                                        *)

TypeInv ==
    /\ client \in {"shared", "frames"}
    /\ chunks \in Seq(Sizes) /\ chunks # <<>>
    /\ arena \in [{First} \cup Sim!Frames -> ArenaStruct \cup {NULL}]
    /\ current \in State
    /\ depth \in Sim!Frames
    /\ snap \in [Sim!Frames -> State \cup {NoSnap}]

Nested ==
    /\ \A k \in Sim!Frames : k > depth => snap[k] = NoSnap
    /\ current.ap = current.memo /\ current.ap \in First .. depth
    /\ \A k \in 0 .. depth : snap[k] # NoSnap =>
          /\ snap[k].ap = snap[k].memo /\ snap[k].ap \in First .. k
          /\ snap[k].ap <= current.ap
    /\ \A j, k \in 0 .. depth :
          j <= k /\ snap[j] # NoSnap /\ snap[k] # NoSnap => snap[j].ap <= snap[k].ap
    /\ client = "shared" =>
          depth = 0 /\ current.ap = First /\ \A k \in Sim!Frames : snap[k] = NoSnap

AllAhead ==
    /\ Ahead(chunks, current, arena[current.ap])
    /\ \A k \in 0 .. depth : snap[k] # NoSnap => Ahead(chunks, snap[k], arena[snap[k].ap])

IInv == TypeInv /\ Nested /\ AllAhead

LEMMA FramesBelow ==
    ASSUME NEW d \in Sim!Frames
    PROVE  /\ \A k \in 0 .. d : k \in Sim!Frames
           /\ \A k \in First .. d : k \in {First} \cup Sim!Frames
           /\ d \in Nat
BY NumbersAssumption DEF Sim!Frames, First

(* arena_create establishes it.                                            *)
LEMMA InitIInv == Init => IInv
<1> SUFFICES ASSUME Init PROVE IInv
  OBVIOUS
<1> USE NumbersAssumption DEF Init, First
<1>1. TypeInv
  BY DEF TypeInv, Sizes, State, Sim!Frames, ArenaStruct
<1>2. Nested
  BY DEF Nested, Sim!Frames
<1>3. AllAhead
  <2>1. Ahead(chunks, current, arena[current.ap])
    BY <1>1 DEF TypeInv, Ahead, Sound, Placed, ArenaStruct, Sizes, Sim!Frames
  <2>2. QED
    BY <2>1 DEF AllAhead, Sim!Frames
<1>4. QED
  BY <1>1, <1>2, <1>3 DEF IInv

(* Facts about a state in which the invariant holds.                       *)
LEMMA InUse ==
    ASSUME IInv
    PROVE  /\ current.ap \in {First} \cup Sim!Frames /\ current.ap \in First .. depth
           /\ Placed(chunks, arena[current.ap]) /\ arena[current.ap] \in ArenaStruct
           /\ \A k \in 0 .. depth : snap[k] # NoSnap =>
                 /\ k \in Sim!Frames /\ snap[k].ap \in {First} \cup Sim!Frames
                 /\ snap[k].ap \in First .. k /\ snap[k].ap <= current.ap
BY FramesBelow DEF IInv, TypeInv, Nested, AllAhead, Ahead, Placed

(* An allocation moves the struct in use forward, and no other.            *)
LEMMA AllocStep ==
    ASSUME IInv, NEW q \in Requests, Alloc(q[1], q[2])
    PROVE  IInv'
<1> DEFINE a == arena[current.ap]
           r == ArenaAlloc(a, q[1], q[2])
           x == [chunk |-> r.chunk, lo |-> r.p, hi |-> r.p + q[1]]
<1>1. /\ current.ap \in {First} \cup Sim!Frames /\ Placed(chunks, a)
      /\ chunks \in Seq(Sizes) /\ chunks # <<>> /\ a \in ArenaStruct
  BY InUse DEF IInv, TypeInv
<1>2. /\ r.chunks \in Seq(Sizes) /\ r.chunks # <<>> /\ Keeps(chunks, r.chunks)
      /\ Placed(r.chunks, r.arena)
      /\ a.chunk < r.arena.chunk \/ (a.chunk = r.arena.chunk /\ a.mem <= r.arena.mem)
      /\ r.p # NULL =>
            /\ r.p \in Nat /\ Start <= r.p /\ r.p + q[1] = r.arena.mem
            /\ r.chunk = r.arena.chunk /\ r.arena.mem <= r.arena.end
            /\ a.chunk < r.chunk \/ a.mem <= r.p
  BY <1>1, AllocMoves
<1>3. /\ chunks' = r.chunks /\ arena' = [arena EXCEPT ![current.ap] = r.arena]
      /\ current' = IF r.p = NULL THEN current ELSE [current EXCEPT !.allocs = Append(@, x)]
      /\ UNCHANGED <<client, depth, snap, branches>>
  BY DEF Alloc, simvars
<1>4. /\ a.chunk \in Nat /\ a.mem \in Nat
      /\ r.arena \in ArenaStruct /\ r.arena.chunk \in Nat /\ r.arena.mem \in Nat
  BY <1>1, <1>2 DEF Placed, ArenaStruct
<1>5. q[1] \in Nat
  BY NumbersAssumption
<1> HIDE DEF r
<1>6. \A k \in {First} \cup Sim!Frames : arena'[k] = IF k = current.ap THEN r.arena ELSE arena[k]
  BY <1>3 DEF IInv, TypeInv
<1>7. ASSUME NEW s, NEW k \in {First} \cup Sim!Frames, Ahead(chunks, s, arena[k])
      PROVE  Ahead(chunks', s, arena'[k])
  <2>1. CASE k = current.ap
    <3>1. Ahead(r.chunks, s, r.arena)
      BY <1>1, <1>2, <1>7, <2>1, AheadMoves
    <3>2. QED
      BY <1>3, <1>6, <2>1, <3>1
  <2>2. CASE k # current.ap
    <3>1. Placed(r.chunks, arena[k]) /\ arena[k].chunk \in Nat /\ arena[k].mem \in Nat
      BY <1>1, <1>2, <1>7 DEF Ahead, Placed, Keeps, ArenaStruct
    <3>2. Ahead(r.chunks, s, arena[k])
      BY <1>1, <1>2, <1>7, <3>1, AheadMoves
    <3>3. QED
      BY <1>3, <1>6, <2>2, <3>2
  <2>3. QED
    BY <2>1, <2>2
<1>8. /\ Ahead(chunks', current', arena'[current.ap])
      /\ current'.ap = current.ap /\ current'.memo = current.memo
  <2>1. CASE r.p = NULL
    <3>1. current' = current
      BY <1>3, <2>1
    <3>2. Ahead(chunks, current, a)
      BY DEF IInv, AllAhead
    <3>3. QED
      BY <1>1, <1>7, <3>1, <3>2
  <2>2. CASE r.p # NULL
    <3>1. current' = [current EXCEPT !.allocs = Append(@, x)]
      BY <1>3, <2>2
    <3>2. x = [chunk |-> r.arena.chunk, lo |-> r.p, hi |-> r.p + q[1]]
      BY <1>2, <2>2
    <3>3. a.chunk < r.arena.chunk \/ (a.chunk = r.arena.chunk /\ a.mem <= r.p)
      BY <1>2, <1>4, <2>2
    <3>4. Ahead(chunks, current, a) /\ current \in State
      BY DEF IInv, AllAhead, TypeInv
    <3> HIDE DEF a, x
    <3>5. Ahead(r.chunks, [current EXCEPT !.allocs = Append(@, [chunk |-> r.arena.chunk,
                               lo |-> r.p, hi |-> r.p + q[1]])], r.arena)
      BY <1>1, <1>2, <1>5, <2>2, <3>3, <3>4, AheadAllocates
    <3>6. arena'[current.ap] = r.arena
      BY <1>1, <1>6
    <3>7. current'.ap = current.ap /\ current'.memo = current.memo
      BY <3>1, <3>4 DEF State
    <3>8. QED
      BY <1>3, <3>1, <3>2, <3>5, <3>6, <3>7
  <2>3. QED
    BY <2>1, <2>2
<1>9. TypeInv'
  <2>1. current' \in State
    BY <1>8 DEF Ahead
  <2>2. arena' \in [{First} \cup Sim!Frames -> ArenaStruct \cup {NULL}]
    BY <1>3, <1>4 DEF IInv, TypeInv
  <2>3. QED
    BY <1>2, <1>3, <2>1, <2>2 DEF IInv, TypeInv
<1>10. Nested'
  BY <1>3, <1>8 DEF IInv, Nested
<1>11. AllAhead'
  <2>1. ASSUME NEW k \in 0 .. depth, snap[k] # NoSnap
        PROVE  Ahead(chunks', snap[k], arena'[snap[k].ap])
    BY <1>7, <2>1, InUse DEF IInv, AllAhead
  <2>2. QED
    BY <1>3, <1>8, <2>1 DEF AllAhead
<1>12. QED
  BY <1>9, <1>10, <1>11 DEF IInv

(* What assignments to the fields of a state leave.                        *)
LEMMA Relabel ==
    ASSUME NEW s \in State, NEW n \in Nat, NEW xs \in Seq(Region)
    PROVE  /\ [s EXCEPT !.allocs = xs] = [ap |-> s.ap, memo |-> s.memo, allocs |-> xs]
           /\ [s EXCEPT !.ap = n, !.memo = n] = [ap |-> n, memo |-> n, allocs |-> s.allocs]
           /\ s.ap \in Int /\ s.memo \in Int /\ s.allocs \in Seq(Region) /\ n \in Int
<1> DEFINE t == [s EXCEPT !.allocs = xs]
           u == [s EXCEPT !.ap = n, !.memo = n]
<1>1. s = [ap |-> s.ap, memo |-> s.memo, allocs |-> s.allocs]
  BY DEF State
<1>2. DOMAIN s = {"ap", "memo", "allocs"}
  BY <1>1
<1>3. t = [ap |-> s.ap, memo |-> s.memo, allocs |-> xs]
  BY <1>1
<1>4. u = [ap |-> n, memo |-> n, allocs |-> s.allocs]
  <2>1. DOMAIN u = {"ap", "memo", "allocs"}
    BY <1>2
  <2>2. u.ap = n /\ u.memo = n /\ u.allocs = s.allocs
    BY <1>2
  <2>3. u = [i \in {"ap", "memo", "allocs"} |-> u[i]]
    BY <2>1
  <2> HIDE DEF u
  <2>4. QED
    BY <2>1, <2>2, <2>3
<1>5. QED
  BY <1>3, <1>4 DEF State

(* Releasing resets the shared arena only when nothing is in use.          *)
LEMMA ReleaseStep ==
    ASSUME IInv, Release
    PROVE  IInv'
<1>1. /\ client = "shared" /\ depth = 0 /\ current.ap = First
      /\ \A k \in Sim!Frames : snap[k] = NoSnap
      /\ UNCHANGED <<client, chunks, depth, snap, branches>>
  BY DEF Release, simvars, IInv, Nested
<1>2. 0 \in Sim!Frames /\ depth \in Sim!Frames
  BY <1>1 DEF IInv, TypeInv
<1>3. CASE UNCHANGED <<arena, current>>
  BY <1>1, <1>3 DEF IInv, TypeInv, Nested, AllAhead
<1>4. CASE /\ arena' = [arena EXCEPT ![First] = Reset(@)]
           /\ current' = [current EXCEPT !.allocs = <<>>]
  <2> DEFINE a == [chunk |-> 1, mem |-> Start, end |-> Start + chunks[1]]
  <2>1. chunks \in Seq(Sizes) /\ 1 \in 1 .. Len(chunks) /\ chunks[1] \in Nat /\ Start \in Nat
    BY NumbersAssumption DEF IInv, TypeInv, Sizes
  <2>2. a \in ArenaStruct /\ Placed(chunks, a)
    BY <2>1 DEF ArenaStruct, Placed
  <2>3. arena'[First] = a /\ arena' \in [{First} \cup Sim!Frames -> ArenaStruct \cup {NULL}]
    BY <1>4, <2>2 DEF Reset, IInv, TypeInv
  <2>4. /\ current' \in State /\ current'.allocs = <<>>
        /\ current'.ap = current.ap /\ current'.memo = current.memo
    <3>1. current \in State /\ <<>> \in Seq(Region)
      BY DEF IInv, TypeInv
    <3>2. QED
      BY <1>4, <3>1, Relabel DEF State
  <2> HIDE DEF a
  <2>5. TypeInv'
    BY <1>1, <2>3, <2>4 DEF IInv, TypeInv
  <2>6. Nested'
    BY <1>1, <2>4 DEF IInv, Nested
  <2>7. Ahead(chunks, current', a)
    BY <2>2, <2>4 DEF Ahead, Sound
  <2>8. AllAhead'
    BY <1>1, <1>2, <2>3, <2>4, <2>7 DEF AllAhead
  <2>9. QED
    BY <2>5, <2>6, <2>8 DEF IInv
<1>5. QED
  BY <1>3, <1>4 DEF Release

(* A frame gets a copy of the struct in use.  No savepoint refers to the   *)
(* place the copy is written to.                                           *)
LEMMA ObtainStep ==
    ASSUME IInv, ObtainFrame
    PROVE  IInv'
<1>1. /\ client = "frames" /\ current.memo # depth
      /\ arena' = [arena EXCEPT ![depth] = arena[current.ap]]
      /\ current' = [current EXCEPT !.ap = depth, !.memo = depth]
      /\ UNCHANGED <<client, chunks, depth, snap, branches>>
  BY DEF ObtainFrame, simvars
<1>2. depth \in Sim!Frames /\ depth \in Nat /\ current \in State
  BY FramesBelow DEF IInv, TypeInv
<1>3. /\ current' \in State /\ current'.allocs = current.allocs
      /\ current'.ap = depth /\ current'.memo = depth
  BY <1>1, <1>2, Relabel DEF State
<1>4. /\ arena' \in [{First} \cup Sim!Frames -> ArenaStruct \cup {NULL}]
      /\ arena'[depth] = arena[current.ap]
      /\ \A k \in {First} \cup Sim!Frames : k # depth => arena'[k] = arena[k]
  BY <1>1, <1>2, InUse DEF IInv, TypeInv
<1>5. current.ap < depth
  BY <1>1, <1>2, InUse DEF IInv, Nested, First
<1>6. TypeInv'
  BY <1>1, <1>3, <1>4 DEF IInv, TypeInv
<1>7. \A k \in 0 .. depth : snap[k] # NoSnap => snap[k].ap \in First .. k /\ snap[k].ap < depth
  BY <1>2, <1>5, InUse DEF First
<1>8. Nested'
  BY <1>1, <1>2, <1>3, <1>7 DEF IInv, Nested, First
<1>9. Ahead(chunks, current', arena[current.ap])
  BY <1>3 DEF IInv, AllAhead, Ahead, Sound
<1>10. ASSUME NEW k \in 0 .. depth, snap[k] # NoSnap
       PROVE  Ahead(chunks, snap[k], arena'[snap[k].ap])
  <2>1. arena'[snap[k].ap] = arena[snap[k].ap]
    BY <1>2, <1>4, <1>7, <1>10, InUse DEF First
  <2>2. QED
    BY <1>10, <2>1 DEF IInv, AllAhead
<1>11. AllAhead'
  BY <1>1, <1>3, <1>4, <1>9, <1>10 DEF AllAhead
<1>12. QED
  BY <1>6, <1>8, <1>11 DEF IInv

(* Saving keeps the state with the struct it uses; a fresh frame has       *)
(* neither savepoint nor user; going back takes the struct of a savepoint  *)
(* that is above those of the savepoints that are left.                    *)
LEMMA SimStepStep ==
    ASSUME IInv, SimStep
    PROVE  IInv'
<1> USE NumbersAssumption
<1>1. client = "frames" /\ UNCHANGED <<client, chunks>>
  BY DEF SimStep
<1>2. /\ depth \in Sim!Frames /\ depth \in 0 .. NFrame - 1 /\ current \in State
      /\ current.ap = current.memo /\ current.ap \in First .. depth
  BY DEF IInv, TypeInv, Sim!Frames, Nested
<1>3. \A k \in 0 .. depth : snap[k] # NoSnap =>
         /\ snap[k] \in State /\ snap[k].ap = snap[k].memo /\ snap[k].ap \in First .. k
         /\ snap[k].ap <= current.ap
  BY <1>2, FramesBelow DEF IInv, TypeInv, Nested
<1>4. CASE Sim!Save /\ UNCHANGED arena
  <2>1. snap' = [snap EXCEPT ![depth] = current] /\ UNCHANGED <<current, depth, arena>>
    BY <1>4 DEF Sim!Save
  <2>2. TypeInv'
    BY <1>1, <2>1 DEF IInv, TypeInv
  <2>3. \A k \in 0 .. depth : snap'[k] = IF k = depth THEN current ELSE snap[k]
    BY <1>2, <2>1, FramesBelow DEF IInv, TypeInv
  <2>4. \A k \in Sim!Frames : k > depth => snap'[k] = NoSnap
    BY <1>2, <2>1 DEF IInv, TypeInv, Nested
  <2>5. Nested'
    BY <1>1, <1>2, <1>3, <2>1, <2>3, <2>4 DEF IInv, Nested, First
  <2>6. AllAhead'
    BY <1>1, <2>1, <2>3 DEF IInv, AllAhead
  <2>7. QED
    BY <2>2, <2>5, <2>6 DEF IInv
<1>5. CASE Sim!Descend /\ arena' = [arena EXCEPT ![depth + 1] = NULL]
  <2>1. depth' = depth + 1 /\ depth' \in Sim!Frames /\ snap' = snap /\ current' = current
    BY <1>2, <1>5 DEF Sim!Descend, Sim!Frames
  <2>2. snap[depth + 1] = NoSnap
    BY <1>2, <2>1 DEF IInv, Nested
  <2>3. \A k \in 0 .. depth' : k \in 0 .. depth \/ k = depth + 1
    BY <1>2, <2>1
  <2>4. \A k \in First .. depth : arena'[k] = arena[k]
    BY <1>2, <1>5, FramesBelow DEF IInv, TypeInv, First
  <2>5. TypeInv'
    <3>1. arena' \in [{First} \cup Sim!Frames -> ArenaStruct \cup {NULL}]
      BY <1>5, <2>1 DEF IInv, TypeInv
    <3>2. QED
      BY <1>1, <2>1, <3>1 DEF IInv, TypeInv
  <2>6. Nested'
    BY <1>1, <1>2, <1>3, <2>1, <2>2, <2>3 DEF IInv, Nested, Sim!Frames, First
  <2>7. AllAhead'
    <3>1. Ahead(chunks, current, arena'[current.ap])
      BY <1>2, <2>4 DEF IInv, AllAhead
    <3>2. ASSUME NEW k \in 0 .. depth, snap[k] # NoSnap
          PROVE  Ahead(chunks, snap[k], arena'[snap[k].ap])
      <4>1. snap[k].ap \in First .. depth
        BY <1>2, <1>3, <3>2 DEF First
      <4>2. QED
        BY <2>4, <3>2, <4>1 DEF IInv, AllAhead
    <3>3. QED
      BY <1>1, <2>1, <2>2, <2>3, <3>1, <3>2 DEF AllAhead
  <2>8. QED
    BY <2>5, <2>6, <2>7 DEF IInv
<1>6. ASSUME NEW k \in Sim!Frames, Sim!Load(k), UNCHANGED arena
      PROVE  IInv'
  <2>1. /\ k <= depth /\ snap[k] # NoSnap /\ current' = snap[k] /\ depth' = k
        /\ snap' = Sim!Forget(snap, k, NoSnap)
    BY <1>6 DEF Sim!Load
  <2>2. k \in 0 .. depth
    BY <1>2, <2>1 DEF Sim!Frames
  <2>3. \A j \in Sim!Frames : snap'[j] = IF j > k THEN NoSnap ELSE snap[j]
    BY <2>1 DEF Sim!Forget
  <2>4. TypeInv'
    <3>1. snap' \in [Sim!Frames -> State \cup {NoSnap}]
      BY <2>1 DEF Sim!Forget, IInv, TypeInv
    <3>2. QED
      BY <1>1, <1>3, <1>6, <2>1, <2>2, <3>1 DEF IInv, TypeInv
  <2>5. \A j \in 0 .. k : j \in 0 .. depth /\ snap'[j] = snap[j]
    BY <1>2, <2>2, <2>3, FramesBelow
  <2>6. Nested'
    BY <1>1, <1>2, <1>3, <2>1, <2>2, <2>3, <2>5 DEF IInv, Nested, First
  <2>7. AllAhead'
    BY <1>1, <1>6, <2>1, <2>2, <2>5 DEF IInv, AllAhead
  <2>8. QED
    BY <2>4, <2>6, <2>7 DEF IInv
<1>7. QED
  BY <1>4, <1>5, <1>6 DEF SimStep

LEMMA NextIInv ==
    ASSUME IInv, [Next]_vars
    PROVE  IInv'
<1>1. CASE UNCHANGED vars \/ Obtain
  BY <1>1 DEF vars, Obtain, simvars, IInv, TypeInv, Nested, AllAhead
<1>2. QED
  BY <1>1, AllocStep, ReleaseStep, ObtainStep, SimStepStep DEF Next

LEMMA Invariance == Spec => []IInv
BY InitIInv, NextIInv, PTL DEF Spec

(* arena_alloc, arena_reset and the frame copies of the struct together:   *)
(* whatever is allocated, reset and entered in whatever order, allocations *)
(* in use lie inside their chunk and do not overlap.                       *)
THEOREM DisjointAlways == Spec => []AllocsDisjoint
<1>1. IInv => AllocsDisjoint
  BY DEF IInv, AllAhead, Ahead, Sound, AllocsDisjoint
<1>2. QED
  BY Invariance, <1>1, PTL

(* The struct in use and those that savepoints go back to are alive and    *)
(* past everything that was allocated on the way there.                    *)
THEOREM AheadAlways == Spec => []ArenasAhead
<1>1. ASSUME NEW s, NEW a, Ahead(chunks, s, a)
      PROVE  Behind(s, a)
  BY <1>1, NullAssumption DEF Ahead, Placed, Past, Behind
<1>2. IInv => ArenasAhead
  BY <1>1 DEF IInv, AllAhead, ArenasAhead
<1>3. QED
  BY Invariance, <1>2, PTL

(* Nothing that is done in a frame moves the arena of an outer one.        *)
THEOREM OuterKeptAlways == Spec => OuterArenasKept
<1> DEFINE Kept == client = "frames" => \A k \in First .. depth - 1 : arena'[k] = arena[k]
<1>1. ASSUME IInv, [Next]_vars PROVE [Kept]_vars
  <2> SUFFICES ASSUME client = "frames", NEW k \in First .. depth - 1
               PROVE  arena'[k] = arena[k]
    OBVIOUS
  <2>1. /\ k \in {First} \cup Sim!Frames /\ k # depth /\ k # depth + 1
        /\ depth \in Sim!Frames /\ arena \in [{First} \cup Sim!Frames -> ArenaStruct \cup {NULL}]
        /\ current.ap = current.memo
    BY <1>1, FramesBelow DEF IInv, TypeInv, Nested, First
  <2>2. ASSUME NEW q \in Requests, Alloc(q[1], q[2])
        PROVE  arena'[k] = arena[k]
    BY <2>1, <2>2 DEF Alloc
  <2>3. CASE ObtainFrame
    BY <2>1, <2>3 DEF ObtainFrame
  <2>4. CASE SimStep
    BY <2>1, <2>4 DEF SimStep
  <2>5. CASE Obtain \/ Release \/ UNCHANGED vars
    BY <2>5 DEF Obtain, Release, vars
  <2>6. QED
    BY <1>1, <2>2, <2>3, <2>4, <2>5 DEF Next
<1>2. QED
  BY Invariance, <1>1, PTL DEF Spec, OuterArenasKept

-----------------------------------------------------------------------------
(* The size of a new chunk leaves align - 1 bytes for alignment, and the   *)
(* comparison of bump() is strict: one of them has to be left over, unless *)
(* the request is small enough for the doubled first chunk.                *)

OneByteOver ==
    \A q \in Requests :
       Align(Start, q[2]) + 1 < Start + q[2] \/ q[1] + Align(Start, q[2]) < Start + 2 * InitSize

LEMMA SufficesStep ==
    ASSUME OneByteOver, IInv, NewChunkSuffices, [Next]_vars
    PROVE  NewChunkSuffices'
<1>1. ASSUME NEW q \in Requests, Alloc(q[1], q[2])
      PROVE  ~failed'
  <2> DEFINE size == q[1]
             align == q[2]
             a == arena[current.ap]
             p == Bump(a.mem, size, align, a.end)
             roomy == Roomy(a, size, align)
  <2>1. failed' = (ArenaAlloc(a, size, align).p = NULL)
    BY <1>1 DEF Alloc
  <2>2. p # NULL => FromOwn(a, p, size).p # NULL
    BY DEF FromOwn
  <2>3. \A c \in roomy : FromLater(a, c, size, align).p # NULL
    BY DEF FromLater, Roomy
  <2>4. FromNew(size, align).p # NULL
    <3>1. size \in Nat /\ align \in Nat \ {0} /\ Start \in Nat /\ Align(Start, align) \in Nat
      BY NumbersAssumption, AlignBounds
    <3>2. /\ NewSize(size, align) \in Nat /\ NewSize(size, align) >= size + align - 1
          /\ NewSize(size, align) >= 2 * InitSize /\ InitSize \in Nat
      BY NewSizeFits, NumbersAssumption DEF IInv, TypeInv, Sizes
    <3>3. \/ Align(Start, align) + 1 < Start + align
          \/ size + Align(Start, align) < Start + 2 * InitSize
      BY DEF OneByteOver
    <3>4. FromNew(size, align).p = Bump(Start, size, align, Start + NewSize(size, align))
      BY DEF FromNew
    <3> HIDE DEF size, align
    <3>5. Align(Start, align) + size < Start + NewSize(size, align)
      BY <3>1, <3>2, <3>3
    <3>6. QED
      BY <3>1, <3>4, <3>5, NullAssumption DEF Bump
  <2>5. roomy # {} => (CHOOSE c \in roomy : \A d \in roomy : c <= d) \in roomy
    <3>1. roomy \subseteq Nat
      BY <1>1, InUse DEF Roomy, ArenaStruct
    <3> HIDE DEF roomy
    <3>2. QED
      BY <3>1, LeastNatural
  <2>6. ArenaAlloc(a, size, align) =
          IF p # NULL THEN FromOwn(a, p, size)
          ELSE IF roomy # {}
          THEN FromLater(a, CHOOSE c \in roomy : \A d \in roomy : c <= d, size, align)
          ELSE FromNew(size, align)
    BY DEF ArenaAlloc
  <2> HIDE DEF p, roomy, a, size, align
  <2>7. ArenaAlloc(a, size, align).p # NULL
    BY <2>2, <2>3, <2>4, <2>5, <2>6
  <2>8. QED
    BY <2>1, <2>7
<1>2. CASE Obtain \/ Release \/ ObtainFrame \/ SimStep \/ UNCHANGED vars
  BY <1>2 DEF NewChunkSuffices, Obtain, Release, ObtainFrame, SimStep, vars
<1>3. QED
  BY <1>1, <1>2 DEF NewChunkSuffices, Next

(* The assertion of arena_alloc never fails, for requests whose alignment  *)
(* does not use up what the size of a new chunk allows for it: every       *)
(* arena_malloc, with its alignment of 16 and chunk memory that is aligned *)
(* to it, but no request with an alignment of 1 that is larger than twice  *)
(* the first chunk.                                                        *)
THEOREM SufficesAlways ==
    ASSUME OneByteOver
    PROVE  Spec => []NewChunkSuffices
<1>1. Init => NewChunkSuffices
  BY DEF Init, NewChunkSuffices
<1>2. IInv /\ NewChunkSuffices /\ [Next]_vars => NewChunkSuffices'
  BY SufficesStep
<1>3. QED
  BY Invariance, <1>1, <1>2, PTL DEF Spec
=============================================================================
