------------------------------- MODULE Arena -------------------------------
(***************************************************************************)
(* Arenas (mem.c) and the two ways the fhk driver hands them out           *)
(* (fhk/state.lua).                                                        *)
(*                                                                         *)
(* An arena bumps a pointer through a list of chunks that only grows.  A   *)
(* shared arena is reset when its last user releases it.  A frame arena is *)
(* never reset: every frame gets, on first use, its own copy of the arena  *)
(* struct of the frame it was entered from, so that leaving the frame      *)
(* gives back what was allocated there.  The copies share one chunk list.  *)
(*                                                                         *)
(* Addresses are offsets into a chunk; usable memory starts at Start.      *)
(*                                                                         *)
(* NewSizeUnaligned, FromLaterStale, FromLaterKeepsMem and ObtainParent    *)
(* are deliberately wrong variants of the definition that follows them; no *)
(* action uses them, they show which mistakes the properties detect.       *)
(***************************************************************************)
EXTENDS Integers, Sequences, FiniteSets, Doubling

CONSTANTS
    InitSize,   \* size passed to arena_create
    Start,      \* offset of chunk->mem
    Requests,   \* the <<size, align>> pairs that are asked for
    MaxChunks,  \* bound on the number of chunks
    MaxAllocs,  \* bound on the number of allocations
    MaxUsers,   \* bound on refcount
    NFrame,     \* nframe of sim_create
    NoSnap,     \* "this frame has no snapshot"
    NULL        \* the null pointer, and an arena struct that was reset

ASSUME NumbersAssumption ==
    /\ InitSize \in Nat \ {0} /\ Start \in Nat /\ NFrame \in Nat \ {0}
    /\ MaxChunks \in Nat /\ MaxAllocs \in Nat /\ MaxUsers \in Nat
    /\ Requests \subseteq Nat \X (Nat \ {0})

(* struct arena: its chunk, bump pointer and the end of the chunk.         *)
ArenaStruct == [chunk : Nat, mem : Nat, end : Nat]
ASSUME NullAssumption == NULL \notin Int /\ NULL \notin ArenaStruct

VARIABLES
    client,     \* "shared" or "frames": which of the two uses is modelled
    chunks,     \* the sizes of the chunks, in list order
    arena,      \* arena structs: the one created first (-1), and frame copies
    current,    \* [ap, memo, allocs]: the pointer to the arena struct in use
                \* and the frame it was obtained for (both in the vstack),
                \* and as a ghost the allocations made on the way here
    depth, snap, branches,   \* frames and savepoints, see Branching
    refcount,   \* users of the shared arena
    failed,     \* an allocation returned NULL
    made        \* number of allocations made

vars == <<client, chunks, arena, current, depth, snap, branches, refcount, failed, made>>
simvars == <<depth, snap, branches>>

First == -1
(* An allocation: from lo to below hi in a chunk.                          *)
Region == [chunk : Nat, lo : Nat, hi : Nat]
State == [ap : Int, memo : Int, allocs : Seq(Region)]
Sim == INSTANCE Branching

(* arena_create.                                                           *)
Init ==
    /\ client \in {"shared", "frames"}
    /\ chunks = <<InitSize>>
    /\ arena = [k \in {First} \cup Sim!Frames |->
                   IF k = First THEN [chunk |-> 1, mem |-> Start, end |-> Start + InitSize]
                   ELSE NULL]
    /\ current = [ap |-> First, memo |-> First, allocs |-> <<>>]
    /\ depth = 0
    /\ snap = [k \in Sim!Frames |-> NoSnap]
    /\ branches = [k \in Sim!Frames |-> FALSE]
    /\ refcount = 0
    /\ failed = FALSE
    /\ made = 0

-----------------------------------------------------------------------------
(* arena_alloc.                                                            *)

Align(n, m) == n + m - 1 - ((n + m - 1) % m)
Bump(mem, size, align, end) ==
    LET r == Align(mem, align) IN IF r + size < end THEN r ELSE NULL

(* The chunks after the arena's own that have room for the request.        *)
Roomy(a, size, align) ==
    {c \in a.chunk + 1 .. Len(chunks) :
        Bump(Start, size, align, Start + chunks[c]) # NULL}

(* The size of a new chunk: twice the last one, doubled until it fits.     *)
NewSizeUnaligned(size, align) == DoubledTo(2 * chunks[Len(chunks)], size)
NewSize(size, align) == DoubledTo(2 * chunks[Len(chunks)], size + align - 1)

(* The new chunk list and arena struct, the chunk the request landed in    *)
(* and its address there, NULL if even the new chunk is too small.         *)
FromOwn(a, p, size) ==
    [chunks |-> chunks, arena |-> [a EXCEPT !.mem = p + size], chunk |-> a.chunk, p |-> p]
FromLaterStale(a, c, size, align) ==
    LET p == Bump(Start, size, align, Start + chunks[c])
    IN [chunks |-> chunks, arena |-> [a EXCEPT !.chunk = c, !.mem = p + size],
        chunk |-> c, p |-> p]
FromLaterKeepsMem(a, c, size, align) ==
    LET p == Bump(Start, size, align, Start + chunks[c])
    IN [chunks |-> chunks, chunk |-> c, p |-> p,
        arena |-> [a EXCEPT !.chunk = c, !.end = Start + chunks[c]]]
FromLater(a, c, size, align) ==
    LET p == Bump(Start, size, align, Start + chunks[c])
    IN [chunks |-> chunks, chunk |-> c, p |-> p,
        arena |-> [chunk |-> c, mem |-> p + size, end |-> Start + chunks[c]]]
FromNew(size, align) ==
    LET n == NewSize(size, align)
        p == Bump(Start, size, align, Start + n)
        c == Len(chunks) + 1
    IN [chunks |-> Append(chunks, n), chunk |-> c, p |-> p,
        arena |-> [chunk |-> c, mem |-> IF p = NULL THEN Start ELSE p + size, end |-> Start + n]]
ArenaAlloc(a, size, align) ==
    LET p == Bump(a.mem, size, align, a.end)
        roomy == Roomy(a, size, align)
    IN IF p # NULL THEN FromOwn(a, p, size)
       ELSE IF roomy # {}
       THEN FromLater(a, CHOOSE c \in roomy : \A d \in roomy : c <= d, size, align)
       ELSE FromNew(size, align)

(* A user of the shared arena, or a solver of the current frame, allocates.*)
Alloc(size, align) ==
    /\ IF client = "shared" THEN refcount > 0 ELSE current.memo = depth
    /\ made < MaxAllocs /\ made' = made + 1
    /\ LET r == ArenaAlloc(arena[current.ap], size, align) IN
       /\ Len(r.chunks) <= MaxChunks
       /\ chunks' = r.chunks
       /\ arena' = [arena EXCEPT ![current.ap] = r.arena]
       /\ failed' = (r.p = NULL)
       /\ current' = IF r.p = NULL THEN current
                     ELSE [current EXCEPT !.allocs =
                             Append(@, [chunk |-> r.chunk, lo |-> r.p, hi |-> r.p + size])]
    /\ UNCHANGED <<client, simvars, refcount>>

-----------------------------------------------------------------------------
(* shared_arena.                                                           *)

Obtain ==
    /\ client = "shared"
    /\ refcount < MaxUsers
    /\ refcount' = refcount + 1
    /\ UNCHANGED <<client, chunks, arena, current, simvars, failed, made>>

(* arena_reset: back to the beginning of the first chunk.                  *)
Reset(a) == [chunk |-> 1, mem |-> Start, end |-> Start + chunks[1]]

Release ==
    /\ client = "shared"
    /\ refcount > 0
    /\ refcount' = refcount - 1
    /\ IF refcount' = 0
       THEN /\ arena' = [arena EXCEPT ![First] = Reset(@)]
            /\ current' = [current EXCEPT !.allocs = <<>>]
       ELSE UNCHANGED <<arena, current>>
    /\ UNCHANGED <<client, chunks, simvars, failed, made>>

-----------------------------------------------------------------------------
(* frame_arena.                                                            *)

(* obtain(): memoized on sim:fp(), see Memoize.  In a frame that has no    *)
(* arena struct yet, the one in use is copied into the frame's memory.     *)
ObtainParent ==
    /\ client = "frames"
    /\ current.memo # depth
    /\ current' = [current EXCEPT !.memo = depth]
    /\ UNCHANGED <<client, chunks, arena, simvars, refcount, failed, made>>
ObtainFrame ==
    /\ client = "frames"
    /\ current.memo # depth
    /\ arena' = [arena EXCEPT ![depth] = arena[current.ap]]
    /\ current' = [current EXCEPT !.ap = depth, !.memo = depth]
    /\ UNCHANGED <<client, chunks, simvars, refcount, failed, made>>

(* Entering a frame resets the memory its arena struct was copied to.      *)
SimStep ==
    /\ client = "frames"
    /\ \/ Sim!Save /\ UNCHANGED arena
       \/ Sim!Descend /\ arena' = [arena EXCEPT ![depth + 1] = NULL]
       \/ \E k \in Sim!Frames : Sim!Load(k) /\ UNCHANGED arena
    /\ UNCHANGED <<client, chunks, refcount, failed, made>>

Next ==
    \/ \E r \in Requests : Alloc(r[1], r[2])
    \/ Obtain \/ Release
    \/ ObtainFrame
    \/ SimStep

Spec == Init /\ [][Next]_vars

-----------------------------------------------------------------------------
(* Allocations that are in use at the same time, including those inherited *)
(* from outer frames, lie inside their chunk and do not                    *)
(* overlap, although sibling frames reuse each other's memory.             *)
Overlap(x, y) == x.chunk = y.chunk /\ x.lo < y.hi /\ y.lo < x.hi
AllocsDisjoint ==
    LET xs == current.allocs IN
    /\ \A i \in DOMAIN xs : xs[i].lo >= Start /\ xs[i].hi <= Start + chunks[xs[i].chunk]
    /\ \A i, j \in DOMAIN xs : i # j => ~Overlap(xs[i], xs[j])

(* Where an arena struct stands: everything allocated before is behind it. *)
Behind(s, a) ==
    /\ a # NULL
    /\ a.end = Start + chunks[a.chunk]
    /\ \A i \in DOMAIN s.allocs :
          LET x == s.allocs[i] IN x.chunk < a.chunk \/ (x.chunk = a.chunk /\ x.hi <= a.mem)

(* The arena struct in use, and the one each savepoint goes back to, is    *)
(* alive and past everything that was allocated before.                    *)
ArenasAhead ==
    /\ Behind(current, arena[current.ap])
    /\ \A k \in 0 .. depth : snap[k] # NoSnap => Behind(snap[k], arena[snap[k].ap])

(* Work in deeper frames never moves the arena struct of an outer frame:   *)
(* every branch starts allocating where the branch point was left, so      *)
(* memory use follows the depth of the simulation and not its length.      *)
OuterArenasKept ==
    [][client = "frames" => \A k \in First .. depth - 1 : arena'[k] = arena[k]]_vars

(* The assertion at the end of arena_alloc: a new chunk is large enough.   *)
NewChunkSuffices == ~failed
=============================================================================
