-------------------------------- MODULE Sim --------------------------------
(***************************************************************************)
(* The branching core of m2: sim.c and the region allocator of mem.c.      *)
(*                                                                         *)
(* A simulator owns three kinds of bump-allocated regions: one static      *)
(* region, one vstack (the program state that branches) and one region for *)
(* each of NFrame frames.  A savepoint copies the used part of the vstack  *)
(* into the memory of the current frame, in whole blocks; loading a frame  *)
(* copies it back.  Entering a frame resets its region, so everything that *)
(* lived in the previous occupant of that frame is dead.                   *)
(*                                                                         *)
(* Memory is modelled cell by cell, addresses as offsets into a region.    *)
(* The module follows a release build: the page protection and the NaN     *)
(* filling of a DEBUG build are left out.                                  *)
(*                                                                         *)
(* F_EnterSameFid, SaveUnallocated, SaveFlagFirst, EnterFromUnbounded and  *)
(* EnterBranchNoLoad are deliberately wrong variants of the definition     *)
(* that follows them; no action uses them, they show which mistakes the    *)
(* properties detect.                                                      *)
(***************************************************************************)
EXTENDS Integers, FiniteSets

CONSTANTS
    Data,        \* contents of a memory cell
    Zero,        \* the datum a fresh mapping is filled with
    Block,       \* SIM_SAVEPOINT_BLOCKSIZE, in cells
    NBlocks,     \* blocks in a region
    NFrame,      \* nframe of sim_create
    StaticBase,  \* cells of the static region taken by struct sim itself
    Sizes,       \* sizes the program allocates
    Aligns,      \* alignments the program asks for
    FidLimit,    \* bound on next_fid (2^32 in the code)
    WorkLimit,   \* bound on allocations and writes of the program
    NoSnap       \* the abstract "no snapshot"

ASSUME DataAssumption == Zero \in Data
ASSUME BlockAssumption == Block \in Nat \ {0} /\ NBlocks \in Nat \ {0}
ASSUME NFrameAssumption == NFrame \in Nat \ {0}
ASSUME StaticAssumption == StaticBase \in Nat /\ StaticBase < NBlocks * Block
ASSUME SizesAssumption == Sizes \subseteq Nat
ASSUME AlignsAssumption == Aligns \subseteq Nat \ {0}
ASSUME LimitsAssumption == FidLimit \in Nat /\ FidLimit > 2 /\ WorkLimit \in Nat

Rsize == NBlocks * Block
Cells == 0 .. Rsize - 1
Frames == 0 .. NFrame - 1
NULL == -1

(* Return codes of sim.h; NONE: the last step was not a call into sim.c.   *)
Errors == {"EFRAME", "ESAVE", "EALLOC", "EBRANCH"}

VARIABLES
    statptr,    \* sim->stat.ptr
    vptr,       \* sim->vstack.ptr, as an offset
    vmem,       \* contents of the vstack region
    frame,      \* sim->fstack
    fmem,       \* contents of the frame regions
    fp,         \* sim->fp
    next_fid,   \* sim->next_fid
    ret,        \* what the last call returned
    work        \* allocations and writes the program has made

vars == <<statptr, vptr, vmem, frame, fmem, fp, next_fid, ret, work>>

FrameRec == [has_savepoint : BOOLEAN, has_branchpoint : BOOLEAN, fid : 0 .. FidLimit,
             ptr : Cells, sp_data : Cells \cup {NULL}, sp_ptr : Cells]

-----------------------------------------------------------------------------
(* Region allocator.                                                       *)

(* ALIGN of def.h for a power of two m: the mask clears the remainder.     *)
Align(n, m) == n + m - 1 - ((n + m - 1) % m)

(* bump: the aligned address of an allocation of size cells from ptr, or   *)
(* NULL.  The comparison is strict, so ptr never reaches the region's end. *)
Bump(ptr, size, align) ==
    LET r == Align(ptr, align) IN IF r + size < Rsize THEN r ELSE NULL

(* blockcpy copies whole blocks, so it reads and writes up to Block - 1    *)
(* cells past size.                                                        *)
Blockcpy(dst, di, src, si, size) ==
    [i \in Cells |-> IF di <= i /\ i < di + Align(size, Block)
                     THEN src[si + (i - di)] ELSE dst[i]]

-----------------------------------------------------------------------------
(* sim_create: zeroed mapping, frame 0 entered with fid 1.                 *)
FreshFrame(id) == [has_savepoint |-> FALSE, has_branchpoint |-> FALSE, fid |-> id,
                   ptr |-> 0, sp_data |-> NULL, sp_ptr |-> 0]

Init ==
    /\ statptr = StaticBase
    /\ vptr = 0
    /\ vmem = [i \in Cells |-> Zero]
    /\ frame = [k \in Frames |-> FreshFrame(IF k = 0 THEN 1 ELSE 0)]
    /\ fmem = [k \in Frames |-> [i \in Cells |-> Zero]]
    /\ fp = 0
    /\ next_fid = 2
    /\ ret = "OK"
    /\ work = 0

(* f_enter: a new fid, flags cleared, region reset.  Neither sp_data and   *)
(* sp_ptr nor the contents of the region are touched.                      *)
F_EnterSameFid(f, id) ==
    [f EXCEPT !.has_savepoint = FALSE, !.has_branchpoint = FALSE, !.ptr = 0]
F_Enter(f, id) == [f EXCEPT !.fid = id, !.has_savepoint = FALSE,
                            !.has_branchpoint = FALSE, !.ptr = 0]

-----------------------------------------------------------------------------
(* sim_alloc, one action per lifetime.                                     *)

Work == work < WorkLimit /\ work' = work + 1

AllocStatic(size, align) ==
    LET p == Bump(statptr, size, align) IN
    /\ statptr' = IF p = NULL THEN statptr ELSE p + size
    /\ ret' = IF p = NULL THEN "EALLOC" ELSE "OK"
    /\ Work
    /\ UNCHANGED <<vptr, vmem, frame, fmem, fp, next_fid>>

AllocFrame(size, align) ==
    LET p == Bump(frame[fp].ptr, size, align) IN
    /\ frame' = [frame EXCEPT ![fp].ptr = IF p = NULL THEN @ ELSE p + size]
    /\ ret' = IF p = NULL THEN "EALLOC" ELSE "OK"
    /\ Work
    /\ UNCHANGED <<statptr, vptr, vmem, fmem, fp, next_fid>>

AllocVstack(size, align) ==
    LET p == Bump(vptr, size, align) IN
    /\ vptr' = IF p = NULL THEN vptr ELSE p + size
    /\ ret' = IF p = NULL THEN "EALLOC" ELSE "OK"
    /\ Work
    /\ UNCHANGED <<statptr, vmem, frame, fmem, fp, next_fid>>

-----------------------------------------------------------------------------
(* The simulated program, the caller of this interface: it writes memory   *)
(* it has allocated, in the vstack or in a live frame.                     *)

SavedCells(k) == IF frame[k].has_savepoint
                 THEN frame[k].sp_data .. frame[k].sp_data + frame[k].sp_ptr - 1
                 ELSE {}

(* Allocated cells of frame k other than its savepoint copy.               *)
ProgramCells(k) == (0 .. frame[k].ptr - 1) \ SavedCells(k)

WriteVstack(i, v) ==
    /\ i < vptr
    /\ vmem' = [vmem EXCEPT ![i] = v]
    /\ ret' = "NONE"
    /\ Work
    /\ UNCHANGED <<statptr, vptr, frame, fmem, fp, next_fid>>

WriteFrame(k, i, v) ==
    /\ k <= fp /\ i \in ProgramCells(k)
    /\ fmem' = [fmem EXCEPT ![k][i] = v]
    /\ ret' = "NONE"
    /\ Work
    /\ UNCHANGED <<statptr, vptr, vmem, frame, fp, next_fid>>

-----------------------------------------------------------------------------
(* Savepoints.  Each operation on the current frame is also called by the  *)
(* composite operations below, so it is an operator on a frame record.     *)

(* The frame after sim_savepoint: sp_data and sp_ptr are assigned even     *)
(* when the allocation fails, has_savepoint only after it succeeded.       *)
SaveUnallocated(f) ==
    LET p == Bump(f.ptr, vptr, Block) IN
    IF p = NULL THEN [f EXCEPT !.sp_data = NULL, !.sp_ptr = vptr]
    ELSE [f EXCEPT !.sp_data = p, !.sp_ptr = vptr, !.has_savepoint = TRUE]
SaveFlagFirst(f) ==
    LET p == Bump(f.ptr, vptr, Block) IN
    IF p = NULL THEN [f EXCEPT !.sp_data = NULL, !.sp_ptr = vptr, !.has_savepoint = TRUE]
    ELSE [f EXCEPT !.ptr = p + vptr, !.sp_data = p, !.sp_ptr = vptr,
                   !.has_savepoint = TRUE]
SaveInFrame(f) ==
    LET p == Bump(f.ptr, vptr, Block) IN
    IF p = NULL THEN [f EXCEPT !.sp_data = NULL, !.sp_ptr = vptr]
    ELSE [f EXCEPT !.ptr = p + vptr, !.sp_data = p, !.sp_ptr = vptr,
                   !.has_savepoint = TRUE]

(* What sim_savepoint returns for a frame.                                 *)
SaveCode(f) ==
    IF f.has_savepoint THEN "ESAVE"
    ELSE IF Bump(f.ptr, vptr, Block) = NULL THEN "EALLOC" ELSE "OK"

(* sim_savepoint on top frame f, whose flags may just have been changed by *)
(* sim_branch.                                                             *)
SavepointOn(f) ==
    /\ ret' = SaveCode(f)
    /\ frame' = [frame EXCEPT ![fp] = IF f.has_savepoint THEN f ELSE SaveInFrame(f)]
    /\ fmem' = IF ret' = "OK"
               THEN [fmem EXCEPT ![fp] = Blockcpy(@, frame'[fp].sp_data, vmem, 0, vptr)]
               ELSE fmem
    /\ UNCHANGED <<statptr, vptr, vmem, fp, next_fid, work>>

Savepoint == SavepointOn(frame[fp])

(* sim_branch marks the frame before it tries to save, and leaves the mark *)
(* when the savepoint fails.                                               *)
Branch ==
    \/ /\ frame[fp].has_branchpoint
       /\ ret' = "EBRANCH"
       /\ UNCHANGED <<statptr, vptr, vmem, frame, fmem, fp, next_fid, work>>
    \/ /\ ~frame[fp].has_branchpoint
       /\ SavepointOn([frame[fp] EXCEPT !.has_branchpoint = TRUE])

(* sim_reload from frame k: vstack pointer and contents come back, the     *)
(* frame's own region keeps whatever was allocated since.                  *)
Reload(k) ==
    /\ vptr' = frame[k].sp_ptr
    /\ vmem' = Blockcpy(vmem, 0, fmem[k], frame[k].sp_data, frame[k].sp_ptr)

(* sim_up: only the frame pointer moves.                                   *)
SimUp(k) ==
    /\ IF k > fp
       THEN ret' = "EFRAME" /\ UNCHANGED fp
       ELSE ret' = "OK" /\ fp' = k
    /\ UNCHANGED <<statptr, vptr, vmem, frame, fmem, next_fid, work>>

(* sim_reload on the current frame.                                        *)
SimReload ==
    /\ IF frame[fp].has_savepoint
       THEN ret' = "OK" /\ Reload(fp)
       ELSE ret' = "ESAVE" /\ UNCHANGED <<vptr, vmem>>
    /\ UNCHANGED <<statptr, frame, fmem, fp, next_fid, work>>

(* sim_load: sim_up, then sim_reload.  Without a savepoint the call fails  *)
(* after the frame pointer has moved.                                      *)
SimLoad(k) ==
    /\ IF k > fp
       THEN ret' = "EFRAME" /\ UNCHANGED <<fp, vptr, vmem>>
       ELSE /\ fp' = k
            /\ IF frame[k].has_savepoint
               THEN ret' = "OK" /\ Reload(k)
               ELSE ret' = "ESAVE" /\ UNCHANGED <<vptr, vmem>>
    /\ UNCHANGED <<statptr, frame, fmem, next_fid, work>>

(* sim_enter from frame k, which must leave room for one more frame.       *)
EnterFromUnbounded(k) ==
    IF k + 1 > NFrame
    THEN ret' = "EFRAME" /\ fp' = k /\ UNCHANGED <<frame, next_fid>>
    ELSE /\ next_fid < FidLimit
         /\ ret' = "OK"
         /\ fp' = k + 1
         /\ frame' = [frame EXCEPT ![k + 1] = F_Enter(@, next_fid)]
         /\ next_fid' = next_fid + 1
EnterFrom(k) ==
    IF k + 1 >= NFrame
    THEN ret' = "EFRAME" /\ fp' = k /\ UNCHANGED <<frame, next_fid>>
    ELSE /\ next_fid < FidLimit
         /\ ret' = "OK"
         /\ fp' = k + 1
         /\ frame' = [frame EXCEPT ![k + 1] = F_Enter(@, next_fid)]
         /\ next_fid' = next_fid + 1

SimEnter ==
    /\ EnterFrom(fp)
    /\ UNCHANGED <<statptr, vptr, vmem, fmem, work>>

(* sim_enter_branch.  At the branch point itself nothing is loaded: the    *)
(* vstack still holds the saved state.  From a deeper frame the branch     *)
(* point is loaded first, and stays loaded if entering fails.              *)
EnterBranchHere(k) ==
    /\ k = fp
    /\ IF frame[k].has_branchpoint THEN EnterFrom(k)
       ELSE ret' = "EBRANCH" /\ UNCHANGED <<fp, frame, next_fid>>
    /\ UNCHANGED <<statptr, vptr, vmem, fmem, work>>

EnterBranchNoLoad(k) ==
    /\ k < fp /\ frame[k].has_savepoint
    /\ UNCHANGED <<vptr, vmem>>
    /\ IF frame[k].has_branchpoint THEN EnterFrom(k)
       ELSE ret' = "EBRANCH" /\ fp' = k /\ UNCHANGED <<frame, next_fid>>
    /\ UNCHANGED <<statptr, fmem, work>>
EnterBranchLoad(k) ==
    /\ k < fp /\ frame[k].has_savepoint
    /\ Reload(k)
    /\ IF frame[k].has_branchpoint THEN EnterFrom(k)
       ELSE ret' = "EBRANCH" /\ fp' = k /\ UNCHANGED <<frame, next_fid>>
    /\ UNCHANGED <<statptr, fmem, work>>

EnterBranchFails(k) ==
    /\ k # fp
    /\ k > fp \/ ~frame[k].has_savepoint
    /\ SimLoad(k)

SimEnterBranch(k) == EnterBranchHere(k) \/ EnterBranchLoad(k) \/ EnterBranchFails(k)

-----------------------------------------------------------------------------
Next ==
    \/ \E size \in Sizes, align \in Aligns :
          \/ AllocStatic(size, align)
          \/ AllocFrame(size, align)
          \/ AllocVstack(size, align)
    \/ \E i \in Cells, v \in Data : WriteVstack(i, v)
    \/ \E k \in Frames, i \in Cells, v \in Data : WriteFrame(k, i, v)
    \/ Savepoint
    \/ Branch
    \/ SimReload
    \/ SimEnter
    \/ \E k \in Frames : SimUp(k) \/ SimLoad(k) \/ SimEnterBranch(k)

Spec == Init /\ [][Next]_vars

-----------------------------------------------------------------------------
(* Every variable keeps its C type, and every bump pointer stays strictly  *)
(* inside its region.                                                      *)
TypeOK ==
    /\ statptr \in Cells
    /\ vptr \in Cells
    /\ vmem \in [Cells -> Data]
    /\ frame \in [Frames -> FrameRec]
    /\ fmem \in [Frames -> [Cells -> Data]]
    /\ fp \in Frames
    /\ next_fid \in 2 .. FidLimit
    /\ ret \in Errors \cup {"OK", "NONE"}
    /\ work \in 0 .. WorkLimit

(* A savepoint copy lies below its frame's bump pointer, so no later       *)
(* allocation of the frame overlaps it, and the blocks that savepoint and  *)
(* reload move lie inside both regions, although blockcpy rounds up.       *)
SavepointBounds ==
    \A k \in 0 .. fp : LET f == frame[k] IN f.has_savepoint =>
        /\ f.sp_data # NULL
        /\ f.sp_data + f.sp_ptr <= f.ptr
        /\ f.sp_data + Align(f.sp_ptr, Block) <= Rsize
        /\ Align(f.sp_ptr, Block) <= Rsize

(* The frame ids of the live frames grow with depth: a frame is always     *)
(* younger than the frame it was entered from, however often branches      *)
(* were left and re-entered.                                               *)
FrameIdsGrow ==
    /\ \A k \in 1 .. fp : frame[k - 1].fid < frame[k].fid
    /\ \A k \in 0 .. fp : 0 < frame[k].fid /\ frame[k].fid < next_fid

(* A call that fails leaks no memory, loses or invents no savepoint and    *)
(* leaves the vstack as it was, or as saved in the frame it moved to.      *)
FailureKeepsState ==
    /\ UNCHANGED <<statptr, fmem, next_fid>>
    /\ fp' <= fp
    /\ \A k \in Frames : /\ frame'[k].ptr = frame[k].ptr
                          /\ frame'[k].has_savepoint = frame[k].has_savepoint
    /\ \/ UNCHANGED <<vptr, vmem>>
       \/ /\ frame[fp'].has_savepoint
          /\ vptr' = frame[fp'].sp_ptr
          /\ \A j \in 0 .. vptr' - 1 : vmem'[j] = fmem[fp'][frame[fp'].sp_data + j]
FailedCallIsHarmless == [][ret' \in Errors => FailureKeepsState]_vars

-----------------------------------------------------------------------------
(* The abstract view: the used part of the vstack is the current state, a  *)
(* savepoint copy of a live frame is that frame's snapshot.                *)

State == UNION {[0 .. n - 1 -> Data] : n \in Cells}
ASSUME NoSnapAssumption == NoSnap \notin State

Current == [i \in 0 .. vptr - 1 |-> vmem[i]]
Snapshot(f, m) == [j \in 0 .. f.sp_ptr - 1 |-> m[f.sp_data + j]]
Snap == [k \in Frames |-> IF k <= fp /\ frame[k].has_savepoint
                          THEN Snapshot(frame[k], fmem[k]) ELSE NoSnap]
Branches == [k \in Frames |-> k <= fp /\ frame[k].has_branchpoint]

Abs == INSTANCE Branching WITH
    current <- Current, depth <- fp, snap <- Snap, branches <- Branches

(* Sim implements Branching: savepoints behave as immutable snapshots,     *)
(* whatever is allocated and written between saving and loading.           *)
ImplementsBranching == Abs!BranchingSpec
=============================================================================
