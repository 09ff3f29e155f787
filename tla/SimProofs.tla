----------------------------- MODULE SimProofs -----------------------------
(***************************************************************************)
(* Proofs about Sim, for every region size, block size, number of frames   *)
(* and bound: type correctness, the bounds of savepoint copies, and that   *)
(* Sim implements Branching.                                               *)
(***************************************************************************)
EXTENDS Sim, TLAPS

-----------------------------------------------------------------------------
(* Arithmetic of ALIGN and of the block copy.                              *)

(* Aligning moves an address up by less than the alignment.                *)
LEMMA AlignBounds ==
    ASSUME NEW n \in Nat, NEW m \in Nat \ {0}
    PROVE  Align(n, m) \in Nat /\ n <= Align(n, m) /\ Align(n, m) < n + m
<1>1. n + m - 1 \in Nat
  OBVIOUS
<1>2. (n + m - 1) % m \in 0 .. m - 1
  BY <1>1
<1>3. QED
  BY <1>1, <1>2 DEF Align

(* An aligned address is a multiple of the alignment.                      *)
LEMMA AlignMultiple ==
    ASSUME NEW n \in Nat, NEW m \in Nat \ {0}
    PROVE  \E q \in Nat : Align(n, m) = m * q
<1> DEFINE x == n + m - 1
<1>1. x \in Nat
  OBVIOUS
<1>2. x \div m \in Nat /\ x % m \in 0 .. m - 1 /\ x = m * (x \div m) + (x % m)
  BY <1>1
<1>3. Align(n, m) = m * (x \div m)
  <2>1. Align(n, m) = x - (x % m)
    BY <1>1, <1>2 DEF Align
  <2>2. m * (x \div m) \in Nat
    BY <1>2
  <2> HIDE DEF x
  <2>3. QED
    BY <1>1, <1>2, <2>1, <2>2
<1>4. QED
  BY <1>2, <1>3

(* Between two multiples of m there is room for a whole number of blocks.  *)
LEMMA MultipleGap ==
    ASSUME NEW m \in Nat \ {0}, NEW p \in Nat, NEW q \in Nat, m * p < m * q + m
    PROVE  m * p <= m * q
<1>1. CASE p <= q
  BY <1>1
<1>2. CASE p >= q + 1
  <2>1. m * p >= m * (q + 1)
    BY <1>2
  <2>2. m * (q + 1) = m * q + m
    OBVIOUS
  <2>3. m * p \in Nat /\ m * q \in Nat
    OBVIOUS
  <2>4. QED
    BY <2>1, <2>2, <2>3
<1>3. QED
  BY <1>1, <1>2

(* A block-rounded copy from an aligned address stays inside the region.   *)
LEMMA BlockFit ==
    ASSUME NEW s \in Nat, NEW size \in Nat, NEW q \in Nat, s = Block * q, s + size < Rsize
    PROVE  s + Align(size, Block) <= Rsize
<1>1. PICK p \in Nat : Align(size, Block) = Block * p
  BY AlignMultiple, BlockAssumption
<1>2. Align(size, Block) \in Nat /\ Align(size, Block) < size + Block
  BY AlignBounds, BlockAssumption
<1>3. Rsize = Block * NBlocks /\ Rsize \in Nat
  BY BlockAssumption DEF Rsize
<1>4. s + Align(size, Block) = Block * (q + p)
  BY <1>1, BlockAssumption
<1>5. Block * (q + p) < Block * NBlocks + Block
  BY <1>2, <1>3, <1>4, BlockAssumption
<1>6. Block * (q + p) <= Block * NBlocks
  BY <1>5, MultipleGap, BlockAssumption
<1>7. QED
  BY <1>3, <1>4, <1>6

(* What a successful bump allocation gives: an address at or above the     *)
(* pointer, with the whole allocation strictly below the region's end.     *)
LEMMA BumpBounds ==
    ASSUME NEW ptr \in Cells, NEW size \in Nat, NEW align \in Nat \ {0},
           Bump(ptr, size, align) # NULL
    PROVE  /\ Bump(ptr, size, align) = Align(ptr, align)
           /\ Bump(ptr, size, align) \in Cells
           /\ ptr <= Bump(ptr, size, align)
           /\ Bump(ptr, size, align) + size \in Cells
<1>1. Rsize \in Nat
  BY BlockAssumption DEF Rsize
<1>2. Align(ptr, align) \in Nat /\ ptr <= Align(ptr, align)
  BY AlignBounds DEF Cells
<1>3. QED
  BY <1>1, <1>2 DEF Bump, Cells

(* Copying whole blocks between regions keeps the type of the destination, *)
(* and puts the source cells where they belong.                            *)
LEMMA BlockcpyCopies ==
    ASSUME NEW dst \in [Cells -> Data], NEW src \in [Cells -> Data],
           NEW di \in Nat, NEW si \in Nat, NEW size \in Nat,
           di + Align(size, Block) <= Rsize, si + Align(size, Block) <= Rsize
    PROVE  /\ Blockcpy(dst, di, src, si, size) \in [Cells -> Data]
           /\ \A j \in 0 .. size - 1 :
                 Blockcpy(dst, di, src, si, size)[di + j] = src[si + j]
<1>1. Rsize \in Nat /\ Align(size, Block) \in Nat /\ size <= Align(size, Block)
  BY AlignBounds, BlockAssumption DEF Rsize
<1>2. QED
  BY <1>1 DEF Blockcpy, Cells

-----------------------------------------------------------------------------
(* The inductive invariant.  SavepointBounds is needed for type            *)
(* correctness: without it blockcpy could move cells outside the regions.  *)

IInv == TypeOK /\ SavepointBounds /\ FrameIdsGrow

(* The frames up to the current one are frames.                            *)
LEMMA LiveFrames ==
    ASSUME NEW top \in Frames
    PROVE  \A k \in 0 .. top : k \in Frames
BY NFrameAssumption DEF Frames

(* sim_create establishes the inductive invariant.                         *)
LEMMA InitIInv == Init => IInv
<1> SUFFICES ASSUME Init PROVE IInv
  OBVIOUS
<1> USE DEF Init
<1>1. Rsize \in Nat \ {0}
  BY BlockAssumption DEF Rsize
<1>2. FreshFrame(0) \in FrameRec /\ FreshFrame(1) \in FrameRec
  BY <1>1, LimitsAssumption DEF FreshFrame, FrameRec, Cells, NULL
<1>3. TypeOK
  BY <1>1, <1>2, DataAssumption, StaticAssumption, NFrameAssumption, LimitsAssumption
  DEF TypeOK, Cells, Frames, Rsize, Errors
<1>4. SavepointBounds
  BY NFrameAssumption DEF SavepointBounds, FreshFrame, Frames
<1>5. FrameIdsGrow
  BY NFrameAssumption DEF FrameIdsGrow, FreshFrame, Frames
<1>6. QED
  BY <1>3, <1>4, <1>5 DEF IInv

(* Allocations and the program's writes.                                   *)
LEMMA ProgramStep ==
    ASSUME IInv,
           \/ \E size \in Sizes, align \in Aligns :
                 \/ AllocStatic(size, align)
                 \/ AllocFrame(size, align)
                 \/ AllocVstack(size, align)
           \/ \E i \in Cells, v \in Data : WriteVstack(i, v)
           \/ \E k \in Frames, i \in Cells, v \in Data : WriteFrame(k, i, v)
    PROVE  IInv'
<1> USE DEF IInv
<1>1. ASSUME NEW size \in Sizes, NEW align \in Aligns, AllocStatic(size, align)
      PROVE  IInv'
  <2>1. Bump(statptr, size, align) # NULL => Bump(statptr, size, align) + size \in Cells
    BY BumpBounds, SizesAssumption, AlignsAssumption DEF TypeOK
  <2>2. TypeOK'
    BY <1>1, <2>1, LimitsAssumption DEF TypeOK, AllocStatic, Work, Errors
  <2>3. QED
    BY <1>1, <2>2 DEF AllocStatic, SavepointBounds, FrameIdsGrow
<1>2. ASSUME NEW size \in Sizes, NEW align \in Aligns, AllocFrame(size, align)
      PROVE  IInv'
  <2> DEFINE p == Bump(frame[fp].ptr, size, align)
             np == IF p = NULL THEN frame[fp].ptr ELSE p + size
  <2>1. frame[fp] \in FrameRec /\ frame[fp].ptr \in Cells
    BY DEF TypeOK, FrameRec
  <2>2. np \in Cells /\ frame[fp].ptr <= np
    BY <2>1, BumpBounds, SizesAssumption, AlignsAssumption DEF Cells
  <2>3. frame' = [frame EXCEPT ![fp].ptr = np]
    BY <1>2 DEF AllocFrame
  <2> HIDE DEF np
  <2>4. [frame[fp] EXCEPT !.ptr = np] \in FrameRec
    BY <2>1, <2>2 DEF FrameRec
  <2>5. TypeOK'
    BY <1>2, <2>3, <2>4, LimitsAssumption DEF TypeOK, AllocFrame, Work, Errors
  <2>6. \A k \in Frames : /\ frame'[k].fid = frame[k].fid
                          /\ frame'[k].has_savepoint = frame[k].has_savepoint
                          /\ frame'[k].sp_data = frame[k].sp_data
                          /\ frame'[k].sp_ptr = frame[k].sp_ptr
                          /\ frame[k].ptr <= frame'[k].ptr
                          /\ frame[k] \in FrameRec
    BY <2>2, <2>3 DEF TypeOK, FrameRec, Cells
  <2>7. fp' = fp /\ next_fid' = next_fid
    BY <1>2 DEF AllocFrame
  <2>8. SavepointBounds'
    <3> SUFFICES ASSUME NEW k \in 0 .. fp, frame'[k].has_savepoint
                 PROVE  /\ frame'[k].sp_data # NULL
                        /\ frame'[k].sp_data + frame'[k].sp_ptr <= frame'[k].ptr
                        /\ frame'[k].sp_data + Align(frame'[k].sp_ptr, Block) <= Rsize
                        /\ Align(frame'[k].sp_ptr, Block) <= Rsize
      BY <2>7 DEF SavepointBounds
    <3>1. k \in Frames
      BY LiveFrames DEF TypeOK
    <3>2. frame'[k] \in FrameRec
      BY <2>5, <3>1 DEF TypeOK
    <3>3. QED
      BY <2>6, <3>1, <3>2 DEF SavepointBounds, FrameRec, Cells, NULL
  <2>9. FrameIdsGrow'
    <3>1. \A k \in 0 .. fp : k \in Frames
      BY LiveFrames DEF TypeOK
    <3>2. \A k \in 0 .. fp : frame'[k].fid = frame[k].fid
      BY <2>6, <3>1
    <3>3. \A k \in 1 .. fp : k \in 0 .. fp /\ k - 1 \in 0 .. fp
      BY NFrameAssumption DEF TypeOK, Frames
    <3> QED
      BY <2>7, <3>2, <3>3 DEF FrameIdsGrow
  <2>10. QED
    BY <2>5, <2>8, <2>9
<1>3. ASSUME NEW size \in Sizes, NEW align \in Aligns, AllocVstack(size, align)
      PROVE  IInv'
  <2>1. Bump(vptr, size, align) # NULL => Bump(vptr, size, align) + size \in Cells
    BY BumpBounds, SizesAssumption, AlignsAssumption DEF TypeOK
  <2>2. TypeOK'
    BY <1>3, <2>1, LimitsAssumption DEF TypeOK, AllocVstack, Work, Errors
  <2>3. QED
    BY <1>3, <2>2 DEF AllocVstack, SavepointBounds, FrameIdsGrow
<1>4. ASSUME NEW i \in Cells, NEW v \in Data, WriteVstack(i, v)
      PROVE  IInv'
  <2>1. TypeOK'
    BY <1>4, LimitsAssumption DEF TypeOK, WriteVstack, Work, Errors
  <2>2. QED
    BY <1>4, <2>1 DEF WriteVstack, SavepointBounds, FrameIdsGrow
<1>5. ASSUME NEW k \in Frames, NEW i \in Cells, NEW v \in Data, WriteFrame(k, i, v)
      PROVE  IInv'
  <2>1. TypeOK'
    BY <1>5, LimitsAssumption DEF TypeOK, WriteFrame, Work, Errors
  <2>2. QED
    BY <1>5, <2>1 DEF WriteFrame, SavepointBounds, FrameIdsGrow
<1>6. QED
  BY <1>1, <1>2, <1>3, <1>4, <1>5

(* sim_savepoint, also as the second half of sim_branch.                   *)
LEMMA SavepointStep ==
    ASSUME IInv, NEW b \in BOOLEAN,
           SavepointOn([frame[fp] EXCEPT !.has_branchpoint = b])
    PROVE  IInv'
<1> DEFINE f == [frame[fp] EXCEPT !.has_branchpoint = b]
           p == Bump(f.ptr, vptr, Block)
<1> USE DEF IInv
<1>1. frame[fp] \in FrameRec /\ f \in FrameRec /\ f.ptr \in Cells /\ vptr \in Cells
  BY DEF TypeOK, FrameRec
<1>2. /\ f.ptr = frame[fp].ptr /\ f.fid = frame[fp].fid
      /\ f.has_savepoint = frame[fp].has_savepoint
      /\ f.sp_data = frame[fp].sp_data /\ f.sp_ptr = frame[fp].sp_ptr
  BY <1>1 DEF FrameRec
<1>3. Rsize \in Nat /\ vptr \in Nat
  BY BlockAssumption DEF Rsize, TypeOK, Cells
<1>4. p # NULL => /\ p \in Cells /\ p \in Nat /\ f.ptr <= p
                  /\ p + vptr \in Cells
                  /\ p + Align(vptr, Block) <= Rsize
                  /\ Align(vptr, Block) <= Rsize
  <2> HAVE p # NULL
  <2>1. /\ p = Align(f.ptr, Block) /\ p \in Cells /\ f.ptr <= p
        /\ p + vptr \in Cells /\ f.ptr \in Nat /\ p \in Nat
    BY <1>1, <1>3, BumpBounds, BlockAssumption DEF Cells
  <2>2. PICK q \in Nat : p = Block * q
    BY <2>1, AlignMultiple, BlockAssumption
  <2> HIDE DEF p, f
  <2>3. p + Align(vptr, Block) <= Rsize
    BY <1>3, <2>1, <2>2, BlockFit DEF Cells
  <2>4. Align(vptr, Block) \in Nat
    BY <1>3, AlignBounds, BlockAssumption
  <2>5. QED
    BY <1>3, <2>1, <2>3, <2>4
<1>5. /\ UNCHANGED <<statptr, vptr, vmem, fp, next_fid, work>>
      /\ ret' = SaveCode(f)
      /\ frame' = [frame EXCEPT ![fp] = IF f.has_savepoint THEN f ELSE SaveInFrame(f)]
      /\ fmem' = IF ret' = "OK"
                 THEN [fmem EXCEPT ![fp] = Blockcpy(@, frame'[fp].sp_data, vmem, 0, vptr)]
                 ELSE fmem
  BY DEF SavepointOn
<1> HIDE DEF f
<1>6. CASE f.has_savepoint
  <2>1. ret' = "ESAVE" /\ fmem' = fmem /\ frame' = [frame EXCEPT ![fp] = f]
    BY <1>5, <1>6 DEF SaveCode
  <2>2. TypeOK'
    BY <1>1, <1>5, <2>1 DEF TypeOK, Errors
  <2>3. SavepointBounds'
    BY <1>1, <1>2, <1>5, <2>1, LiveFrames DEF SavepointBounds, TypeOK
  <2>4. FrameIdsGrow'
    BY <1>1, <1>2, <1>5, <2>1, NFrameAssumption DEF FrameIdsGrow, TypeOK, Frames
  <2>5. QED
    BY <2>2, <2>3, <2>4
<1>7. CASE ~f.has_savepoint /\ p = NULL
  <2> DEFINE g == [f EXCEPT !.sp_data = NULL, !.sp_ptr = vptr]
  <2>1. ret' = "EALLOC" /\ fmem' = fmem /\ frame' = [frame EXCEPT ![fp] = g]
    BY <1>5, <1>7 DEF SaveCode, SaveInFrame
  <2>2. g \in FrameRec /\ g.fid = f.fid /\ ~g.has_savepoint
    BY <1>1, <1>7 DEF FrameRec
  <2> HIDE DEF g
  <2>3. TypeOK'
    BY <1>5, <2>1, <2>2 DEF TypeOK, Errors
  <2>4. SavepointBounds'
    BY <1>5, <2>1, <2>2, LiveFrames DEF SavepointBounds, TypeOK
  <2>5. FrameIdsGrow'
    BY <1>2, <1>5, <2>1, <2>2, NFrameAssumption DEF FrameIdsGrow, TypeOK, Frames
  <2>6. QED
    BY <2>3, <2>4, <2>5
<1>8. CASE ~f.has_savepoint /\ p # NULL
  <2> DEFINE g == [f EXCEPT !.ptr = p + vptr, !.sp_data = p, !.sp_ptr = vptr,
                            !.has_savepoint = TRUE]
  <2>1. ret' = "OK" /\ frame' = [frame EXCEPT ![fp] = g]
    BY <1>5, <1>8 DEF SaveCode, SaveInFrame
  <2>2. /\ g \in FrameRec /\ g.fid = f.fid /\ g.has_savepoint
        /\ g.sp_data = p /\ g.sp_ptr = vptr /\ g.ptr = p + vptr
    BY <1>1, <1>4, <1>8 DEF FrameRec
  <2> HIDE DEF g, p
  <2>3. frame'[fp] = g
    BY <2>1 DEF TypeOK
  <2>4. fmem' = [fmem EXCEPT ![fp] = Blockcpy(fmem[fp], p, vmem, 0, vptr)]
    BY <1>5, <2>1, <2>2, <2>3 DEF TypeOK
  <2>5. Blockcpy(fmem[fp], p, vmem, 0, vptr) \in [Cells -> Data]
    <3>1. fmem[fp] \in [Cells -> Data] /\ vmem \in [Cells -> Data]
      BY DEF TypeOK
    <3>2. p + Align(vptr, Block) <= Rsize /\ 0 + Align(vptr, Block) <= Rsize
      BY <1>3, <1>4, <1>8, AlignBounds, BlockAssumption
    <3>3. QED
      BY <1>3, <1>4, <1>8, <3>1, <3>2, BlockcpyCopies
  <2>6. TypeOK'
    BY <1>5, <2>1, <2>2, <2>4, <2>5 DEF TypeOK
  <2>7. SavepointBounds'
    <3> SUFFICES ASSUME NEW k \in 0 .. fp, frame'[k].has_savepoint
                 PROVE  /\ frame'[k].sp_data # NULL
                        /\ frame'[k].sp_data + frame'[k].sp_ptr <= frame'[k].ptr
                        /\ frame'[k].sp_data + Align(frame'[k].sp_ptr, Block) <= Rsize
                        /\ Align(frame'[k].sp_ptr, Block) <= Rsize
      BY <1>5 DEF SavepointBounds
    <3>1. CASE k = fp
      BY <1>3, <1>4, <1>8, <2>2, <2>3, <3>1
    <3>2. CASE k # fp
      BY <2>1, <3>2, LiveFrames DEF SavepointBounds, TypeOK
    <3>3. QED
      BY <3>1, <3>2
  <2>8. FrameIdsGrow'
    BY <1>2, <1>5, <2>1, <2>2, NFrameAssumption DEF FrameIdsGrow, TypeOK, Frames
  <2>9. QED
    BY <2>6, <2>7, <2>8
<1>9. QED
  BY <1>6, <1>7, <1>8

(* What sim_reload leaves in the vstack is well typed.                     *)
LEMMA ReloadStep ==
    ASSUME IInv, NEW k \in 0 .. fp, frame[k].has_savepoint, Reload(k)
    PROVE  /\ vptr' \in Cells
           /\ vmem' \in [Cells -> Data]
           /\ \A j \in 0 .. vptr' - 1 : vmem'[j] = fmem[k][frame[k].sp_data + j]
<1> DEFINE f == frame[k]
<1>1. f \in FrameRec /\ fmem[k] \in [Cells -> Data] /\ vmem \in [Cells -> Data]
  BY LiveFrames DEF IInv, TypeOK
<1>2. /\ f.sp_data # NULL /\ f.sp_data + Align(f.sp_ptr, Block) <= Rsize
      /\ Align(f.sp_ptr, Block) <= Rsize
  BY DEF IInv, SavepointBounds
<1>3. f.sp_data \in Nat /\ f.sp_ptr \in Nat /\ f.sp_ptr \in Cells
  BY <1>1, <1>2 DEF FrameRec, Cells
<1>4. vptr' = f.sp_ptr /\ vmem' = Blockcpy(vmem, 0, fmem[k], f.sp_data, f.sp_ptr)
  BY DEF Reload
<1> HIDE DEF f
<1>5. 0 + Align(f.sp_ptr, Block) <= Rsize
  <2>1. Align(f.sp_ptr, Block) \in Nat
    BY <1>3, AlignBounds, BlockAssumption
  <2>2. QED
    BY <1>2, <2>1
<1>6. /\ vmem' \in [Cells -> Data]
      /\ \A j \in 0 .. f.sp_ptr - 1 : vmem'[0 + j] = fmem[k][f.sp_data + j]
  BY <1>1, <1>2, <1>3, <1>4, <1>5, BlockcpyCopies
<1>7. QED
  BY <1>3, <1>4, <1>6 DEF f

(* sim_enter from a live frame k.                                          *)
LEMMA EnterStep ==
    ASSUME IInv, NEW k \in 0 .. fp, EnterFrom(k),
           vptr' \in Cells, vmem' \in [Cells -> Data], UNCHANGED <<statptr, fmem, work>>
    PROVE  IInv'
<1> USE DEF IInv
<1>1. k \in Frames /\ k \in Nat
  BY LiveFrames, NFrameAssumption DEF TypeOK, Frames
<1>2. CASE k + 1 >= NFrame
  <2>1. ret' = "EFRAME" /\ fp' = k /\ frame' = frame /\ next_fid' = next_fid
    BY <1>2 DEF EnterFrom
  <2>2. TypeOK'
    BY <1>1, <2>1 DEF TypeOK, Errors
  <2>3. SavepointBounds' /\ FrameIdsGrow'
    BY <2>1, NFrameAssumption DEF SavepointBounds, FrameIdsGrow, TypeOK, Frames
  <2>4. QED
    BY <2>2, <2>3
<1>3. CASE ~(k + 1 >= NFrame)
  <2> DEFINE g == F_Enter(frame[k + 1], next_fid)
  <2>1. k + 1 \in Frames /\ frame[k + 1] \in FrameRec
    BY <1>1, <1>3, NFrameAssumption DEF Frames, TypeOK
  <2>2. /\ ret' = "OK" /\ fp' = k + 1 /\ next_fid' = next_fid + 1 /\ next_fid < FidLimit
        /\ frame' = [frame EXCEPT ![k + 1] = g]
    BY <1>3 DEF EnterFrom
  <2>3. g \in FrameRec /\ g.fid = next_fid /\ ~g.has_savepoint
    <3>1. 0 \in Cells
      BY BlockAssumption DEF Cells, Rsize
    <3>2. next_fid \in 0 .. FidLimit
      BY LimitsAssumption DEF TypeOK
    <3>3. QED
      BY <2>1, <3>1, <3>2 DEF F_Enter, FrameRec
  <2> HIDE DEF g
  <2>4. TypeOK'
    BY <2>1, <2>2, <2>3, LimitsAssumption DEF TypeOK
  <2>5. \A i \in 0 .. k : frame'[i] = frame[i] /\ i \in 0 .. fp
    BY <1>1, <2>2, NFrameAssumption DEF TypeOK, Frames
  <2>6. frame'[k + 1] = g
    BY <2>1, <2>2 DEF TypeOK
  <2>7. \A i \in 0 .. k + 1 : i \in 0 .. k \/ i = k + 1
    BY <1>1
  <2>8. SavepointBounds'
    BY <2>2, <2>3, <2>5, <2>6, <2>7 DEF SavepointBounds
  <2>9. FrameIdsGrow'
    <3>1. frame[k].fid < next_fid /\ 0 < next_fid
      BY <1>1, LimitsAssumption DEF FrameIdsGrow, TypeOK
    <3>2. ASSUME NEW i \in 1 .. k + 1 PROVE frame'[i - 1].fid < frame'[i].fid
      <4>1. CASE i = k + 1
        BY <1>1, <2>3, <2>5, <2>6, <3>1, <4>1
      <4>2. CASE i \in 1 .. k
        BY <1>1, <2>5, <4>2 DEF FrameIdsGrow
      <4>3. QED
        BY <1>1, <4>1, <4>2
    <3>3. ASSUME NEW i \in 0 .. k + 1
          PROVE  0 < frame'[i].fid /\ frame'[i].fid < next_fid + 1
      <4>1. CASE i = k + 1
        BY <2>3, <2>6, <3>1, <4>1, LimitsAssumption DEF TypeOK
      <4>2. CASE i \in 0 .. k
        <5>1. /\ frame'[i] = frame[i] /\ 0 < frame[i].fid /\ frame[i].fid < next_fid
              /\ i \in Frames
          BY <2>5, <4>2, LiveFrames DEF FrameIdsGrow, TypeOK
        <5>2. frame[i].fid \in Nat /\ next_fid \in Nat
          BY <5>1, LimitsAssumption DEF TypeOK, FrameRec
        <5>3. QED
          BY <5>1, <5>2
      <4>3. QED
        BY <2>7, <4>1, <4>2
    <3>4. QED
      BY <2>2, <3>2, <3>3 DEF FrameIdsGrow
  <2>10. QED
    BY <2>4, <2>8, <2>9
<1>4. QED
  BY <1>2, <1>3

(* Moving to a live frame k, with whatever is in the vstack.               *)
LEMMA MoveStep ==
    ASSUME IInv, NEW k \in 0 .. fp, fp' = k, vptr' \in Cells, vmem' \in [Cells -> Data],
           ret' \in Errors \cup {"OK", "NONE"},
           UNCHANGED <<statptr, frame, fmem, next_fid, work>>
    PROVE  IInv'
<1>1. k \in Frames /\ \A i \in 0 .. k : i \in 0 .. fp
  BY LiveFrames, NFrameAssumption DEF IInv, TypeOK, Frames
<1>2. TypeOK'
  BY <1>1 DEF IInv, TypeOK
<1>3. SavepointBounds'
  BY <1>1 DEF IInv, SavepointBounds
<1>4. FrameIdsGrow'
  <2>1. \A i \in 1 .. k : i \in 1 .. fp
    BY NFrameAssumption DEF IInv, TypeOK, Frames
  <2>2. QED
    BY <1>1, <2>1 DEF IInv, FrameIdsGrow
<1>5. QED
  BY <1>2, <1>3, <1>4 DEF IInv

(* Every step keeps the invariant.                                         *)
LEMMA NextIInv == IInv /\ [Next]_vars => IInv'
<1> SUFFICES ASSUME IInv, [Next]_vars PROVE IInv'
  OBVIOUS
<1>0. fp \in 0 .. fp /\ frame[fp] \in FrameRec /\ vptr \in Cells /\ vmem \in [Cells -> Data]
  BY NFrameAssumption DEF IInv, TypeOK, Frames
<1>1. CASE UNCHANGED vars
  BY <1>1 DEF IInv, TypeOK, SavepointBounds, FrameIdsGrow, vars
<1>2. CASE \/ \E size \in Sizes, align \in Aligns :
                 \/ AllocStatic(size, align)
                 \/ AllocFrame(size, align)
                 \/ AllocVstack(size, align)
           \/ \E i \in Cells, v \in Data : WriteVstack(i, v)
           \/ \E k \in Frames, i \in Cells, v \in Data : WriteFrame(k, i, v)
  BY <1>2, ProgramStep
<1>3. CASE Savepoint
  <2>1. frame[fp] = [frame[fp] EXCEPT !.has_branchpoint = frame[fp].has_branchpoint]
    BY <1>0 DEF FrameRec
  <2>2. frame[fp].has_branchpoint \in BOOLEAN
    BY <1>0 DEF FrameRec
  <2>3. QED
    BY <1>3, <2>1, <2>2, SavepointStep DEF Savepoint
<1>4. CASE Branch
  <2>1. CASE SavepointOn([frame[fp] EXCEPT !.has_branchpoint = TRUE])
    BY <2>1, SavepointStep
  <2>2. CASE ret' = "EBRANCH" /\
             UNCHANGED <<statptr, vptr, vmem, frame, fmem, fp, next_fid, work>>
    BY <1>0, <2>2, MoveStep DEF Errors
  <2>3. QED
    BY <1>4, <2>1, <2>2 DEF Branch
<1>5. CASE SimReload
  <2>1. vptr' \in Cells /\ vmem' \in [Cells -> Data] /\ ret' \in Errors \cup {"OK", "NONE"}
    BY <1>0, <1>5, ReloadStep DEF SimReload, Errors
  <2>2. QED
    BY <1>0, <1>5, <2>1, MoveStep DEF SimReload
<1>6. CASE SimEnter
  BY <1>0, <1>6, EnterStep DEF SimEnter
<1>7. ASSUME NEW k \in Frames, SimUp(k) PROVE IInv'
  <2>1. fp' \in 0 .. fp /\ ret' \in Errors \cup {"OK", "NONE"}
    BY <1>0, <1>7, NFrameAssumption DEF SimUp, IInv, TypeOK, Frames, Errors
  <2>2. QED
    BY <1>0, <1>7, <2>1, MoveStep DEF SimUp
<1>8. ASSUME NEW k \in Frames, SimLoad(k) PROVE IInv'
  <2>1. fp' \in 0 .. fp /\ ret' \in Errors \cup {"OK", "NONE"}
    BY <1>0, <1>8, NFrameAssumption DEF SimLoad, IInv, TypeOK, Frames, Errors
  <2>2. vptr' \in Cells /\ vmem' \in [Cells -> Data]
    BY <1>0, <1>8, <2>1, ReloadStep DEF SimLoad
  <2>3. QED
    BY <1>8, <2>1, <2>2, MoveStep DEF SimLoad
<1>9. ASSUME NEW k \in Frames, SimEnterBranch(k) PROVE IInv'
  <2>1. CASE EnterBranchHere(k)
    <3>1. CASE frame[k].has_branchpoint
      BY <1>0, <2>1, <3>1, EnterStep DEF EnterBranchHere
    <3>2. CASE ~frame[k].has_branchpoint
      BY <1>0, <2>1, <3>2, MoveStep DEF EnterBranchHere, Errors
    <3>3. QED
      BY <3>1, <3>2
  <2>2. CASE EnterBranchLoad(k)
    <3>1. k \in 0 .. fp /\ frame[k].has_savepoint /\ Reload(k)
      BY <2>2, NFrameAssumption DEF EnterBranchLoad, IInv, TypeOK, Frames
    <3>2. vptr' \in Cells /\ vmem' \in [Cells -> Data]
      BY <3>1, ReloadStep
    <3>3. CASE frame[k].has_branchpoint
      BY <2>2, <3>1, <3>2, <3>3, EnterStep DEF EnterBranchLoad
    <3>4. CASE ~frame[k].has_branchpoint
      BY <2>2, <3>1, <3>2, <3>4, MoveStep DEF EnterBranchLoad, Errors
    <3>5. QED
      BY <3>3, <3>4
  <2>3. CASE EnterBranchFails(k)
    BY <1>8, <2>3 DEF EnterBranchFails
  <2>4. QED
    BY <1>9, <2>1, <2>2, <2>3 DEF SimEnterBranch
<1>10. QED
  BY <1>1, <1>2, <1>3, <1>4, <1>5, <1>6, <1>7, <1>8, <1>9 DEF Next

(* Every reachable state satisfies the inductive invariant.                *)
THEOREM Invariance == Spec => []IInv
<1>1. QED
  BY InitIInv, NextIInv, PTL DEF Spec

(* Type correctness: all pointers, indices and memory contents of sim.c    *)
(* stay in range.                                                          *)
THEOREM TypeCorrect == Spec => []TypeOK
<1>1. IInv => TypeOK
  BY DEF IInv
<1>2. QED
  BY Invariance, <1>1, PTL

(* Savepoint copies are never overlapped by later allocations, and block   *)
(* copies stay inside their regions.                                       *)
THEOREM SavepointsBounded == Spec => []SavepointBounds
<1>1. IInv => SavepointBounds
  BY DEF IInv
<1>2. QED
  BY Invariance, <1>1, PTL

(* Live frames have increasing frame ids.                                  *)
THEOREM FrameIdsIncrease == Spec => []FrameIdsGrow
<1>1. IInv => FrameIdsGrow
  BY DEF IInv
<1>2. QED
  BY Invariance, <1>1, PTL

-----------------------------------------------------------------------------
(* Sim implements Branching.                                               *)

(* The used part of a well-typed vstack is an abstract state.              *)
LEMMA CurrentInState == TypeOK => Current \in State
<1> SUFFICES ASSUME TypeOK PROVE Current \in State
  OBVIOUS
<1>1. vptr \in Cells /\ \A i \in 0 .. vptr - 1 : vmem[i] \in Data
  BY BlockAssumption DEF TypeOK, Cells, Rsize
<1>2. Current \in [0 .. vptr - 1 -> Data]
  BY <1>1 DEF Current
<1>3. QED
  BY <1>1, <1>2 DEF State

(* So is the savepoint copy of a live frame: it is not "no snapshot".      *)
LEMMA SnapshotInState ==
    ASSUME IInv, NEW k \in 0 .. fp, frame[k].has_savepoint
    PROVE  /\ Snapshot(frame[k], fmem[k]) \in State
           /\ Snapshot(frame[k], fmem[k]) # NoSnap
<1> DEFINE f == frame[k]
<1>1. k \in Frames /\ f \in FrameRec /\ fmem[k] \in [Cells -> Data]
  BY LiveFrames DEF IInv, TypeOK
<1>2. f.sp_data # NULL /\ f.sp_data + f.sp_ptr <= f.ptr
  BY DEF IInv, SavepointBounds
<1>3. f.sp_data \in Cells /\ f.sp_ptr \in Cells /\ f.ptr \in Cells
  BY <1>1, <1>2 DEF FrameRec
<1> HIDE DEF f
<1>4. \A j \in 0 .. f.sp_ptr - 1 : f.sp_data + j \in Cells
  BY <1>2, <1>3, BlockAssumption DEF Cells, Rsize
<1>5. Snapshot(f, fmem[k]) \in [0 .. f.sp_ptr - 1 -> Data]
  BY <1>1, <1>4 DEF Snapshot
<1>6. Snapshot(f, fmem[k]) \in State
  BY <1>3, <1>5 DEF State
<1>7. QED
  BY <1>6, NoSnapAssumption DEF f

(* A snapshot depends only on the savepoint fields and the saved cells.    *)
LEMMA SnapshotKept ==
    ASSUME NEW f, NEW g, NEW m, NEW n, f.sp_data = g.sp_data, f.sp_ptr = g.sp_ptr,
           \A j \in 0 .. f.sp_ptr - 1 : m[f.sp_data + j] = n[f.sp_data + j]
    PROVE  Snapshot(f, m) = Snapshot(g, n)
BY DEF Snapshot

(* A step that leaves frames, frame pointer and saved cells alone leaves   *)
(* the abstract snapshots and branch points alone.                         *)
LEMMA SnapKept ==
    ASSUME IInv, fp' = fp,
           \A k \in Frames : /\ frame'[k].has_savepoint = frame[k].has_savepoint
                             /\ frame'[k].has_branchpoint = frame[k].has_branchpoint
                             /\ frame[k].has_savepoint =>
                                   /\ frame'[k].sp_data = frame[k].sp_data
                                   /\ frame'[k].sp_ptr = frame[k].sp_ptr,
           \A k \in 0 .. fp : frame[k].has_savepoint =>
               \A j \in 0 .. frame[k].sp_ptr - 1 :
                  fmem'[k][frame[k].sp_data + j] = fmem[k][frame[k].sp_data + j]
    PROVE  Snap' = Snap /\ Branches' = Branches
<1>1. \A k \in Frames : k <= fp => k \in 0 .. fp
  BY NFrameAssumption DEF Frames, IInv, TypeOK
<1>2. \A k \in Frames : k <= fp /\ frame[k].has_savepoint =>
         Snapshot(frame'[k], fmem'[k]) = Snapshot(frame[k], fmem[k])
  BY <1>1 DEF Snapshot
<1>3. Snap' = Snap
  BY <1>2 DEF Snap
<1>4. Branches' = Branches
  BY DEF Branches
<1>5. QED
  BY <1>3, <1>4

(* sim_create maps to the initial state of Branching: one frame, no        *)
(* snapshot.                                                               *)
LEMMA RefinesInit == Init => Abs!BranchingInit
<1> SUFFICES ASSUME Init PROVE Abs!BranchingInit
  OBVIOUS
<1>1. TypeOK
  BY InitIInv DEF IInv
<1>2. Current \in State
  BY <1>1, CurrentInState
<1>3. \A k \in Frames : ~frame[k].has_savepoint /\ ~frame[k].has_branchpoint
  BY DEF Init, FreshFrame
<1>4. Snap = [k \in Frames |-> NoSnap] /\ Branches = [k \in Frames |-> FALSE]
  BY <1>3 DEF Snap, Branches
<1>5. fp = 0 /\ Abs!Frames = Frames
  BY DEF Init, Frames, Abs!Frames
<1>6. QED
  BY <1>2, <1>4, <1>5 DEF Abs!BranchingInit

AbsStep == [Abs!BranchingNext]_(Abs!bvars)

(* A step that changes no abstract variable is allowed by Branching.       *)
LEMMA AbsStutters ==
    ASSUME UNCHANGED <<Current, fp, Snap, Branches>>
    PROVE  AbsStep
BY DEF AbsStep, Abs!bvars

(* Nothing the abstract state depends on changes.                          *)
LEMMA StutterRefines ==
    ASSUME UNCHANGED <<vptr, vmem, frame, fmem, fp>>
    PROVE  AbsStep
<1>1. Current' = Current /\ Snap' = Snap /\ Branches' = Branches
  BY DEF Current, Snap, Snapshot, Branches
<1>2. QED
  BY <1>1, AbsStutters

(* What the program does between calls (allocating, writing) changes at    *)
(* most the current abstract state, never a snapshot.                      *)
LEMMA ProgramRefines ==
    ASSUME IInv, IInv',
           \/ \E size \in Sizes, align \in Aligns :
                 \/ AllocStatic(size, align)
                 \/ AllocFrame(size, align)
                 \/ AllocVstack(size, align)
           \/ \E i \in Cells, v \in Data : WriteVstack(i, v)
           \/ \E k \in Frames, i \in Cells, v \in Data : WriteFrame(k, i, v)
    PROVE  AbsStep
<1>1. Current' \in State
  <2>1. TypeOK' => (Current \in State)'
    BY CurrentInState, PTL
  <2>2. QED
    BY <2>1 DEF IInv
<1>2. ASSUME UNCHANGED <<frame, fmem, fp>> PROVE AbsStep
  <2>1. Snap' = Snap /\ Branches' = Branches
    BY <1>2 DEF Snap, Snapshot, Branches
  <2>2. QED
    BY <1>1, <1>2, <2>1 DEF AbsStep, Abs!BranchingNext, Abs!Compute
<1>3. ASSUME NEW size \in Sizes, NEW align \in Aligns,
             AllocStatic(size, align) \/ AllocVstack(size, align)
      PROVE  AbsStep
  BY <1>2, <1>3 DEF AllocStatic, AllocVstack
<1>4. ASSUME NEW i \in Cells, NEW v \in Data, WriteVstack(i, v)
      PROVE  AbsStep
  BY <1>2, <1>4 DEF WriteVstack
<1>5. ASSUME NEW size \in Sizes, NEW align \in Aligns, AllocFrame(size, align)
      PROVE  AbsStep
  <2>1. UNCHANGED <<vptr, vmem, fmem, fp>>
    BY <1>5 DEF AllocFrame
  <2>2. \A k \in Frames : /\ frame'[k].has_savepoint = frame[k].has_savepoint
                          /\ frame'[k].has_branchpoint = frame[k].has_branchpoint
                          /\ frame'[k].sp_data = frame[k].sp_data
                          /\ frame'[k].sp_ptr = frame[k].sp_ptr
    BY <1>5 DEF AllocFrame, IInv, TypeOK, FrameRec
  <2>3. Snap' = Snap /\ Branches' = Branches
    BY <2>1, <2>2, SnapKept
  <2>4. Current' = Current
    BY <2>1 DEF Current
  <2>5. QED
    BY <2>1, <2>3, <2>4, AbsStutters
<1>6. ASSUME NEW k \in Frames, NEW i \in Cells, NEW v \in Data, WriteFrame(k, i, v)
      PROVE  AbsStep
  <2>1. /\ UNCHANGED <<vptr, vmem, frame, fp>> /\ i \notin SavedCells(k)
        /\ fmem' = [fmem EXCEPT ![k][i] = v]
    BY <1>6 DEF WriteFrame, ProgramCells
  <2>2. ASSUME NEW h \in 0 .. fp, frame[h].has_savepoint, NEW j \in 0 .. frame[h].sp_ptr - 1
        PROVE  fmem'[h][frame[h].sp_data + j] = fmem[h][frame[h].sp_data + j]
    <3>1. h \in Frames /\ frame[h] \in FrameRec /\ frame[h].sp_data # NULL
      BY <2>2, LiveFrames DEF IInv, TypeOK, SavepointBounds
    <3>2. frame[h].sp_data \in Nat /\ frame[h].sp_ptr \in Nat
      BY <3>1, BlockAssumption DEF FrameRec, Cells, Rsize
    <3>3. CASE h = k
      <4>1. frame[h].sp_data + j \in SavedCells(k)
        BY <2>2, <3>2, <3>3 DEF SavedCells
      <4>2. frame[h].sp_data + j # i
        BY <2>1, <4>1
      <4>3. QED
        BY <2>1, <3>1, <4>2 DEF IInv, TypeOK
    <3>4. CASE h # k
      BY <2>1, <3>1, <3>4 DEF IInv, TypeOK
    <3>5. QED
      BY <3>3, <3>4
  <2>3. Snap' = Snap /\ Branches' = Branches
    BY <2>1, <2>2, SnapKept
  <2>4. Current' = Current
    BY <2>1 DEF Current
  <2>5. QED
    BY <2>1, <2>3, <2>4, AbsStutters
<1>7. QED
  BY <1>3, <1>4, <1>5, <1>6

(* sim_savepoint takes the current state as the snapshot of a frame that   *)
(* has none, or leaves all snapshots alone.                                *)
LEMMA SavepointSnap ==
    ASSUME IInv, NEW b \in BOOLEAN,
           SavepointOn([frame[fp] EXCEPT !.has_branchpoint = b])
    PROVE  /\ Current' = Current /\ fp' = fp
           /\ Branches' = [Branches EXCEPT ![fp] = b]
           /\ \/ Snap' = Snap
              \/ Snap[fp] = NoSnap /\ Snap' = [Snap EXCEPT ![fp] = Current]
<1> DEFINE f == [frame[fp] EXCEPT !.has_branchpoint = b]
           p == Bump(f.ptr, vptr, Block)
<1>1. fp \in Frames /\ frame \in [Frames -> FrameRec] /\ f \in FrameRec
  BY DEF IInv, TypeOK, FrameRec
<1>2. /\ f.ptr = frame[fp].ptr /\ f.has_savepoint = frame[fp].has_savepoint
      /\ f.sp_data = frame[fp].sp_data /\ f.sp_ptr = frame[fp].sp_ptr
      /\ f.has_branchpoint = b
  BY <1>1 DEF FrameRec
<1>3. /\ vptr' = vptr /\ vmem' = vmem /\ fp' = fp /\ ret' = SaveCode(f)
      /\ frame' = [frame EXCEPT ![fp] = IF f.has_savepoint THEN f ELSE SaveInFrame(f)]
      /\ fmem' = IF ret' = "OK"
                 THEN [fmem EXCEPT ![fp] = Blockcpy(@, frame'[fp].sp_data, vmem, 0, vptr)]
                 ELSE fmem
  BY DEF SavepointOn
<1>4. Current' = Current
  BY <1>3 DEF Current
<1>5. frame'[fp].has_branchpoint = b /\ \A k \in Frames \ {fp} : frame'[k] = frame[k]
  BY <1>1, <1>2, <1>3 DEF SaveInFrame, FrameRec
<1>6. Branches' = [Branches EXCEPT ![fp] = b]
  <2>1. fp <= fp
    BY <1>1, NFrameAssumption DEF Frames
  <2>2. Branches' = [k \in Frames |-> k <= fp /\ frame'[k].has_branchpoint]
    BY <1>3 DEF Branches
  <2>3. \A k \in Frames \ {fp} : Branches'[k] = Branches[k]
    BY <1>5, <2>2 DEF Branches
  <2>4. Branches'[fp] = b
    BY <1>1, <1>5, <2>1, <2>2
  <2>5. QED
    BY <2>2, <2>3, <2>4 DEF Branches
<1> HIDE DEF f
<1>7. CASE f.has_savepoint
  <2>1. fmem' = fmem /\ frame' = [frame EXCEPT ![fp] = f]
    BY <1>3, <1>7 DEF SaveCode
  <2>2. Snap' = Snap
    BY <1>1, <1>2, <1>3, <1>7, <2>1 DEF Snap, Snapshot
  <2>3. QED
    BY <1>3, <1>4, <1>6, <2>2
<1>8. CASE ~f.has_savepoint /\ p = NULL
  <2>1. fmem' = fmem /\ ~frame'[fp].has_savepoint
    BY <1>1, <1>3, <1>8 DEF SaveCode, SaveInFrame, FrameRec
  <2>2. Snap' = Snap
    BY <1>1, <1>2, <1>3, <1>5, <1>8, <2>1 DEF Snap
  <2>3. QED
    BY <1>3, <1>4, <1>6, <2>2
<1>9. CASE ~f.has_savepoint /\ p # NULL
  <2>1. vptr \in Cells /\ f.ptr \in Cells /\ vptr \in Nat /\ Rsize \in Nat
    BY <1>1, BlockAssumption DEF IInv, TypeOK, FrameRec, Cells, Rsize
  <2>2. p = Align(f.ptr, Block) /\ p \in Cells /\ p + vptr \in Cells
    BY <1>9, <2>1, BumpBounds, BlockAssumption
  <2>3. p \in Nat /\ p + vptr < Rsize /\ f.ptr \in Nat
    BY <2>1, <2>2 DEF Cells
  <2>4. /\ frame'[fp].has_savepoint /\ frame'[fp].sp_data = p /\ frame'[fp].sp_ptr = vptr
        /\ ret' = "OK"
    BY <1>1, <1>3, <1>9 DEF SaveCode, SaveInFrame, FrameRec
  <2> HIDE DEF p
  <2>5. fmem' = [fmem EXCEPT ![fp] = Blockcpy(fmem[fp], p, vmem, 0, vptr)]
    BY <1>3, <2>4
  <2>6. p + Align(vptr, Block) <= Rsize /\ 0 + Align(vptr, Block) <= Rsize
    <3>1. PICK q \in Nat : p = Block * q
      BY <2>2, <2>3, AlignMultiple, BlockAssumption
    <3>2. p + Align(vptr, Block) <= Rsize
      BY <2>1, <2>3, <3>1, BlockFit
    <3>3. Align(vptr, Block) \in Nat
      BY <2>1, AlignBounds, BlockAssumption
    <3>4. QED
      BY <2>1, <2>3, <3>2, <3>3
  <2>7. \A j \in 0 .. vptr - 1 : fmem'[fp][p + j] = vmem[j]
    <3>1. fmem[fp] \in [Cells -> Data] /\ vmem \in [Cells -> Data] /\ fmem \in [Frames -> [Cells -> Data]]
      BY DEF IInv, TypeOK
    <3>2. \A j \in 0 .. vptr - 1 : Blockcpy(fmem[fp], p, vmem, 0, vptr)[p + j] = vmem[j]
      <4>1. Align(vptr, Block) \in Nat /\ vptr <= Align(vptr, Block)
        BY <2>1, AlignBounds, BlockAssumption
      <4>2. QED
        BY <2>1, <2>3, <2>6, <4>1 DEF Blockcpy, Cells
    <3>3. QED
      BY <1>1, <2>1, <2>5, <3>1, <3>2
  <2>8. Snapshot(frame'[fp], fmem'[fp]) = Current
    BY <2>4, <2>7 DEF Snapshot, Current
  <2>9. \A k \in Frames \ {fp} : fmem'[k] = fmem[k]
    BY <2>5 DEF IInv, TypeOK
  <2>10. Snap[fp] = NoSnap
    BY <1>1, <1>2, <1>9 DEF Snap
  <2>11. Snap' = [Snap EXCEPT ![fp] = Current]
    <3>1. fp <= fp
      BY <1>1, NFrameAssumption DEF Frames
    <3>2. Snap' = [k \in Frames |-> IF k <= fp /\ frame'[k].has_savepoint
                                    THEN Snapshot(frame'[k], fmem'[k]) ELSE NoSnap]
      BY <1>3 DEF Snap
    <3>3. \A k \in Frames \ {fp} : Snap'[k] = Snap[k]
      BY <1>5, <2>9, <3>2 DEF Snap
    <3>4. Snap'[fp] = Current
      BY <1>1, <2>4, <2>8, <3>1, <3>2
    <3>5. QED
      BY <3>2, <3>3, <3>4 DEF Snap
  <2>12. QED
    BY <1>3, <1>4, <1>6, <2>10, <2>11
<1>10. QED
  BY <1>7, <1>8, <1>9

(* sim_savepoint is Branching's Save or changes nothing abstract.          *)
LEMMA SavepointRefines ==
    ASSUME IInv, Savepoint \/ Branch
    PROVE  AbsStep
<1>1. fp \in Frames /\ frame[fp] \in FrameRec
  BY DEF IInv, TypeOK
<1>2. CASE Savepoint
  <2> DEFINE b == frame[fp].has_branchpoint
  <2>1. b \in BOOLEAN /\ frame[fp] = [frame[fp] EXCEPT !.has_branchpoint = b]
    BY <1>1 DEF FrameRec
  <2>2. /\ Current' = Current /\ fp' = fp
        /\ Branches' = [Branches EXCEPT ![fp] = b]
        /\ Snap' = Snap \/ (Snap[fp] = NoSnap /\ Snap' = [Snap EXCEPT ![fp] = Current])
    BY <1>2, <2>1, SavepointSnap DEF Savepoint
  <2>3. Branches' = Branches
    BY <1>1, <2>1, <2>2, NFrameAssumption DEF Branches, Frames
  <2>4. QED
    BY <2>2, <2>3 DEF AbsStep, Abs!bvars, Abs!BranchingNext, Abs!Save
<1>3. CASE Branch
  <2>1. CASE UNCHANGED <<statptr, vptr, vmem, frame, fmem, fp, next_fid, work>>
    BY <2>1, StutterRefines
  <2>2. CASE /\ ~frame[fp].has_branchpoint
             /\ SavepointOn([frame[fp] EXCEPT !.has_branchpoint = TRUE])
    <3>1. ~Branches[fp]
      BY <1>1, <2>2 DEF Branches
    <3>2. QED
      BY <2>2, <3>1, SavepointSnap DEF AbsStep, Abs!BranchingNext, Abs!MarkBranch
  <2>3. QED
    BY <1>3, <2>1, <2>2 DEF Branch
<1>4. QED
  BY <1>2, <1>3

(* Moving to frame k forgets exactly the deeper frames.                    *)
LEMMA MoveForgets ==
    ASSUME IInv, NEW k \in 0 .. fp, NEW top \in {k, k + 1}, top \in Frames, fp' = top,
           \A i \in 0 .. k : frame'[i] = frame[i] /\ fmem'[i] = fmem[i],
           top = k + 1 => ~frame'[top].has_savepoint /\ ~frame'[top].has_branchpoint
    PROVE  /\ Snap' = Abs!Forget(Snap, k, NoSnap)
           /\ Branches' = Abs!Forget(Branches, k, FALSE)
<1>1. fp \in Nat /\ k \in Nat /\ NFrame \in Nat /\ k <= fp /\ Frames = 0 .. NFrame - 1
  BY NFrameAssumption DEF IInv, TypeOK, Frames
<1>2. Abs!Frames = Frames
  BY DEF Abs!Frames, Frames
<1>3. \A i \in Frames : \/ i \in 0 .. k /\ i <= top /\ i <= fp /\ ~(i > k)
                        \/ i > k /\ i \notin 0 .. k /\ (~(i <= top) \/ (i = top /\ top = k + 1))
  BY <1>1
<1>4. Snap' = [i \in Frames |-> IF i <= top /\ frame'[i].has_savepoint
                                THEN Snapshot(frame'[i], fmem'[i]) ELSE NoSnap]
  BY DEF Snap
<1>5. \A i \in Frames : Snap'[i] = IF i > k THEN NoSnap ELSE Snap[i]
  BY <1>3, <1>4 DEF Snap
<1>6. Snap' = Abs!Forget(Snap, k, NoSnap)
  BY <1>2, <1>4, <1>5 DEF Abs!Forget
<1>7. Branches' = [i \in Frames |-> i <= top /\ frame'[i].has_branchpoint]
  BY DEF Branches
<1>8. \A i \in Frames : Branches'[i] = IF i > k THEN FALSE ELSE Branches[i]
  <2> SUFFICES ASSUME NEW i \in Frames
               PROVE  Branches'[i] = IF i > k THEN FALSE ELSE Branches[i]
    OBVIOUS
  <2>1. CASE i \in 0 .. k /\ i <= top /\ i <= fp /\ ~(i > k)
    BY <1>7, <2>1 DEF Branches
  <2>2. CASE i > k /\ i \notin 0 .. k /\ (~(i <= top) \/ (i = top /\ top = k + 1))
    BY <1>7, <2>2
  <2>3. QED
    BY <1>3, <2>1, <2>2
<1>9. Branches' = Abs!Forget(Branches, k, FALSE)
  BY <1>2, <1>7, <1>8 DEF Abs!Forget
<1>10. QED
  BY <1>6, <1>9

(* Nothing is forgotten by staying in the current frame.                   *)
LEMMA ForgetNothing ==
    ASSUME IInv
    PROVE  /\ Abs!Forget(Snap, fp, NoSnap) = Snap
           /\ Abs!Forget(Branches, fp, FALSE) = Branches
<1>1. \A i \in Frames : i > fp <=> ~(i <= fp)
  BY NFrameAssumption DEF IInv, TypeOK, Frames
<1>2. Abs!Frames = Frames
  BY DEF Abs!Frames, Frames
<1>3. QED
  BY <1>1, <1>2 DEF Abs!Forget, Snap, Branches

(* What a reload brings back is the snapshot of the frame.                 *)
LEMMA ReloadIsSnapshot ==
    ASSUME IInv, NEW k \in 0 .. fp, frame[k].has_savepoint, Reload(k)
    PROVE  Current' = Snap[k] /\ Snap[k] # NoSnap
<1>1. /\ vptr' = frame[k].sp_ptr
      /\ \A j \in 0 .. vptr' - 1 : vmem'[j] = fmem[k][frame[k].sp_data + j]
  BY ReloadStep DEF Reload
<1>2. k \in Frames /\ k <= fp
  BY LiveFrames, NFrameAssumption DEF IInv, TypeOK, Frames
<1>3. Snap[k] = Snapshot(frame[k], fmem[k])
  BY <1>2 DEF Snap
<1>4. Current' = [j \in 0 .. frame[k].sp_ptr - 1 |-> fmem[k][frame[k].sp_data + j]]
  BY <1>1 DEF Current
<1>5. QED
  BY <1>3, <1>4, SnapshotInState DEF Snapshot

(* sim_up, sim_reload and sim_load drop frames or load one.                *)
LEMMA MoveRefines ==
    ASSUME IInv, NEW k \in 0 .. fp, fp' = k, UNCHANGED <<frame, fmem>>,
           \/ UNCHANGED <<vptr, vmem>>
           \/ frame[k].has_savepoint /\ Reload(k)
    PROVE  AbsStep
<1>1. k \in Frames /\ k \in Abs!Frames /\ k <= fp
  BY LiveFrames, NFrameAssumption DEF IInv, TypeOK, Frames, Abs!Frames
<1>2. Snap' = Abs!Forget(Snap, k, NoSnap) /\ Branches' = Abs!Forget(Branches, k, FALSE)
  <2>1. k # k + 1
    BY NFrameAssumption DEF IInv, TypeOK, Frames
  <2>2. QED
    BY <1>1, <2>1, MoveForgets
<1>3. CASE UNCHANGED <<vptr, vmem>>
  <2>1. Current' = Current
    BY <1>3 DEF Current
  <2>2. Abs!Drop(k)
    BY <1>1, <1>2, <2>1 DEF Abs!Drop
  <2>3. QED
    BY <1>1, <2>2 DEF AbsStep, Abs!BranchingNext
<1>4. CASE frame[k].has_savepoint /\ Reload(k)
  <2>1. Abs!Load(k)
    BY <1>1, <1>2, <1>4, ReloadIsSnapshot DEF Abs!Load
  <2>2. QED
    BY <1>1, <2>1 DEF AbsStep, Abs!BranchingNext
<1>5. QED
  BY <1>3, <1>4

(* sim_enter descends, or changes nothing.                                 *)
LEMMA EnterRefines ==
    ASSUME IInv, EnterFrom(fp), UNCHANGED <<vptr, vmem, fmem>>
    PROVE  AbsStep
<1>1. fp \in 0 .. fp /\ fp \in Frames /\ fp \in Nat
  BY NFrameAssumption DEF IInv, TypeOK, Frames
<1>2. CASE fp + 1 >= NFrame
  BY <1>2, StutterRefines DEF EnterFrom
<1>3. CASE ~(fp + 1 >= NFrame)
  <2>1. /\ fp' = fp + 1 /\ fp + 1 < NFrame /\ fp + 1 \in Frames
        /\ frame' = [frame EXCEPT ![fp + 1] = F_Enter(@, next_fid)]
    BY <1>1, <1>3, NFrameAssumption DEF EnterFrom, Frames
  <2>2. ~frame'[fp + 1].has_savepoint /\ ~frame'[fp + 1].has_branchpoint
    BY <2>1 DEF F_Enter, IInv, TypeOK, FrameRec
  <2>3. \A i \in 0 .. fp : frame'[i] = frame[i] /\ fmem'[i] = fmem[i]
    BY <1>1, <2>1
  <2>4. Snap' = Abs!Forget(Snap, fp, NoSnap) /\ Branches' = Abs!Forget(Branches, fp, FALSE)
    BY <1>1, <2>1, <2>2, <2>3, MoveForgets
  <2>5. Current' = Current
    BY DEF Current
  <2>6. QED
    BY <2>1, <2>4, <2>5, ForgetNothing DEF AbsStep, Abs!BranchingNext, Abs!Descend
<1>4. QED
  BY <1>2, <1>3

(* sim_enter_branch from a deeper frame starts a branch from the snapshot, *)
(* or loads the branch point and fails.                                    *)
LEMMA BranchRefines ==
    ASSUME IInv, NEW k \in Frames, EnterBranchLoad(k)
    PROVE  AbsStep
<1>1. /\ k \in 0 .. fp /\ k < fp /\ frame[k].has_savepoint /\ Reload(k) /\ fmem' = fmem
      /\ k + 1 \in Frames /\ k + 1 < NFrame /\ k \in Nat /\ k <= fp
  BY NFrameAssumption DEF EnterBranchLoad, IInv, TypeOK, Frames
<1>2. CASE frame[k].has_branchpoint
  <2>1. /\ fp' = k + 1
        /\ frame' = [frame EXCEPT ![k + 1] = F_Enter(@, next_fid)]
    BY <1>1, <1>2, NFrameAssumption DEF EnterBranchLoad, EnterFrom
  <2>2. ~frame'[k + 1].has_savepoint /\ ~frame'[k + 1].has_branchpoint
    BY <1>1, <2>1 DEF F_Enter, IInv, TypeOK, FrameRec
  <2>3. \A i \in 0 .. k : frame'[i] = frame[i] /\ fmem'[i] = fmem[i]
    BY <1>1, <2>1
  <2>4. Snap' = Abs!Forget(Snap, k, NoSnap) /\ Branches' = Abs!Forget(Branches, k, FALSE)
    BY <1>1, <2>1, <2>2, <2>3, MoveForgets
  <2>5. Branches[k] /\ k \in Abs!Frames
    BY <1>1, <1>2 DEF Branches, Abs!Frames, Frames
  <2>6. Abs!StartBranch(k)
    BY <1>1, <2>1, <2>4, <2>5, ReloadIsSnapshot DEF Abs!StartBranch
  <2>7. QED
    BY <2>5, <2>6 DEF AbsStep, Abs!BranchingNext
<1>3. CASE ~frame[k].has_branchpoint
  BY <1>1, <1>3, MoveRefines DEF EnterBranchLoad
<1>4. QED
  BY <1>2, <1>3

(* sim_load is Branching's Load, or only drops frames when the frame       *)
(* it moved to has no savepoint.                                           *)
LEMMA LoadRefines ==
    ASSUME IInv, NEW k \in Frames, SimUp(k) \/ SimLoad(k)
    PROVE  AbsStep
<1>1. CASE k > fp
  BY <1>1, StutterRefines DEF SimUp, SimLoad
<1>2. CASE ~(k > fp)
  <2>1. k \in 0 .. fp
    BY <1>2, NFrameAssumption DEF IInv, TypeOK, Frames
  <2>2. QED
    BY <1>2, <2>1, MoveRefines DEF SimUp, SimLoad
<1>3. QED
  BY <1>1, <1>2

(* Every step of Sim is a step of Branching or leaves it alone.            *)
LEMMA RefinesNext == IInv /\ IInv' /\ [Next]_vars => AbsStep
<1> SUFFICES ASSUME IInv, IInv', [Next]_vars PROVE AbsStep
  OBVIOUS
<1>1. fp \in 0 .. fp
  BY NFrameAssumption DEF IInv, TypeOK, Frames
<1>2. CASE UNCHANGED vars
  BY <1>2, StutterRefines DEF vars
<1>3. CASE SimReload
  BY <1>1, <1>3, MoveRefines DEF SimReload
<1>4. CASE SimEnter
  BY <1>4, EnterRefines DEF SimEnter
<1>5. ASSUME NEW k \in Frames, SimEnterBranch(k) PROVE AbsStep
  <2>1. CASE EnterBranchHere(k)
    <3>1. CASE frame[k].has_branchpoint
      BY <2>1, <3>1, EnterRefines DEF EnterBranchHere
    <3>2. CASE ~frame[k].has_branchpoint
      BY <2>1, <3>2, StutterRefines DEF EnterBranchHere
    <3>3. QED
      BY <3>1, <3>2
  <2>2. CASE EnterBranchLoad(k)
    BY <2>2, BranchRefines
  <2>3. CASE EnterBranchFails(k)
    BY <2>3, LoadRefines DEF EnterBranchFails
  <2>4. QED
    BY <1>5, <2>1, <2>2, <2>3 DEF SimEnterBranch
<1>6. QED
  BY <1>2, <1>3, <1>4, <1>5, ProgramRefines, SavepointRefines, LoadRefines DEF Next

(* The branching core implements the abstract snapshot stack: whatever the *)
(* program allocates and writes, in any frame, loading a frame brings back *)
(* exactly the vstack it was saved with.                                   *)
THEOREM Refinement == Spec => ImplementsBranching
<1>1. IInv /\ IInv' /\ [Next]_vars => [Abs!BranchingNext]_(Abs!bvars)
  BY RefinesNext DEF AbsStep
<1>2. QED
  BY <1>1, RefinesInit, Invariance, PTL DEF Spec, ImplementsBranching, Abs!BranchingSpec

-----------------------------------------------------------------------------
(* Failing calls.                                                          *)

(* A step that leaves the frames' memory alone and moves to frame k, with  *)
(* the vstack kept or reloaded from k.                                     *)
LEMMA MoveKeeps ==
    ASSUME IInv, NEW k \in 0 .. fp, fp' = k, UNCHANGED <<statptr, frame, fmem, next_fid>>,
           \/ UNCHANGED <<vptr, vmem>>
           \/ frame[k].has_savepoint /\ Reload(k)
    PROVE  FailureKeepsState
<1>1. fp' <= fp
  BY NFrameAssumption DEF IInv, TypeOK, Frames
<1>2. CASE UNCHANGED <<vptr, vmem>>
  BY <1>1, <1>2 DEF FailureKeepsState
<1>3. CASE frame[k].has_savepoint /\ Reload(k)
  BY <1>1, <1>3, ReloadStep DEF FailureKeepsState, Reload
<1>4. QED
  BY <1>2, <1>3

(* A failing sim_savepoint, also within sim_branch, changes no memory,     *)
(* no savepoint and no other frame.                                        *)
LEMMA SavepointFails ==
    ASSUME IInv, NEW b \in BOOLEAN, ret' # "OK",
           SavepointOn([frame[fp] EXCEPT !.has_branchpoint = b])
    PROVE  FailureKeepsState
<1> DEFINE f == [frame[fp] EXCEPT !.has_branchpoint = b]
<1>0. fp <= fp
  BY NFrameAssumption DEF IInv, TypeOK, Frames
<1>1. fp \in Frames /\ frame \in [Frames -> FrameRec] /\ f \in FrameRec
  BY DEF IInv, TypeOK, FrameRec
<1>2. f.ptr = frame[fp].ptr /\ f.has_savepoint = frame[fp].has_savepoint
  BY <1>1 DEF FrameRec
<1>3. /\ UNCHANGED <<statptr, vptr, vmem, fp, next_fid, fmem>>
      /\ frame' = [frame EXCEPT ![fp] = IF f.has_savepoint THEN f ELSE SaveInFrame(f)]
      /\ ret' = SaveCode(f)
  BY DEF SavepointOn
<1> HIDE DEF f
<1>4. ~f.has_savepoint => /\ SaveInFrame(f).ptr = f.ptr
                          /\ SaveInFrame(f).has_savepoint = f.has_savepoint
  BY <1>1, <1>3 DEF SaveCode, SaveInFrame, FrameRec
<1>5. \A k \in Frames : /\ frame'[k].ptr = frame[k].ptr
                        /\ frame'[k].has_savepoint = frame[k].has_savepoint
  BY <1>1, <1>2, <1>3, <1>4
<1>6. QED
  BY <1>0, <1>3, <1>5 DEF FailureKeepsState

(* Every failing call leaves memory, savepoints and vstack consistent.     *)
THEOREM FailuresHarmless == Spec => FailedCallIsHarmless
<1>1. ASSUME IInv, Next, ret' \in Errors PROVE FailureKeepsState
  <2>1. fp \in 0 .. fp /\ fp \in Frames /\ fp <= fp /\ frame \in [Frames -> FrameRec]
    BY <1>1, NFrameAssumption DEF IInv, TypeOK, Frames
  <2>2. ret' # "OK" /\ ret' # "NONE"
    BY <1>1 DEF Errors
  <2>3. ASSUME NEW size \in Sizes, NEW align \in Aligns,
               \/ AllocStatic(size, align)
               \/ AllocFrame(size, align)
               \/ AllocVstack(size, align)
        PROVE  FailureKeepsState
    BY <2>1, <2>2, <2>3
    DEF AllocStatic, AllocFrame, AllocVstack, FailureKeepsState, FrameRec
  <2>4. ~\E i \in Cells, v \in Data : WriteVstack(i, v)
    BY <2>2 DEF WriteVstack
  <2>5. ~\E k \in Frames, i \in Cells, v \in Data : WriteFrame(k, i, v)
    BY <2>2 DEF WriteFrame
  <2>6. CASE Savepoint
    <3>1. /\ frame[fp] = [frame[fp] EXCEPT !.has_branchpoint = frame[fp].has_branchpoint]
          /\ frame[fp].has_branchpoint \in BOOLEAN
      BY <2>1 DEF FrameRec
    <3>2. QED
      BY <1>1, <2>2, <2>6, <3>1, SavepointFails DEF Savepoint
  <2>7. CASE Branch
    BY <1>1, <2>1, <2>2, <2>7, SavepointFails, MoveKeeps DEF Branch
  <2>8. CASE SimReload
    BY <1>1, <2>1, <2>8, MoveKeeps DEF SimReload
  <2>9. ASSUME NEW k \in 0 .. fp, EnterFrom(k), fmem' = fmem, statptr' = statptr,
               \/ UNCHANGED <<vptr, vmem>>
               \/ frame[k].has_savepoint /\ Reload(k)
        PROVE  FailureKeepsState
    BY <1>1, <2>2, <2>9, MoveKeeps DEF EnterFrom
  <2>10. CASE SimEnter
    BY <2>1, <2>9, <2>10 DEF SimEnter
  <2>11. ASSUME NEW k \in Frames, SimUp(k) \/ SimLoad(k) PROVE FailureKeepsState
    <3>1. CASE k > fp
      BY <1>1, <2>1, <2>11, <3>1, MoveKeeps DEF SimUp, SimLoad
    <3>2. CASE ~(k > fp)
      <4>1. k \in 0 .. fp
        BY <1>1, <3>2, NFrameAssumption DEF IInv, TypeOK, Frames
      <4>2. QED
        BY <1>1, <2>11, <3>2, <4>1, MoveKeeps DEF SimUp, SimLoad
    <3>3. QED
      BY <3>1, <3>2
  <2>12. ASSUME NEW k \in Frames, SimEnterBranch(k) PROVE FailureKeepsState
    <3>1. CASE EnterBranchHere(k)
      BY <1>1, <2>1, <2>9, <3>1, MoveKeeps DEF EnterBranchHere
    <3>2. CASE EnterBranchLoad(k)
      <4>1. k \in 0 .. fp
        BY <1>1, <3>2, NFrameAssumption DEF EnterBranchLoad, IInv, TypeOK, Frames
      <4>2. QED
        BY <1>1, <2>9, <3>2, <4>1, MoveKeeps DEF EnterBranchLoad
    <3>3. CASE EnterBranchFails(k)
      BY <2>11, <3>3 DEF EnterBranchFails
    <3>4. QED
      BY <2>12, <3>1, <3>2, <3>3 DEF SimEnterBranch
  <2>13. QED
    BY <1>1, <2>3, <2>4, <2>5, <2>6, <2>7, <2>8, <2>10, <2>11, <2>12 DEF Next
<1>2. IInv /\ [Next]_vars => [ret' \in Errors => FailureKeepsState]_vars
  BY <1>1
<1>3. QED
  BY <1>2, Invariance, PTL DEF Spec, FailedCallIsHarmless
=============================================================================
