------------------------------- MODULE MCSim -------------------------------
(* The branching core on regions of four cells and two-cell blocks: large  *)
(* enough for an aligned savepoint with an allocation below and above it,  *)
(* small enough that the third allocation fails.                           *)
EXTENDS Sim, TLC

(* ret is written by every step and read by none, so states that differ    *)
(* only in ret have the same successors.                                   *)
WithoutRet == <<statptr, vptr, vmem, frame, fmem, fp, next_fid, work>>
=============================================================================
