------------------------------ MODULE Doubling ------------------------------
(***************************************************************************)
(* The loop with which arena_alloc (mem.c) and F_ensure_capacity (vec.c)   *)
(* find a size: double until it fits.                                      *)
(***************************************************************************)
EXTENDS Integers

(* The size after j rounds.  A positive size fits after less than n.       *)
Rounds(start, n) ==
    LET size[j \in 0 .. n] ==
           IF j = 0 THEN start
           ELSE LET s == size[j - 1] IN IF s < n THEN 2 * s ELSE s
    IN size
DoubledTo(start, n) == Rounds(start, n)[n]
=============================================================================
