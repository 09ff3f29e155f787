------------------------------- MODULE MCVec -------------------------------
(* Vectors with an initial capacity of one element, so that every branch   *)
(* can both append in place and grow.                                      *)
EXTENDS Vec, TLC
CONSTANTS x, y

(* Programs only move values around.                                       *)
Values == Permutations({x, y})
=============================================================================
