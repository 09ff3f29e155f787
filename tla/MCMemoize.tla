----------------------------- MODULE MCMemoize -----------------------------
(* Memoization with a few evaluations spread over nested and sibling       *)
(* branches, far fewer than its eight bits can count.                      *)
EXTENDS Memoize, TLC
=============================================================================
