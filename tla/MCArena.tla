------------------------------ MODULE MCArena ------------------------------
(* Arenas that start with four units; requests range from a fraction of a  *)
(* chunk to more than its size, and none fills a new chunk exactly.        *)
EXTENDS Arena, TLC

MCRequests == {<<1, 1>>, <<2, 2>>, <<3, 1>>, <<7, 4>>}
=============================================================================
