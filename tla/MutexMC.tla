------------------------------- MODULE MutexMC -------------------------------
(* Instances of Mutex for TLC.  Threads hi, mid and lo are named for       *)
(* their priorities; n is taken while m is held.                           *)
EXTENDS Mutex

CONSTANTS hi, mid, lo, m, n

MCBase == [t \in Thread |-> CASE t = hi -> 1 [] t = mid -> 2 [] t = lo -> 3]
NoNesting == {}
Ordered == {<<m, n>>}
==============================================================================
