------------------------------ MODULE BlockPool ------------------------------
(***************************************************************************)
(* What a memory pool promises: a block has one owner at a time, is given  *)
(* only while it has none, and only its owner gives it back.               *)
(***************************************************************************)
CONSTANTS User, Block, None

VARIABLE owner

Init == owner = [b \in Block |-> None]

Give(u, b) == owner[b] = None /\ owner' = [owner EXCEPT ![b] = u]
GiveBack(u, b) == owner[b] = u /\ owner' = [owner EXCEPT ![b] = None]

Next == \E u \in User, b \in Block : Give(u, b) \/ GiveBack(u, b)

Spec == Init /\ [][Next]_owner
==============================================================================
