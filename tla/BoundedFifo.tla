----------------------------- MODULE BoundedFifo -----------------------------
(***************************************************************************)
(* What a mailbox promises: a queue of at most Size mails, read in the     *)
(* order in which they were sent, each of them once.                       *)
(***************************************************************************)
EXTENDS Naturals, Sequences

CONSTANTS Mail, Size

VARIABLE queue

Init == queue = <<>>

Send == /\ Len(queue) < Size
        /\ \E v \in Mail : queue' = Append(queue, v)

Recv == queue # <<>> /\ queue' = Tail(queue)

Reset == queue' = <<>>

Next == Send \/ Recv \/ Reset

Spec == Init /\ [][Next]_queue
==============================================================================
