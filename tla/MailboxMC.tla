------------------------------ MODULE MailboxMC ------------------------------
(* Instances of Mailbox for TLC: three threads, two of equal priority.     *)
EXTENDS Mailbox

CONSTANTS t1, t2, t3, v1, v2

MCPriority == [t \in Thread |-> IF t = t1 THEN 1 ELSE 2]
==============================================================================
