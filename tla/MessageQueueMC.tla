---------------------------- MODULE MessageQueueMC ----------------------------
(* Instances of MessageQueue for TLC: three threads, all of them of the    *)
(* same priority but t1.                                                   *)
EXTENDS MessageQueue

CONSTANTS t1, t2, t3, v1, v2

MCPriority == [t \in Thread |-> IF t = t1 THEN 1 ELSE 2]
==============================================================================
