----------------------------- MODULE SemaphoreMC -----------------------------
(* Instances of Semaphore for TLC: three threads, two of equal priority.   *)
EXTENDS Semaphore

CONSTANTS t1, t2, t3

MCPriority == [t \in Thread |-> IF t = t3 THEN 2 ELSE 1]
==============================================================================
