----------------------------- MODULE SchedulerMC -----------------------------
(* Instances of Scheduler for TLC: the main thread and a peer of the same  *)
(* priority, a more urgent thread, and the idle thread.                    *)
EXTENDS Scheduler

CONSTANTS main, peer, urgent, idle

MCPriority == [t \in Thread |-> CASE t = urgent -> 1 [] t = idle -> 3
                                  [] OTHER -> 2]
MCTick == [t \in Thread |-> IF t = peer THEN 2 ELSE 1]
==============================================================================
