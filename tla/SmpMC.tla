-------------------------------- MODULE SmpMC --------------------------------
(* Instances of Smp for TLC: two processors with their idle threads, and   *)
(* three threads, one of them bound to the second processor.               *)
EXTENDS Smp

CONSTANTS c0, c1, i0, i1, a, b, e

MCIdle == [c \in Cpu |-> IF c = c0 THEN i0 ELSE i1]
MCPriority == [t \in Thread |->
                 CASE t = a -> 0 [] t \in {b, e} -> 2 [] OTHER -> 3]
MCBindCpu == [t \in Thread |->
                CASE t = i0 -> c0 [] t \in {i1, e} -> c1 [] OTHER -> None]
==============================================================================
