------------------------------- MODULE EventMC -------------------------------
(* An instance of Event for TLC: three threads and two bits.  Between them *)
(* the threads ask with every option, for one bit and for both.            *)
EXTENDS Event

CONSTANTS t1, t2, t3, x, y

MCPriority == [t \in Thread |-> IF t = t3 THEN 2 ELSE 1]

Asks(wants, options) == [want : wants, option : options]

MCAsk == [t \in Thread |->
   IF t = t1 THEN Asks({{x}, {x, y}}, {{"OR", "CLEAR"}, {"OR"}})
   ELSE IF t = t2 THEN Asks({{y}, {x, y}}, {{"AND", "CLEAR"}, {"AND"}})
   ELSE Asks({{x, y}}, {{"OR", "CLEAR"}, {"AND", "CLEAR"}, {"AND", "OR"}})]
==============================================================================
