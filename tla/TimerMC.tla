------------------------------- MODULE TimerMC -------------------------------
(* Instances of Timer for TLC: a periodic hard timer h, a periodic soft    *)
(* timer p and a soft timer s that expires once.                           *)
EXTENDS Timer

CONSTANTS app, tt, isr, h, p, s, w

MCInitTick == [u \in User |-> 1]

(* The thread starts p, the callbacks of the timer thread start h and s. *)
MCStarts == {<<app, p>>, <<tt, s>>, <<tt, h>>}
MCStops == {<<app, p>>}
MCTunes == {<<tt, h>>, <<tt, s>>}
MCTurns == {<<tt, h>>, <<tt, s>>}
MCDetaches == {<<app, p>>}

(* Two of the three timers at a time. *)
MCUnmade == {{h}, {s}, {p}}

(* The thread starts both soft timers and stops one. *)
OwnStarts == {<<app, p>>, <<app, s>>}
OwnStops == {<<app, s>>}
Nothing == {}
OwnUnmade == {{h}}
==============================================================================
