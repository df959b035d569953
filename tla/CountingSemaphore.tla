-------------------------- MODULE CountingSemaphore --------------------------
(***************************************************************************)
(* What rt_sem_take and rt_sem_release promise, with no list, no timer and *)
(* no thread state: a thread that is told RT_EOK has consumed one of the   *)
(* available units, and only a release, a post or a reset makes units      *)
(* available.  A signal sent to a waiter breaks the promise: it may create *)
(* one unit or destroy one, so the signals are counted.                    *)
(***************************************************************************)
EXTENDS Integers, FiniteSets

CONSTANTS Thread, InitValue

VARIABLES avail,   \* units a take may consume
          held,    \* threads that consumed one
          total,   \* units put in
          kills    \* signals sent to waiters

Init == avail = InitValue /\ held = {} /\ total = InitValue /\ kills = 0

Acquire(t) ==
    /\ avail > 0 /\ t \notin held
    /\ avail' = avail - 1
    /\ held' = held \union {t}
    /\ UNCHANGED <<total, kills>>

GiveBack(t) ==
    /\ t \in held
    /\ avail' = avail + 1
    /\ held' = held \ {t}
    /\ UNCHANGED <<total, kills>>

Post ==
    /\ avail' = avail + 1
    /\ total' = total + 1
    /\ UNCHANGED <<held, kills>>

(* A reset cannot take back the units that are held. *)
Reset ==
    /\ total' \in Nat
    /\ avail' = total' - Cardinality(held)
    /\ UNCHANGED <<held, kills>>

Interrupt ==
    /\ kills' = kills + 1
    /\ avail' \in (avail - 1)..(avail + 1)
    /\ UNCHANGED <<held, total>>

Next == \/ Post \/ Reset \/ Interrupt
        \/ \E t \in Thread : Acquire(t) \/ GiveBack(t)

Spec == Init /\ [][Next]_<<avail, held, total, kills>>
==============================================================================
