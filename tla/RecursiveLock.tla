---------------------------- MODULE RecursiveLock ----------------------------
(***************************************************************************)
(* What rt_mutex_take and rt_mutex_release promise: depth[t][m] counts the *)
(* takes of mutex m that thread t was told succeeded and has not released. *)
(* A take succeeds only while no other thread has the mutex.               *)
(***************************************************************************)
EXTENDS Naturals

CONSTANTS Thread, Mutex

VARIABLE depth

Init == depth = [t \in Thread |-> [m \in Mutex |-> 0]]

Take(t, m) ==
    /\ \A u \in Thread \ {t} : depth[u][m] = 0
    /\ depth' = [depth EXCEPT ![t][m] = @ + 1]

Release(t, m) ==
    /\ depth[t][m] > 0
    /\ depth' = [depth EXCEPT ![t][m] = @ - 1]

Next == \E t \in Thread, m \in Mutex : Take(t, m) \/ Release(t, m)

Spec == Init /\ [][Next]_depth
==============================================================================
