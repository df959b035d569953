------------------------------- MODULE IpcList -------------------------------
(***************************************************************************)
(* The suspended-thread list that every IPC object of the kernel embeds    *)
(* (struct rt_ipc_object, src/src/ipc.c) and the operations on it.  A list *)
(* is the sequence of the threads linked on it, head first.  A thread is   *)
(* linked through its only node, tlist, so it occurs at most once in the   *)
(* lists of the system.                                                    *)
(***************************************************************************)
EXTENDS Integers, Sequences, SequencesExt

CONSTANT Thread  \* the threads of the system

(* The policies of rt_ipc_list_suspend. *)
FIFO == "RT_IPC_FLAG_FIFO"
PRIO == "RT_IPC_FLAG_PRIO"

Linked(list, t) == \E i \in 1..Len(list) : list[i] = t

(* No thread is linked twice. *)
Once(list) == \A i, j \in 1..Len(list) : list[i] = list[j] => i = j

(* Kept by priority: nobody stands behind a less urgent thread.            *)
Sorted(list, prio) ==
    \A i, j \in 1..Len(list) : i < j => prio[list[i]] <= prio[list[j]]

(* Where a thread of priority prio[t] goes in a list kept by priority:     *)
(* before the first thread that is strictly less urgent, else at the end.  *)
LessUrgent(list, t, prio) ==
    {i \in 1..Len(list) : prio[t] < prio[list[i]]}

PlaceOf(list, t, prio) ==
    IF LessUrgent(list, t, prio) = {} THEN Len(list) + 1
    ELSE CHOOSE i \in LessUrgent(list, t, prio) :
            \A j \in LessUrgent(list, t, prio) : i <= j

(* Mutant: the priority is ignored and every waiter goes to the end.       *)
EnqueueLast(list, t, flag, prio) == Append(list, t)

(* rt_ipc_list_suspend: link the calling thread. *)
Enqueue(list, t, flag, prio) ==
    IF flag = PRIO THEN InsertAt(list, PlaceOf(list, t, prio), t)
    ELSE Append(list, t)

(* rt_list_remove of the node of a thread, wherever it is linked. *)
Unlink(list, t) ==
    IF Linked(list, t)
    THEN RemoveAt(list, CHOOSE i \in 1..Len(list) : list[i] = t)
    ELSE list
==============================================================================
