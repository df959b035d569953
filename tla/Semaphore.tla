------------------------------ MODULE Semaphore ------------------------------
(***************************************************************************)
(* The counting semaphore of the kernel (rt_sem_*, src/src/ipc.c) together *)
(* with the three things that end a wait on it: a release, the timer of    *)
(* the thread, and a signal sent to the thread (src/src/signal.c).         *)
(*                                                                         *)
(* A section of code between rt_hw_interrupt_disable and _enable is one    *)
(* action.  Any thread that is not suspended may take the next step, which *)
(* covers every preemption of one processor and every interleaving of two. *)
(* A thread is SUSPEND exactly when it is linked on the list of the        *)
(* semaphore, so its stat is not a variable of its own.                    *)
(***************************************************************************)
EXTENDS IpcList, FiniteSets

CONSTANTS Flag,       \* FIFO or PRIO, the flag given to rt_sem_init
          Priority,   \* Priority[t], a smaller number is more urgent
          InitValue,  \* the value given to rt_sem_init
          MaxTotal,   \* bound on the units in existence
          ValueMod,   \* 2^16 in the code: value is an rt_uint16_t
          Timed,      \* threads that may wait with a finite timeout
          Resetters,  \* threads that may call rt_sem_control(RESET)
          Detachers,  \* threads that may detach or delete the semaphore
          Signalled,  \* threads to which others send signals
          MaxKills    \* bound on the signals sent

ASSUME ThreadAssumption == IsFiniteSet(Thread)
ASSUME FlagAssumption == Flag \in {FIFO, PRIO}
ASSUME PriorityAssumption == Priority \in [Thread -> Nat]
ASSUME ValueAssumption ==
    /\ InitValue \in Nat /\ MaxTotal \in Nat /\ ValueMod \in Nat
    /\ MaxKills \in Nat
    /\ InitValue <= MaxTotal
    /\ MaxTotal + MaxKills < ValueMod

VARIABLES value,   \* sem->value
          list,    \* sem->parent.suspend_thread
          timer,   \* threads whose thread_timer is active
          error,   \* thread->error
          pc,      \* where a thread is in the kernel
          live,    \* FALSE once the object is detached
          held,    \* threads that were told they have a unit
          total,   \* units ever put in, less what a reset discarded
          kills    \* signals sent so far

vars == <<value, list, timer, error, pc, live, held, total, kills>>

Errors == {"EOK", "ETIMEOUT", "ERROR", "EINTR"}

(* "waiting": suspended by rt_sem_take, or resumed and not back from it.   *)
(* "resume_all", "resume_one", "unregister": in rt_sem_detach or _delete.  *)
(* "wild": rt_ipc_list_resume_all has taken the head of an empty list for  *)
(* a thread.                                                               *)
Locations == {"idle", "waiting",
              "resume_all", "resume_one", "unregister", "wild"}

(* Types: the value keeps the width of an rt_uint16_t, and it never goes   *)
(* below zero although the take tests it and the reset writes it.          *)
TypeOK ==
    /\ value \in 0..(ValueMod - 1)
    /\ list \in Seq(Thread)
    /\ timer \subseteq Thread
    /\ error \in [Thread -> Errors]
    /\ pc \in [Thread -> Locations]
    /\ live \in BOOLEAN
    /\ held \subseteq Thread
    /\ total \in 0..MaxTotal
    /\ kills \in 0..MaxKills

Init ==
    /\ value = InitValue
    /\ list = <<>>
    /\ timer = {}
    /\ error = [t \in Thread |-> "EOK"]
    /\ pc = [t \in Thread |-> "idle"]
    /\ live = TRUE
    /\ held = {}
    /\ total = InitValue
    /\ kills = 0

Suspended(t) == Linked(list, t)

(* Threads that left the list with error EOK: rt_sem_take will return      *)
(* RT_EOK to them, so each of them stands for one unit.                    *)
Granted ==
    {t \in Thread : pc[t] = "waiting" /\ ~Suspended(t) /\ error[t] = "EOK"}

(* Every unit that is not on the counter is held, or granted to a thread   *)
(* that has not returned from rt_sem_take yet.                             *)
UnitsOut == Cardinality(held) + Cardinality(Granted)

------------------------------------------------------------------------------
(* rt_sem_take with value > 0. *)
TakeAvailable(t) ==
    /\ pc[t] = "idle" /\ live /\ t \notin held
    /\ value > 0
    /\ value' = value - 1
    /\ held' = held \union {t}
    /\ UNCHANGED <<list, timer, error, pc, live, total, kills>>

(* rt_sem_take with value = 0 and a waiting time, up to rt_schedule.  With *)
(* time 0 it returns -RT_ETIMEOUT and changes nothing: a stuttering step.  *)
TakeSuspend(t, timed) ==
    /\ pc[t] = "idle" /\ live /\ t \notin held
    /\ value = 0
    /\ timed => t \in Timed
    /\ error' = [error EXCEPT ![t] = "EOK"]
    /\ list' = Enqueue(list, t, Flag, Priority)
    /\ timer' = IF timed THEN timer \union {t} ELSE timer \ {t}
    /\ pc' = [pc EXCEPT ![t] = "waiting"]
    /\ UNCHANGED <<value, live, held, total, kills>>

(* Mutant: the error is not looked at. *)
ReturnUntested(t) ==
    /\ pc[t] = "waiting" /\ ~Suspended(t)
    /\ held' = held \union {t}
    /\ pc' = [pc EXCEPT ![t] = "idle"]
    /\ UNCHANGED <<value, list, timer, error, live, total, kills>>

(* The rest of rt_sem_take: the thread finds out why it was resumed. *)
Return(t) ==
    /\ pc[t] = "waiting" /\ ~Suspended(t)
    /\ held' = IF error[t] = "EOK" THEN held \union {t} ELSE held
    /\ pc' = [pc EXCEPT ![t] = "idle"]
    /\ UNCHANGED <<value, list, timer, error, live, total, kills>>

(* rt_thread_timeout, from the tick interrupt. *)
Timeout(t) ==
    /\ t \in timer
    /\ timer' = timer \ {t}
    /\ error' = [error EXCEPT ![t] = "ETIMEOUT"]
    /\ list' = Unlink(list, t)
    /\ UNCHANGED <<value, pc, live, held, total, kills>>

------------------------------------------------------------------------------
(* Mutants of the next definition: a unit that is handed over is counted   *)
(* as well; no waiter is resumed; the last waiter is resumed.              *)
ReleaseCountsTwice ==
    /\ live
    /\ value' = (value + 1) % ValueMod
    /\ IF list # <<>>
       THEN /\ list' = Tail(list)
            /\ timer' = timer \ {Head(list)}
       ELSE UNCHANGED <<list, timer>>

ReleaseResumesNobody ==
    /\ live
    /\ value' = (value + 1) % ValueMod
    /\ UNCHANGED <<list, timer>>

ReleaseResumesLast ==
    /\ live
    /\ IF list # <<>>
       THEN /\ list' = Front(list)
            /\ timer' = timer \ {Last(list)}
            /\ UNCHANGED value
       ELSE /\ value' = (value + 1) % ValueMod
            /\ UNCHANGED <<list, timer>>

(* The critical section of rt_sem_release: the first waiter is resumed, or *)
(* the value goes up when there is none.                                   *)
ReleaseUnit ==
    /\ live
    /\ IF list # <<>>
       THEN /\ list' = Tail(list)
            /\ timer' = timer \ {Head(list)}
            /\ UNCHANGED value
       ELSE /\ value' = (value + 1) % ValueMod
            /\ UNCHANGED <<list, timer>>

(* A thread gives back the unit it took. *)
Release(t) ==
    /\ pc[t] = "idle" /\ t \in held
    /\ ReleaseUnit
    /\ held' = held \ {t}
    /\ UNCHANGED <<error, pc, live, total, kills>>

(* An interrupt handler, or a thread that never takes, adds a unit. *)
Post ==
    /\ total < MaxTotal
    /\ ReleaseUnit
    /\ total' = total + 1
    /\ UNCHANGED <<error, pc, live, held, kills>>

(* rt_sem_control(RT_IPC_CMD_RESET): the interrupts stay disabled around   *)
(* rt_ipc_list_resume_all, so all the waiters leave at once.               *)
Reset(t, v) ==
    /\ pc[t] = "idle" /\ t \in Resetters /\ live
    /\ v + UnitsOut <= MaxTotal
    /\ error' = [u \in Thread |-> IF Suspended(u) THEN "ERROR" ELSE error[u]]
    /\ timer' = {u \in timer : ~Suspended(u)}
    /\ list' = <<>>
    /\ value' = v % ValueMod
    /\ total' = v + UnitsOut
    /\ UNCHANGED <<pc, live, held, kills>>

------------------------------------------------------------------------------
(* rt_sem_detach and rt_sem_delete: the loop of rt_ipc_list_resume_all     *)
(* tests the list with the interrupts enabled.                             *)
DetachBegin(t) ==
    /\ pc[t] = "idle" /\ t \in Detachers /\ live
    /\ \A u \in Thread :
          pc[u] \notin {"resume_all", "resume_one", "unregister", "wild"}
    /\ pc' = [pc EXCEPT ![t] = "resume_all"]
    /\ UNCHANGED <<value, list, timer, error, live, held, total, kills>>

ResumeAllTest(t) ==
    /\ pc[t] = "resume_all"
    /\ pc' = [pc EXCEPT ![t] = IF list = <<>> THEN "unregister"
                                              ELSE "resume_one"]
    /\ UNCHANGED <<value, list, timer, error, live, held, total, kills>>

ResumeAllTake(t) ==
    /\ pc[t] = "resume_one"
    /\ IF list = <<>>
       THEN /\ pc' = [pc EXCEPT ![t] = "wild"]
            /\ UNCHANGED <<list, timer, error>>
       ELSE /\ error' = [error EXCEPT ![Head(list)] = "ERROR"]
            /\ list' = Tail(list)
            /\ timer' = timer \ {Head(list)}
            /\ pc' = [pc EXCEPT ![t] = "resume_all"]
    /\ UNCHANGED <<value, live, held, total, kills>>

(* rt_object_detach or rt_object_delete. *)
Unregister(t) ==
    /\ pc[t] = "unregister"
    /\ live' = FALSE
    /\ pc' = [pc EXCEPT ![t] = "idle"]
    /\ UNCHANGED <<value, list, timer, error, held, total, kills>>

------------------------------------------------------------------------------
(* rt_thread_kill sends a signal to a thread inside rt_sem_take.  If it is *)
(* suspended _signal_deliver resumes it, and the error becomes -RT_EINTR   *)
(* when rt_thread_handle_sig runs a handler: it does not when the pool of  *)
(* siginfo nodes was empty, nor when rt_schedule did not switch.  A thread *)
(* that is ready handles the signal before it goes on.                     *)
Signal(t) ==
    /\ t \in Signalled /\ pc[t] = "waiting"
    /\ kills < MaxKills /\ kills' = kills + 1
    /\ \E e \in IF Suspended(t) THEN {error[t], "EINTR"} ELSE {"EINTR"} :
          error' = [error EXCEPT ![t] = e]
    /\ list' = Unlink(list, t)
    /\ timer' = timer \ {t}
    /\ UNCHANGED <<value, pc, live, held, total>>

------------------------------------------------------------------------------
(* The steps of a thread inside a call. *)
CallStep(t) ==
    \/ Return(t)
    \/ ResumeAllTest(t) \/ ResumeAllTake(t) \/ Unregister(t)

Next ==
    \/ Post
    \/ \E t \in Thread :
          \/ TakeAvailable(t)
          \/ \E timed \in BOOLEAN : TakeSuspend(t, timed)
          \/ Release(t)
          \/ \E v \in 0..MaxTotal : Reset(t, v)
          \/ DetachBegin(t)
          \/ CallStep(t)
          \/ Timeout(t)
          \/ Signal(t)

Spec == Init /\ [][Next]_vars

(* A thread that is ready is run in the end, the tick interrupt never      *)
(* stops, and whoever holds a unit gives it back.                          *)
Fairness ==
    \A t \in Thread : /\ WF_vars(CallStep(t))
                      /\ WF_vars(Timeout(t))
                      /\ WF_vars(Release(t))

FairSpec == Spec /\ Fairness

------------------------------------------------------------------------------
(* No unit is invented and none disappears: rt_sem_take returns RT_EOK     *)
(* once for every unit put in, whatever races the release that hands it    *)
(* over (a timeout, a reset, a detach).  Only a signal can break this, by  *)
(* one unit each time: a waiter resumed by it is told RT_EOK without a     *)
(* unit, or is told -RT_EINTR and drops the unit it was handed.            *)
UnitsConserved ==
    value + UnitsOut \in (total - kills)..(total + kills)

(* A thread never waits while a unit is available: the test of the value   *)
(* and the suspension cannot be separated by a release.                    *)
NoIdleUnit == value > 0 => list = <<>>

(* The thread timer never outlives the wait it guards, so the assertion of *)
(* rt_thread_timeout that the thread is suspended holds whenever it fires. *)
TimerGuardsWait == \A t \in timer : Suspended(t)

(* With RT_IPC_FLAG_PRIO the head is always the most urgent waiter, and    *)
(* with either flag no thread is linked twice.                             *)
ServedInOrder ==
    /\ Once(list)
    /\ Flag = PRIO => Sorted(list, Priority)

(* The waiting list, the value and the timers fit each other, in whatever  *)
(* order takes, releases, timeouts, signals, resets and detaches change    *)
(* them.                                                                   *)
WaitListInv == TypeOK /\ NoIdleUnit /\ TimerGuardsWait /\ ServedInOrder

MostUrgent == {t \in Thread : \A u \in Thread : Priority[t] <= Priority[u]}

(* The wait of a thread that no other is more urgent than ends, by its     *)
(* timer or because units come back, unless a detach gets in the way, all  *)
(* the units are taken away, or a signal loses one.                        *)
UrgentWaitEnds ==
    \A t \in MostUrgent :
       pc[t] = "waiting"
         ~> \/ pc[t] = "idle"
            \/ ~live \/ (\E u \in Thread : pc[u] = "wild")
            \/ total = 0 \/ kills > 0

(* A unit handed to a suspended thread counts as available until the       *)
(* thread returns with it.                                                 *)
Promise == INSTANCE CountingSemaphore
             WITH avail <- value + Cardinality(Granted)

(* What the semaphore promises to its users, CountingSemaphore, is what    *)
(* rt_sem_take, _release, _control and _detach do together.                *)
ImplementsPromise == Promise!Spec
==============================================================================
