-------------------------------- MODULE Mutex --------------------------------
(***************************************************************************)
(* The mutexes of the kernel (rt_mutex_*, src/src/ipc.c): recursive, with  *)
(* an owner, hand-off to the first waiter on release and priority          *)
(* inheritance through rt_thread_control (src/src/thread.c).  Several      *)
(* mutexes share the threads, so that takes nest.                          *)
(*                                                                         *)
(* A section with the interrupts disabled is one action; a thread that is  *)
(* not suspended may always take the next step.  The retry at label        *)
(* __again runs with the interrupts enabled: either nobody steps in and it *)
(* is one action too, or somebody does and nothing more is claimed (Torn). *)
(***************************************************************************)
EXTENDS IpcList, FiniteSets

CONSTANTS Mutex,
          None,       \* RT_NULL
          Flag,       \* FIFO or PRIO, the flag given to rt_mutex_init
          Base,       \* Base[t], the priority t has of its own
          ValueMod,   \* 2^16 in the code: value is an rt_uint16_t
          HoldMod,    \* 2^8 in the code: hold is an rt_uint8_t
          MaxDepth,   \* bound on the nested takes of one mutex
          Nesting,    \* pairs <<m, n>>: n may be taken while m is held
          Timed,      \* threads that may wait with a finite timeout
          Detachers,  \* threads that may detach or delete a mutex
          Signalled,  \* threads to which others send signals
          MaxKills    \* bound on the signals sent

ASSUME ThreadAssumption == IsFiniteSet(Thread) /\ None \notin Thread
ASSUME FlagAssumption == Flag \in {FIFO, PRIO}
ASSUME BaseAssumption == Base \in [Thread -> 0..254]
ASSUME BoundAssumption ==
    /\ ValueMod \in Nat /\ HoldMod \in Nat /\ MaxDepth \in Nat
    /\ MaxKills \in Nat
    /\ 1 < ValueMod /\ 0 < MaxDepth /\ MaxDepth < HoldMod

VARIABLES value,   \* mutex->value
          owner,   \* mutex->owner
          orig,    \* mutex->original_priority
          hold,    \* mutex->hold
          list,    \* mutex->parent.suspend_thread
          live,    \* FALSE once the object is detached
          prio,    \* thread->current_priority
          error,   \* thread->error
          timer,   \* threads whose thread_timer is active
          pc,      \* where a thread is in the kernel
          on,      \* the mutex of the call it is in
          timed,   \* whether that call has a finite timeout
          kills,   \* signals sent so far
          depth    \* takes of a mutex the thread was told succeeded

object == <<value, owner, orig, hold, list, live>>
call == <<pc, on, timed>>
vars == <<value, owner, orig, hold, list, live,
          prio, error, timer, pc, on, timed, kills, depth>>

NoPriority == 255

Errors == {"EOK", "ETIMEOUT", "ERROR", "EINTR"}

(* "waiting": suspended by rt_mutex_take, or resumed and not yet past      *)
(* rt_schedule.                                                            *)
(* "again": sent back to label __again.                                    *)
(* "resume_all", "resume_one", "unregister": in rt_mutex_detach.           *)
(* "wild": it went on from what it had tested, and that was no longer so.  *)
Locations == {"idle", "waiting", "again", "resume_all", "resume_one",
              "unregister", "wild"}
Detaching == {"resume_all", "resume_one", "unregister", "wild"}

Waiting(t) == pc[t] = "waiting"
Suspended(t) == Waiting(t) /\ Linked(list[on[t]], t)

(* What was written then is not modelled: the properties end here.         *)
Torn == \E t \in Thread : pc[t] = "wild"

(* Types: the two counts keep their width, and a thread has the priority   *)
(* of a thread, never the 0xff that a free mutex records.                  *)
TypeOK ==
    /\ value \in [Mutex -> 0..(ValueMod - 1)]
    /\ owner \in [Mutex -> Thread \union {None}]
    /\ orig \in [Mutex -> 0..NoPriority]
    /\ hold \in [Mutex -> 0..(HoldMod - 1)]
    /\ list \in [Mutex -> Seq(Thread)]
    /\ live \in [Mutex -> BOOLEAN]
    /\ prio \in [Thread -> 0..(NoPriority - 1)]
    /\ error \in [Thread -> Errors]
    /\ timer \subseteq Thread
    /\ pc \in [Thread -> Locations]
    /\ on \in [Thread -> Mutex]
    /\ timed \in [Thread -> BOOLEAN]
    /\ kills \in 0..MaxKills
    /\ depth \in [Thread -> [Mutex -> 0..MaxDepth]]

Init ==
    /\ value = [m \in Mutex |-> 1]
    /\ owner = [m \in Mutex |-> None]
    /\ orig = [m \in Mutex |-> NoPriority]
    /\ hold = [m \in Mutex |-> 0]
    /\ list = [m \in Mutex |-> <<>>]
    /\ live = [m \in Mutex |-> TRUE]
    /\ prio = Base
    /\ error = [t \in Thread |-> "EOK"]
    /\ timer = {}
    /\ pc = [t \in Thread |-> "idle"]
    /\ on \in [Thread -> Mutex]
    /\ timed = [t \in Thread |-> FALSE]
    /\ kills = 0
    /\ depth = [t \in Thread |-> [m \in Mutex |-> 0]]

(* The callers nest their takes in the orders of Nesting, so a cycle of    *)
(* waits is not their doing.                                               *)
MayTake(t, m) ==
    /\ pc[t] = "idle" /\ live[m] /\ depth[t][m] < MaxDepth
    /\ \A k \in Mutex \ {m} : depth[t][k] > 0 => <<k, m>> \in Nesting

------------------------------------------------------------------------------
(* Mutant: the nested take is not counted. *)
TakeAgainUncounted(t, m) ==
    /\ MayTake(t, m)
    /\ owner[m] = t
    /\ error' = [error EXCEPT ![t] = "EOK"]
    /\ depth' = [depth EXCEPT ![t][m] = @ + 1]
    /\ UNCHANGED <<object, prio, timer, call, kills>>

(* rt_mutex_take by the owner. *)
TakeAgain(t, m) ==
    /\ MayTake(t, m)
    /\ owner[m] = t
    /\ error' = [error EXCEPT ![t] = "EOK"]
    /\ hold' = [hold EXCEPT ![m] = (@ + 1) % HoldMod]
    /\ depth' = [depth EXCEPT ![t][m] = @ + 1]
    /\ UNCHANGED <<value, owner, orig, list, live, prio, timer, call, kills>>

(* The branch of rt_mutex_take where the value is great than 0. *)
Acquire(t, m) ==
    /\ value' = [value EXCEPT ![m] = (@ - 1) % ValueMod]
    /\ owner' = [owner EXCEPT ![m] = t]
    /\ orig' = [orig EXCEPT ![m] = prio[t]]
    /\ hold' = [hold EXCEPT ![m] = (@ + 1) % HoldMod]
    /\ depth' = [depth EXCEPT ![t][m] = @ + 1]

TakeFree(t, m) ==
    /\ MayTake(t, m)
    /\ owner[m] # t /\ value[m] > 0
    /\ error' = [error EXCEPT ![t] = "EOK"]
    /\ Acquire(t, m)
    /\ UNCHANGED <<list, live, prio, timer, call, kills>>

(* A take with time = 0. *)
TakeFail(t, m) ==
    /\ MayTake(t, m)
    /\ owner[m] # t /\ value[m] = 0
    /\ error' = [error EXCEPT ![t] = "ETIMEOUT"]
    /\ UNCHANGED <<object, prio, timer, call, kills, depth>>

(* Mutants: the priority is passed on without a comparison, or not at all. *)
BoostedAlways(t, o) == [prio EXCEPT ![o] = prio[t]]

BoostedNever(t, o) == prio

(* The branch that waits: the owner inherits the priority of the caller    *)
(* when that is more urgent, then the caller is suspended on the list.     *)
Boosted(t, o) ==
    IF prio[t] < prio[o] THEN [prio EXCEPT ![o] = prio[t]] ELSE prio

Block(t, m, finite) ==
    /\ prio' = Boosted(t, owner[m])
    /\ list' = [list EXCEPT ![m] = Enqueue(@, t, Flag, Boosted(t, owner[m]))]
    /\ timer' = IF finite THEN timer \union {t} ELSE timer \ {t}
    /\ pc' = [pc EXCEPT ![t] = "waiting"]

TakeBlock(t, m, finite) ==
    /\ MayTake(t, m)
    /\ owner[m] # t /\ value[m] = 0
    /\ finite => t \in Timed
    /\ error' = [error EXCEPT ![t] = "EOK"]
    /\ Block(t, m, finite)
    /\ on' = [on EXCEPT ![t] = m]
    /\ timed' = [timed EXCEPT ![t] = finite]
    /\ UNCHANGED <<value, owner, orig, hold, live, kills, depth>>

(* Mutant: the error is not looked at. *)
ReturnUntested(t) ==
    /\ Waiting(t) /\ ~Suspended(t)
    /\ pc' = [pc EXCEPT ![t] = "idle"]
    /\ depth' = [depth EXCEPT ![t][on[t]] = @ + 1]
    /\ UNCHANGED <<object, prio, error, timer, on, timed, kills>>

(* rt_mutex_take after rt_schedule. *)
Return(t) ==
    /\ Waiting(t) /\ ~Suspended(t)
    /\ pc' = [pc EXCEPT ![t] = IF error[t] = "EINTR" THEN "again" ELSE "idle"]
    /\ depth' = IF error[t] = "EOK"
                THEN [depth EXCEPT ![t][on[t]] = @ + 1] ELSE depth
    /\ UNCHANGED <<object, prio, error, timer, on, timed, kills>>

(* "interrupt by signal, try it again": the way back to __again neither    *)
(* disables the interrupts nor resets the error.  While nobody else touches *)
(* the mutex, its owner or this thread, the second try is like the first.  *)
AgainTake(t) ==
    /\ pc[t] = "again" /\ value[on[t]] > 0
    /\ Acquire(t, on[t])
    /\ pc' = [pc EXCEPT ![t] = "idle"]
    /\ UNCHANGED <<list, live, prio, error, timer, on, timed, kills>>

AgainBlock(t) ==
    /\ pc[t] = "again" /\ value[on[t]] = 0
    /\ Block(t, on[t], timed[t])
    /\ UNCHANGED <<value, owner, orig, hold, live, error, on, timed, kills,
                   depth>>

(* Somebody does, at some point before the thread is suspended with its    *)
(* timer running: the owner may be RT_NULL by then, two threads may write  *)
(* value, owner and hold or the links of the list, or the timer of a       *)
(* thread that was just handed the mutex is started.                       *)
AgainDisturbed(t) ==
    /\ pc[t] = "again"
    /\ pc' = [pc EXCEPT ![t] = "wild"]
    /\ UNCHANGED <<object, prio, error, timer, on, timed, kills, depth>>

------------------------------------------------------------------------------
(* rt_mutex_release by the owner, which has taken it more than once.       *)
ReleaseNested(t, m) ==
    /\ hold[m] # 1
    /\ hold' = [hold EXCEPT ![m] = (@ - 1) % HoldMod]
    /\ UNCHANGED <<value, owner, orig, list, prio, timer>>

(* Mutant: the saved priority is not restored. *)
RestoredNever(t, m) == prio

Restored(t, m) == [prio EXCEPT ![t] = orig[m]]

(* Mutant: the last waiter is served. *)
LastWaiter(m) == Last(list[m])

FirstWaiter(m) == Head(list[m])

(* rt_ipc_list_resume. *)
Resume(w, m) ==
    /\ list' = [list EXCEPT ![m] = Unlink(@, w)]
    /\ timer' = timer \ {w}

Free(m) ==
    /\ value' = [value EXCEPT ![m] = (@ + 1) % ValueMod]
    /\ owner' = [owner EXCEPT ![m] = None]
    /\ orig' = [orig EXCEPT ![m] = NoPriority]
    /\ hold' = [hold EXCEPT ![m] = 0]

(* Mutant: nobody is resumed. *)
ReleaseResumesNobody(t, m) ==
    /\ hold[m] = 1
    /\ prio' = Restored(t, m)
    /\ Free(m)
    /\ UNCHANGED <<list, timer>>

(* The last release: the priority of the owner goes back to the one saved  *)
(* in this mutex, and the first waiter becomes the owner before it runs.   *)
ReleaseLast(t, m) ==
    /\ hold[m] = 1
    /\ prio' = Restored(t, m)
    /\ IF list[m] # <<>>
       THEN /\ owner' = [owner EXCEPT ![m] = FirstWaiter(m)]
            /\ orig' = [orig EXCEPT ![m] = prio'[FirstWaiter(m)]]
            /\ Resume(FirstWaiter(m), m)
            /\ UNCHANGED <<value, hold>>
       ELSE Free(m) /\ UNCHANGED <<list, timer>>

Release(t, m) ==
    /\ pc[t] = "idle" /\ live[m]
    /\ owner[m] = t /\ depth[t][m] > 0
    /\ ReleaseNested(t, m) \/ ReleaseLast(t, m)
    /\ depth' = [depth EXCEPT ![t][m] = @ - 1]
    /\ UNCHANGED <<live, error, call, kills>>

(* rt_mutex_release by a thread that is not the owner. *)
ReleaseRefused(t, m) ==
    /\ pc[t] = "idle" /\ live[m]
    /\ owner[m] # t
    /\ error' = [error EXCEPT ![t] = "ERROR"]
    /\ UNCHANGED <<object, prio, timer, call, kills, depth>>

------------------------------------------------------------------------------
(* rt_thread_timeout, from the tick interrupt. *)
Timeout(t) ==
    /\ t \in timer
    /\ timer' = timer \ {t}
    /\ error' = [error EXCEPT ![t] = "ETIMEOUT"]
    /\ list' = [list EXCEPT ![on[t]] = Unlink(@, t)]
    /\ UNCHANGED <<value, owner, orig, hold, live, prio, call, kills, depth>>

(* rt_thread_kill sends a signal to a thread inside rt_mutex_take; see     *)
(* Signal of module Semaphore for what becomes of the error.               *)
Signal(t) ==
    /\ t \in Signalled /\ Waiting(t)
    /\ kills < MaxKills /\ kills' = kills + 1
    /\ \E e \in IF Suspended(t) THEN {error[t], "EINTR"} ELSE {"EINTR"} :
          error' = [error EXCEPT ![t] = e]
    /\ list' = [list EXCEPT ![on[t]] = Unlink(@, t)]
    /\ timer' = timer \ {t}
    /\ UNCHANGED <<value, owner, orig, hold, live, prio, call, depth>>

------------------------------------------------------------------------------
(* rt_mutex_detach and rt_mutex_delete, through rt_ipc_list_resume_all.    *)
DetachBegin(t, m) ==
    /\ pc[t] = "idle" /\ t \in Detachers /\ live[m]
    /\ \A u \in Thread : pc[u] \notin Detaching
    /\ pc' = [pc EXCEPT ![t] = "resume_all"]
    /\ on' = [on EXCEPT ![t] = m]
    /\ UNCHANGED <<object, prio, error, timer, timed, kills, depth>>

ResumeAllTest(t) ==
    /\ pc[t] = "resume_all"
    /\ pc' = [pc EXCEPT ![t] = IF list[on[t]] = <<>> THEN "unregister"
                               ELSE "resume_one"]
    /\ UNCHANGED <<object, prio, error, timer, on, timed, kills, depth>>

ResumeAllTake(t) ==
    /\ pc[t] = "resume_one"
    /\ IF list[on[t]] = <<>>
       THEN /\ pc' = [pc EXCEPT ![t] = "wild"]
            /\ UNCHANGED <<list, timer, error>>
       ELSE LET w == Head(list[on[t]]) IN
            /\ error' = [error EXCEPT ![w] = "ERROR"]
            /\ list' = [list EXCEPT ![on[t]] = Tail(@)]
            /\ timer' = timer \ {w}
            /\ pc' = [pc EXCEPT ![t] = "resume_all"]
    /\ UNCHANGED <<value, owner, orig, hold, live, prio, on, timed, kills,
                   depth>>

Unregister(t) ==
    /\ pc[t] = "unregister"
    /\ live' = [live EXCEPT ![on[t]] = FALSE]
    /\ pc' = [pc EXCEPT ![t] = "idle"]
    /\ UNCHANGED <<value, owner, orig, hold, list, prio, error, timer, on,
                   timed, kills, depth>>

------------------------------------------------------------------------------
TakeStep(t, m) ==
    \/ TakeAgain(t, m)
    \/ TakeFree(t, m)
    \/ TakeFail(t, m)
    \/ \E finite \in BOOLEAN : TakeBlock(t, m, finite)

CallStep(t) ==
    \/ Return(t)
    \/ AgainTake(t) \/ AgainBlock(t) \/ AgainDisturbed(t)

DetachStep(t) == ResumeAllTest(t) \/ ResumeAllTake(t) \/ Unregister(t)

Next ==
    \E t \in Thread :
       \/ \E m \in Mutex : \/ TakeStep(t, m)
                           \/ Release(t, m)
                           \/ ReleaseRefused(t, m)
                           \/ DetachBegin(t, m)
       \/ CallStep(t)
       \/ DetachStep(t)
       \/ Timeout(t)
       \/ Signal(t)

Spec == Init /\ [][Next]_vars

(* A ready thread is run in the end, the tick interrupt never stops, and   *)
(* whoever was told it has a mutex releases it in the end for good.        *)
Fairness ==
    \A t \in Thread :
       /\ WF_vars(CallStep(t) \/ DetachStep(t))
       /\ WF_vars(Timeout(t))
       /\ \A m \in Mutex : /\ WF_vars(Release(t, m))
                            /\ SF_vars(Release(t, m) /\ hold[m] = 1)

FairSpec == Spec /\ Fairness

------------------------------------------------------------------------------
(* Threads made owner by a release they have not returned from yet. *)
Pending(t, m) == Waiting(t) /\ on[t] = m /\ ~Suspended(t) /\ owner[m] = t

(* No two threads have been told they hold the same mutex, whatever wakes  *)
(* the waiters and in whatever order they come back.                       *)
MutualExclusion ==
    \A m \in Mutex : \A t, u \in Thread :
       depth[t][m] > 0 /\ depth[u][m] > 0 => t = u

(* The hold count of a mutex is the number of takes its owner believes in, *)
(* plus the one a release has handed over to a waiter that has yet to run: *)
(* so the last release of the owner is the one that passes the mutex on.   *)
HoldMatchesOwner ==
    \A m \in Mutex :
       IF owner[m] = None THEN value[m] = 1 /\ hold[m] = 0
       ELSE /\ value[m] = 0
            /\ hold[m] = depth[owner[m]][m]
                         + IF Pending(owner[m], m) THEN 1 ELSE 0

(* A mutex nobody has is never waited for: release and wait cannot cross.  *)
NoIdleMutex == \A m \in Mutex : value[m] > 0 => list[m] = <<>>

(* A thread never waits for a mutex it owns: such a wait cannot end, as    *)
(* only the owner can release.                                             *)
NoSelfWait == \A m \in Mutex : ~Linked(list[m], owner[m])

(* The thread timer never outlives the wait it guards (the assertion of    *)
(* rt_thread_timeout), and no thread is linked twice.                      *)
TimerGuardsWait == /\ \A t \in timer : Suspended(t)
                   /\ \A m \in Mutex : Once(list[m])

(* What the mutexes say of themselves and what their holders and waiters   *)
(* believe agree: types, timers, hold counts, one holder each, and no      *)
(* thread that waits for itself.                                           *)
HoldersAgree ==
    /\ TypeOK
    /\ TimerGuardsWait
    /\ HoldMatchesOwner
    /\ MutualExclusion
    /\ NoSelfWait

(* Priority inheritance: the owner is at least as urgent as every thread   *)
(* that waits for one of its mutexes, until a signal interferes.           *)
NoInversion ==
    kills = 0 =>
      \A m \in Mutex : \A w \in Thread :
         Linked(list[m], w) /\ owner[m] # None => prio[owner[m]] <= prio[w]

(* A thread that owns no mutex runs at the priority it had of its own,     *)
(* however often it was boosted.                                           *)
PriorityRestored ==
    kills = 0 =>
      \A t \in Thread :
         (\A m \in Mutex : owner[m] # t) => prio[t] = Base[t]

(* RT_IPC_FLAG_PRIO: the waiters stand in the order of their priorities,   *)
(* so that a release serves the most urgent of them.  A signalled owner    *)
(* can wait for its own mutex and be boosted where it stands, out of its   *)
(* place; so this is about the time before the first signal.               *)
MostUrgentFirst ==
    kills = 0 /\ Flag = PRIO => \A m \in Mutex : Sorted(list[m], prio)

(* The lists of waiters keep their timers while timeouts, signals and a    *)
(* detach take threads out of them, and their order until a signal.  A     *)
(* signalled thread may retry its take, as long as nobody steps in.        *)
WaitListsInOrder == ~Torn => TimerGuardsWait /\ MostUrgentFirst

(* The priority of a thread goes down only when that thread itself gives   *)
(* up a mutex for good; no other thread, timer or signal can lower it.     *)
OnlyOwnReleaseLowers ==
    [][\A t \in Thread :
         prio'[t] > prio[t] =>
           \E m \in Mutex : owner[m] = t /\ owner'[m] # t]_vars

MostUrgent == {t \in Thread : \A u \in Thread : Base[t] <= Base[u]}

(* The take of a thread that no other is more urgent than ends, when the   *)
(* holders release and nest without cycles, unless the mutex is detached   *)
(* under it or a signal interferes.                                        *)
UrgentTakeEnds ==
    \A t \in MostUrgent :
       Waiting(t) ~> \/ pc[t] = "idle" \/ kills > 0
                     \/ ~live[on[t]] \/ Torn

Lock == INSTANCE RecursiveLock

(* What rt_mutex_take and rt_mutex_release tell their callers implements   *)
(* the abstract recursive lock.                                            *)
ImplementsLock == Lock!Spec
==============================================================================
