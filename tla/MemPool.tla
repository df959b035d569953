------------------------------- MODULE MemPool -------------------------------
(***************************************************************************)
(* The memory pool of the kernel (rt_mp_*, src/src/mempool.c): equal       *)
(* blocks on a chain, and a list of the threads that found it empty.  A    *)
(* thread that is resumed is handed nothing: it tests the pool again.      *)
(*                                                                         *)
(* A section with the interrupts disabled is one action; a thread that is  *)
(* not suspended may always take the next step.                            *)
(***************************************************************************)
EXTENDS IpcList, FiniteSets

CONSTANTS Handler,     \* interrupt handlers that allocate without waiting
          Block,       \* the blocks of the pool
          Nobody,      \* no owner
          InitChain,   \* the order in which rt_mp_init links the blocks
          Timed,       \* threads that wait with a finite timeout
          Detachers,   \* threads that may detach or delete the pool
          Signalled,   \* threads to which others send signals
          MaxKills,    \* bound on the signals sent
          MaxOver      \* bound on the waits that end uncounted

User == Thread \union Handler

ASSUME UserAssumption == IsFiniteSet(User) /\ Nobody \notin User
ASSUME BlockAssumption ==
    /\ IsFiniteSet(Block)
    /\ InitChain \in Seq(Block) /\ Once(InitChain)
    /\ \A b \in Block : Linked(InitChain, b)
ASSUME BoundAssumption == MaxKills \in Nat /\ MaxOver \in Nat

VARIABLES block_list,            \* mp->block_list, as the sequence it chains
          block_free_count,
          suspend_thread,        \* the list of waiting threads
          suspend_thread_count,
          timer,                 \* threads whose thread_timer is active
          error,                 \* thread->error
          place,                 \* where a thread is in the kernel
          left,                  \* its time argument, as recomputed
          live,                  \* FALSE once the pool is detached
          owner,                 \* who was given a block
          over,                  \* waits that ended without being counted
          kills,                 \* signals sent so far
          hung                   \* an assertion failed: nothing runs any more

pool == <<block_list, block_free_count, owner>>
waiters == <<suspend_thread, suspend_thread_count, timer>>
poolVars ==
    <<block_list, block_free_count, suspend_thread, suspend_thread_count,
      timer, error, place, left, live, owner, over, kills, hung>>

(* "waiting": suspended in rt_mp_alloc, or resumed and not past            *)
(* rt_schedule.  The others as in module Semaphore.                        *)
Detaching == {"resume_all", "resume_one", "unregister"}
Suspended(t) == Linked(suspend_thread, t)
Resumed == {t \in Thread : place[t] = "waiting" /\ ~Suspended(t)}

(* Those that will test the pool again; with an error they return RT_NULL. *)
Looking == {t \in Resumed : error[t] = "EOK"}

PoolTypeOK ==
    /\ block_list \in Seq(Block) /\ block_free_count \in Nat
    /\ suspend_thread \in Seq(Thread) /\ Once(suspend_thread)
    /\ suspend_thread_count \in Int
    /\ timer \subseteq {t \in Thread : Suspended(t)}
    /\ error \in [Thread -> {"EOK", "ETIMEOUT", "ERROR", "EINTR"}]
    /\ place \in [Thread -> {"idle", "waiting"} \union Detaching]
    /\ left \in [Thread -> {"none", "ticks", "forever"}]
    /\ live \in BOOLEAN
    /\ owner \in [Block -> User \union {Nobody}]
    /\ over \in Nat /\ kills \in 0..MaxKills /\ hung \in BOOLEAN

PoolInit ==
    /\ block_list = InitChain /\ block_free_count = Len(InitChain)
    /\ suspend_thread = <<>> /\ suspend_thread_count = 0
    /\ timer = {}
    /\ error = [t \in Thread |-> "EOK"]
    /\ place = [t \in Thread |-> "idle"]
    /\ left = [t \in Thread |-> "none"]
    /\ live = TRUE
    /\ owner = [b \in Block |-> Nobody]
    /\ over = 0 /\ kills = 0 /\ hung = FALSE

(* A recomputed time is cut to 0 when the ticks have run out. *)
Recomputed(time) == IF time = "ticks" THEN {"ticks", "none"} ELSE {time}

TimeOf(t) == IF t \in Timed THEN "ticks" ELSE "forever"

------------------------------------------------------------------------------
(* Mutant: the chain is not moved on. *)
TakeKeepsChain(u) ==
    /\ block_free_count' = block_free_count - 1
    /\ UNCHANGED block_list
    /\ owner' = [owner EXCEPT ![Head(block_list)] = u]

(* The block that the chain begins with goes to u. *)
Take(u) ==
    /\ block_free_count' = block_free_count - 1
    /\ block_list' = Tail(block_list)
    /\ owner' = [owner EXCEPT ![Head(block_list)] = u]

(* The loop of rt_mp_alloc suspends the thread: it goes to the front.      *)
SuspendSelf(t, time) ==
    /\ error' = [error EXCEPT ![t] = "EOK"]
    /\ suspend_thread' = <<t>> \o suspend_thread
    /\ suspend_thread_count' = suspend_thread_count + 1
    /\ timer' = IF time = "ticks" THEN timer \union {t} ELSE timer \ {t}

(* rt_mp_alloc, on entry.  An empty pool and no time: RT_NULL, and nothing *)
(* changes.                                                                *)
AllocNow(u) ==
    /\ u \in Thread => place[u] = "idle"
    /\ live /\ block_free_count # 0
    /\ Take(u)
    /\ UNCHANGED <<waiters, error, place, left, live, over, kills, hung>>

AllocSuspend(t) ==
    /\ place[t] = "idle" /\ live /\ block_free_count = 0
    /\ TimeOf(t) = "ticks" => over + Cardinality(timer) < MaxOver
    /\ SuspendSelf(t, TimeOf(t))
    /\ place' = [place EXCEPT ![t] = "waiting"]
    /\ left' = [left EXCEPT ![t] = TimeOf(t)]
    /\ UNCHANGED <<pool, live, over, kills, hung>>

(* The same loop once the thread is resumed. *)
AllocFails(t) ==
    /\ t \in Resumed \ Looking
    /\ place' = [place EXCEPT ![t] = "idle"]
    /\ UNCHANGED <<pool, waiters, error, left, live, over, kills, hung>>

AllocRetry(t) ==
    /\ t \in Looking
    /\ UNCHANGED <<live, over, kills, hung>>
    /\ IF block_free_count # 0
       THEN /\ Take(t)
            /\ place' = [place EXCEPT ![t] = "idle"]
            /\ UNCHANGED <<waiters, error, left>>
       ELSE \E time \in Recomputed(left[t]) :
            /\ IF time = "none"
               THEN /\ place' = [place EXCEPT ![t] = "idle"]
                    /\ UNCHANGED <<waiters, error>>
               ELSE SuspendSelf(t, time) /\ UNCHANGED place
            /\ left' = [left EXCEPT ![t] = time]
            /\ UNCHANGED pool

(* With nobody on the list its head is taken for a thread: the error is    *)
(* written behind the pool, and the assertion of rt_thread_resume on the   *)
(* type of the object fails, for in the place of the type stands the       *)
(* lowest byte of mp->block_list, an aligned address.  It never returns,   *)
(* and the interrupts are disabled.                                        *)
ResumeOfNone ==
    /\ suspend_thread = <<>>
    /\ hung' = TRUE
    /\ UNCHANGED <<waiters, error>>

(* Mutant: the count is not decreased. *)
ResumeUncounted(err) ==
    /\ suspend_thread # <<>>
    /\ error' = [error EXCEPT ![Head(suspend_thread)] = err]
    /\ suspend_thread' = Tail(suspend_thread)
    /\ timer' = timer \ {Head(suspend_thread)}
    /\ UNCHANGED <<suspend_thread_count, hung>>

(* The first of the list is resumed and told why. *)
ResumeFirst(err) ==
    /\ suspend_thread # <<>>
    /\ error' = [error EXCEPT ![Head(suspend_thread)] = err]
    /\ suspend_thread' = Tail(suspend_thread)
    /\ suspend_thread_count' = suspend_thread_count - 1
    /\ timer' = timer \ {Head(suspend_thread)}
    /\ UNCHANGED hung

(* Mutant: nobody is resumed unless the pool was empty. *)
WakeOfEmpty ==
    IF suspend_thread # <<>> /\ block_free_count = 0
    THEN ResumeFirst("EOK") ELSE UNCHANGED <<waiters, error, hung>>

(* rt_mp_free asks the count, not the list, whether anybody waits. *)
Wake ==
    \/ suspend_thread_count = 0 /\ UNCHANGED <<waiters, error, hung>>
    \/ suspend_thread_count > 0 /\ (ResumeFirst("EOK") \/ ResumeOfNone)

Free(u, b) ==
    /\ u \in Thread => place[u] = "idle"
    /\ owner[b] = u
    /\ owner' = [owner EXCEPT ![b] = Nobody]
    /\ block_free_count' = block_free_count + 1
    /\ block_list' = <<b>> \o block_list
    /\ Wake
    /\ UNCHANGED <<place, left, live, over, kills>>

------------------------------------------------------------------------------
(* rt_thread_timeout, from the tick interrupt: the pool is not told.       *)
Timeout(t) ==
    /\ t \in timer
    /\ suspend_thread' = Unlink(suspend_thread, t)
    /\ timer' = timer \ {t}
    /\ error' = [error EXCEPT ![t] = "ETIMEOUT"]
    /\ over' = over + 1
    /\ UNCHANGED <<pool, suspend_thread_count, place, left, live, kills, hung>>

(* rt_thread_kill on a thread inside the call; see module Semaphore. *)
Signal(t) ==
    /\ t \in Signalled /\ place[t] = "waiting"
    /\ kills < MaxKills /\ kills' = kills + 1
    /\ \E e \in IF Suspended(t) THEN {error[t], "EINTR"} ELSE {"EINTR"} :
          error' = [error EXCEPT ![t] = e]
    /\ suspend_thread' = Unlink(suspend_thread, t)
    /\ timer' = timer \ {t}
    /\ over' = IF Suspended(t) THEN over + 1 ELSE over
    /\ UNCHANGED <<pool, suspend_thread_count, place, left, live, hung>>

------------------------------------------------------------------------------
(* rt_mp_detach and rt_mp_delete: their loop tests the list with the       *)
(* interrupts enabled.                                                     *)
Goes(t, where) == place' = [place EXCEPT ![t] = where]

DetachBegin(t) ==
    /\ place[t] = "idle" /\ t \in Detachers /\ live
    /\ \A u \in Thread : place[u] \notin Detaching
    /\ Goes(t, "resume_all")
    /\ UNCHANGED <<pool, waiters, error, left, live, over, kills, hung>>

ResumeAllTest(t) ==
    /\ place[t] = "resume_all"
    /\ Goes(t, IF suspend_thread = <<>> THEN "unregister" ELSE "resume_one")
    /\ UNCHANGED <<pool, waiters, error, left, live, over, kills, hung>>

ResumeAllTake(t) ==
    /\ place[t] = "resume_one"
    /\ \/ ResumeFirst("ERROR") /\ Goes(t, "resume_all")
       \/ ResumeOfNone /\ UNCHANGED place
    /\ UNCHANGED <<pool, left, live, over, kills>>

Unregister(t) ==
    /\ place[t] = "unregister"
    /\ live' = FALSE
    /\ Goes(t, "idle")
    /\ UNCHANGED <<pool, waiters, error, left, over, kills, hung>>

------------------------------------------------------------------------------
CallStep(t) ==
    \/ AllocFails(t) \/ AllocRetry(t)
    \/ ResumeAllTest(t) \/ ResumeAllTake(t) \/ Unregister(t)

PoolNext ==
    /\ ~hung
    /\ \/ \E u \in User : AllocNow(u) \/ \E b \in Block : Free(u, b)
       \/ \E t \in Thread :
             \/ AllocSuspend(t)
             \/ CallStep(t)
             \/ Timeout(t)
             \/ Signal(t)
             \/ DetachBegin(t)

PoolSpec == PoolInit /\ [][PoolNext]_poolVars

(* While the system runs, a ready thread is run in the end and the tick    *)
(* interrupt never stops.                                                  *)
Fairness ==
    \A t \in Thread : /\ WF_poolVars(~hung /\ CallStep(t))
                       /\ WF_poolVars(~hung /\ Timeout(t))
FairSpec == PoolSpec /\ Fairness

------------------------------------------------------------------------------
(* The chain holds the blocks that nobody was given, each once, and their  *)
(* number is the free count: the count never promises a block that the     *)
(* chain does not have (the assertion of rt_mp_alloc).                     *)
ChainComplete ==
    /\ block_free_count = Len(block_list)
    /\ Once(block_list)
    /\ \A b \in Block : Linked(block_list, b) <=> owner[b] = Nobody

(* No block waits beside a suspended thread unless as many threads have    *)
(* been resumed and will look, in spite of a count that is too high; those *)
(* that time out, are detached or signalled do not look.  A signal to a    *)
(* thread that was resumed can strand one block.                           *)
NoStrandedWaiter ==
    suspend_thread # <<>> => block_free_count <= Cardinality(Looking) + kills

(* The count is the length of the list and one more for every wait that a  *)
(* timeout or a signal has ever ended.                                     *)
CountDriftsByTimeouts == suspend_thread_count = Len(suspend_thread) + over

(* The kernel hangs in the pool only when the list is empty, and then in   *)
(* an rt_mp_free after a wait that ended uncounted, or in a detach that    *)
(* had tested the list before.                                             *)
HangsWhenEmpty ==
    hung => /\ suspend_thread = <<>>
            /\ over > 0 \/ \E t \in Thread : place[t] = "resume_one"

(* The chain, both counts and the list agree after every section of every  *)
(* call, timeout and signal, up to the two ways in which the kernel hangs. *)
PoolAccounted ==
    /\ PoolTypeOK
    /\ ChainComplete
    /\ CountDriftsByTimeouts
    /\ HangsWhenEmpty

(* A free block and a suspended thread do not stay together for good: the  *)
(* threads that were resumed look, and are enough.                         *)
BlocksGetUsed ==
    block_free_count > 0 /\ suspend_thread # <<>>
      ~> (block_free_count = 0 \/ suspend_thread = <<>> \/ kills > 0)

(* What rt_mp_alloc and rt_mp_free promise together: BlockPool. *)
Pool == INSTANCE BlockPool WITH None <- Nobody
ImplementsPool == Pool!Spec
==============================================================================
