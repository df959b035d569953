------------------------------- MODULE Scheduler -------------------------------
(***************************************************************************)
(* The scheduler of the single-processor kernel (src/src/scheduler.c) with *)
(* the life of a thread (src/src/thread.c), the tick interrupt             *)
(* (src/src/clock.c) and the idle thread that frees what is left of the    *)
(* others (src/src/idle.c).                                                *)
(*                                                                         *)
(* Only the current thread takes steps; one step is one section with the   *)
(* interrupts disabled.  An interrupt comes between any two of them and    *)
(* is one step, the context switches it asks for included.                 *)
(***************************************************************************)
EXTENDS IpcList, FiniteSets

CONSTANTS Main, Idle,    \* the threads that rtthread_startup starts
          None,          \* no thread
          Level,         \* the priorities, a smaller number is more urgent
          InitPriority,  \* InitPriority[t], thread->init_priority
          InitTick,      \* InitTick[t], thread->init_tick
          Dynamic,       \* threads made by rt_thread_create, the others by
                         \* rt_thread_init and with no cleanup function
          Sleepers,      \* threads that block with a timeout
          Waiters,       \* threads that block on an IPC object without one
          Parkers,       \* threads that suspend themselves for good
          Leavers,       \* threads that return from their entry function
          Victims,       \* threads that others delete or detach
          Tuned,         \* threads whose priority others change
          Nudgers,       \* threads that call rt_thread_resume
          Nudged,        \* threads to which they apply it
          MaxNest        \* bound on rt_scheduler_lock_nest

ASSUME ThreadAssumption ==
    /\ IsFiniteSet(Thread) /\ {Main, Idle} \subseteq Thread
    /\ Main # Idle /\ None \notin Thread
    /\ Dynamic \union Nudgers \union Nudged \subseteq Thread
    /\ Sleepers \union Waiters \union Parkers \union Leavers \union Victims
         \union Tuned \subseteq Thread \ {Idle}
ASSUME LevelAssumption ==
    /\ Level \subseteq Nat /\ IsFiniteSet(Level)
    /\ InitPriority \in [Thread -> Level]
    /\ \A t \in Thread : InitPriority[t] <= InitPriority[Idle]
    /\ InitPriority[Main] < InitPriority[Idle]
ASSUME TickAssumption ==
    InitTick \in [Thread -> Nat \ {0}] /\ MaxNest \in Nat

VARIABLES
  stat,              \* thread->stat
  current_priority,  \* thread->current_priority
  ready,             \* rt_thread_priority_table
  group,             \* rt_thread_ready_priority_group, the bits that are set
  current,           \* rt_current_thread
  waits,             \* threads linked on the list of an IPC object
  defunct,           \* rt_thread_defunct
  lock_nest,         \* rt_scheduler_lock_nest
  remaining_tick,    \* thread->remaining_tick
  timer,             \* threads whose thread_timer is active
  freed,             \* threads whose memory was given back
  pc,                \* where a thread is in the kernel
  on,                \* the thread that its call works on
  stale              \* a priority was changed since rt_schedule last looked

queues == <<stat, current_priority, ready, group, current, waits, defunct>>
vars == <<stat, current_priority, ready, group, current, waits, defunct,
          lock_nest, remaining_tick, timer, freed, pc, on, stale>>

(* "schedule": about to call rt_schedule; "resume", "unlink", "insert": in *)
(* rt_thread_resume; "detach", "close", "bury": in rt_thread_delete or     *)
(* rt_thread_detach; "free": in rt_thread_idle_excute.                     *)
Locations == {"user", "schedule", "resume", "unlink", "insert", "detach",
              "close", "bury", "free"}

(* Types: a slice that is counted down is renewed before it reaches zero,  *)
(* and the nesting of critical sections is never negative.                 *)
TypeOK ==
    /\ stat \in [Thread -> {"INIT", "READY", "SUSPEND", "CLOSE"}]
    /\ current_priority \in [Thread -> Level]
    /\ ready \in [Level -> Seq(Thread)]
    /\ group \subseteq Level
    /\ current \in Thread
    /\ waits \subseteq Thread
    /\ defunct \in Seq(Thread)
    /\ lock_nest \in 0..MaxNest
    /\ remaining_tick \in [Thread -> Nat]
    /\ \A t \in Thread : remaining_tick[t] \in 1..InitTick[t]
    /\ timer \subseteq Thread
    /\ freed \subseteq Thread
    /\ pc \in [Thread -> Locations]
    /\ on \in [Thread -> Thread \union {None}]
    /\ stale \in BOOLEAN

(* rt_system_scheduler_start has switched to the main thread. *)
Init ==
    /\ stat = [t \in Thread |-> IF t \in {Main, Idle} THEN "READY" ELSE "INIT"]
    /\ current_priority = InitPriority
    /\ ready = [p \in Level |->
                  IF p = InitPriority[Idle] THEN <<Idle>> ELSE <<>>]
    /\ group = {InitPriority[Idle]}
    /\ current = Main
    /\ waits = {}
    /\ defunct = <<>>
    /\ lock_nest = 0
    /\ remaining_tick = InitTick
    /\ timer = {}
    /\ freed = {}
    /\ pc = [t \in Thread |-> "user"]
    /\ on = [t \in Thread |-> None]
    /\ stale = FALSE

------------------------------------------------------------------------------
(* The functions that move threads between the lists, on a record of the   *)
(* variables they change, so that a section can call several of them.      *)
Now == [stat |-> stat, prio |-> current_priority, ready |-> ready,
        group |-> group, current |-> current, waits |-> waits,
        defunct |-> defunct]

Become(s) ==
    \E r \in {s} :
       /\ stat' = r.stat /\ current_priority' = r.prio
       /\ ready' = r.ready /\ group' = r.group /\ current' = r.current
       /\ waits' = r.waits /\ defunct' = r.defunct

(* rt_list_remove(&thread->tlist), whatever list the node is on. *)
ListRemove(s, t) ==
    [s EXCEPT !.ready = [p \in Level |-> Unlink(@[p], t)],
              !.waits = @ \ {t},
              !.defunct = Unlink(@, t)]

(* rt_schedule_insert_thread. *)
InsertThread(s, t) ==
    LET r == [s EXCEPT !.stat[t] = "READY"] IN
    IF t = s.current THEN r
    ELSE [r EXCEPT !.ready[s.prio[t]] = Append(@, t),
                   !.group = @ \union {s.prio[t]}]

(* Mutant: the bit of an empty level stays. *)
RemoveKeepsBit(s, t) == ListRemove(s, t)

(* rt_schedule_remove_thread. *)
RemoveThread(s, t) ==
    LET r == ListRemove(s, t) IN
    IF r.ready[s.prio[t]] = <<>> THEN [r EXCEPT !.group = @ \ {s.prio[t]}]
    ELSE r

(* _get_highest_priority_thread. *)
Highest(s) == CHOOSE p \in s.group : \A x \in s.group : p <= x

(* The switch in rt_schedule; the thread that is left stays ready.         *)
Switched(s, first) ==
    LET r == [s EXCEPT !.current = first]
    IN  RemoveThread(IF s.stat[s.current] = "READY"
                     THEN InsertThread(r, s.current) ELSE r, first)

(* Mutants: the lock is not tested; a thread of equal priority waits.      *)
ScheduleIgnoresLock(s) ==
    IF s.group = {} THEN s
    ELSE LET from == s.current
             first == Head(s.ready[Highest(s)])
             keep == s.stat[from] = "READY" /\ s.prio[from] < Highest(s)
         IN  IF keep \/ first = from THEN RemoveThread(s, from)
             ELSE Switched(s, first)

ScheduleKeepsEqual(s) ==
    IF lock_nest # 0 \/ s.group = {} THEN s
    ELSE LET from == s.current
             first == Head(s.ready[Highest(s)])
             keep == s.stat[from] = "READY" /\ s.prio[from] <= Highest(s)
         IN  IF keep \/ first = from THEN RemoveThread(s, from)
             ELSE Switched(s, first)

(* rt_schedule. *)
Schedule(s) ==
    IF lock_nest # 0 \/ s.group = {} THEN s
    ELSE LET from == s.current
             first == Head(s.ready[Highest(s)])
             keep == s.stat[from] = "READY" /\ s.prio[from] < Highest(s)
         IN  IF keep \/ first = from THEN RemoveThread(s, from)
             ELSE Switched(s, first)

(* rt_thread_suspend, on the current thread. *)
Suspend(s, t) == RemoveThread([s EXCEPT !.stat[t] = "SUSPEND"], t)

(* rt_thread_resume with the interrupts disabled, as rt_ipc_list_resume    *)
(* and rt_thread_timeout do it.                                            *)
Resume(s, t) == InsertThread(ListRemove(s, t), t)

At(c, where) == current = c /\ pc[c] = where
Calls(c) == At(c, "user") /\ c # Idle
Goto(c, where) == pc' = [pc EXCEPT ![c] = where]

------------------------------------------------------------------------------
(* rt_schedule, called last by most functions, or by rt_thread_yield.      *)
DoSchedule(c) ==
    /\ At(c, "schedule")
    /\ Become(Schedule(Now))
    /\ stale' = (stale /\ lock_nest # 0)
    /\ Goto(c, "user")
    /\ UNCHANGED <<lock_nest, remaining_tick, timer, freed, on>>

Yield(c) ==
    /\ Calls(c)
    /\ Goto(c, "schedule")
    /\ UNCHANGED <<queues, lock_nest, remaining_tick, timer, freed, on, stale>>

EnterCritical(c) ==
    /\ Calls(c)
    /\ lock_nest < MaxNest
    /\ lock_nest' = lock_nest + 1
    /\ UNCHANGED <<queues, remaining_tick, timer, freed, pc, on, stale>>

(* Mutant: rt_schedule is forgotten. *)
ExitUnscheduled(c) ==
    /\ Calls(c)
    /\ lock_nest' = IF lock_nest - 1 <= 0 THEN 0 ELSE lock_nest - 1
    /\ UNCHANGED <<queues, remaining_tick, timer, freed, pc, on, stale>>

(* It schedules when the lock is gone, also when there was none. *)
ExitCritical(c) ==
    /\ Calls(c)
    /\ lock_nest' = IF lock_nest - 1 <= 0 THEN 0 ELSE lock_nest - 1
    /\ Goto(c, IF lock_nest - 1 <= 0 THEN "schedule" ELSE "user")
    /\ UNCHANGED <<queues, remaining_tick, timer, freed, on, stale>>

(* A call that blocks: rt_thread_sleep and rt_thread_suspend link nowhere, *)
(* rt_ipc_list_suspend links on the list of an object.  Callers do not     *)
(* block, or leave, while the scheduler is locked.                         *)
Block(c, linked, timed) ==
    /\ Calls(c) /\ lock_nest = 0
    /\ c \in IF timed THEN Sleepers ELSE IF linked THEN Waiters ELSE Parkers
    /\ Become([Suspend(Now, c) EXCEPT !.waits = IF linked THEN @ \union {c}
                                                ELSE @])
    /\ timer' = IF timed THEN timer \union {c} ELSE timer \ {c}
    /\ Goto(c, "schedule")
    /\ UNCHANGED <<lock_nest, remaining_tick, freed, on, stale>>

(* A release or a send: rt_ipc_list_resume with the interrupts disabled.   *)
Wake(c, t) ==
    /\ Calls(c) /\ t \in waits /\ stat[t] = "SUSPEND"
    /\ Become(Resume(Now, t))
    /\ timer' = timer \ {t}
    /\ Goto(c, "schedule")
    /\ UNCHANGED <<lock_nest, remaining_tick, freed, on, stale>>

(* Nobody else works on the thread: the callers of the functions that take  *)
(* several sections agree on which of them may work on a thread.           *)
Unclaimed(t) == \A u \in Thread : on[u] # t

(* rt_thread_startup, up to its call of rt_thread_resume. *)
Startup(c, t) ==
    /\ Calls(c) /\ stat[t] = "INIT" /\ Unclaimed(t)
    /\ current_priority' = [current_priority EXCEPT ![t] = InitPriority[t]]
    /\ stat' = [stat EXCEPT ![t] = "SUSPEND"]
    /\ Goto(c, "resume")
    /\ on' = [on EXCEPT ![c] = t]
    /\ UNCHANGED <<ready, group, current, waits, defunct,
                   lock_nest, remaining_tick, timer, freed, stale>>

(* rt_thread_resume called from outside the IPC objects, as rt_timer_start *)
(* does for the timer thread: the interrupts are enabled between its test, *)
(* the removal and the insertion.                                          *)
CallResume(c, t) ==
    /\ Calls(c) /\ c \in Nudgers /\ t \in Nudged \ {c}
    /\ stat[t] \in {"READY", "SUSPEND"} /\ Unclaimed(t)
    /\ Goto(c, "resume")
    /\ on' = [on EXCEPT ![c] = t]
    /\ UNCHANGED <<queues, lock_nest, remaining_tick, timer, freed, stale>>

ResumeTest(c) ==
    /\ At(c, "resume")
    /\ Goto(c, IF stat[on[c]] = "SUSPEND" THEN "unlink" ELSE "schedule")
    /\ on' = IF stat[on[c]] = "SUSPEND" THEN on ELSE [on EXCEPT ![c] = None]
    /\ UNCHANGED <<queues, lock_nest, remaining_tick, timer, freed, stale>>

ResumeUnlink(c) ==
    /\ At(c, "unlink")
    /\ Become(ListRemove(Now, on[c]))
    /\ timer' = timer \ {on[c]}
    /\ Goto(c, "insert")
    /\ UNCHANGED <<lock_nest, remaining_tick, freed, on, stale>>

ResumeInsert(c) ==
    /\ At(c, "insert")
    /\ Become(InsertThread(Now, on[c]))
    /\ Goto(c, "schedule")
    /\ on' = [on EXCEPT ![c] = None]
    /\ UNCHANGED <<lock_nest, remaining_tick, timer, freed, stale>>

(* rt_thread_control(CHANGE_PRIORITY): rt_schedule is not called. *)
Retuned(s, t, p) ==
    IF s.stat[t] = "READY"
    THEN InsertThread([RemoveThread(s, t) EXCEPT !.prio[t] = p], t)
    ELSE [s EXCEPT !.prio[t] = p]

ChangePriority(c, t, p) ==
    /\ Calls(c) /\ t \in Tuned /\ stat[t] \in {"READY", "SUSPEND"}
    /\ Unclaimed(t)
    /\ Become(Retuned(Now, t, p))
    /\ stale' = TRUE
    /\ UNCHANGED <<lock_nest, remaining_tick, timer, freed, pc, on>>

------------------------------------------------------------------------------
(* rt_thread_exit. *)
Buried(s, t) ==
    IF t \in Dynamic THEN [s EXCEPT !.defunct = <<t>> \o @] ELSE s

Exit(c) ==
    /\ Calls(c) /\ c \in Leavers /\ lock_nest = 0 /\ Unclaimed(c)
    /\ Become(Buried([RemoveThread(Now, c) EXCEPT !.stat[c] = "CLOSE"], c))
    /\ timer' = timer \ {c}
    /\ Goto(c, "schedule")
    /\ UNCHANGED <<lock_nest, remaining_tick, freed, on, stale>>

(* Mutant: a thread that is ready stays on its list. *)
DeleteKeepsReady(c, t) ==
    /\ Calls(c) /\ t \in Victims /\ t # c /\ Unclaimed(t)
    /\ stat[t] # "CLOSE"
    /\ Goto(c, "detach")
    /\ on' = [on EXCEPT ![c] = t]
    /\ UNCHANGED <<queues, lock_nest, remaining_tick, timer, freed, stale>>

(* rt_thread_delete, or rt_thread_detach for a thread that is not dynamic: *)
(* the interrupts are enabled between the four sections.                   *)
DeleteRemove(c, t) ==
    /\ Calls(c) /\ t \in Victims /\ t # c /\ Unclaimed(t)
    /\ stat[t] # "CLOSE"
    /\ IF stat[t] = "INIT" THEN UNCHANGED queues ELSE Become(RemoveThread(Now, t))
    /\ Goto(c, "detach")
    /\ on' = [on EXCEPT ![c] = t]
    /\ UNCHANGED <<lock_nest, remaining_tick, timer, freed, stale>>

DeleteTimer(c) ==
    /\ At(c, "detach")
    /\ timer' = timer \ {on[c]}
    /\ Goto(c, "close")
    /\ UNCHANGED <<queues, lock_nest, remaining_tick, freed, on, stale>>

DeleteClose(c) ==
    /\ At(c, "close")
    /\ stat' = [stat EXCEPT ![on[c]] = "CLOSE"]
    /\ Goto(c, "bury")
    /\ UNCHANGED <<current_priority, ready, group, current, waits, defunct,
                   lock_nest, remaining_tick, timer, freed, on, stale>>

DeleteBury(c) ==
    /\ At(c, "bury")
    /\ Become(Buried(Now, on[c]))
    /\ Goto(c, "user")
    /\ on' = [on EXCEPT ![c] = None]
    /\ UNCHANGED <<lock_nest, remaining_tick, timer, freed, stale>>

(* rt_thread_idle_excute: rt_exit_critical calls rt_schedule before the    *)
(* thread is freed.                                                        *)
ReapTake ==
    /\ At(Idle, "user") /\ defunct # <<>>
    /\ Become(Schedule(ListRemove(Now, Head(defunct))))
    /\ stale' = (stale /\ lock_nest # 0)
    /\ Goto(Idle, "free")
    /\ on' = [on EXCEPT ![Idle] = Head(defunct)]
    /\ UNCHANGED <<lock_nest, remaining_tick, timer, freed>>

ReapFree ==
    /\ At(Idle, "free")
    /\ freed' = freed \union {on[Idle]}
    /\ Goto(Idle, "user")
    /\ on' = [on EXCEPT ![Idle] = None]
    /\ UNCHANGED <<queues, lock_nest, remaining_tick, timer, stale>>

------------------------------------------------------------------------------
SliceLeft(t) == IF remaining_tick[t] = 1 THEN InitTick[t]
                ELSE remaining_tick[t] - 1

(* rt_tick_increase, in the clock interrupt: the time slice, then the      *)
(* thread timers that are due, each ending with a call of rt_schedule in   *)
(* rt_thread_timeout.                                                      *)
Sliced(s) == IF remaining_tick[current] = 1 THEN Schedule(s) ELSE s

TimedOut(s, t) == Schedule(Resume(s, t))

AllTimedOut(s, order) ==
    LET after[k \in 0..Len(order)] ==
          IF k = 0 THEN s ELSE TimedOut(after[k - 1], order[k])
    IN  after[Len(order)]

Orders(set) == {q \in [1..Cardinality(set) -> set] :
                  \A i, j \in 1..Cardinality(set) : q[i] = q[j] => i = j}

Tick(due) ==
    /\ remaining_tick' =
         [remaining_tick EXCEPT ![current] = SliceLeft(current)]
    /\ \E order \in Orders(due) :
          Become(AllTimedOut(Sliced(Now), order))
    /\ timer' = timer \ due
    /\ stale' = (/\ stale
                 /\ lock_nest # 0 \/ (remaining_tick[current] > 1 /\ due = {}))
    /\ UNCHANGED <<lock_nest, freed, pc, on>>

(* Another interrupt handler releases or sends. *)
Interrupt(t) ==
    /\ t \in waits /\ stat[t] = "SUSPEND"
    /\ Become(Schedule(Resume(Now, t)))
    /\ timer' = timer \ {t}
    /\ stale' = (stale /\ lock_nest # 0)
    /\ UNCHANGED <<lock_nest, remaining_tick, freed, pc, on>>

------------------------------------------------------------------------------
(* What a thread does inside a call goes on whenever the thread is current. *)
Inside(c) ==
    \/ DoSchedule(c)
    \/ ResumeTest(c) \/ ResumeUnlink(c) \/ ResumeInsert(c)
    \/ DeleteTimer(c) \/ DeleteClose(c) \/ DeleteBury(c)

Next ==
    \/ \E c \in Thread :
          \/ Yield(c)
          \/ EnterCritical(c) \/ ExitCritical(c)
          \/ \E linked, timed \in BOOLEAN : Block(c, linked, timed)
          \/ \E t \in Thread :
                \/ Wake(c, t)
                \/ Startup(c, t)
                \/ CallResume(c, t)
                \/ \E p \in Level : ChangePriority(c, t, p)
                \/ DeleteRemove(c, t)
          \/ Exit(c)
          \/ Inside(c)
    \/ ReapTake \/ ReapFree
    \/ \E due \in SUBSET timer : Tick(due)
    \/ \E t \in Thread : Interrupt(t)

Spec == Init /\ [][Next]_vars

(* The clock interrupt never stops, a thread in a call that keeps the      *)
(* processor gets on with it, and critical sections end.                   *)
Fairness ==
    /\ WF_vars(\E due \in SUBSET timer : Tick(due))
    /\ WF_vars(\E c \in Thread : Inside(c))
    /\ \A n \in 1..MaxNest :
          SF_vars(\E c \in Thread : ExitCritical(c) /\ lock_nest = n)

FairSpec == Spec /\ Fairness

------------------------------------------------------------------------------
Occurs(list, t) == Cardinality({i \in 1..Len(list) : list[i] = t})

(* Being deleted: taken off its list and not closed yet. *)
Removed == {on[c] : c \in {u \in Thread : pc[u] \in {"detach", "close"}}}

(* At every moment when an interrupt may come, a thread is on the list of  *)
(* its priority exactly when it is ready and not running, once, and the    *)
(* bits of the group are those of the lists with a thread: rt_schedule     *)
(* never takes a thread from an empty list.  A thread that waits or whose  *)
(* timer is active is suspended (the assertion of rt_thread_timeout).      *)
ListsMatchStat ==
    /\ TypeOK
    /\ group = {p \in Level : ready[p] # <<>>}
    /\ \A t \in Thread : \A p \in Level :
          Occurs(ready[p], t) =
            IF /\ stat[t] = "READY" /\ t # current /\ t \notin Removed
               /\ current_priority[t] = p
            THEN 1 ELSE 0
    /\ \A t \in waits \union timer : stat[t] = "SUSPEND"

Preempted ==
    \E p \in group : p < current_priority[current]

(* Preemption: with the scheduler unlocked no thread that is ready is more *)
(* urgent than the one that runs, except between a change of priority, or  *)
(* the body of a call, and the rt_schedule that follows.                   *)
MostUrgentRuns ==
    lock_nest = 0 /\ pc[current] # "schedule" /\ ~stale => ~Preempted

(* A closed thread cannot run again: it is on no list of the scheduler, no *)
(* object or timer can resume it, and it runs on only to leave.  Its       *)
(* memory is freed when nothing refers to it any more.                     *)
ClosedIsGone ==
    /\ \A t \in Thread : stat[t] = "CLOSE" =>
          /\ \A p \in Level : Occurs(ready[p], t) = 0
          /\ t \notin waits \union timer
          /\ current = t => pc[t] = "schedule"
          /\ Occurs(defunct, t) <= 1
    /\ \A t \in freed : stat[t] = "CLOSE" /\ t # current
                        /\ Occurs(defunct, t) = 0

(* rt_enter_critical: no interrupt, timer or call switches to another      *)
(* thread before the section ends.                                         *)
CriticalKeepsRunning == [][lock_nest > 0 => current' = current]_vars

Rival(t) ==
    \E u \in Thread : /\ stat[u] \notin {"INIT", "CLOSE"}
                      /\ current_priority[u] < current_priority[t]

Waiting(t) == stat[t] = "READY" /\ ~Rival(t)
Served(t) == current = t \/ ~Waiting(t) \/ t \in Removed \/ stale
Sleeper(t) == \E u \in timer : current_priority[u] = current_priority[t]

(* Round robin: a ready thread gets the processor when no thread is more   *)
(* urgent, however the others of its priority yield, wake and block,       *)
(* unless it is deleted or a priority changes.  While threads of its       *)
(* priority sleep, the clock interrupt may pass it over: the end of the    *)
(* slice gives it the processor and the first timer that is due takes it   *)
(* away, before it has run.                                                *)
TurnComes == \A t \in Thread : Waiting(t) ~> Served(t) \/ Sleeper(t)
==============================================================================
