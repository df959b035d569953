--------------------------------- MODULE Smp ---------------------------------
(***************************************************************************)
(* The scheduler of the kernel on several processors (RT_USING_SMP in      *)
(* src/src/scheduler.c and src/src/cpu.c).  rt_hw_interrupt_disable is     *)
(* rt_cpus_lock there: it masks the interrupts of the processor and takes  *)
(* one lock for all of them, and each thread counts how often it has taken *)
(* it.  A context switch happens with the lock held, and the thread that   *)
(* is switched to gives it back, or keeps it, as its own count tells.      *)
(*                                                                         *)
(* A section with the lock is one action, except where it switches: then   *)
(* the selection, the saving of the old context and the loading of the new *)
(* one are three, and other processors do what needs no lock in between.   *)
(***************************************************************************)
EXTENDS IpcList, FiniteSets

CONSTANTS Cpu,
          Boot,        \* the processor that starts the system
          Idle,        \* Idle[c], the idle thread of processor c
          None,        \* no thread, no processor; as a queue the global one
          Level,       \* the priorities, a smaller number is more urgent
          Priority,    \* Priority[t], thread->current_priority
          BindCpu,     \* BindCpu[t], None for RT_CPUS_NR
          InitReady,   \* threads that are ready when the system starts
          Wide,        \* RT_THREAD_PRIORITY_MAX > 32
          Byte,        \* levels in an entry of the ready table, 8 in the code
          Blockers,    \* threads that suspend themselves
          Wakers,      \* threads that resume others
          Devices,     \* threads that an interrupt handler resumes
          Yielders,    \* threads that call rt_schedule, or use up a slice
          Criticals,   \* threads that lock the scheduler
          Lockers,     \* threads that call rt_schedule in a section
          MaxNest      \* bound on scheduler_lock_nest

ASSUME ThreadAssumption ==
    /\ IsFiniteSet(Thread) /\ IsFiniteSet(Cpu) /\ Boot \in Cpu
    /\ None \notin Thread \union Cpu
    /\ Idle \in [Cpu -> Thread]
    /\ BindCpu \in [Thread -> Cpu \union {None}]
    /\ \A c \in Cpu : BindCpu[Idle[c]] = c /\ Idle[c] \in InitReady
    /\ InitReady \union Wakers \union Yielders \subseteq Thread
    /\ Devices \subseteq Blockers
    /\ Blockers \union Criticals \union Lockers
         \subseteq Thread \ {Idle[c] : c \in Cpu}
ASSUME LevelAssumption ==
    /\ Level \subseteq Nat /\ IsFiniteSet(Level)
    /\ Priority \in [Thread -> Level]
    /\ \A c \in Cpu, t \in Thread : Priority[t] <= Priority[Idle[c]]
    /\ Wide \in BOOLEAN /\ Byte \in Nat \ {0} /\ MaxNest \in Nat \ {0}

VARIABLES
  stat,             \* thread->stat
  oncpu,            \* thread->oncpu, None for RT_CPU_DETACHED
  ready,            \* rt_thread_priority_table, pcpu->priority_table
  table,            \* rt_thread_ready_table, pcpu->ready_table, the bits set
  group,            \* rt_thread_ready_priority_group, pcpu->priority_group
  current,          \* pcpu->current_thread
  irq_switch_flag,  \* pcpu->irq_switch_flag
  ipi,              \* processors with a pending RT_SCHEDULE_IPI
  cpus_lock,        \* whether _cpus_lock is taken
  critical_lock,    \* whether _rt_critical_lock is taken
  cpus_nest,        \* thread->cpus_lock_nest
  sched_nest,       \* thread->scheduler_lock_nest
  saved,            \* threads whose context is behind thread->sp
  stage,            \* what a processor does
  to,               \* the thread that a switching processor switches to
  pc                \* where a thread is in the kernel

lists == <<stat, oncpu, ready, table, group, ipi>>
locks == <<cpus_lock, critical_lock, cpus_nest, sched_nest>>
switch == <<current, saved, stage, to>>
vars == <<stat, oncpu, ready, table, group, ipi, current, saved, stage, to,
          cpus_lock, critical_lock, cpus_nest, sched_nest, irq_switch_flag,
          pc>>

(* A processor: not started; running its current thread; saving the        *)
(* context of that thread, then loading another; at the end of an          *)
(* interrupt; "wild" when the head of an empty list was taken for a thread.*)
Stages == {"start", "run", "save", "load", "irq", "wild"}

(* A thread: outside of the kernel or about to enter it; about to call     *)
(* rt_schedule; back from the switch in rt_schedule; in a section.         *)
Locations == {"user", "schedule", "enable", "section"}

Queue == Cpu \union {None}

TypeOK ==
    /\ stat \in [Thread -> {"INIT", "READY", "SUSPEND"}]
    /\ oncpu \in [Thread -> Cpu \union {None}]
    /\ ready \in [Queue -> [Level -> Seq(Thread)]]
    /\ table \in [Queue -> SUBSET Level]
    /\ group \in [Queue -> SUBSET Nat]
    /\ current \in [Cpu -> Thread \union {None}]
    /\ irq_switch_flag \in [Cpu -> BOOLEAN]
    /\ ipi \subseteq Cpu
    /\ cpus_lock \in BOOLEAN /\ critical_lock \in BOOLEAN
    /\ cpus_nest \in [Thread -> Nat] /\ sched_nest \in [Thread -> 0..MaxNest]
    /\ saved \subseteq Thread
    /\ stage \in [Cpu -> Stages]
    /\ to \in [Cpu -> Thread \union {None}]
    /\ pc \in [Thread -> Locations]

------------------------------------------------------------------------------
(* The ready lists, on a record of the variables that hold them.           *)
Now == [stat |-> stat, oncpu |-> oncpu, ready |-> ready, table |-> table,
        group |-> group, ipi |-> ipi]

Become(s) ==
    \E r \in {s} : /\ stat' = r.stat /\ oncpu' = r.oncpu
                   /\ ready' = r.ready /\ table' = r.table
                   /\ group' = r.group /\ ipi' = r.ipi

Number(p) == p \div Byte
InNumber(n) == {p \in Level : Number(p) = n}

SetBit(s, q, p) ==
    IF Wide THEN [s EXCEPT !.table[q] = @ \union {p},
                           !.group[q] = @ \union {Number(p)}]
    ELSE [s EXCEPT !.group[q] = @ \union {p}]

(* With a wide table rt_schedule_remove_thread tests the global table also *)
(* for a thread that is bound to a processor.                              *)
ClearBit(s, q, p) ==
    IF ~Wide THEN [s EXCEPT !.group[q] = @ \ {p}]
    ELSE LET r == [s EXCEPT !.table[q] = @ \ {p}] IN
         IF r.table[None] \intersect InNumber(Number(p)) = {}
         THEN [r EXCEPT !.group[q] = @ \ {Number(p)}]
         ELSE r

(* Mutant: no other processor is told. *)
InsertSilently(s, c, t) ==
    LET q == BindCpu[t]
        r == [s EXCEPT !.stat[t] = "READY"]
    IN IF s.oncpu[t] # None THEN r
       ELSE SetBit([r EXCEPT !.ready[q][Priority[t]] = Append(@, t)],
                   q, Priority[t])

(* rt_schedule_insert_thread, on processor c. *)
InsertThread(s, c, t) ==
    LET q == BindCpu[t]
        r == [s EXCEPT !.stat[t] = "READY"]
        told == IF q = None THEN Cpu \ {c} ELSE {q} \ {c}
    IN IF s.oncpu[t] # None THEN r
       ELSE SetBit([r EXCEPT !.ready[q][Priority[t]] = Append(@, t),
                             !.ipi = @ \union told],
                   q, Priority[t])

(* rt_schedule_remove_thread. *)
RemoveThread(s, t) ==
    LET q == BindCpu[t]
        r == [s EXCEPT !.ready[q][Priority[t]] = Unlink(@, t)]
    IN IF r.ready[q][Priority[t]] = <<>> THEN ClearBit(r, q, Priority[t])
       ELSE r

Least(S) == CHOOSE x \in S : \A y \in S : x <= y
Lowest == Least({p \in Level : \A r \in Level : r <= p})

(* The level that the bits of a queue show.  Without a bit __rt_ffs(0) - 1 *)
(* is, as an unsigned number, above every level; without a bit in the      *)
(* entry it is the level before the entry.                                 *)
Shown(s, q) ==
    IF s.group[q] = {} THEN Lowest + 1
    ELSE IF ~Wide THEN Least(s.group[q])
    ELSE LET n == Least(s.group[q])
             bits == s.table[q] \intersect InNumber(n)
         IN IF bits # {} THEN Least(bits)
            ELSE IF n = 0 THEN Lowest + 1 ELSE n * Byte - 1

(* _get_highest_priority_thread: the queue and the level, the local queue  *)
(* when both show the same level.                                          *)
Highest(s, c) ==
    IF Shown(s, None) < Shown(s, c)
    THEN [queue |-> None, prio |-> Shown(s, None)]
    ELSE [queue |-> c, prio |-> Shown(s, c)]

HeadOf(s, h) ==
    IF h.prio \notin Level \/ s.ready[h.queue][h.prio] = <<>> THEN None
    ELSE Head(s.ready[h.queue][h.prio])

(* Mutant: the current thread is inserted while it still has its processor.*)
SelectUndetached(s, c) ==
    LET t == current[c]
        h == Highest(s, c)
        keeps == s.stat[t] = "READY" /\ Priority[t] < h.prio
        u == IF keeps THEN t ELSE HeadOf(s, h)
        i == IF s.stat[t] = "READY" /\ ~keeps THEN InsertThread(s, c, t) ELSE s
    IN IF s.group[None] = {} /\ s.group[c] = {} THEN [to |-> t, s |-> s]
       ELSE IF u = None THEN [to |-> None, s |-> i]
       ELSE LET d == [i EXCEPT !.oncpu[u] = c]
            IN [to |-> u, s |-> IF u = t THEN d ELSE RemoveThread(d, u)]

(* The part that rt_schedule and rt_scheduler_do_irq_switch have in common:*)
(* the thread that processor c goes on with, and the lists after that.     *)
Select(s, c) ==
    LET t == current[c]
        h == Highest(s, c)
        r == [s EXCEPT !.oncpu[t] = None]
        keeps == s.stat[t] = "READY" /\ Priority[t] < h.prio
        u == IF keeps THEN t ELSE HeadOf(s, h)
        i == IF s.stat[t] = "READY" /\ ~keeps THEN InsertThread(r, c, t) ELSE r
    IN IF s.group[None] = {} /\ s.group[c] = {} THEN [to |-> t, s |-> s]
       ELSE IF u = None THEN [to |-> None, s |-> i]
       ELSE LET d == [i EXCEPT !.oncpu[u] = c]
            IN [to |-> u, s |-> IF u = t THEN d ELSE RemoveThread(d, u)]

------------------------------------------------------------------------------
(* The secondary processors are started by the main thread, which the boot *)
(* processor runs first.                                                   *)
Init ==
    /\ stat = [t \in Thread |-> IF t \in InitReady THEN "READY" ELSE "SUSPEND"]
    /\ oncpu = [t \in Thread |-> None]
    /\ ready = [q \in Queue |-> [p \in Level |->
                  SetToSeq({t \in InitReady : BindCpu[t] = q
                                              /\ Priority[t] = p})]]
    /\ table = [q \in Queue |->
                  IF Wide THEN {p \in Level : ready[q][p] # <<>>} ELSE {}]
    /\ group = [q \in Queue |->
                  {IF Wide THEN Number(p) ELSE p :
                     p \in {r \in Level : ready[q][r] # <<>>}}]
    /\ current = [c \in Cpu |-> None]
    /\ irq_switch_flag = [c \in Cpu |-> FALSE]
    /\ ipi = {}
    /\ cpus_lock = FALSE /\ critical_lock = FALSE
    /\ cpus_nest = [t \in Thread |-> 0]
    /\ sched_nest = [t \in Thread |-> 0]
    /\ saved = Thread
    /\ stage = [c \in Cpu |-> "start"]
    /\ to = [c \in Cpu |-> None]
    /\ pc = [t \in Thread |-> "user"]

(* rt_system_scheduler_start, which the processor calls with the lock.     *)
Start(c) ==
    /\ stage[c] = "start" /\ ~cpus_lock
    /\ c # Boot => stage[Boot] # "start"
    /\ LET u == HeadOf(Now, Highest(Now, c)) IN
       /\ Become(RemoveThread([Now EXCEPT !.oncpu[u] = c], u))
       /\ to' = [to EXCEPT ![c] = u]
    /\ stage' = [stage EXCEPT ![c] = "load"]
    /\ cpus_lock' = TRUE
    /\ UNCHANGED <<current, irq_switch_flag, critical_lock, cpus_nest,
                   sched_nest, saved, pc>>

(* Processor c runs t. *)
Runs(c, t) == stage[c] = "run" /\ current[c] = t

(* A switch is prepared: u, or what was taken for a thread, comes next.    *)
SwitchTo(c, u, first) ==
    /\ stage' = [stage EXCEPT ![c] = IF u = None THEN "wild" ELSE first]
    /\ to' = [to EXCEPT ![c] = u]
    /\ UNCHANGED <<current, saved>>

(* Mutant: the lock is given back before the switch. *)
ScheduleUnlocks(c, t) ==
    /\ Runs(c, t)
    /\ \/ pc[t] = "schedule"
       \/ pc[t] = "user" /\ t \in Yielders
    /\ ~cpus_lock /\ sched_nest[t] = 0
    /\ LET r == Select(Now, c) IN
       /\ Become(r.s)
       /\ pc' = [pc EXCEPT ![t] = "user"]
       /\ IF r.to = t THEN UNCHANGED switch ELSE SwitchTo(c, r.to, "save")
    /\ UNCHANGED <<irq_switch_flag, locks>>

(* rt_schedule: with the scheduler locked, by the thread or by a section   *)
(* of its own, it does nothing.                                            *)
Schedule(c, t) ==
    LET inside == pc[t] = "section"
        nest == IF inside THEN sched_nest[t] ELSE sched_nest[t] + 1
        r == Select(Now, c)
    IN /\ Runs(c, t)
       /\ \/ pc[t] = "schedule"
          \/ pc[t] = "user" /\ t \in Yielders
          \/ inside
       /\ inside \/ ~cpus_lock
       /\ IF nest # 1
          THEN /\ pc' = [pc EXCEPT ![t] = IF inside THEN "section" ELSE "user"]
               /\ UNCHANGED <<lists, switch, locks>>
          ELSE /\ Become(r.s)
               /\ IF r.to = t
                  THEN /\ pc' = [pc EXCEPT ![t] = IF inside THEN "section"
                                                            ELSE "user"]
                       /\ UNCHANGED <<switch, locks>>
                  ELSE /\ SwitchTo(c, r.to, "save")
                       /\ pc' = [pc EXCEPT ![t] = "enable"]
                       /\ cpus_lock' = TRUE
                       /\ cpus_nest' = [cpus_nest EXCEPT ![t] = @ + 1]
                       /\ sched_nest' = [sched_nest EXCEPT ![t] = nest]
                       /\ UNCHANGED critical_lock
       /\ UNCHANGED irq_switch_flag

(* rt_hw_context_switch stores the context of the thread that goes.        *)
Save(c) ==
    /\ stage[c] = "save"
    /\ saved' = saved \union {current[c]}
    /\ stage' = [stage EXCEPT ![c] = "load"]
    /\ UNCHANGED <<lists, current, to, locks, irq_switch_flag, pc>>

(* Mutant: the lock is always given back. *)
LoadUnlocks(c) ==
    /\ stage[c] = "load"
    /\ current' = [current EXCEPT ![c] = to[c]]
    /\ saved' = saved \ {to[c]}
    /\ stage' = [stage EXCEPT ![c] = "run"]
    /\ to' = [to EXCEPT ![c] = None]
    /\ cpus_lock' = FALSE
    /\ UNCHANGED <<lists, critical_lock, cpus_nest, sched_nest,
                   irq_switch_flag, pc>>

(* It takes over the other context; rt_cpus_lock_status_restore makes that *)
(* thread the current one and the lock what its count expects.             *)
Load(c) ==
    /\ stage[c] = "load"
    /\ current' = [current EXCEPT ![c] = to[c]]
    /\ saved' = saved \ {to[c]}
    /\ stage' = [stage EXCEPT ![c] = "run"]
    /\ to' = [to EXCEPT ![c] = None]
    /\ cpus_lock' = (cpus_lock /\ cpus_nest[to[c]] # 0)
    /\ UNCHANGED <<lists, critical_lock, cpus_nest, sched_nest,
                   irq_switch_flag, pc>>

(* rt_cpus_lock and rt_cpus_unlock around a section that makes calls.  It  *)
(* may lock the scheduler inside, but not release it for its caller.       *)
Lock(c, t) ==
    /\ Runs(c, t) /\ pc[t] = "user" /\ t \in Lockers
    /\ ~cpus_lock /\ sched_nest[t] = 0
    /\ cpus_lock' = TRUE
    /\ cpus_nest' = [cpus_nest EXCEPT ![t] = @ + 1]
    /\ sched_nest' = [sched_nest EXCEPT ![t] = @ + 1]
    /\ pc' = [pc EXCEPT ![t] = "section"]
    /\ UNCHANGED <<lists, switch, irq_switch_flag, critical_lock>>

(* The end of a section, and that of rt_schedule after a switch.           *)
Unlock(c, t) ==
    /\ Runs(c, t) /\ pc[t] \in {"enable", "section"}
    /\ pc[t] = "section" => stat[t] = "READY" /\ sched_nest[t] = 1
    /\ cpus_nest' = [cpus_nest EXCEPT ![t] = @ - 1]
    /\ IF cpus_nest[t] = 1
       THEN /\ sched_nest' = [sched_nest EXCEPT ![t] = @ - 1]
            /\ cpus_lock' = FALSE
            /\ pc' = [pc EXCEPT ![t] = "user"]
       ELSE /\ pc' = [pc EXCEPT ![t] = "section"]
            /\ UNCHANGED <<sched_nest, cpus_lock>>
    /\ UNCHANGED <<lists, switch, irq_switch_flag, critical_lock>>

------------------------------------------------------------------------------
(* A thread suspends itself, to sleep or on an IPC object, and owes a call *)
(* of rt_schedule.                                                         *)
Suspend(c, t) ==
    /\ Runs(c, t) /\ t \in Blockers /\ stat[t] = "READY"
    /\ \/ pc[t] = "user" /\ ~cpus_lock /\ sched_nest[t] = 0
       \/ pc[t] = "section" /\ sched_nest[t] = 1
    /\ Become(RemoveThread([Now EXCEPT !.stat[t] = "SUSPEND"], t))
    /\ pc' = [pc EXCEPT ![t] = IF @ = "user" THEN "schedule" ELSE @]
    /\ UNCHANGED <<switch, locks, irq_switch_flag>>

(* A thread resumes another one, in a section, and calls rt_schedule.      *)
Resume(c, t, u) ==
    /\ Runs(c, t) /\ pc[t] = "user" /\ t \in Wakers
    /\ ~cpus_lock /\ stat[u] = "SUSPEND"
    /\ Become(InsertThread(Now, c, u))
    /\ pc' = [pc EXCEPT ![t] = "schedule"]
    /\ UNCHANGED <<switch, locks, irq_switch_flag>>

(* rt_scheduler_lock_nest counts the critical sections of a thread and one *)
(* more while it is in a section.                                          *)
InSection(t) == IF cpus_nest[t] > 0 THEN 1 ELSE 0

(* rt_enter_critical; a spinning processor waits here. *)
EnterCritical(c, t) ==
    /\ Runs(c, t) /\ pc[t] \in {"user", "section"} /\ t \in Criticals
    /\ stat[t] = "READY" /\ sched_nest[t] < MaxNest
    /\ sched_nest[t] = InSection(t) => ~critical_lock
    /\ sched_nest' = [sched_nest EXCEPT ![t] = @ + 1]
    /\ critical_lock' = TRUE
    /\ UNCHANGED <<lists, switch, irq_switch_flag, cpus_lock, cpus_nest, pc>>

(* rt_exit_critical, up to rt_schedule. *)
ExitCritical(c, t) ==
    /\ Runs(c, t) /\ pc[t] \in {"user", "section"}
    /\ sched_nest[t] > InSection(t)
    /\ sched_nest' = [sched_nest EXCEPT ![t] = @ - 1]
    /\ critical_lock' =
          (critical_lock /\ sched_nest[t] - 1 # InSection(t))
    /\ pc' = [pc EXCEPT ![t] = IF sched_nest[t] = 1 THEN "schedule" ELSE @]
    /\ UNCHANGED <<lists, switch, irq_switch_flag, cpus_lock, cpus_nest>>

------------------------------------------------------------------------------
(* An interrupt between two instructions of t, which has the interrupts    *)
(* enabled: rt_interrupt_enter, the handler and rt_interrupt_leave.        *)
Interrupted(c) ==
    /\ stage[c] = "run" /\ cpus_nest[current[c]] = 0 /\ ~cpus_lock
    /\ stage' = [stage EXCEPT ![c] = "irq"]
    /\ UNCHANGED <<current, saved, to, locks, pc>>

(* rt_schedule in a handler. *)
Flag(c) == irq_switch_flag' = [irq_switch_flag EXCEPT ![c] = TRUE]

(* rt_scheduler_ipi_handler. *)
Ipi(c) ==
    /\ Interrupted(c) /\ c \in ipi
    /\ ipi' = ipi \ {c} /\ Flag(c)
    /\ UNCHANGED <<stat, oncpu, ready, table, group>>

(* A handler that resumes a thread, and one that does not; the tick that   *)
(* ends a slice.                                                           *)
Device(c, u) ==
    /\ Interrupted(c) /\ u \in Devices /\ stat[u] = "SUSPEND"
    /\ Become(InsertThread(Now, c, u)) /\ Flag(c)

Tick(c) ==
    /\ Interrupted(c)
    /\ \/ current[c] \in Yielders /\ Flag(c)
       \/ UNCHANGED irq_switch_flag
    /\ UNCHANGED lists

(* rt_scheduler_do_irq_switch: the counts of the thread that goes are put  *)
(* back to what they were when the interrupt came.                         *)
DoIrqSwitch(c) ==
    LET t == current[c]
        r == Select(Now, c)
    IN /\ stage[c] = "irq" /\ ~cpus_lock
       /\ IF irq_switch_flag[c] /\ sched_nest[t] = 0
          THEN /\ irq_switch_flag' = [irq_switch_flag EXCEPT ![c] = FALSE]
               /\ Become(r.s)
               /\ SwitchTo(c, r.to, IF r.to = t THEN "run" ELSE "save")
               /\ cpus_lock' = (r.to # t)
          ELSE /\ stage' = [stage EXCEPT ![c] = "run"]
               /\ UNCHANGED <<lists, irq_switch_flag, current, saved, to,
                              cpus_lock>>
       /\ UNCHANGED <<critical_lock, cpus_nest, sched_nest, pc>>

------------------------------------------------------------------------------
ThreadStep(c, t) ==
    \/ Schedule(c, t) \/ Lock(c, t) \/ Unlock(c, t) \/ Suspend(c, t)
    \/ EnterCritical(c, t) \/ ExitCritical(c, t)
    \/ \E u \in Thread : Resume(c, t, u)

Next ==
    \E c \in Cpu :
       \/ Start(c) \/ Save(c) \/ Load(c)
       \/ \E t \in Thread : ThreadStep(c, t)
       \/ Ipi(c) \/ Tick(c) \/ DoIrqSwitch(c)
       \/ \E u \in Thread : Device(c, u)

Spec == Init /\ [][Next]_vars

------------------------------------------------------------------------------
(* The thread whose registers processor c holds, if any.                   *)
Switching(c) == stage[c] \in {"save", "load"}

(* A thread is never on two processors, and one that is switched to has    *)
(* left the other processor and has its whole context in memory by then.   *)
ContextsSafe ==
    /\ \A c, d \in Cpu :
          c # d => /\ current[c] # None => current[c] # current[d]
                   /\ to[c] # None => to[c] # to[d] /\ to[c] # current[d]
    /\ \A c \in Cpu :
          /\ stage[c] \in {"load", "save"} => to[c] \in saved
          /\ stage[c] \in {"run", "irq"} => current[c] \notin saved

(* A thread that is ready is linked once, in the queue of its processor or *)
(* the global one, or it has a processor; nobody else is linked; and the   *)
(* bits show what the lists hold.                                          *)
ReadyOrRunning ==
    /\ \A q \in Queue, p \in Level :
          /\ Once(ready[q][p])
          /\ \A t \in Thread :
                Linked(ready[q][p], t) <=>
                   /\ stat[t] = "READY" /\ oncpu[t] = None
                   /\ BindCpu[t] = q /\ Priority[t] = p
    /\ \A t \in Thread :
          oncpu[t] # None => t = IF Switching(oncpu[t]) THEN to[oncpu[t]]
                                                       ELSE current[oncpu[t]]
    /\ ~Wide => \A q \in Queue, p \in Level :
                   p \in group[q] <=> ready[q][p] # <<>>
    /\ TypeOK

(* The lock is handed from thread to thread and never lost: it is taken    *)
(* exactly while one processor switches or runs a thread that counts it,   *)
(* and the thread that is switched out counts what it will find.           *)
LockHandedOver ==
    LET Holds(c) == \/ Switching(c) \/ stage[c] = "wild"
                    \/ stage[c] = "run" /\ cpus_nest[current[c]] > 0
    IN /\ cpus_lock <=> \E c \in Cpu : Holds(c)
       /\ \A c, d \in Cpu : Holds(c) /\ Holds(d) => c = d
       /\ \A t \in saved : cpus_nest[t] > 0 <=> pc[t] = "enable"

(* Between rt_enter_critical and rt_exit_critical, on all the processors,  *)
(* there is one thread at most, and it keeps its processor.                *)
Critical(t) == sched_nest[t] > InSection(t)

CriticalAlone ==
    /\ \A t, u \in Thread : Critical(t) /\ Critical(u) => t = u
    /\ critical_lock <=> \E t \in Thread : Critical(t)
    /\ \A t \in Thread : Critical(t) =>
          \E c \in Cpu : current[c] = t /\ stage[c] \in {"run", "irq"}

(* Both locks of the scheduler exclude what they are there to exclude. *)
LocksExclude == LockHandedOver /\ CriticalAlone

(* Nothing that would change who runs is pending on processor c. *)
Settled(c) ==
    /\ stage[c] = "run" /\ c \notin ipi
    /\ pc[current[c]] = "user" /\ sched_nest[current[c]] = 0

(* On every processor the most urgent of the threads that may run there    *)
(* runs, except while an interrupt that will see to it is pending, or its  *)
(* thread has locked the scheduler or is about to call it.                 *)
MostUrgentRuns ==
    \A c \in Cpu : Settled(c) =>
       /\ stat[current[c]] = "READY"
       /\ \A t \in Thread :
             stat[t] = "READY" /\ oncpu[t] = None /\ BindCpu[t] \in {c, None}
               => Priority[current[c]] <= Priority[t]
==============================================================================
