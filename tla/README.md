# Verification of the RT-Thread kernel of this repository

The repository is a port of the LittlevGL library and of a NES emulator to
RT-Thread, with the whole operating system in the tree. Nearly everything that
is hard to get right in it is in the kernel (`src/*.c`, 11,000 lines): threads,
scheduler, clock interrupt and the objects through which threads wait for each
other. This directory models that kernel in TLA+, checks the models with TLC and
proves with TLAPS, for every value of the constants, the safety properties, action
properties and refinements that TLC checks on small instances: of the semaphore, the
mutex, the mailbox, the message queue, the event, the memory pool, the timers and the
schedulers of one and of several processors.

## 1. Inventory

| Part | State it keeps | Operations | What makes it correct |
|---|---|---|---|
| Semaphore, `src/ipc.c` | `value`, list of waiting threads | take, release, control(RESET), detach | units are conserved, nobody waits beside a unit, waiters are served in order |
| Mutex, `src/ipc.c` | `value`, `owner`, `hold`, `original_priority`, waiting list | take (recursive), release with hand-off, detach | exclusion, correct counts, priority inheritance and restoration |
| Mailbox, `src/ipc.c` | ring of mails, two offsets, `entry`, two waiting lists | send_wait, recv, control(RESET), detach | bounded queue, no lost wake-up on either side |
| Message queue, `src/ipc.c` | slots in two chains, `entry`, waiting list | send, urgent, recv, control(RESET), detach | no slot lost, no message torn, order kept |
| Event, `src/ipc.c` | a set of bits, waiting list | send, recv, control, detach | every waiter whose condition holds is woken |
| Scheduler, `src/scheduler.c` | ready lists, priority bits, current thread, lock nesting | schedule, insert, remove, enter and exit critical | bits match lists, the most urgent ready thread runs |
| Threads, `src/thread.c` | `stat`, priorities, list node, thread timer, error | startup, exit, delete, suspend, resume, sleep, control | a closed thread is gone, states and lists agree |
| Clock, `src/clock.c` | tick, slice of the running thread | rt_tick_increase | slices are shared, timers fire |
| Idle thread, `src/idle.c` | list of dead threads | rt_thread_idle_excute | memory is freed once, after the last use |
| Timers, `src/timer.c` | skip lists of hard and soft timers | start, stop, check, timer thread | fire once, in order, not after stop |
| Signals, `src/signal.c` | pending sets, information nodes | kill, deliver, handle | delivered once, waits end with -RT_EINTR |
| Memory pool, `src/mempool.c` | free blocks, waiting list and its count | alloc, free, delete | blocks conserved, no lost wake-up |
| Several processors, `src/scheduler.c`, `src/cpu.c` | ready lists, bits and current thread per processor and in common, a lock over all, nesting counts per thread | the SMP half of the scheduler, switch at the end of an interrupt, IPIs | no thread on two processors, its context saved before another loads it, the most urgent ones run |
| Heaps, objects, devices, console, drivers IPC, POSIX layer, shell, file systems, network, emulator, GUI | see `PROJECT.json` | | not modelled, each with its reason there |

How they interact: threads call the IPC objects. These link a thread on their
list (`thread->tlist`, the same node that links it on a ready list), call
`rt_thread_suspend` and `rt_timer_start`, and then `rt_schedule`. Three parties
can end the wait: another thread or interrupt handler that releases or sends
(`rt_ipc_list_resume`), the thread timer in the clock interrupt
(`rt_thread_timeout`), and a signal (`_signal_deliver`). The thread finds out in
`thread->error` when it runs again.

What is hard: the code protects itself by sections with the interrupts disabled
(on two processors these sections also take one lock over both), so everything
depends on what may happen *between* two sections of one call. The hazards found
while reading are listed in `PROJECT.json`, each at the line where it bites.

## 2. Modules

| Module | Models | Kind |
|---|---|---|
| `IpcList` | the list of an object: `rt_ipc_list_suspend` and how threads leave | operators |
| `Semaphore` | `rt_sem_*` with timeouts, signals, detach | component |
| `CountingSemaphore` | what a semaphore promises | abstract specification |
| `Mutex` | `rt_mutex_*` with timeouts, signals and inherited priorities | component |
| `RecursiveLock` | what a mutex promises | abstract specification |
| `Mailbox` | `rt_mb_*` | component |
| `BoundedFifo` | what a mailbox promises | abstract specification |
| `MessageQueue` | `rt_mq_*` | component |
| `MessageChannel` | what a message queue promises while messages are being copied | abstract specification |
| `Event` | `rt_event_*` | component |
| `MemPool` | `rt_mp_*` | component |
| `BlockPool` | what a memory pool promises | abstract specification |
| `Timer` | `rt_timer_*`: hard timers, soft timers and their thread | component |
| `Scheduler` | scheduler, thread life cycle, clock interrupt and idle thread on one processor | component |
| `Smp` | the scheduler on several processors, with their lock | component |
| `SemaphoreMC`, `MutexMC`, `MailboxMC`, `MessageQueueMC`, `EventMC`, `MemPoolMC`, `TimerMC`, `SchedulerMC`, `SmpMC` | instances for TLC | instances |
| `IpcListProofs`, `SemaphoreProofs`, `MutexProofs`, `MailboxProofs`, `MessageQueueProofs`, `SchedulerProofs` | lemmas, and the theorems about the module of that name | proofs |
| `PoolSmpProofs`, `EventTimerProofs` | the theorems about `MemPool` and `Smp`, and about `Event` and `Timer` | proofs |

The last two modules each hold the theorems of two components that have nothing to do
with each other. They EXTEND both, and so what `MemPool` and `Timer` would define under
the name that the other module has too is called `PoolInit`, `PoolNext`, `PoolSpec`,
`PoolTypeOK` and `TimerInit`, `TimerNext`, `TimerSpec`, `TimerTypeOK` there. `Thread` is
declared in `IpcList`, for all of them.

Conventions, common to all of them:

* **A section is an action.** Code between `rt_hw_interrupt_disable` and
  `rt_hw_interrupt_enable` is one action, with all that the functions called
  inside it change (in `Smp` a section that switches is three). `pc` says between which sections of which call a thread is.
  A call with several sections has several actions; a test outside the section
  is an action of its own (`ResumeAllTest`, `ResumeTest`, `StartTest`).
* **Who runs.** In the modules of the IPC objects and in `MemPool` any thread that is not
  suspended may take the next step. This covers every preemption on one
  processor and every interleaving on two, so they need no scheduler. A thread
  is suspended exactly when an object links it, so `stat` is not a variable
  there. In `Scheduler` only the current thread runs and an interrupt may come
  between any two sections; in `Smp` that is so on each processor. In `Timer` the
  threads step in any order, except that only interrupts come while the timer
  thread has the scheduler locked.
* **Thread timers** are the set `timer` of the threads whose timer is active. An
  active timer may fire at any later moment: ticks are counted in `Timer` only.
  Where a timeout is recomputed after a wake-up (`rt_mb_send_wait`, `rt_mb_recv`,
  `rt_mq_recv`, `rt_mp_alloc`), the time left is any of the values the subtraction
  can give.
* **Signals** resume a thread that waits and give it -RT_EINTR when a handler
  runs. They are built only for the QEMU board (`RT_USING_SIGNALS`), and each
  instance says how many are sent (`MaxKills`).
* **Detach.** `rt_ipc_list_resume_all` tests the list outside its section. The
  modules have the test (`ResumeAllTest`) and the section (`ResumeAllTake`) apart,
  and stop a thread that finds the list empty in between at "wild": it has taken
  the head of the list for a thread, and what follows is not modelled (in `MemPool`
  it is: the kernel hangs). `live` ends with the registration of the object; no call starts after
  that, but threads inside a call go on, as in the code.
* **Calls that fail at once and change nothing** are stuttering steps.
* **Names** are those of the source where TLA+ allows it; in
  `Scheduler` the functions that move threads between lists work on a record of
  the variables (`Now`), because one section calls several of them.
* **Mutants.** An operator with the comment "Mutant" is a plausible mistake in
  the operator below it, with the same parameters. No specification uses it.

### Semaphore

`value`, `list`, `timer`, `error` are fields of the code. `held`, `total` and
`kills` are what an observer counts: the threads told that they have a unit, the
units put in, the signals sent. `TakeAvailable`, `TakeSuspend` and `Return` are the
three parts of `rt_sem_take`; `ReleaseUnit` is the section of `rt_sem_release`,
called by a thread that has a unit (`Release`) or by anybody (`Post`);
`DetachBegin`, `ResumeAllTest`, `ResumeAllTake` and `Unregister` are
`rt_sem_detach` and `rt_sem_delete` with the loop of `rt_ipc_list_resume_all`.
A thread that a release has taken off the list owns its unit before it knows;
`Granted` names these threads, and the refinement to `CountingSemaphore` counts
their units as available. A thread whose take races a detach may be left behind
on the list; nothing in the code forbids it, and the properties say what holds
nevertheless.

### Mutex

`Take*`, `Return` and `Again*` are `rt_mutex_take`, the last three for the jump
back to `__again` after a signal. From there the code tests, takes, lends its priority,
suspends and starts its timer with the interrupts enabled (ipc.c:689-743), where the
first try has them disabled. `AgainTake` and `AgainBlock` are that retry when nobody
steps in, and so one action each; `AgainDisturbed` is the retry into which somebody
does step, at any point before line 743. The thread then goes to "wild", `Torn` holds
from there on, and no property says anything any more: the owner whose
priority is read at line 719 may be RT_NULL by then, two threads may write value, owner
and hold, and the timer of a thread that was just handed the mutex may be started. `Boosted` and `Restored` are the two calls of
`rt_thread_control` that move priorities. `Release` covers the nested release, the
hand-off to the first waiter and the release with nobody waiting;
`ReleaseRefused` is a release by a thread that is not the owner. `depth` counts
what each thread was told. `Nesting` is the set of pairs of mutexes that callers
take one inside the other.

### Mailbox and MessageQueue

Entry to a call (`SendNow`, `SendSuspend`, `RecvNow`, `RecvSuspend`) and the way
around its loop (`SendRetry`, `SendFails`, `RecvRetry`, `RecvFails`) are separate
actions, as a resumed thread may find that another one was faster. In the queue
a send has three steps: a slot is unlinked, filled with the interrupts enabled,
and linked; a receive the same in reverse. `MessageChannel` shows messages being
written and read, so that a torn message would be seen. A mail is a machine word
and is stored in the section, so `BoundedFifo` is enough for the mailbox. A detach
resumes the receivers, and in the mailbox then the senders (`DetachBegin` to
`Unregister`); the ring and the slots stay, so that threads still in their loop can
be followed. `Looking` are the resumed threads that will test the ring or the queue
again: those that a timeout, a reset, a detach or a signal woke do not.

### Event

`RecvNow`, `RecvFails`, `RecvSuspend` and `Return` are the ways through
`rt_event_recv`; `Send` is the whole of `rt_event_send`, in which `Sweep` is
the loop over the waiting list, with `Visit` for one round: a recursive function of the
number of rounds. A thread that is served may
clear bits, so those behind it see fewer. `event_set` is the field by which the
answer reaches the thread, `error` the one by which it learns whether there is an
answer; `served` and `struck` are what an observer knows. `SendServes` says what a send
does without a loop, by quantifiers over the places of the list.

### MemPool

`block_list` is the chain of free blocks as a sequence, `suspend_thread_count` the
count kept beside the waiting list. The list is a stack: a thread that suspends goes
to its front, whatever its priority. `rt_thread_timeout` and a signal take a thread off the
list without telling the pool, so the count drifts; `over` counts by how much, and
`Wake`, a part of `Free`, runs into it: with a count above zero and nobody on the list it
takes the head of the list for a thread (`ResumeOfNone`). The code then writes the error
of that thread, behind the pool (mempool.c:429), and calls `rt_thread_resume`,
whose assertion on the type of the object (thread.c:707) fails: in the place of the type
is the lowest byte of `mp->block_list`, an address that is aligned, and so never the
type of a thread. `rt_assert_handler` does not return (kservice.c:1330) and the interrupts
are disabled, so `hung` becomes true and no step follows. `RT_DEBUG`, which compiles the
assertions, is defined for the QEMU board (`rtconfig.h:24`); the build without it is not
modelled. `rt_mp_detach` meets the same when the list becomes empty after its test
(`ResumeAllTake`). `Looking` are the resumed threads without an error, the only
ones that test the pool again. `Handler` allocates without waiting, in an interrupt.

### Timer

`hard` and `soft` are the lists in the last row of the two skip lists, `timeout`,
`init`, `periodic`, `active` the fields of a timer, `Wake` the thread timer by which the
timer thread sleeps. `rt_timer_start` has four steps (`StartUnlink`, `StartTick`,
`StartLink`, then `StartTest` and `StartResume` for a soft timer, as it looks at the
timer thread without a lock), `rt_timer_stop` three. The clock interrupt is `Tick`,
then `CheckExpire`, the actions of a callback (`CallbackStart`, `CallbackStop`,
`Control`) and `CallbackReturn` for each timer that is due, then `CheckEnd`. The timer
thread goes from `ReadNext` to `SuspendSelf` or over `ReadTick` to `Sleep`, then to
`CheckSoft` and through the loop `ScanExpire`, `SoftReturn`, `SoftAfter` to `ScanEnd`.
`Ahead` and `Near` are the comparisons of unsigned ticks modulo `TickMod`.
`left` is the number of ticks until a timer is due as its user sees it, and does
not wrap: the properties compare the two. `asked` are the timers that were started
and not stopped since. `outdated` marks the sleeps that the timer thread computes
from what has changed since it looked.

`Careful` says that threads keep off the timer that the timer thread is working on and
the one it will look at next. Without that, a stop is not safe (run `TimerStopped`).
`PartyAssumption` gives each timer one party that starts it, because two starts of
one timer are not protected from each other.

### Smp

Per processor and in common: `ready`, `table`, `group`; per processor `current`,
`irq_switch_flag` and `ipi`, the interrupts that other processors have sent it; per
thread `oncpu`, `cpus_nest`, `sched_nest`. `rt_hw_interrupt_disable` is `rt_cpus_lock`
there. `Select` is what `rt_schedule` (`Schedule`) and `rt_scheduler_do_irq_switch`
(`DoIrqSwitch`) have in common: detach the current thread from its processor, choose,
insert it again, remove the other. A switch goes on with `Save` and `Load` while the
lock stays taken: on one side a thread counts it, on the other the thread that is
switched to finds out from its own count whether it has it. `saved` are the threads
whose context is in memory. `Lock` and `Unlock` are sections in which a thread calls
`rt_schedule`, as the IPC functions do not, but drivers may. `Wide` turns on the table
in two levels for more than 32 priorities, with `Byte` levels to an entry.

### Scheduler

`ready`, `group`, `current`, `defunct`, `stat` and `remaining_tick` are the code's.
`waits` stands for the lists of all objects together. `Tick` is the whole clock
interrupt: the slice of the running thread, perhaps `rt_thread_yield`, and then the
due timers in any order (`AllTimedOut`), each with the `rt_schedule` that
`rt_thread_timeout` calls.
`rt_thread_delete` and `rt_thread_detach` have four actions (`DeleteRemove`,
`DeleteTimer`, `DeleteClose`, `DeleteBury`), a resume outside the IPC objects three.
`stale` remembers that a priority was changed and that `rt_schedule` has not looked
since. `Unclaimed` says that the callers of the functions with several sections
agree on who works on a thread; without such an agreement they are not safe, and
the code does not claim that they are.

## 3. Runs

The instances are the smallest in which every action of a module happens and in
which the properties can be broken: for each property there is at least one
mutation of the code, listed in `PROJECT.json`, with which the same run finds a
violation.

| Run | Instance | Shows |
|---|---|---|
| `Semaphore` | 3 threads, two of equal priority, up to 2 units, one timed, one that detaches and resets, one signal | `WaitListInv`, `UnitsConserved`, `UrgentWaitEnds`, refinement of `CountingSemaphore` |
| `MutexNested` | 3 priorities, 2 mutexes nested in one order, depth 2 | `HoldersAgree` (exclusion, counts, nobody waits for itself), `NoIdleMutex`, `OnlyOwnReleaseLowers`, refinement of `RecursiveLock`, and no deadlock |
| `MutexInherit` | 3 priorities, 1 mutex, timeouts, a detach, two signals to two threads | `NoInversion`, `PriorityRestored`, `WaitListsInOrder`, `UrgentTakeEnds` |
| `Mailbox` | 3 threads, ring of 2, 2 mails, timeouts, one that resets and detaches, one signal | `BoxConsistent` (offsets and count, lists, timers), `NoStrandedWaiter`, `MailsGetRead`, refinement of `BoundedFifo` |
| `MessageQueue` | 3 threads, 2 slots, 2 messages, urgent sends, timeouts, one that resets and detaches, one signal | `StoreConsistent` (slots, chains and count, list, timers), `NoStrandedReceiver`, `MessagesGetRead`, refinement of `MessageChannel` |
| `Event` | 3 threads that ask with every option for one bit or two, timeouts, resets, a detach, one signal | `NoSatisfiedWaiter`, `AnswerIsTrue`, `SweepInOrder` |
| `MemPool` | 3 threads and an interrupt handler, 2 blocks, timeouts, a detach, one signal | `PoolAccounted` (chain, both counts, list, and when the kernel hangs), `NoStrandedWaiter`, `BlocksGetUsed`, refinement of `BlockPool` |
| `Timer` | a hard timer, two soft ones (two of the three at a time), started, stopped and changed by a thread and by callbacks, ticks that wrap at 9 | `ListsInOrder`, `RunsAsAsked`, `WokenInTime`, `ExpiresOnItsTick` |
| `Scheduler` | 4 threads on 3 priorities, nesting of critical sections to 2 | `ListsMatchStat`, `MostUrgentRuns`, `ClosedIsGone`, `CriticalKeepsRunning`, `TurnComes`, and no deadlock |
| `Smp` | 2 processors with their idle threads, an urgent thread that an interrupt resumes, two equal ones, one of them bound | `ContextsSafe`, `ReadyOrRunning`, `LocksExclude`, `MostUrgentRuns`, and no deadlock |

Several properties are conjunctions of named parts, which the modules state and
comment one by one; each includes the type invariant where it is the first of its
module.

Two runs are expected to end in a violation, because the code does not do what a
comment of it says:

| Run | Property | What the counterexample shows |
|---|---|---|
| `TimerStopped` | `SilentAfterStop` | `rt_soft_timer_check` keeps the next timer while it runs a callback; a thread stops that timer, and its callback is called nevertheless |
| `SmpWide` | `MostUrgentRuns` | with more than 32 priorities `rt_schedule_remove_thread` looks at the common ready table for a bound thread; its processor forgets the other threads of the group |

### Bounds

* Three threads: one that waits, one that ends the wait and one that overtakes or
  stands behind it in the list. Two of equal priority make FIFO order within a
  priority visible. The scheduler has four: the two that the system starts
  with, an equal and a more urgent one.
* `MaxTotal = 2` units, two mails, two slots: one beside another is the least with
  an order, a wrap of the ring, and both an empty and a full state.
* `MaxKills = 1`: what a signal can break it breaks at once; the properties count
  signals, so the theorems hold for any number. `MutexInherit` sends two, so that a
  thread may be signalled again in its retry, and two threads may retry.
* `MaxDepth = 2` and `MaxNest = 2`: once nested.
* `MaxOver = 3`: the drift of the count of a memory pool passes the number of blocks, and a
  thread may wait, time out and wait again before a free meets the drift. The
  bound is on the waits with a timeout that may be under way (`AllocSuspend`).
* `TickMod = 9`, `MaxLag = 1`, times of 1 and 2 ticks: half the range is more than the
  longest time and the lag together, as the code demands, and the counter wraps
  many times; twice the longest time and the lag are no more than the other half, as
  the theorems about times assume (`Bounded`). `MaxLag` stops the clock while a thread is more than a tick late. The
  comparisons survive a lag as long as it stays below half the range; the bound is
  the smallest with which a timer can be late.
* `Unmade`: in each run of the system one of the three timers is never initialised.
  Every pair meets, and the state space stays at 1.9 million.
* `Byte = 2`: two levels of the ready table are the least that tell an entry from a
  priority.
* `ValueMod`, `HoldMod`: the width of the counters, smaller than 2^16 and 2^8 so
  that a wrap would be seen. `MaxTotal + MaxKills < ValueMod` is an assumption: the
  code does not test for the wrap of a semaphore's value.
* `Timed`, `Resetters`, `Detachers`, `Signalled`, `Sleepers`, `Waiters`, `Parkers`,
  `Leavers`, `Victims`, `Tuned`, `Nudgers`, `Nudged` say which threads do what. One
  thread per role is enough for each pair of roles to meet, and it keeps most
  state spaces below 700,000 states. In `Scheduler.cfg` the threads that are
  deleted or resumed by others have no timer; section 5 says what a timer does to
  both. `Starts`, `Stops`, `Tunes`, `Turns`, `Detaches` say the same for the timers.

`CHECK_DEADLOCK FALSE` stands where the system really may stop: all threads in an
endless take of an object that was detached under them, or all of them receiving
from an empty mailbox or queue or allocating from a pool that nobody frees; in
`MutexInherit` a mutex that was detached. In `MemPool` it stands also for the kernel that
hangs. In `Timer` it stands for the lost wake-up of
section 5: a timer thread that sleeps for good lets its timers grow late, and
`MaxLag` stops the clock. `MutexNested`, `Scheduler` and `Smp` check deadlock.

### Fairness

* IPC modules: `WF(CallStep(t))` or `WF(Retry(t))`, `WF(Step(t))`: a ready thread
  inside a call is run in the end. `WF(Timeout(t))`: the clock interrupt does not
  stop. For the takes that must end, also that a thread which has a unit gives it
  back (`WF`), and that the owner of a mutex performs its last release if it can
  again and again (`SF`: it may take the mutex once more in between, but not for
  ever). That is a demand on the users of the object, not on the kernel: without
  it a user could simply keep the object.
* `MemPool`: as the IPC modules, without a demand on the users: that a block and
  a waiter do not stay together needs no thread to free anything. Fairness ends when
  the kernel hangs (`~hung`), and so a block beside a waiter would stay there then: but it
  hangs only with nobody on the list.
* Scheduler: `WF(Tick)`, `WF` of the steps inside a call, and `SF` that a critical
  section ends at each level of nesting. No fairness for threads outside calls:
  a thread may compute for ever, and the slices must deal with it.

`Event`, `Timer` and `Smp` have safety and action properties only. What must
eventually happen to a timer is that its callback runs, and `ExpiresOnItsTick` with
`WokenInTime` say it in ticks. On several processors the code promises no turn:
at equal priority the list of the processor always goes before the common one.

The liveness properties name the cases in which the code does not promise an end:
a detached object, a signal that took a unit, all units taken away by a reset.

## 4. Proofs

The lemmas of `IpcListProofs` about waiting lists are shared by all of them.

### Semaphore

`SemaphoreProofs`, for any finite set of threads, either flag,
any priorities, any bounds and number of signals:

* `WaitListCorrect`: `Spec => []WaitListInv`, which is
  `TypeOK /\ NoIdleUnit /\ TimerGuardsWait /\ ServedInOrder`
* `UnitsAreConserved`: `Spec => []UnitsConserved`
* `SemaphoreKeepsPromise`: `Spec => ImplementsPromise`

The assumptions are those of module `Semaphore`: the set of threads is finite,
priorities are natural numbers, and the value does not reach its width.

The argument. `WaitInv` is `WaitListInv` and `Waits`: a thread on
the list is inside `rt_sem_take`, and its error is RT_EOK until somebody takes it
off. Without the latter none of them is inductive: that a linked thread is not
yet granted a unit is what makes a release grant exactly one. (`Waits` also
says that a thread which holds a unit is not inside a take.) The lemmas of
`IpcListProofs` say what sorted insertion and the removal of one position do to
the members of a list, to each occurring once, and to its order; every action of
the semaphore touches the list only through these two. `UnitsInv` adds
`UnitsConserved`. Its proof goes through the abstract semaphore: `StepKeepsPromise`
shows that each step maps to a step of `CountingSemaphore` or to a stutter, with
one case per action that says which threads enter and leave `Granted`, and
`PromiseConserves` that each abstract step keeps the balance, which is
arithmetic. The refinement and the conservation of units follow from the same
lemma.

### Memory pool

`PoolSmpProofs`, for any finite set of threads and handlers, any finite set of
blocks in any order on the chain, and any choice of who waits with a timeout, is
signalled or detaches:

* `PoolIsAccounted`: `Spec => []PoolAccounted`, which is
  `PoolTypeOK /\ ChainComplete /\ CountDriftsByTimeouts /\ HangsWhenEmpty`
* `MemPoolKeepsPromise`: `Spec => ImplementsPool`
* `NobodyStranded`: `Spec => []NoStrandedWaiter`

The assumptions are that the blocks are linked once each at the start and that
`None` is no user. `PoolInv` adds `WaitersInCall` to `PoolAccounted`: a thread on the
list is inside `rt_mp_alloc`. Without it the loop could link its caller a second
time. The invariant falls into four parts that the steps touch separately,
`ListInv` (the list, its count, the timers and errors), `ChainInv` (the chain, the
free count and the owners), `CallInv` (where the threads are) and `HangInv`; there is one lemma
for each way in which the list or the chain changes, and one for each operation
that says which of these ways it takes. The refinement needs only `ChainInv`: the
head of the chain has no owner. `HangsWhenEmpty` is arithmetic about the count: a
free that finds nobody has a count above zero, so the drift is above zero, and the drift
never shrinks. A pool without a timeout, a signal and a detach never hangs.

`NobodyStranded` counts `Looking`, the resumed threads *without an error*, since a
thread that a timeout, a detach or a signal woke returns RT_NULL and tests nothing. The proof goes through what
each step does to that set: it grows by one where a block is freed beside a waiter,
and shrinks by one only with a block that is taken, or with a signal.

### Mutex

`MutexProofs`, for any finite set of threads, any mutexes and any nesting of them:

* `TypesHold`: `Spec => [](~Torn => TypeOK)`, with any signals, and that a mutex whose
  value is 0 has an owner: until a retry or a detach is disturbed, the owner that line 719
  reads is never RT_NULL
* `TimersGuardWaits`: `Spec => [](~Torn => TimerGuardsWait)`, with any signals
* `HoldersAgreeUntilSignal`: `Spec => [](kills = 0 => HoldersAgree /\ NoIdleMutex)`;
  `HoldersAlwaysAgree` is the case `MaxKills = 0`
* `MutexImplementsLock`: with `MaxKills = 0`, `Spec => ImplementsLock`
* `OnlyReleaseLowers`: with `MaxKills = 0`, `Spec => OnlyOwnReleaseLowers`
* `OwnersInherit` and `PrioritiesAreRestored`: with the flag PRIO and no nesting,
  `Spec => []NoInversion` and `Spec => []PriorityRestored`
* `WaitListsStayInOrder`: without nesting, `Spec => []WaitListsInOrder`, which is
  `~Torn => TimerGuardsWait /\ MostUrgentFirst`

After a signal two threads can get the mutex (section 5), so most theorems speak of the
time before the first one; `kills` in the premise makes them say something also about
runs in which one is sent later. `HoldInv` is the invariant: the owner is who was told so
(`OwnerIsTold`), a linked thread is in the call for that mutex, does not own it and has
no error (`Undisturbed`), and the hold count is the depth of the owner. That a thread
which was taken off the list by a hand-over *is* already the owner is the part that no
property states. `InheritInv` adds what the saved priority is (`OwnPrioritySaved`), and
`OneEach`: without nesting a thread that waits owns nothing, so a boost never moves a
thread that is linked. The premises PRIO and no nesting are those under which section 5
shows the properties to fail without them.

What survives a signal is proved apart, and holds while no retry is disturbed (`~Torn`):
`WaitInv` says of a linked thread only that it is in the call for that mutex
(`LinkedWait`), which is enough for its timer, also when it goes back on the list by
`AgainBlock`. After a disturbed retry not even that is claimed: a hand-over between the
suspension and line 743 leaves the timer of a ready thread running. The order of the list does not
survive a signal at all: one that was just made the owner, and is then
signalled, waits for its own mutex and is boosted where it stands (section 5). So
`MostUrgentFirst` speaks of the time before a signal.

### Mailbox

`MailboxProofs`, for any finite set of threads, any mails, size of the ring, flag, number
of signals, and choice of who waits with a timeout, resets and detaches:

* `BoxAlwaysConsistent`: `Spec => []BoxConsistent`
* `NobodyStranded`: `Spec => []NoStrandedWaiter`
* `MailboxImplementsFifo`: `Spec => ImplementsFifo`

`WaitInv` says what being on one of the lists means: a thread in the loop of that
call, without an error. So nobody is on both. `NextRingConsistent` is arithmetic about
two offsets that wrap. `MailsLookedFor` and `SlotsLookedFor` count the resumed threads
that will test the ring again, as in the pool. For the refinement, `mails` is the ring
read from `out_offset`, and the lemmas say what one more mail at `in_offset`, one less at
`out_offset` and a reset are in that sequence.

### Message queue

`MessageQueueProofs`, for any finite set of threads, any messages and number of slots:

* `StoreAlwaysConsistent`: `Spec => []StoreConsistent`
* `NoReceiverStranded`: `Spec => []NoStrandedReceiver`
* `QueueImplementsChannel`: `Spec => ImplementsChannel`

`StoreConsistent` follows the pointers by the recursive function `Chain`, which no
prover unfolds by itself. `StoreInv` therefore says that there *are* two sequences of
slots, `f` the free ones and `q` the queue, that the pointers run through, that share
nothing with each other or with the slots in the hands of threads, and that together with these
make up all. Each section is a change of these sequences (`ChainPrepend`, `ChainTail`,
`ChainAppend`, and `ChainMove` for a reset). That `Chain` returns such a sequence is
proved once (`ChainReads`), from the existence of the function, by the least place at
which it could differ. `QueueImplementsChannel` reads the messages along `q`; the copies with the interrupts
enabled are stutters or the steps of `MessageChannel` that write and read, and that no
slot in use is written is again that nobody else has it.

### Event

`EventTimerProofs`, for any finite set of threads, any bits, requests and list policy, and
any choice of who waits with a timeout, resets, detaches and is signalled:

* `NobodySatisfiedWaits`: `Spec => []NoSatisfiedWaiter`
* `AnswerIsAlwaysTrue`: `Spec => []AnswerIsTrue`
* `SendsServeInOrder`: `Spec => SweepInOrder`

`EventInv` joins the first two with `Unserved`: a thread on the list was not served and has
no error. The difficulty is the loop of `rt_event_send`, a recursive function of the
number of rounds. `Walked` says what the list, the bits and the answers are after `k`
rounds, `InTurn` that each thread so far met the bits that those in front of it had left,
and `Kept` that later rounds leave alone what earlier ones did. Each is proved for a
round from the one before it, and for all of them by the least round at which it
could fail. What remains is an argument about bits: they only become fewer during the
walk, so a thread that was passed over is not satisfied at the end either, and one walk is
enough.

### Timers

`EventTimerProofs`, for any timers of both kinds, any times, width of the tick, threads and
roles of them:

* `TimersRunAsAsked`: `Tidy /\ TimerSpec => []RunsAsAsked`
* `StoppedTimersAreSilent`: `Tidy /\ TimerSpec => SilentAfterStop`
* `TimerListsInOrder`: if `Bounded(K)` for some `K`, `Tidy /\ TimerSpec => []ListsInOrder`
* `TimersExpireOnTheirTick`: the same for `ExpiresOnItsTick`
* `SleeperIsWokenInTime`: the same for `WokenInTime`

`Tidy` is a premise about the callers: they keep off the timer whose callback runs and the
one after it (`Careful`), who stops a timer that somebody starts is the one who starts it,
and no interrupt makes a timer one that expires once or a periodic one. The run `TimerStopped`
shows what happens without the first, section 5 without the second; without the third the callback
of a hard timer could restart its own timer, make it one that expires once and leave it linked
but marked inactive. `Timer.cfg` satisfies all three. A module assumption demands
that only timers of users are periodic or left uninitialised; the wake timer is made by the
kernel.

`ControlInv` is about who is where. Each part protects the window between two sections of
a function: between the first section of a start and the second nobody else touches the
timer (`StartInv`), between the unlinking of a stop and its flag the timer is on no list and not
asked for (`StopInv`), the next timer that the timer thread holds while a callback runs is
still linked (`PlaceInv`). `AskedInv` is the property with the functions under way taken
into account: an asked timer is linked, or in the hands of a callback or a start. No part
is inductive without the others.

`TimeInv(K)` is about ticks. All comparisons in the code are between counters that wrap; the
invariant gives each of them a meaning in `left`, which does not. `TickInv`: `timeout` is the
tick plus what is left, modulo the width. `HardInv` and `SoftInv`: the lists are sorted by what is
left, and no timer is later than a bound: `MaxLag` for hard timers, but `MaxLag + K`
for soft ones, since a timer linked while the timer thread is about to sleep is not seen
until it wakes, at most `K` ticks later. `ReadInv` is what the timer thread has read and
not used yet: when nothing linked since is earlier than `nxt`, the sleep is right, otherwise
`outdated` is set. `WakeInv` is `WokenInTime` for each soft timer. With these bounds any two linked timers
are at most `2 K + MaxLag` apart, and `Bounded(K)` says that this is in the half of the counter
that the comparison takes for the past. That is half of what the code allows, and not
because of the proof: with a longer time TLC finds the list out of order (section 5). The
run `TimerStopped` checks the property of `StoppedTimersAreSilent` for callers that are not
careful.

### Scheduler on one processor

`SchedulerProofs`, for any finite set of threads, any priorities, time slices and depth
of nesting, and any choice of who sleeps, waits, parks, leaves, deletes, resumes and changes
priorities that satisfies `NoRace`:

* `SchedulerInvariant`: `Spec => []SchedInv`
* `ListsAlwaysMatchStat`: `Spec => []ListsMatchStat`
* `MostUrgentAlwaysRuns`: `Spec => []MostUrgentRuns`
* `ClosedStaysGone`: `Spec => []ClosedIsGone`
* `CriticalAlwaysKeepsRunning`: `Spec => CriticalKeepsRunning`

`NoRace` is a premise about the callers: a thread that others delete does not sleep with
a timer, and one that others resume directly waits neither with a timer nor on an object.
The two functions test the state of the thread in one section and act on it in the next;
section 5 says what happens without the premise, and `Scheduler.cfg` satisfies it.

`SchedInv` has five parts. `ListsInv`: the lists file exactly the threads that are ready,
do not run and are not between the sections of a deletion (`Removed`). `CountsInv`: the
counts, and that only a thread on its way to `rt_schedule` runs without being ready. `WakeInv`:
who may be woken at any moment is suspended, and what is freed is closed, unlinked and not
running. `ClaimsInv`: what each location of a call with several sections relies on for the
thread it works on, and that no two calls work on one thread. `MostUrgentRuns` itself.
The functions of the code are operators on a record of the lists, so each has a lemma
`Good(s) => Good(f(s))` with the fields it changes, used by every action that calls it.
`AllTimedOut`, which lets the due timers fire in some order, is a recursive function;
that it is `Good` and settled at each place is proved by a least counterexample. The steps
of others leave a claim alone (`Untouched`), so each action proves its own claim only.

### Scheduler on several processors

`PoolSmpProofs`, for any finite sets of processors and threads, any priorities and bindings:

* `ContextsAlwaysSafe`, `ReadyAlwaysLinked`, `LocksAlwaysExclude`,
  `MostUrgentAlwaysRuns`: with `~Wide`, `Spec => []P` for `P` each of `ContextsSafe`,
  `ReadyOrRunning`, `LocksExclude`, `MostUrgentRuns`

`~Wide` is the build with at most 32 priorities, which is what the boards of the
repository are configured for; with more the run `SmpWide` refutes the last one. The
invariant `SmpInv` joins the types and four parts. `ListsInv`: the ready lists and the bits
file exactly the threads that wait for a processor, each in the queue of its binding.
`PlaceInv`: who is where, between the three sections of a switch also: `current`, `to`,
`oncpu` and `saved` of a processor and its threads determine each other. `LockInv`: the lock
is held by the one processor that switches or whose thread has a count, and a
thread whose context is saved finds from its own count that it has it. `UrgentInv`: the
thread of a processor suits it, or an interrupt has been sent to it, or its thread is on
its way to `rt_schedule`. The last is what makes preemption across processors an
invariant: the interrupt that `rt_schedule_insert_thread` sends is what excuses the receiver.

### What is only model-checked

* The liveness properties (`UrgentWaitEnds`, `UrgentTakeEnds`, `MailsGetRead`,
  `MessagesGetRead`, `BlocksGetUsed`, `TurnComes`): the prover does not deal with
  fairness.
* What the two runs that end in a violation show.

Every other property of a run is stated by a theorem, some of them under premises about
the callers or the times, which the run's instance satisfies and the text above names.

The induction theorems of the library take an operator as a parameter, which the
installed provers cannot instantiate. A least counterexample replaces them where the
recursion is over numbers (`Chain`, `AllTimedOut`, `Sweep`).

## 5. Not modelled, and what was learnt on the way

The parts without a module are listed with their reasons in `PROJECT.json`.
Within the modelled parts:

* what a retry of `rt_mutex_take` after a signal does once somebody steps in, and what
  `rt_ipc_list_resume_all` does with the head of an empty list;
* more than 32 priorities in `Scheduler` (`Smp` has them); cleanup functions of
  static threads; `rt_thread_delete` of the caller itself or of a closed thread;
* what `rt_mb_delete`, `rt_mq_delete` and `rt_mp_delete` do to threads that still are on
  their way around a loop: these read memory that is freed. The models keep it, as
  a detach does;
* in `Smp` the exit of a thread, the change of a binding while a thread runs, and the two calls that spin
  for each other's lock when `rt_enter_critical` is called inside a section;
* in `Timer` several processors, and the rows of the skip list above the last one:
  they only make the search shorter.

Behaviours that the models show when their instances are widened, and that the
passing runs therefore leave out by name:

* `rt_thread_delete` of a thread that sleeps: the clock interrupt may put it back
  on a ready list between `rt_schedule_remove_thread` and `rt_timer_detach`
  (`Victims` and `Sleepers` overlap: `ClosedIsGone` fails).
* `rt_thread_resume` tests the state of the thread outside its section. When the
  clock interrupt times the thread out in between, the bit of its priority stays
  set over an empty list (`Nudged` and `Sleepers` overlap: `ListsMatchStat` fails). It
  is the same when another handler resumes it from an object (`Nudged` and `Waiters`).
  `rt_timer_start` resumes the timer thread in this way.
* `rt_thread_control` changes a priority without `rt_schedule`: a ready thread raised
  above the running one waits for the next call that happens to schedule
  (`MostUrgentRuns` holds because it leaves out the time in which `stale` is set).
* Two threads that sleep in turn keep a third one of their priority from the
  processor: one clock interrupt may end a slice and wake a thread, and the second
  `rt_schedule` moves the third one behind again before it has run (`TurnComes` holds
  because it leaves out threads with a `Sleeper` beside them).
* The release of an inner mutex takes away a priority that was inherited through the
  outer one (`Nesting` in `MutexInherit`: `NoInversion` fails).
* A signal that wakes a waiter of a mutex, and whose handler does not run before
  `rt_mutex_take` looks at the error, lets it return RT_EOK without the mutex: two threads
  have it (`MaxKills = 1`, `Signalled = {mid}` in `MutexNested`: `HoldersAgree` fails).
* After a signal `rt_mutex_take` tries again with the interrupts enabled. The models follow
  that retry while nobody steps in, and stop at "wild" when somebody does
  (`AgainDisturbed`).
* A FIFO mutex handed to a less urgent thread while a more urgent one waits
  behind it: the new owner does not inherit (`Flag = FIFO`: `NoInversion` fails).
* A thread that is boosted while it waits for another mutex keeps its old place
  in that list (nesting: `WaitListsInOrder` fails). A signal has the same effect
  without nesting: a thread that was just made the owner is signalled, goes back to
  `__again`, waits for the mutex it owns and is boosted while it is linked
  (`Signalled = {lo}` in `MutexInherit`: `Sorted` fails after a signal).
* The loop of `rt_ipc_list_resume_all` finds its list empty after its test (the
  location "wild" of every module with a detach can be reached).
* A signal to a thread that was just handed a unit, a mail or a message: the call
  returns -RT_EINTR and the unit is lost, or the mail stays beside a waiter until
  the next send. The properties count these cases with `kills`.
* A take that begins before a detach and suspends after it stays on the list, and
  so does a sender or receiver that goes around its loop after it.
* A soft timer started between `rt_timer_list_next_timeout` and the suspension of the
  timer thread finds that thread ready and does not resume it; the thread then
  suspends itself without a timer and sleeps until another one is started (the
  exemption of `outdated` in `WokenInTime`).
* A timer stopped by one party while another one starts it is linked and marked
  inactive: it fires, but cannot be stopped (two parties in `Starts` and `Stops`:
  `RunsAsAsked` fails). The same happens to a timer that expires once and starts
  itself again in its own callback.
* `rt_timer_start` asserts that a time is below `RT_TICK_MAX / 2`, for the comparison of
  ticks. But it compares two timers: when one is overdue and the other restarted, they are
  apart by the time of the one and the lateness of the other, and the timer thread
  can oversleep by the longest time (the timers that `outdated` exempts). With
  `TickMod = 11`, `MaxLag = 0`, three soft timers of 1, 1 and 4 ticks (4 is below half of 10),
  and the long one restarted by the callback of a short one while the other short one is
  overdue, `ListsInOrder` fails: the restarted timer is linked in front of the overdue one.
* A timed out allocation leaves the count of waiting threads of the pool too high for
  good, and the next `rt_mp_free` with nobody on the list takes the head of the list for a
  thread and hangs the kernel in an assertion (`hung` in `MemPool` is reachable, after one
  timeout and one free). `PoolAccounted` says that nothing else in the pool but the loop of
  a detach leads there.

## 6. Plan

In this order, with the properties each is for:

1. A module that composes `Mutex` with `Scheduler`, for the release that lowers its
   owner and does not schedule.
2. `Signal` with its pending set and nodes.
3. The driver objects built on the kernel: completion, data queue, work queue.
