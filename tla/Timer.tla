-------------------------------- MODULE Timer --------------------------------
(***************************************************************************)
(* The timers of the kernel (src/src/timer.c): hard timers, whose          *)
(* callbacks run in the clock interrupt, and soft timers, whose callbacks  *)
(* run in the timer thread, which itself sleeps by a hard timer.           *)
(*                                                                         *)
(* A section with the interrupts disabled is one action.  Threads take     *)
(* their steps in any order, except that only interrupts run while the     *)
(* timer thread has the scheduler locked.  A clock interrupt is not        *)
(* interrupted; it has one action per callback.  The skip list is the      *)
(* sequence in its last row, in which every timer is.                      *)
(***************************************************************************)
EXTENDS IpcList, FiniteSets

CONSTANTS TimerThread,  \* timer_thread
          Clock,        \* the clock interrupt
          Hard, Soft,   \* timers by RT_TIMER_FLAG_SOFT_TIMER
          Wake,         \* the thread_timer of the timer thread, a hard timer
          None,         \* no timer, or the head of a list
          TickMod,      \* 2^32 in the code: rt_tick_t is an rt_uint32_t
          InitTick,     \* InitTick[t], the time given to rt_timer_init
          Periodic,     \* timers made with RT_TIMER_FLAG_PERIODIC
          Starts,       \* <<p, t>>: party p may start timer t
          Stops,        \* <<p, t>>: party p may stop it
          Tunes, Turns, \* <<p, t>>: party p may change its time, its kind
          Detaches,     \* <<p, t>>: party p may detach or delete it
          Unmade,       \* sets of timers, one of which is never initialised
          NewTicks,     \* times given to rt_timer_control
          Careful,      \* threads keep off what the timer thread works on
          MaxLag        \* bound on the ticks a timer or thread is kept late

User == Hard \union Soft
Timers == User \union {Wake}
Caller == Thread \union {TimerThread}
TickMax == TickMod - 1

ASSUME TimerAssumption ==
    /\ Hard \intersect Soft = {} /\ Wake \notin User /\ None \notin Timers
    /\ TimerThread \notin Thread /\ Clock \notin Caller
    /\ Periodic \subseteq User /\ Unmade \subseteq SUBSET User
ASSUME TickAssumption ==
    /\ TickMod \in Nat \ {0} /\ MaxLag \in Nat /\ NewTicks \subseteq Nat
    /\ InitTick \in [User -> Nat]
    /\ \A k \in NewTicks \union {InitTick[t] : t \in User} :
          k + MaxLag < TickMax \div 2

(* rt_timer_start is not safe against itself: no two parties start one     *)
(* timer, and no interrupt touches the soft list, which the timer thread   *)
(* changes with the interrupts enabled.                                    *)
ASSUME PartyAssumption ==
    /\ Starts \union Stops \union Tunes \union Turns \union Detaches
         \subseteq (Caller \X User) \union ({Clock} \X Hard)
    /\ \A s, r \in Starts : s[2] = r[2] => s[1] = r[1]

VARIABLES tick,      \* rt_tick
          timeout,   \* timer->timeout_tick
          init,      \* timer->init_tick
          periodic,  \* timers with RT_TIMER_FLAG_PERIODIC
          active,    \* timers with RT_TIMER_FLAG_ACTIVATED
          hard,      \* rt_timer_list
          soft,      \* rt_soft_timer_list
          dead,      \* timers detached, or never initialised
          irq,       \* where the clock interrupt is
          cb,        \* the hard timer whose callback it runs
          op, on,    \* where a caller is in a timer function, and on which
          at,        \* where the timer thread is
          asleep,    \* the timer thread is suspended
          cur, nxt,  \* its current_tick, and next_timeout
          t, n,      \* its t and n in rt_soft_timer_check
          left,      \* ticks until a started timer is due
          asked,     \* timers their users want to run
          outdated   \* what the timer thread read before a sleep has changed

fields == <<timeout, init, periodic, active, dead>>
interrupt == <<tick, irq, cb>>
calls == <<op, on>>
thread == <<at, asleep, cur, nxt, t, n>>
timerVars == <<tick, timeout, init, periodic, active, hard, soft, dead, irq, cb,
          op, on, at, asleep, cur, nxt, t, n, left, asked, outdated>>

(* "tick", "link", "test", "resume": in rt_timer_start after its first     *)
(* section, after rt_tick_get, after its second section, in                *)
(* rt_thread_resume.  "unlink", "flag": in rt_timer_stop.                  *)
Operations == {"none", "tick", "link", "test", "resume", "unlink", "flag"}

(* "next", "delay", "sleep", "suspend": in rt_thread_timer_entry.          *)
(* "check", "scan", "callback", "after": in rt_soft_timer_check, with the  *)
(* scheduler locked at "scan".                                             *)
Locations == {"next", "suspend", "delay", "sleep",
              "check", "scan", "callback", "after"}
Locked == at = "scan"

TimerTypeOK ==
    /\ tick \in 0..TickMax /\ cur \in 0..TickMax /\ nxt \in 0..TickMax
    /\ timeout \in [Timers -> 0..TickMax]
    /\ init \in [User -> Nat]
    /\ periodic \subseteq User /\ active \subseteq User /\ dead \subseteq User
    /\ hard \in Seq(Hard \union {Wake}) /\ soft \in Seq(Soft)
    /\ irq \in {"off", "check", "callback"} /\ cb \in Hard \union {None}
    /\ op \in [Caller -> Operations] /\ on \in [Caller -> User \union {None}]
    /\ at \in Locations /\ asleep \in BOOLEAN
    /\ t \in Soft \union {None} /\ n \in Soft \union {None}
    /\ left \in [Timers -> Int]
    /\ asked \subseteq User
    /\ outdated \in BOOLEAN

TimerInit ==
    /\ tick = 0 /\ cur = 0 /\ nxt = 0
    /\ timeout = [u \in Timers |-> 0]
    /\ init = InitTick
    /\ periodic = Periodic /\ active = {} /\ dead \in Unmade
    /\ hard = <<>> /\ soft = <<>>
    /\ irq = "off" /\ cb = None
    /\ op = [c \in Caller |-> "none"] /\ on = [c \in Caller |-> None]
    /\ at = "next" /\ asleep = FALSE
    /\ t = None /\ n = None
    /\ left = [u \in Timers |-> 0]
    /\ asked = {} /\ outdated = FALSE

------------------------------------------------------------------------------
(* Ticks are compared by their unsigned difference. *)
Ahead(a, b) == (a - b) % TickMod
Near(d) == d < TickMax \div 2

(* Mutant: compared by value, as if the tick never wrapped. *)
DueByValue(now, u) == now >= timeout[u]
Due(now, u) == Near(Ahead(now, timeout[u]))

(* Places of the timers of a list that expire later than tick now. *)
ExpiresLater(list, now) ==
    {i \in DOMAIN list :
       Ahead(timeout[list[i]], now) # 0 /\ Near(Ahead(timeout[list[i]], now))}

(* Mutant: insertion at the end. *)
InsertLast(list, u, now) == Append(list, u)

(* Insertion before the first of them, behind those of the same tick. *)
Insert(list, u, now) ==
    InsertAt(list,
             IF ExpiresLater(list, now) = {} THEN Len(list) + 1
             ELSE CHOOSE i \in ExpiresLater(list, now) :
                     \A j \in ExpiresLater(list, now) : i <= j,
             u)

(* node->next: a removed node points to itself, None stands for the head.  *)
Next1(u) ==
    IF ~Linked(soft, u) THEN u
    ELSE LET i == CHOOSE i \in DOMAIN soft : soft[i] = u
         IN IF i = Len(soft) THEN None ELSE soft[i + 1]

(* The second section of rt_timer_start, for a timeout tick of k. *)
Link(u, k) ==
    /\ hard' = IF u \in Soft THEN hard ELSE Insert(Unlink(hard, u), u, k)
    /\ soft' = IF u \in Soft THEN Insert(Unlink(soft, u), u, k) ELSE soft
    /\ active' = active \union {u}

UnlinkTimer(u) == hard' = Unlink(hard, u) /\ soft' = Unlink(soft, u)

------------------------------------------------------------------------------
(* A thread runs outside interrupts, and unless the scheduler is locked.   *)
(* The timer thread calls timer functions in the callbacks it runs.        *)
Runs(c) ==
    /\ irq = "off"
    /\ IF c = TimerThread THEN at = "callback" /\ ~asleep ELSE ~Locked

(* Careful callers keep off the timer whose callback runs and, with soft   *)
(* timers, off the one the timer thread will look at next; only to stop    *)
(* itself is a callback free.                                              *)
KeepsOff(u) == Careful => u \notin {t, n, cb}
OwnCallback(c, u) == c = TimerThread /\ u = t

CallerGoes(c, where) == op' = [op EXCEPT ![c] = where]

(* rt_timer_start, first section. *)
StartUnlink(c, u) ==
    /\ Runs(c) /\ op[c] = "none"
    /\ <<c, u>> \in Starts /\ u \notin dead /\ KeepsOff(u)
    /\ UnlinkTimer(u)
    /\ active' = active \ {u}
    /\ CallerGoes(c, "tick") /\ on' = [on EXCEPT ![c] = u]
    /\ UNCHANGED <<timeout, init, periodic, dead, interrupt, thread, left,
                   asked, outdated>>

(* timeout_tick = rt_tick_get() + init_tick. *)
StartTick(c) ==
    /\ Runs(c) /\ op[c] = "tick"
    /\ timeout' = [timeout EXCEPT ![on[c]] = (tick + init[on[c]]) % TickMod]
    /\ left' = [left EXCEPT ![on[c]] = init[on[c]]]
    /\ CallerGoes(c, "link")
    /\ UNCHANGED <<init, periodic, active, dead, hard, soft, interrupt, on,
                   thread, asked, outdated>>

(* The timer thread has read next_timeout and is not asleep yet. *)
HasRead == ~asleep /\ at \in {"suspend", "delay", "sleep"}

(* The second section. *)
StartLink(c) ==
    /\ Runs(c) /\ op[c] = "link"
    /\ Link(on[c], timeout[on[c]])
    /\ asked' = asked \union {on[c]}
    /\ outdated' = (outdated \/ (on[c] \in Soft /\ HasRead))
    /\ CallerGoes(c, IF on[c] \in Soft THEN "test" ELSE "none")
    /\ on' = IF on[c] \in Soft THEN on ELSE [on EXCEPT ![c] = None]
    /\ UNCHANGED <<timeout, init, periodic, dead, interrupt, thread, left>>

(* Mutant: the timer thread is left asleep. *)
StartTestNever(c) ==
    /\ Runs(c) /\ op[c] = "test"
    /\ CallerGoes(c, "none")
    /\ on' = [on EXCEPT ![c] = None]
    /\ UNCHANGED <<fields, hard, soft, interrupt, thread, left, asked,
                   outdated>>

(* The timer thread is looked at without a lock, also in rt_thread_resume. *)
StartTest(c) ==
    /\ Runs(c) /\ op[c] = "test"
    /\ CallerGoes(c, IF asleep THEN "resume" ELSE "none")
    /\ on' = [on EXCEPT ![c] = None]
    /\ UNCHANGED <<fields, hard, soft, interrupt, thread, left, asked,
                   outdated>>

StartResume(c) ==
    /\ Runs(c) /\ op[c] = "resume"
    /\ asleep' = FALSE
    /\ hard' = Unlink(hard, Wake)
    /\ CallerGoes(c, "none")
    /\ UNCHANGED <<fields, soft, interrupt, on, at, cur, nxt, t, n, left,
                   asked, outdated>>

(* rt_timer_stop: the test of the flag (an inactive timer is left alone),  *)
(* the section, and the flag after it.                                     *)
StopTest(c, u) ==
    /\ Runs(c) /\ op[c] = "none"
    /\ (<<c, u>> \in Stops /\ KeepsOff(u)) \/ OwnCallback(c, u)
    /\ u \in active \ dead
    /\ CallerGoes(c, "unlink") /\ on' = [on EXCEPT ![c] = u]
    /\ UNCHANGED <<fields, hard, soft, interrupt, thread, left, asked,
                   outdated>>

StopUnlink(c) ==
    /\ Runs(c) /\ op[c] = "unlink"
    /\ KeepsOff(on[c]) \/ OwnCallback(c, on[c])
    /\ UnlinkTimer(on[c])
    /\ asked' = asked \ {on[c]}
    /\ CallerGoes(c, "flag")
    /\ UNCHANGED <<fields, interrupt, on, thread, left, outdated>>

StopFlag(c) ==
    /\ Runs(c) /\ op[c] = "flag"
    /\ active' = active \ {on[c]}
    /\ CallerGoes(c, "none") /\ on' = [on EXCEPT ![c] = None]
    /\ UNCHANGED <<timeout, init, periodic, dead, hard, soft, interrupt,
                   thread, left, asked, outdated>>

(* rt_timer_control: SET_TIME, SET_ONESHOT, SET_PERIODIC. *)
Control(c, u) ==
    /\ u \notin dead
    /\ IF c = Clock THEN irq = "callback"
       ELSE Runs(c) /\ op[c] = "none"
    /\ \/ /\ <<c, u>> \in Tunes
          /\ \E k \in NewTicks : init' = [init EXCEPT ![u] = k]
          /\ UNCHANGED periodic
       \/ /\ <<c, u>> \in Turns
          /\ periodic' \in {periodic \union {u}, periodic \ {u}}
          /\ UNCHANGED init
    /\ UNCHANGED <<timeout, active, dead, hard, soft, interrupt, calls,
                   thread, left, asked, outdated>>

(* rt_timer_detach and rt_timer_delete. *)
Detach(c, u) ==
    /\ Runs(c) /\ op[c] = "none"
    /\ <<c, u>> \in Detaches /\ u \notin dead /\ KeepsOff(u)
    /\ \A d \in Caller : on[d] # u
    /\ UnlinkTimer(u)
    /\ dead' = dead \union {u}
    /\ asked' = asked \ {u}
    /\ UNCHANGED <<timeout, init, periodic, active, interrupt, calls, thread,
                   left, outdated>>

------------------------------------------------------------------------------
(* Timers whose time runs: linked, or about to be. *)
Running == {u \in Timers : \/ Linked(hard, u) \/ Linked(soft, u)
                           \/ \E c \in Caller : on[c] = u /\ op[c] = "link"}

(* No thread is kept late by more than MaxLag ticks.  (The interrupt       *)
(* itself sees to the hard timers that are linked, and a timer thread that *)
(* sleeps too long is not late.)                                           *)
InTime ==
    /\ \A u \in Running :
          \/ -MaxLag < left[u]
          \/ Linked(hard, u)
          \/ Linked(soft, u) /\ asleep /\ Linked(hard, Wake)
    /\ at = "delay" /\ Near(Ahead(tick, nxt)) => Ahead(tick, nxt) < MaxLag

(* rt_tick_increase, up to the loop of rt_timer_check.  (The timeout tick   *)
(* of a timer that nobody will look at before it is started is forgotten.) *)
Tick ==
    /\ irq = "off" /\ irq' = "check"
    /\ InTime
    /\ tick' = (tick + 1) % TickMod
    /\ left' = [u \in Timers |-> IF u \in Running THEN left[u] - 1 ELSE 0]
    /\ timeout' = [u \in Timers |->
                     IF u \in Running \union {n} THEN timeout[u] ELSE 0]
    /\ outdated' = (outdated \/ HasRead)
    /\ UNCHANGED <<init, periodic, active, dead, hard, soft, cb, calls, thread,
                   asked>>

(* The first hard timer is due: the timer thread is woken by               *)
(* rt_thread_timeout, a timer of the users has its callback called.        *)
CheckExpire ==
    /\ irq = "check" /\ hard # <<>> /\ Due(tick, Head(hard))
    /\ hard' = Tail(hard)
    /\ IF Head(hard) = Wake
       THEN asleep' = FALSE /\ UNCHANGED <<irq, cb>>
       ELSE irq' = "callback" /\ cb' = Head(hard) /\ UNCHANGED asleep
    /\ UNCHANGED <<tick, fields, soft, calls, at, cur, nxt, t, n, left, asked,
                   outdated>>

(* The callback calls rt_timer_start or rt_timer_stop for some hard timer, *)
(* its own included; the interrupts stay disabled throughout.  (A timer    *)
(* that expires once and starts itself again would end up linked but       *)
(* inactive.)                                                              *)
CallbackStart(u) ==
    /\ irq = "callback" /\ u \notin dead
    /\ \/ <<Clock, u>> \in Starts /\ KeepsOff(u)
       \/ u = cb /\ u \in periodic
    /\ timeout' = [timeout EXCEPT ![u] = (tick + init[u]) % TickMod]
    /\ left' = [left EXCEPT ![u] = init[u]]
    /\ Link(u, timeout'[u])
    /\ asked' = asked \union {u}
    /\ UNCHANGED <<init, periodic, dead, interrupt, calls, thread, outdated>>

CallbackStop(u) ==
    /\ irq = "callback"
    /\ (<<Clock, u>> \in Stops /\ KeepsOff(u)) \/ u = cb
    /\ u \in active \ dead
    /\ UnlinkTimer(u)
    /\ active' = active \ {u}
    /\ asked' = asked \ {u}
    /\ UNCHANGED <<timeout, init, periodic, dead, interrupt, calls, thread,
                   left, outdated>>

(* Mutant: the flag RT_TIMER_FLAG_ACTIVATED is not looked at. *)
RearmStopped(u) ==
    IF u \in periodic
    THEN /\ timeout' = [timeout EXCEPT ![u] = (tick + init[u]) % TickMod]
         /\ left' = [left EXCEPT ![u] = init[u]]
         /\ Link(u, timeout'[u])
         /\ UNCHANGED asked
    ELSE /\ active' = active \ {u}
         /\ asked' = asked \ {u}
         /\ UNCHANGED <<timeout, left, hard, soft>>

(* After the callback of u: a periodic timer that was not stopped starts   *)
(* again, any other one is marked inactive.                                *)
Rearm(u) ==
    IF u \in periodic /\ u \in active
    THEN /\ timeout' = [timeout EXCEPT ![u] = (tick + init[u]) % TickMod]
         /\ left' = [left EXCEPT ![u] = init[u]]
         /\ Link(u, timeout'[u])
         /\ UNCHANGED asked
    ELSE /\ active' = active \ {u}
         /\ asked' = IF u \in periodic \/ Linked(hard \o soft, u) THEN asked
                     ELSE asked \ {u}
         /\ UNCHANGED <<timeout, left, hard, soft>>

CallbackReturn ==
    /\ irq = "callback"
    /\ Rearm(cb)
    /\ irq' = "check" /\ cb' = None
    /\ UNCHANGED <<tick, init, periodic, dead, calls, thread, outdated>>

CheckEnd ==
    /\ irq = "check" /\ (hard # <<>> => ~Due(tick, Head(hard)))
    /\ irq' = "off"
    /\ UNCHANGED <<tick, fields, hard, soft, cb, calls, thread, left, asked,
                   outdated>>

------------------------------------------------------------------------------
TimerThreadAt(where) ==
    irq = "off" /\ ~asleep /\ at = where /\ op[TimerThread] = "none"

(* next_timeout = rt_timer_list_next_timeout(); no timer reads as          *)
(* RT_TICK_MAX.                                                            *)
ReadNext ==
    /\ TimerThreadAt("next")
    /\ IF soft = <<>> THEN nxt' = TickMax ELSE nxt' = timeout[Head(soft)]
    /\ at' = IF nxt' = TickMax THEN "suspend" ELSE "delay"
    /\ outdated' = (soft # <<>> /\ nxt' = TickMax)
    /\ UNCHANGED <<fields, hard, soft, interrupt, calls, asleep, cur, t, n,
                   left, asked>>

(* rt_thread_suspend and rt_schedule. *)
SuspendSelf ==
    /\ TimerThreadAt("suspend")
    /\ asleep' = TRUE /\ at' = "check" /\ nxt' = 0
    /\ UNCHANGED <<fields, hard, soft, interrupt, calls, cur, t, n, left,
                   asked, outdated>>

ReadTick ==
    /\ TimerThreadAt("delay")
    /\ IF Near(Ahead(nxt, tick))
       THEN at' = "sleep" /\ nxt' = Ahead(nxt, tick)
       ELSE at' = "check" /\ nxt' = 0
    /\ UNCHANGED <<fields, hard, soft, interrupt, calls, asleep, cur, t, n,
                   left, asked, outdated>>

(* rt_thread_delay. *)
Sleep ==
    /\ TimerThreadAt("sleep")
    /\ asleep' = TRUE /\ at' = "check" /\ nxt' = 0
    /\ timeout' = [timeout EXCEPT ![Wake] = (tick + nxt) % TickMod]
    /\ left' = [left EXCEPT ![Wake] = nxt]
    /\ hard' = Insert(hard, Wake, timeout'[Wake])
    /\ UNCHANGED <<init, periodic, active, dead, soft, interrupt, calls, cur,
                   t, n, asked, outdated>>

(* rt_soft_timer_check, up to the first test of its loop. *)
CheckSoft ==
    /\ TimerThreadAt("check")
    /\ cur' = tick
    /\ n' = IF soft = <<>> THEN None ELSE Head(soft)
    /\ at' = "scan"
    /\ UNCHANGED <<fields, hard, soft, interrupt, calls, asleep, nxt, t, left,
                   asked, outdated>>

(* Timer n is due: it is removed and its callback called with the          *)
(* scheduler unlocked, after n has moved on.                               *)
ScanExpire ==
    /\ TimerThreadAt("scan") /\ n # None /\ Due(cur, n)
    /\ t' = n /\ n' = Next1(n)
    /\ soft' = Unlink(soft, n)
    /\ at' = "callback" /\ cur' = 0
    /\ UNCHANGED <<fields, hard, interrupt, calls, asleep, nxt, left, asked,
                   outdated>>

ScanEnd ==
    /\ TimerThreadAt("scan") /\ (n # None => ~Due(cur, n))
    /\ at' = "next" /\ cur' = 0 /\ n' = None
    /\ UNCHANGED <<fields, hard, soft, interrupt, calls, asleep, nxt, t, left,
                   asked, outdated>>

(* The callback returns: current_tick is read again, then the scheduler    *)
(* is locked.                                                              *)
SoftReturn ==
    /\ TimerThreadAt("callback")
    /\ cur' = tick
    /\ at' = "after"
    /\ UNCHANGED <<fields, hard, soft, interrupt, calls, asleep, nxt, t, n,
                   left, asked, outdated>>

SoftAfter ==
    /\ TimerThreadAt("after")
    /\ Rearm(t)
    /\ t' = None
    /\ at' = "scan"
    /\ UNCHANGED <<init, periodic, dead, interrupt, calls, asleep, cur, nxt, n,
                   outdated>>

------------------------------------------------------------------------------
CallerStep(c) ==
    \/ StartTick(c) \/ StartLink(c) \/ StartTest(c) \/ StartResume(c)
    \/ StopUnlink(c) \/ StopFlag(c)

ClockStep == CheckExpire \/ CallbackReturn \/ CheckEnd

ThreadStep ==
    \/ ReadNext \/ SuspendSelf \/ ReadTick \/ Sleep
    \/ CheckSoft \/ ScanExpire \/ ScanEnd \/ SoftReturn \/ SoftAfter

TimerNext ==
    \/ Tick \/ ClockStep \/ ThreadStep
    \/ \E u \in User :
          \/ CallbackStart(u) \/ CallbackStop(u) \/ Control(Clock, u)
          \/ \E c \in Caller : \/ StartUnlink(c, u) \/ StopTest(c, u)
                               \/ Control(c, u) \/ Detach(c, u)
    \/ \E c \in Caller : CallerStep(c)

TimerSpec == TimerInit /\ [][TimerNext]_timerVars

------------------------------------------------------------------------------
(* A callback runs in the tick its timer asked for, across the wrap of the *)
(* counter: never early, and no hard timer that was due when an interrupt  *)
(* began is still linked when it ends.                                     *)
ExpiresOnItsTick ==
    [][/\ CheckExpire => left[Head(hard)] <= 0
       /\ ScanExpire => left[n] <= 0
       /\ CheckEnd => \A u \in Range(hard) : left[u] > 0]_timerVars

(* Both lists stay sorted by the time that is left, whatever the tick      *)
(* counter shows, and link each timer once: only then is it enough to look *)
(* at their heads.                                                         *)
ListsInOrder ==
    /\ TimerTypeOK
    /\ \A list \in {hard, soft} : Once(list) /\ Sorted(list, left)

InProgress(u) ==
    \/ \E c \in Caller : on[c] = u
    \/ u = cb
    \/ u = t

(* A timer is linked and marked active exactly when the last that was said *)
(* about it, in whatever order starts, stops and expirations came, is that *)
(* it should run; a detached one never comes back.                         *)
RunsAsAsked ==
    \A u \in User :
       ~InProgress(u) =>
         /\ Linked(hard \o soft, u) <=> u \in asked
         /\ u \notin dead => (u \in active <=> u \in asked)

(* A timer that was stopped or detached and not started since does not     *)
(* have its callback called, even when other callbacks run meanwhile.      *)
SilentAfterStop ==
    [][/\ CheckExpire => Head(hard) \in asked \union {Wake}
       /\ ScanExpire => n \in asked]_timerVars

(* The timer thread never sleeps past the first soft timer: it has a wake  *)
(* timer that is due no later, or somebody is about to resume it.  (The    *)
(* times it read may be out of date; it sleeps too long then.)             *)
WokenInTime ==
    asleep /\ soft # <<>> /\ ~outdated =>
      \/ Linked(hard, Wake) /\ left[Wake] <= left[Head(soft)]
      \/ \E c \in Caller : op[c] \in {"test", "resume"}
==============================================================================
