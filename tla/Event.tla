-------------------------------- MODULE Event --------------------------------
(***************************************************************************)
(* The event object of the kernel (rt_event_*, src/src/ipc.c): a set of    *)
(* bits and a list of the threads that wait for some of them.  A send      *)
(* walks the list once and may serve several threads, each of which may    *)
(* take bits away from those behind it.                                    *)
(*                                                                         *)
(* A section with the interrupts disabled is one action; a thread that is  *)
(* not suspended may always take the next step.                            *)
(***************************************************************************)
EXTENDS IpcList, FiniteSets

CONSTANTS Bit,        \* the bits of an event set
          Ask,        \* Ask[t], what t may ask for: [want, option] records
          Flag,       \* FIFO or PRIO, the flag given to rt_event_init
          Priority,   \* Priority[t], a smaller number is more urgent
          Timed,      \* threads that wait with a finite timeout
          Resetters,  \* threads that may call rt_event_control(RESET)
          Detachers,  \* threads that may detach or delete the event
          Signalled   \* threads to which others send one signal

(* The options that rt_event_recv does not assert against.                 *)
Options ==
    {o \in SUBSET {"AND", "OR", "CLEAR"} : o \intersect {"AND", "OR"} # {}}

ASSUME ThreadAssumption == IsFiniteSet(Thread) /\ IsFiniteSet(Bit)
ASSUME AskAssumption ==
    \A t \in Thread :
       Ask[t] \subseteq [want : SUBSET Bit \ {{}}, option : Options]
ASSUME FlagAssumption ==
    Flag \in {FIFO, PRIO} /\ Priority \in [Thread -> Nat]

VARIABLES set,         \* event->set
          list,        \* event->parent.suspend_thread
          timer,       \* threads whose thread_timer is active
          error,       \* thread->error
          event_set,   \* thread->event_set
          event_info,  \* thread->event_info
          pc,          \* where a thread is in the kernel
          live,        \* FALSE once the event is detached
          served,      \* threads that a send has resumed in this call
          struck       \* threads that were sent a signal

waits == <<list, timer, error, event_set, event_info>>
vars == <<set, list, timer, error, event_set, event_info, pc, live, served,
          struck>>

(* The locations as in module Semaphore. *)
Detaching == {"resume_all", "resume_one", "unregister", "wild"}
Suspended(t) == Linked(list, t)

(* Types; the list links a thread once and a timer guards a wait.          *)
TypeOK ==
    /\ set \subseteq Bit
    /\ list \in Seq(Thread) /\ Once(list)
    /\ timer \subseteq {t \in Thread : Suspended(t)}
    /\ error \in [Thread -> {"EOK", "ETIMEOUT", "ERROR", "EINTR"}]
    /\ event_set \in [Thread -> SUBSET Bit]
    /\ event_info \in [Thread -> Options \union {{}}]
    /\ pc \in [Thread -> {"idle", "waiting"} \union Detaching]
    /\ \A t \in Thread : Suspended(t) => pc[t] = "waiting"
    /\ live \in BOOLEAN
    /\ served \subseteq Thread /\ struck \subseteq Signalled

Init ==
    /\ set = {} /\ list = <<>> /\ timer = {}
    /\ error = [t \in Thread |-> "EOK"]
    /\ event_set = [t \in Thread |-> {}]
    /\ event_info = [t \in Thread |-> {}]
    /\ pc = [t \in Thread |-> "idle"]
    /\ live = TRUE /\ served = {} /\ struck = {}

------------------------------------------------------------------------------
(* The condition of a receiver.  AND is looked at first.                   *)
Fits(want, option, bits) ==
    IF "AND" \in option THEN want \subseteq bits
    ELSE want \intersect bits # {}

(* rt_event_recv of bits that are there. *)
RecvNow(t, ask) ==
    /\ pc[t] = "idle" /\ live
    /\ Fits(ask.want, ask.option, set)
    /\ set' = IF "CLEAR" \in ask.option THEN set \ ask.want ELSE set
    /\ error' = [error EXCEPT ![t] = "EOK"]
    /\ UNCHANGED <<list, timer, event_set, event_info, pc, live, served,
                   struck>>

(* The same without a waiting time. *)
RecvFails(t, ask) ==
    /\ pc[t] = "idle" /\ live
    /\ ~Fits(ask.want, ask.option, set)
    /\ error' = [error EXCEPT ![t] = "ETIMEOUT"]
    /\ UNCHANGED <<set, list, timer, event_set, event_info, pc, live, served,
                   struck>>

(* rt_event_recv of bits that are not there, up to rt_schedule.            *)
RecvSuspend(t, ask) ==
    /\ pc[t] = "idle" /\ live
    /\ ~Fits(ask.want, ask.option, set)
    /\ event_set' = [event_set EXCEPT ![t] = ask.want]
    /\ event_info' = [event_info EXCEPT ![t] = ask.option]
    /\ error' = [error EXCEPT ![t] = "EOK"]
    /\ list' = Enqueue(list, t, Flag, Priority)
    /\ timer' = IF t \in Timed THEN timer \union {t} ELSE timer \ {t}
    /\ pc' = [pc EXCEPT ![t] = "waiting"]
    /\ UNCHANGED <<set, live, served, struck>>

(* The rest of rt_event_recv: the error, or event_set, is the answer.      *)
Return(t) ==
    /\ pc[t] = "waiting" /\ ~Suspended(t)
    /\ pc' = [pc EXCEPT ![t] = "idle"]
    /\ served' = served \ {t}
    /\ UNCHANGED <<set, waits, live, struck>>

------------------------------------------------------------------------------
(* One round of the loop of rt_event_send, on a record of what it changes. *)
Visit(s, t) ==
    IF ~Fits(event_set[t], event_info[t], s.set) THEN s
    ELSE LET got == IF "AND" \in event_info[t] THEN event_set[t]
                    ELSE event_set[t] \intersect s.set
         IN [set |-> IF "CLEAR" \in event_info[t] THEN s.set \ got ELSE s.set,
             got |-> [s.got EXCEPT ![t] = got],
             list |-> Unlink(s.list, t),
             resumed |-> s.resumed \union {t}]

(* The loop: n->next is read before a thread leaves the list, so it goes   *)
(* over the list as it was at the start.                                   *)
Sweep(bits, order) ==
    LET after[k \in 0..Len(order)] ==
          IF k = 0 THEN [set |-> bits, got |-> event_set, list |-> list,
                         resumed |-> {}]
          ELSE Visit(after[k - 1], order[k])
    IN  after[Len(order)]

(* Mutants of the next definition: the bits are cleared after the walk;    *)
(* the walk stops at the first thread that it resumes; the timers go on.   *)
SendClearsLate(s) ==
    LET hit == {t \in Thread :
                  Suspended(t) /\ Fits(event_set[t], event_info[t],
                                       set \union s)}
        got == [t \in Thread |->
                  IF t \in hit THEN event_set[t] \intersect (set \union s)
                  ELSE event_set[t]]
    IN /\ live /\ s # {}
       /\ set' = (set \union s)
                   \ UNION {got[t] : t \in {u \in hit :
                                               "CLEAR" \in event_info[u]}}
       /\ event_set' = got
       /\ list' = SelectSeq(list, LAMBDA t : t \notin hit)
       /\ timer' = timer \ hit
       /\ served' = served \union hit
       /\ UNCHANGED <<error, event_info, pc, live, struck>>

SendServesOne(s) ==
    LET hit == {i \in 1..Len(list) :
                  Fits(event_set[list[i]], event_info[list[i]],
                       set \union s)}
        upto == IF hit = {} THEN <<>>
                ELSE SubSeq(list, 1, CHOOSE i \in hit : \A j \in hit : i <= j)
        r == Sweep(set \union s, upto)
    IN /\ live /\ s # {}
       /\ set' = r.set
       /\ event_set' = r.got
       /\ list' = r.list
       /\ timer' = timer \ r.resumed
       /\ served' = served \union r.resumed
       /\ UNCHANGED <<error, event_info, pc, live, struck>>

SendKeepsTimers(s) ==
    LET r == Sweep(set \union s, list) IN
    /\ live /\ s # {}
    /\ set' = r.set
    /\ event_set' = r.got
    /\ list' = r.list
    /\ served' = served \union r.resumed
    /\ UNCHANGED <<timer, error, event_info, pc, live, struck>>

(* rt_event_send, by a thread or an interrupt handler. *)
Send(s) ==
    LET r == Sweep(set \union s, list) IN
    /\ live /\ s # {}
    /\ set' = r.set
    /\ event_set' = r.got
    /\ list' = r.list
    /\ timer' = timer \ r.resumed
    /\ served' = served \union r.resumed
    /\ UNCHANGED <<error, event_info, pc, live, struck>>

------------------------------------------------------------------------------
(* rt_event_control(RT_IPC_CMD_RESET), within one section. *)
Reset(t) ==
    /\ pc[t] = "idle" /\ t \in Resetters /\ live
    /\ error' = [u \in Thread |-> IF Suspended(u) THEN "ERROR" ELSE error[u]]
    /\ timer' = {} /\ list' = <<>> /\ set' = {}
    /\ UNCHANGED <<event_set, event_info, pc, live, served, struck>>

(* rt_thread_timeout, from the tick interrupt. *)
Timeout(t) ==
    /\ t \in timer
    /\ timer' = timer \ {t}
    /\ error' = [error EXCEPT ![t] = "ETIMEOUT"]
    /\ list' = Unlink(list, t)
    /\ UNCHANGED <<set, event_set, event_info, pc, live, served, struck>>

(* rt_thread_kill on a thread inside the call; see module Semaphore. *)
Signal(t) ==
    /\ t \in Signalled \ struck /\ pc[t] = "waiting"
    /\ struck' = struck \union {t}
    /\ \E e \in IF Suspended(t) THEN {error[t], "EINTR"} ELSE {"EINTR"} :
          error' = [error EXCEPT ![t] = e]
    /\ list' = Unlink(list, t)
    /\ timer' = timer \ {t}
    /\ UNCHANGED <<set, event_set, event_info, pc, live, served>>

------------------------------------------------------------------------------
(* rt_event_detach and rt_event_delete: the loop of rt_ipc_list_resume_all *)
(* tests the list with the interrupts enabled.                             *)
Goes(t, where) == pc' = [pc EXCEPT ![t] = where]

DetachBegin(t) ==
    /\ pc[t] = "idle" /\ t \in Detachers /\ live
    /\ \A u \in Thread : pc[u] \notin Detaching
    /\ Goes(t, "resume_all")
    /\ UNCHANGED <<set, waits, live, served, struck>>

ResumeAllTest(t) ==
    /\ pc[t] = "resume_all"
    /\ Goes(t, IF list = <<>> THEN "unregister" ELSE "resume_one")
    /\ UNCHANGED <<set, waits, live, served, struck>>

ResumeAllTake(t) ==
    /\ pc[t] = "resume_one"
    /\ IF list = <<>>
       THEN Goes(t, "wild") /\ UNCHANGED <<list, timer, error>>
       ELSE /\ error' = [error EXCEPT ![Head(list)] = "ERROR"]
            /\ list' = Tail(list)
            /\ timer' = timer \ {Head(list)}
            /\ Goes(t, "resume_all")
    /\ UNCHANGED <<set, event_set, event_info, live, served, struck>>

Unregister(t) ==
    /\ pc[t] = "unregister"
    /\ live' = FALSE
    /\ Goes(t, "idle")
    /\ UNCHANGED <<set, waits, served, struck>>

------------------------------------------------------------------------------
CallStep(t) ==
    \/ Return(t)
    \/ ResumeAllTest(t) \/ ResumeAllTake(t) \/ Unregister(t)

Next ==
    \/ \E s \in SUBSET Bit : Send(s)
    \/ \E t \in Thread :
          \/ \E ask \in Ask[t] : RecvNow(t, ask)
                                \/ RecvFails(t, ask) \/ RecvSuspend(t, ask)
          \/ Reset(t)
          \/ DetachBegin(t)
          \/ CallStep(t)
          \/ Timeout(t)
          \/ Signal(t)

Spec == Init /\ [][Next]_vars

------------------------------------------------------------------------------
(* Nobody stays suspended beside bits that satisfy it: the one walk of a   *)
(* send leaves no thread behind that it should have resumed, whichever     *)
(* bits are cleared on the way, and no other call makes such a thread.     *)
NoSatisfiedWaiter ==
    \A t \in Thread : Suspended(t) => ~Fits(event_set[t], event_info[t], set)

(* The answer of rt_event_recv is true: who was served by a send returns   *)
(* RT_EOK, so bits that were cleared for it reach it and a timeout cannot  *)
(* race with them; who left the list for another reason does not return    *)
(* RT_EOK.  Only a signal breaks this, for the thread it is sent to.       *)
AnswerIsTrue ==
    /\ TypeOK
    /\ \A t \in Thread \ struck :
          pc[t] = "waiting" /\ ~Suspended(t)
            => (t \in served <=> error[t] = "EOK")

(* What a send does to those that wait: they are served in the order of    *)
(* the list, each with the bits that those served before it have left, and *)
(* with the ones it asked for and no other; what nobody cleared stays.     *)
SendServes(s) ==
    LET Served == {t \in Thread : Suspended(t) /\ ~Suspended(t)'}
        Ahead(t) == {u \in Served : \E i, j \in 1..Len(list) :
                        i < j /\ list[i] = u /\ list[j] = t}
        Cleared(T) ==
           UNION {event_set[t]' : t \in {u \in T : "CLEAR" \in event_info[u]}}
        Left(t) == (set \union s) \ Cleared(Ahead(t))
    IN /\ \A t \in Thread : Suspended(t) =>
             /\ t \in Served <=> Fits(event_set[t], event_info[t], Left(t))
             /\ t \in Served => event_set[t]' = event_set[t] \intersect Left(t)
       /\ set' = (set \union s) \ Cleared(Served)

(* Every rt_event_send does just that. *)
SweepInOrder == [][\A s \in SUBSET Bit : Send(s) => SendServes(s)]_vars
==============================================================================
