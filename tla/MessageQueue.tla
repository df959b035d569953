----------------------------- MODULE MessageQueue -----------------------------
(***************************************************************************)
(* The message queue of the kernel (rt_mq_*, src/src/ipc.c), down to the   *)
(* next pointers of its slots: a sender takes a slot from the free list,   *)
(* fills it with the interrupts enabled and then links it; a receiver      *)
(* unlinks a slot, reads it with the interrupts enabled and frees it.      *)
(*                                                                         *)
(* A section with the interrupts disabled is one action, each copy is one  *)
(* too; a thread that is not suspended may always take the next step.      *)
(***************************************************************************)
EXTENDS IpcList, FiniteSets

CONSTANTS Message,
          MaxMsgs,    \* mq->max_msgs
          Null,       \* RT_NULL
          Flag,       \* FIFO or PRIO, the flag given to rt_mq_init
          Priority,   \* Priority[t], a smaller number is more urgent
          Timed,      \* threads that wait with a finite timeout
          Resetters,  \* threads that may call rt_mq_control(RESET)
          Detachers,  \* threads that may call rt_mq_detach or _delete
          Signalled,  \* threads to which others send signals
          MaxKills    \* bound on the signals sent

ASSUME ThreadAssumption == IsFiniteSet(Thread)
ASSUME KillAssumption == MaxKills \in Nat
ASSUME SizeAssumption == MaxMsgs \in Nat \ {0} /\ Null \notin 1..MaxMsgs
ASSUME FlagAssumption == Flag \in {FIFO, PRIO}
ASSUME PriorityAssumption == Priority \in [Thread -> Nat]

Slot == 1..MaxMsgs

VARIABLES next,        \* msg->next of each slot
          data,        \* the bytes of each slot
          msg_queue_head, msg_queue_tail, msg_queue_free, entry,
          receivers,   \* mq->parent.suspend_thread
          timer,       \* threads whose thread_timer is active
          error,       \* thread->error
          pc,          \* where a thread is in the kernel
          live,        \* not detached: its object is registered
          msg,         \* the local variable msg of the call, if any
          buffer,      \* the buffer argument of the call, if any
          left,        \* its timeout argument, as the call recomputes it
          kills        \* signals sent so far

lists == <<next, msg_queue_head, msg_queue_tail, msg_queue_free, entry>>
waits == <<receivers, timer, error, live, left, kills>>
vars == <<next, data, msg_queue_head, msg_queue_tail, msg_queue_free, entry,
          receivers, timer, error, pc, live, msg, buffer, left, kills>>

Errors == {"EOK", "ETIMEOUT", "ERROR", "EINTR"}

(* "send", "urgent": has a slot; "filled", "filled_urgent": has copied the *)
(* message into it; "receiving": suspended in rt_mq_recv, or resumed and   *)
(* not past rt_schedule; "taken": has unlinked a slot; "copied": has read  *)
(* it.  The others are the steps of rt_mq_detach; "wild": it has taken the *)
(* head of an empty list for a thread.                                     *)
Detaching == {"resume_all", "resume_one", "unregister", "wild"}
Locations == {"idle", "send", "urgent", "filled", "filled_urgent",
              "receiving", "taken", "copied"} \union Detaching

(* Types: the pointers are slots or null, the count is within the queue. *)
TypeOK ==
    /\ next \in [Slot -> Slot \union {Null}]
    /\ data \in [Slot -> Message]
    /\ {msg_queue_head, msg_queue_tail, msg_queue_free}
         \subseteq Slot \union {Null}
    /\ entry \in 0..MaxMsgs
    /\ receivers \in Seq(Thread) /\ timer \subseteq Thread
    /\ error \in [Thread -> Errors]
    /\ pc \in [Thread -> Locations]
    /\ live \in BOOLEAN
    /\ msg \in [Thread -> Slot \union {Null}]
    /\ buffer \in [Thread -> Message \union {Null}]
    /\ left \in [Thread -> {"none", "ticks", "forever"}]
    /\ kills \in 0..MaxKills

(* rt_mq_init links every slot on the free list, the last one first.       *)
Init ==
    /\ next = [s \in Slot |-> IF s = 1 THEN Null ELSE s - 1]
    /\ \E v \in Message : data = [s \in Slot |-> v]
    /\ msg_queue_head = Null /\ msg_queue_tail = Null
    /\ msg_queue_free = MaxMsgs
    /\ entry = 0
    /\ receivers = <<>> /\ timer = {}
    /\ error = [t \in Thread |-> "EOK"]
    /\ pc = [t \in Thread |-> "idle"]
    /\ live = TRUE
    /\ msg = [t \in Thread |-> Null]
    /\ buffer = [t \in Thread |-> Null]
    /\ left = [t \in Thread |-> "none"]
    /\ kills = 0

Goto(t, where) == pc' = [pc EXCEPT ![t] = where]

(* The locals of a call end with it. *)
Leave(t) ==
    /\ Goto(t, "idle")
    /\ msg' = [msg EXCEPT ![t] = Null]
    /\ buffer' = [buffer EXCEPT ![t] = Null]
    /\ left' = [left EXCEPT ![t] = "none"]

Suspended(t) == Linked(receivers, t)
Resumed == {t \in Thread : pc[t] = "receiving" /\ ~Suspended(t)}

(* Those that will test the queue again. *)
Looking == {t \in Resumed : error[t] = "EOK"}

Recomputed(time) == IF time = "ticks" THEN {"ticks", "none"} ELSE {time}
TimeoutOf(t) == IF t \in Timed THEN "ticks" ELSE "forever"

------------------------------------------------------------------------------
(* rt_mq_send and rt_mq_urgent, first section.  With no free slot they     *)
(* return -RT_EFULL and nothing changes.                                   *)
SendTakeSlot(t, v, how) ==
    /\ pc[t] = "idle" /\ live /\ msg_queue_free # Null
    /\ msg' = [msg EXCEPT ![t] = msg_queue_free]
    /\ msg_queue_free' = next[msg_queue_free]
    /\ buffer' = [buffer EXCEPT ![t] = v]
    /\ Goto(t, how)
    /\ UNCHANGED <<next, data, msg_queue_head, msg_queue_tail, entry, waits>>

(* Between the sections: the copy, and for rt_mq_send the next pointer.    *)
SendCopy(t) ==
    /\ pc[t] \in {"send", "urgent"}
    /\ data' = [data EXCEPT ![msg[t]] = buffer[t]]
    /\ next' = IF pc[t] = "send" THEN [next EXCEPT ![msg[t]] = Null] ELSE next
    /\ Goto(t, IF pc[t] = "send" THEN "filled" ELSE "filled_urgent")
    /\ UNCHANGED <<msg_queue_head, msg_queue_tail, msg_queue_free, entry,
                   msg, buffer, waits>>

(* Mutants: a receiver is resumed for the first message only, or never. *)
ResumeOfFirst ==
    /\ IF receivers # <<>> /\ entry = 0
       THEN /\ receivers' = Tail(receivers)
            /\ timer' = timer \ {Head(receivers)}
       ELSE UNCHANGED <<receivers, timer>>
    /\ UNCHANGED <<error, live, kills>>

ResumeNobody == UNCHANGED <<receivers, timer, error, live, kills>>

(* The second section ends by resuming the first receiver. *)
ResumeReceiver ==
    /\ IF receivers # <<>>
       THEN /\ receivers' = Tail(receivers)
            /\ timer' = timer \ {Head(receivers)}
       ELSE UNCHANGED <<receivers, timer>>
    /\ UNCHANGED <<error, live, kills>>

(* Mutant: an ordinary message is linked before the head. *)
SendLinkFirst(t) ==
    /\ pc[t] = "filled"
    /\ next' = [next EXCEPT ![msg[t]] = msg_queue_head]
    /\ msg_queue_head' = msg[t]
    /\ msg_queue_tail' = IF msg_queue_tail = Null THEN msg[t]
                         ELSE msg_queue_tail
    /\ entry' = entry + 1
    /\ ResumeReceiver
    /\ Leave(t)
    /\ UNCHANGED <<data, msg_queue_free>>

SendLink(t) ==
    /\ pc[t] = "filled"
    /\ next' = IF msg_queue_tail # Null
               THEN [next EXCEPT ![msg_queue_tail] = msg[t]] ELSE next
    /\ msg_queue_tail' = msg[t]
    /\ msg_queue_head' = IF msg_queue_head = Null THEN msg[t]
                         ELSE msg_queue_head
    /\ entry' = entry + 1
    /\ ResumeReceiver
    /\ Leave(t)
    /\ UNCHANGED <<data, msg_queue_free>>

UrgentLink(t) ==
    /\ pc[t] = "filled_urgent"
    /\ next' = [next EXCEPT ![msg[t]] = msg_queue_head]
    /\ msg_queue_head' = msg[t]
    /\ msg_queue_tail' = IF msg_queue_tail = Null THEN msg[t]
                         ELSE msg_queue_tail
    /\ entry' = entry + 1
    /\ ResumeReceiver
    /\ Leave(t)
    /\ UNCHANGED <<data, msg_queue_free>>

------------------------------------------------------------------------------
(* Mutant: the tail is left behind. *)
TakeKeepsTail(t) ==
    /\ msg' = [msg EXCEPT ![t] = msg_queue_head]
    /\ msg_queue_head' = next[msg_queue_head]
    /\ entry' = entry - 1
    /\ Goto(t, "taken")
    /\ UNCHANGED <<next, data, msg_queue_tail, msg_queue_free, buffer, waits>>

(* rt_mq_recv: unlink the head. *)
Take(t) ==
    /\ msg' = [msg EXCEPT ![t] = msg_queue_head]
    /\ msg_queue_head' = next[msg_queue_head]
    /\ msg_queue_tail' = IF msg_queue_tail = msg_queue_head THEN Null
                         ELSE msg_queue_tail
    /\ entry' = entry - 1
    /\ Goto(t, "taken")
    /\ UNCHANGED <<next, data, msg_queue_free, buffer, waits>>

Arm(t, time) == timer' = IF time = "ticks" THEN timer \union {t}
                                           ELSE timer \ {t}

(* With entry = 0 and timeout 0 the call returns and nothing changes.      *)
RecvNow(t) ==
    /\ pc[t] = "idle" /\ live /\ entry # 0
    /\ Take(t)

RecvSuspend(t) ==
    /\ pc[t] = "idle" /\ live /\ entry = 0
    /\ error' = [error EXCEPT ![t] = "EOK"]
    /\ receivers' = Enqueue(receivers, t, Flag, Priority)
    /\ Arm(t, TimeoutOf(t))
    /\ left' = [left EXCEPT ![t] = TimeoutOf(t)]
    /\ Goto(t, "receiving")
    /\ UNCHANGED <<lists, data, live, msg, buffer, kills>>

RecvFails(t) ==
    /\ t \in Resumed /\ error[t] # "EOK"
    /\ Leave(t)
    /\ UNCHANGED <<lists, data, receivers, timer, error, live, kills>>

RecvRetry(t) ==
    /\ t \in Resumed /\ error[t] = "EOK"
    /\ IF entry # 0
       THEN Take(t)
       ELSE \E time \in Recomputed(left[t]) :
            /\ IF time = "none"
               THEN /\ Leave(t)
                    /\ error' = [error EXCEPT ![t] = "ETIMEOUT"]
                    /\ UNCHANGED <<receivers, timer>>
               ELSE /\ receivers' = Enqueue(receivers, t, Flag, Priority)
                    /\ Arm(t, time)
                    /\ left' = [left EXCEPT ![t] = time]
                    /\ UNCHANGED <<pc, error, msg, buffer>>
            /\ UNCHANGED <<lists, data, live, kills>>

(* The copy out of the slot, with the interrupts enabled. *)
RecvCopy(t) ==
    /\ pc[t] = "taken"
    /\ buffer' = [buffer EXCEPT ![t] = data[msg[t]]]
    /\ Goto(t, "copied")
    /\ UNCHANGED <<lists, data, msg, waits>>

RecvFreeSlot(t) ==
    /\ pc[t] = "copied"
    /\ next' = [next EXCEPT ![msg[t]] = msg_queue_free]
    /\ msg_queue_free' = msg[t]
    /\ Leave(t)
    /\ UNCHANGED <<data, msg_queue_head, msg_queue_tail, entry,
                   receivers, timer, error, live, kills>>

------------------------------------------------------------------------------
(* rt_thread_timeout, from the tick interrupt. *)
Timeout(t) ==
    /\ t \in timer
    /\ receivers' = Unlink(receivers, t)
    /\ timer' = timer \ {t}
    /\ error' = [error EXCEPT ![t] = "ETIMEOUT"]
    /\ UNCHANGED <<lists, data, pc, live, msg, buffer, left, kills>>

(* rt_thread_kill on a thread inside rt_mq_recv; see module Semaphore.     *)
Signal(t) ==
    /\ t \in Signalled /\ pc[t] = "receiving"
    /\ kills < MaxKills /\ kills' = kills + 1
    /\ \E e \in IF Suspended(t) THEN {error[t], "EINTR"} ELSE {"EINTR"} :
          error' = [error EXCEPT ![t] = e]
    /\ receivers' = Unlink(receivers, t)
    /\ timer' = timer \ {t}
    /\ UNCHANGED <<lists, data, pc, live, msg, buffer, left>>

(* The slots on a chain of next pointers.  A chain of slots that does not  *)
(* reach Null in MaxMsgs steps is a loop.                                  *)
Chain(first) ==
    LET at[k \in 0..MaxMsgs] ==
          IF k = 0 THEN first
          ELSE IF at[k - 1] = Null THEN Null ELSE next[at[k - 1]]
    IN  at
OnChain(first) == {Chain(first)[k] : k \in 0..MaxMsgs} \ {Null}
Ends(first) == Chain(first)[MaxMsgs] = Null

(* rt_mq_control(RT_IPC_CMD_RESET): the queued slots are put on the free   *)
(* list from the head on, so the last of them comes first there.           *)
Reset(t) ==
    LET queued == Chain(msg_queue_head)
        n == Cardinality(OnChain(msg_queue_head))
    IN  /\ pc[t] = "idle" /\ t \in Resetters /\ live
        /\ error' = [u \in Thread |-> IF Suspended(u) THEN "ERROR"
                                      ELSE error[u]]
        /\ timer' = {u \in timer : ~Suspended(u)}
        /\ receivers' = <<>>
        /\ next' = [s \in Slot |->
                      IF \E k \in 0..(n - 1) : queued[k] = s
                      THEN LET k == CHOOSE k \in 0..(n - 1) : queued[k] = s
                           IN  IF k = 0 THEN msg_queue_free ELSE queued[k - 1]
                      ELSE next[s]]
        /\ msg_queue_free' = IF n = 0 THEN msg_queue_free ELSE queued[n - 1]
        /\ msg_queue_head' = Null
        /\ msg_queue_tail' = IF msg_queue_tail \in OnChain(msg_queue_head)
                             THEN Null ELSE msg_queue_tail
        /\ entry' = 0
        /\ UNCHANGED <<data, pc, live, msg, buffer, left, kills>>

------------------------------------------------------------------------------
(* rt_mq_detach and rt_mq_delete: the loop of rt_ipc_list_resume_all tests *)
(* the list with the interrupts enabled.  The slots are left as they are,  *)
(* for those still in a call.                                              *)
DetachBegin(t) ==
    /\ pc[t] = "idle" /\ t \in Detachers /\ live
    /\ \A u \in Thread : pc[u] \notin Detaching
    /\ Goto(t, "resume_all")
    /\ UNCHANGED <<lists, data, waits, msg, buffer>>

ResumeAllTest(t) ==
    /\ pc[t] = "resume_all"
    /\ Goto(t, IF receivers = <<>> THEN "unregister" ELSE "resume_one")
    /\ UNCHANGED <<lists, data, waits, msg, buffer>>

ResumeAllTake(t) ==
    /\ pc[t] = "resume_one"
    /\ IF receivers = <<>>
       THEN /\ Goto(t, "wild")
            /\ UNCHANGED <<receivers, timer, error>>
       ELSE /\ error' = [error EXCEPT ![Head(receivers)] = "ERROR"]
            /\ receivers' = Tail(receivers)
            /\ timer' = timer \ {Head(receivers)}
            /\ Goto(t, "resume_all")
    /\ UNCHANGED <<lists, data, live, left, msg, buffer, kills>>

(* rt_object_detach: from now on no call passes the test of the type.      *)
Unregister(t) ==
    /\ pc[t] = "unregister"
    /\ live' = FALSE
    /\ Goto(t, "idle")
    /\ UNCHANGED <<lists, data, receivers, timer, error, left, msg, buffer,
                   kills>>

------------------------------------------------------------------------------
Step(t) ==
    \/ SendCopy(t) \/ SendLink(t) \/ UrgentLink(t)
    \/ RecvFails(t) \/ RecvRetry(t) \/ RecvCopy(t) \/ RecvFreeSlot(t)
    \/ ResumeAllTest(t) \/ ResumeAllTake(t) \/ Unregister(t)

Next ==
    \E t \in Thread :
       \/ \E v \in Message : \/ SendTakeSlot(t, v, "send")
                             \/ SendTakeSlot(t, v, "urgent")
       \/ RecvNow(t)
       \/ RecvSuspend(t)
       \/ DetachBegin(t)
       \/ Step(t)
       \/ Timeout(t)
       \/ Signal(t)
       \/ Reset(t)

Spec == Init /\ [][Next]_vars

(* A ready thread is run in the end and the tick interrupt never stops.    *)
Fairness == \A t \in Thread : WF_vars(Step(t)) /\ WF_vars(Timeout(t))
FairSpec == Spec /\ Fairness

------------------------------------------------------------------------------
(* The threads between the two sections of a call, with a slot off lists. *)
InHand == {t \in Thread : pc[t] \in {"send", "urgent", "filled",
                                     "filled_urgent", "taken", "copied"}}

(* A slot is in one place: on the free list, on the queue, or in the hands *)
(* of one thread that fills it or reads it.  None is lost or used twice.   *)
SlotsAccounted ==
    LET free == OnChain(msg_queue_free)
        queued == OnChain(msg_queue_head)
        inHand == {msg[t] : t \in InHand}
    IN  /\ Ends(msg_queue_free) /\ Ends(msg_queue_head)
        /\ free \union queued \union inHand = Slot
        /\ Cardinality(free) + Cardinality(queued) + Cardinality(InHand)
             = MaxMsgs

(* The count, the head and the tail describe the same chain. *)
QueueConsistent ==
    LET queued == OnChain(msg_queue_head) IN
    /\ entry = Cardinality(queued)
    /\ IF entry = 0 THEN msg_queue_tail = Null
       ELSE msg_queue_tail = Chain(msg_queue_head)[entry - 1]

(* No message waits beside a suspended receiver unless as many receivers   *)
(* were resumed and will look.  A signal to a receiver that was resumed    *)
(* can strand one message, until the next send.                            *)
NoStrandedReceiver ==
    receivers # <<>> => entry <= Cardinality(Looking) + kills

(* The thread timer never outlives the wait it guards (the assertion of    *)
(* rt_thread_timeout), and a thread is linked at most once.                *)
TimerGuardsWait ==
    (\A t \in timer : Suspended(t)) /\ Once(receivers)

(* The slots, the two chains, the count and the timers agree after every   *)
(* section of every call, while other threads copy.                        *)
StoreConsistent ==
    TypeOK /\ SlotsAccounted /\ QueueConsistent /\ TimerGuardsWait

(* The messages that are linked, and those being written or read. *)
Channel ==
    INSTANCE MessageChannel
      WITH Capacity <- MaxMsgs,
           Ordinary <- "filled", Urgent <- "filled_urgent",
           Nothing <- <<>>,
           queue <- [i \in 1..entry |-> data[Chain(msg_queue_head)[i - 1]]],
           writing <-
             [t \in Thread |->
               CASE pc[t] = "send" -> <<"filled", buffer[t]>>
                 [] pc[t] = "urgent" -> <<"filled_urgent", buffer[t]>>
                 [] pc[t] \in {"filled", "filled_urgent"} ->
                      <<pc[t], data[msg[t]]>>
                 [] OTHER -> <<>>],
           reading <-
             [t \in Thread |->
               CASE pc[t] = "taken" -> <<data[msg[t]]>>
                 [] pc[t] = "copied" -> <<buffer[t]>>
                 [] OTHER -> <<>>]

(* Messages are delivered once, in the order in which they were linked and *)
(* with the bytes that were sent, although rt_mq_send and rt_mq_recv copy  *)
(* them with the interrupts enabled.                                       *)
ImplementsChannel == Channel!Spec

(* A message and a suspended receiver do not stay together for good: the   *)
(* receivers that were resumed look, and are enough.                       *)
MessagesGetRead ==
    entry > 0 /\ receivers # <<>>
      ~> (entry = 0 \/ receivers = <<>> \/ kills > 0)
==============================================================================
