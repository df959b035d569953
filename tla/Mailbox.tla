------------------------------- MODULE Mailbox -------------------------------
(***************************************************************************)
(* The mailbox of the kernel (rt_mb_*, src/src/ipc.c): a ring of mails, a  *)
(* list of receivers that found it empty and one of senders that found it  *)
(* full.  A thread that is resumed is handed nothing: it tests the ring    *)
(* again in its loop, and another thread may have been there first.        *)
(*                                                                         *)
(* A section with the interrupts disabled is one action; a thread that is  *)
(* not suspended may always take the next step.                            *)
(***************************************************************************)
EXTENDS IpcList, FiniteSets

CONSTANTS Mail,       \* the values sent
          Size,       \* mb->size, the number of slots
          Flag,       \* FIFO or PRIO, the flag given to rt_mb_init
          Priority,   \* Priority[t], a smaller number is more urgent
          Timed,      \* threads that wait with a finite timeout
          Resetters,  \* threads that may call rt_mb_control(RESET)
          Detachers,  \* threads that may call rt_mb_detach or _delete
          Signalled,  \* threads to which others send signals
          MaxKills    \* bound on the signals sent

ASSUME ThreadAssumption == IsFiniteSet(Thread)
ASSUME KillAssumption == MaxKills \in Nat
ASSUME SizeAssumption == Size \in Nat \ {0}
ASSUME FlagAssumption == Flag \in {FIFO, PRIO}
ASSUME PriorityAssumption == Priority \in [Thread -> Nat]

VARIABLES msg_pool,    \* mb->msg_pool
          in_offset, out_offset, entry,
          receivers,   \* mb->parent.suspend_thread
          senders,     \* mb->suspend_sender_thread
          timer,       \* threads whose thread_timer is active
          error,       \* thread->error
          pc,          \* where a thread is in the kernel
          live,        \* not detached: its object is registered
          mail,        \* the value argument of rt_mb_send_wait
          left,        \* the timeout argument, as the call recomputes it
          kills        \* signals sent so far

ring == <<msg_pool, in_offset, out_offset, entry>>
vars == <<msg_pool, in_offset, out_offset, entry, receivers, senders,
          timer, error, pc, live, mail, left, kills>>

Errors == {"EOK", "ETIMEOUT", "ERROR", "EINTR"}

(* "sending", "receiving": suspended in the loop of the call, or resumed   *)
(* and not past rt_schedule.  The others are the steps of rt_mb_detach;    *)
(* "wild": it has taken the head of an empty list for a thread.            *)
Detaching == {"test_receivers", "take_receiver", "test_senders",
              "take_sender", "unregister", "wild"}
Locations == {"idle", "sending", "receiving"} \union Detaching

(* Types: the offsets stay inside the ring and the count within its size.  *)
TypeOK ==
    /\ msg_pool \in [0..(Size - 1) -> Mail]
    /\ in_offset \in 0..(Size - 1) /\ out_offset \in 0..(Size - 1)
    /\ entry \in 0..Size
    /\ receivers \in Seq(Thread) /\ senders \in Seq(Thread)
    /\ timer \subseteq Thread
    /\ error \in [Thread -> Errors]
    /\ pc \in [Thread -> Locations]
    /\ live \in BOOLEAN
    /\ mail \in [Thread -> Mail]
    /\ left \in [Thread -> {"none", "ticks", "forever"}]
    /\ kills \in 0..MaxKills

Init ==
    /\ msg_pool \in [0..(Size - 1) -> Mail]   \* not initialised by rt_mb_init
    /\ in_offset = 0 /\ out_offset = 0 /\ entry = 0
    /\ receivers = <<>> /\ senders = <<>>
    /\ timer = {}
    /\ error = [t \in Thread |-> "EOK"]
    /\ pc = [t \in Thread |-> "idle"]
    /\ live = TRUE
    /\ mail \in [Thread -> Mail]
    /\ left = [t \in Thread |-> "none"]
    /\ kills = 0

Suspended(t) == Linked(receivers, t) \/ Linked(senders, t)
Resumed(where) == {t \in Thread : pc[t] = where /\ ~Suspended(t)}

(* Those that will test the ring again. *)
Looking(where) == {t \in Resumed(where) : error[t] = "EOK"}

(* A recomputed timeout is cut to 0 when the ticks have run out.           *)
Recomputed(time) == IF time = "ticks" THEN {"ticks", "none"} ELSE {time}

TimeoutOf(t) == IF t \in Timed THEN {"none", "ticks"} ELSE {"none", "forever"}

------------------------------------------------------------------------------
NextOffset(offset) == IF offset + 1 >= Size THEN 0 ELSE offset + 1

(* Mutant: the mail is written after the offset has moved. *)
StoreAfterMove(v) == msg_pool' = [msg_pool EXCEPT ![NextOffset(in_offset)] = v]

Store(v) == msg_pool' = [msg_pool EXCEPT ![in_offset] = v]

(* Mutant: a receiver is resumed for the first mail only. *)
ResumeReceiverOfFirst ==
    IF receivers # <<>> /\ entry = 0
    THEN receivers' = Tail(receivers) /\ timer' = timer \ {Head(receivers)}
    ELSE UNCHANGED <<receivers, timer>>

(* The first waiter of the other side is resumed. *)
ResumeReceiver ==
    IF receivers # <<>>
    THEN receivers' = Tail(receivers) /\ timer' = timer \ {Head(receivers)}
    ELSE UNCHANGED <<receivers, timer>>

(* Mutant: a sender is resumed only when the mailbox becomes empty. *)
ResumeSenderOfLast ==
    IF senders # <<>> /\ entry = 1
    THEN senders' = Tail(senders) /\ timer' = timer \ {Head(senders)}
    ELSE UNCHANGED <<senders, timer>>

ResumeSender ==
    IF senders # <<>>
    THEN senders' = Tail(senders) /\ timer' = timer \ {Head(senders)}
    ELSE UNCHANGED <<senders, timer>>

Put(v) ==
    /\ Store(v)
    /\ in_offset' = NextOffset(in_offset)
    /\ entry' = entry + 1
    /\ ResumeReceiver
    /\ UNCHANGED <<out_offset, senders>>

Get ==
    /\ out_offset' = NextOffset(out_offset)
    /\ entry' = entry - 1
    /\ ResumeSender
    /\ UNCHANGED <<msg_pool, in_offset, receivers>>

Arm(t, time) == timer' = IF time = "ticks" THEN timer \union {t}
                                           ELSE timer \ {t}

(* rt_mb_send_wait, on entry.  A full mailbox and no time: -RT_EFULL, and  *)
(* nothing changes.                                                        *)
SendNow(t, v) ==
    /\ pc[t] = "idle" /\ live /\ entry # Size
    /\ Put(v)
    /\ UNCHANGED <<error, pc, live, mail, left, kills>>

SendSuspend(t, v, time) ==
    /\ pc[t] = "idle" /\ live /\ entry = Size /\ time # "none"
    /\ error' = [error EXCEPT ![t] = "EOK"]
    /\ senders' = Enqueue(senders, t, Flag, Priority)
    /\ Arm(t, time)
    /\ pc' = [pc EXCEPT ![t] = "sending"]
    /\ mail' = [mail EXCEPT ![t] = v]
    /\ left' = [left EXCEPT ![t] = time]
    /\ UNCHANGED <<ring, receivers, live, kills>>

(* The same loop once the sender is resumed. *)
SendFails(t) ==
    /\ t \in Resumed("sending") /\ error[t] # "EOK"
    /\ pc' = [pc EXCEPT ![t] = "idle"]
    /\ UNCHANGED <<ring, receivers, senders, timer, error, live, mail, left,
                   kills>>

SendRetry(t) ==
    /\ t \in Resumed("sending") /\ error[t] = "EOK"
    /\ UNCHANGED <<live, kills>>
    /\ IF entry # Size
       THEN /\ Put(mail[t])
            /\ pc' = [pc EXCEPT ![t] = "idle"]
            /\ UNCHANGED <<error, mail, left>>
       ELSE \E time \in Recomputed(left[t]) :
            /\ IF time = "none"
               THEN /\ pc' = [pc EXCEPT ![t] = "idle"]
                    /\ UNCHANGED <<senders, timer>>
               ELSE /\ senders' = Enqueue(senders, t, Flag, Priority)
                    /\ Arm(t, time)
                    /\ UNCHANGED pc
            /\ left' = [left EXCEPT ![t] = time]
            /\ UNCHANGED <<ring, receivers, error, mail>>

(* rt_mb_recv, on entry.  An empty mailbox and no time: -RT_ETIMEOUT, and  *)
(* nothing changes.                                                        *)
RecvNow(t) ==
    /\ pc[t] = "idle" /\ live /\ entry # 0
    /\ Get
    /\ UNCHANGED <<error, pc, live, mail, left, kills>>

RecvSuspend(t, time) ==
    /\ pc[t] = "idle" /\ live /\ entry = 0 /\ time # "none"
    /\ error' = [error EXCEPT ![t] = "EOK"]
    /\ receivers' = Enqueue(receivers, t, Flag, Priority)
    /\ Arm(t, time)
    /\ pc' = [pc EXCEPT ![t] = "receiving"]
    /\ left' = [left EXCEPT ![t] = time]
    /\ UNCHANGED <<ring, senders, live, mail, kills>>

RecvFails(t) ==
    /\ t \in Resumed("receiving") /\ error[t] # "EOK"
    /\ pc' = [pc EXCEPT ![t] = "idle"]
    /\ UNCHANGED <<ring, receivers, senders, timer, error, live, mail, left,
                   kills>>

RecvRetry(t) ==
    /\ t \in Resumed("receiving") /\ error[t] = "EOK"
    /\ UNCHANGED <<live, kills>>
    /\ IF entry # 0
       THEN /\ Get
            /\ pc' = [pc EXCEPT ![t] = "idle"]
            /\ UNCHANGED <<error, mail, left>>
       ELSE \E time \in Recomputed(left[t]) :
            /\ IF time = "none"
               THEN /\ pc' = [pc EXCEPT ![t] = "idle"]
                    /\ error' = [error EXCEPT ![t] = "ETIMEOUT"]
                    /\ UNCHANGED <<receivers, timer>>
               ELSE /\ receivers' = Enqueue(receivers, t, Flag, Priority)
                    /\ Arm(t, time)
                    /\ UNCHANGED <<pc, error>>
            /\ left' = [left EXCEPT ![t] = time]
            /\ UNCHANGED <<ring, senders, mail>>

------------------------------------------------------------------------------
UnlinkWaiter(t) ==
    /\ receivers' = Unlink(receivers, t)
    /\ senders' = Unlink(senders, t)
    /\ timer' = timer \ {t}

(* rt_thread_timeout, from the tick interrupt. *)
Timeout(t) ==
    /\ t \in timer
    /\ UnlinkWaiter(t)
    /\ error' = [error EXCEPT ![t] = "ETIMEOUT"]
    /\ UNCHANGED <<ring, pc, live, mail, left, kills>>

(* rt_thread_kill on a thread inside the call; see module Semaphore.       *)
Signal(t) ==
    /\ t \in Signalled /\ pc[t] \in {"sending", "receiving"}
    /\ kills < MaxKills /\ kills' = kills + 1
    /\ \E e \in IF Suspended(t) THEN {error[t], "EINTR"} ELSE {"EINTR"} :
          error' = [error EXCEPT ![t] = e]
    /\ UnlinkWaiter(t)
    /\ UNCHANGED <<ring, pc, live, mail, left>>

(* Mutant: the offset of the writer stays. *)
ResetKeepsOffset(t) ==
    /\ pc[t] = "idle" /\ t \in Resetters /\ live
    /\ error' = [u \in Thread |-> IF Suspended(u) THEN "ERROR" ELSE error[u]]
    /\ timer' = {u \in timer : ~Suspended(u)}
    /\ receivers' = <<>> /\ senders' = <<>>
    /\ entry' = 0 /\ out_offset' = 0
    /\ UNCHANGED <<msg_pool, in_offset, pc, live, mail, left, kills>>

(* rt_mb_control(RT_IPC_CMD_RESET). *)
Reset(t) ==
    /\ pc[t] = "idle" /\ t \in Resetters /\ live
    /\ error' = [u \in Thread |-> IF Suspended(u) THEN "ERROR" ELSE error[u]]
    /\ timer' = {u \in timer : ~Suspended(u)}
    /\ receivers' = <<>> /\ senders' = <<>>
    /\ entry' = 0 /\ in_offset' = 0 /\ out_offset' = 0
    /\ UNCHANGED <<msg_pool, pc, live, mail, left, kills>>

(* rt_mb_detach and rt_mb_delete: rt_ipc_list_resume_all on the receivers, *)
(* then on the senders; its loop tests each list with the interrupts       *)
(* enabled.  The ring is left as it is, for those still in their loop.     *)
DetachBegin(t) ==
    /\ pc[t] = "idle" /\ t \in Detachers /\ live
    /\ \A u \in Thread : pc[u] \notin Detaching
    /\ pc' = [pc EXCEPT ![t] = "test_receivers"]
    /\ UNCHANGED <<ring, receivers, senders, timer, error, live, mail, left,
                   kills>>

ResumeAllTest(t) ==
    /\ pc[t] \in {"test_receivers", "test_senders"}
    /\ pc' = [pc EXCEPT ![t] =
                IF pc[t] = "test_receivers"
                THEN IF receivers = <<>> THEN "test_senders"
                                         ELSE "take_receiver"
                ELSE IF senders = <<>> THEN "unregister" ELSE "take_sender"]
    /\ UNCHANGED <<ring, receivers, senders, timer, error, live, mail, left,
                   kills>>

ResumeAllTake(t) ==
    LET list == IF pc[t] = "take_receiver" THEN receivers ELSE senders
    IN  /\ pc[t] \in {"take_receiver", "take_sender"}
        /\ IF list = <<>>
           THEN /\ pc' = [pc EXCEPT ![t] = "wild"]
                /\ UNCHANGED <<receivers, senders, timer, error>>
           ELSE /\ error' = [error EXCEPT ![Head(list)] = "ERROR"]
                /\ UnlinkWaiter(Head(list))
                /\ pc' = [pc EXCEPT ![t] = IF pc[t] = "take_receiver"
                                           THEN "test_receivers"
                                           ELSE "test_senders"]
        /\ UNCHANGED <<ring, live, mail, left, kills>>

(* rt_object_detach: from now on no call passes the test of the type.      *)
Unregister(t) ==
    /\ pc[t] = "unregister"
    /\ live' = FALSE
    /\ pc' = [pc EXCEPT ![t] = "idle"]
    /\ UNCHANGED <<ring, receivers, senders, timer, error, mail, left, kills>>

------------------------------------------------------------------------------
(* The steps of a thread inside a call. *)
CallStep(t) == \/ SendFails(t) \/ SendRetry(t)
               \/ RecvFails(t) \/ RecvRetry(t)
               \/ ResumeAllTest(t) \/ ResumeAllTake(t) \/ Unregister(t)

Next ==
    \E t \in Thread :
       \/ \E v \in Mail : SendNow(t, v)
       \/ \E v \in Mail, time \in TimeoutOf(t) : SendSuspend(t, v, time)
       \/ RecvNow(t)
       \/ \E time \in TimeoutOf(t) : RecvSuspend(t, time)
       \/ DetachBegin(t)
       \/ CallStep(t)
       \/ Timeout(t)
       \/ Signal(t)
       \/ Reset(t)

Spec == Init /\ [][Next]_vars

(* A ready thread is run in the end and the tick interrupt never stops.    *)
Fairness == \A t \in Thread : WF_vars(CallStep(t)) /\ WF_vars(Timeout(t))
FairSpec == Spec /\ Fairness

------------------------------------------------------------------------------
(* The offsets agree with the count, through every wrap and reset: the     *)
(* next mail is written just after the last one not yet read.              *)
RingConsistent == in_offset = (out_offset + entry) % Size

(* No mail waits beside a suspended receiver unless as many receivers have *)
(* been resumed and will look: every send wakes somebody for its mail even *)
(* when another thread overtakes.  The same for free slots and senders.  A *)
(* signal to a thread that was resumed can strand one mail or one slot.    *)
NoStrandedWaiter ==
    /\ receivers # <<>> =>
          entry <= Cardinality(Looking("receiving")) + kills
    /\ senders # <<>> =>
          Size - entry <= Cardinality(Looking("sending")) + kills

(* The thread timer never outlives the wait it guards (the assertion of    *)
(* rt_thread_timeout), and a thread is linked at most once.                *)
TimerGuardsWait ==
    /\ \A t \in timer : Suspended(t)
    /\ Once(receivers \o senders)

(* The ring, the lists and the timers agree after every section of every   *)
(* call, timeout, signal and reset.                                        *)
BoxConsistent == TypeOK /\ RingConsistent /\ TimerGuardsWait

(* The mails stored, oldest first. *)
Fifo == INSTANCE BoundedFifo
          WITH queue <- [i \in 1..entry |->
                           msg_pool[(out_offset + i - 1) % Size]]

(* The ring of rt_mb_send_wait, rt_mb_recv and rt_mb_control behaves as a  *)
(* bounded queue of mails.                                                 *)
ImplementsFifo == Fifo!Spec

(* Mails to read and a suspended receiver do not stay together for good:   *)
(* the receivers that were resumed look, and are enough.                   *)
MailsGetRead ==
    entry > 0 /\ receivers # <<>>
      ~> (entry = 0 \/ receivers = <<>> \/ kills > 0)
==============================================================================
