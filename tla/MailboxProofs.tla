----------------------------- MODULE MailboxProofs -----------------------------
(***************************************************************************)
(* Theorems about module Mailbox, for every set of threads and mails,      *)
(* every size of the ring and every choice of who waits with a timeout,    *)
(* resets, detaches and is signalled.                                      *)
(***************************************************************************)
EXTENDS Mailbox, IpcListProofs

(* The offset that follows another one, and the place of an entry, in      *)
(* terms of the rest: the ring wraps at most once.                         *)
LEMMA RingWrap ==
  ASSUME NEW x \in Nat, x < Size + Size
  PROVE  x % Size = IF x < Size THEN x ELSE x - Size
BY SizeAssumption

(* The offsets stay inside the ring. *)
LEMMA NextOffsetInside ==
  ASSUME NEW o \in 0..(Size - 1)
  PROVE  /\ NextOffset(o) \in 0..(Size - 1)
         /\ NextOffset(o) = IF o + 1 = Size THEN 0 ELSE o + 1
BY SizeAssumption DEF NextOffset

(* The head of a list is a thread and the rest is a list.                  *)
LEMMA ListTypes ==
  ASSUME NEW list \in Seq(Thread)
  PROVE  /\ list # <<>> => Head(list) \in Thread /\ Tail(list) \in Seq(Thread)
         /\ \A t \in Thread :
              /\ Unlink(list, t) \in Seq(Thread)
              /\ Enqueue(list, t, Flag, Priority) \in Seq(Thread)
<1>1. ASSUME NEW t \in Thread
      PROVE  /\ Unlink(list, t) \in Seq(Thread)
             /\ Enqueue(list, t, Flag, Priority) \in Seq(Thread)
  BY PriorityAssumption, UnlinkProperties, EnqueueElements
<1> QED
  BY <1>1

(* What a send and a receive leave in the ring and in the lists.           *)
LEMMA PutTypes ==
  ASSUME TypeOK, NEW v \in Mail, entry # Size, Put(v)
  PROVE  /\ msg_pool' \in [0..(Size - 1) -> Mail]
         /\ in_offset' \in 0..(Size - 1) /\ out_offset' \in 0..(Size - 1)
         /\ entry' \in 0..Size
         /\ receivers' \in Seq(Thread) /\ senders' \in Seq(Thread)
         /\ timer' \subseteq Thread
<1>1. receivers' \in Seq(Thread) /\ timer' \subseteq Thread
  BY ListTypes DEF TypeOK, Put, ResumeReceiver
<1>2. in_offset' \in 0..(Size - 1) /\ out_offset' \in 0..(Size - 1)
  BY NextOffsetInside DEF TypeOK, Put
<1>3. entry' \in 0..Size
  BY SizeAssumption DEF TypeOK, Put
<1> QED
  BY <1>1, <1>2, <1>3 DEF TypeOK, Put, Store

(* The same for a receive. *)
LEMMA GetTypes ==
  ASSUME TypeOK, entry # 0, Get
  PROVE  /\ msg_pool' \in [0..(Size - 1) -> Mail]
         /\ in_offset' \in 0..(Size - 1) /\ out_offset' \in 0..(Size - 1)
         /\ entry' \in 0..Size
         /\ receivers' \in Seq(Thread) /\ senders' \in Seq(Thread)
         /\ timer' \subseteq Thread
<1>1. senders' \in Seq(Thread) /\ timer' \subseteq Thread
  BY ListTypes DEF TypeOK, Get, ResumeSender
<1>2. in_offset' \in 0..(Size - 1) /\ out_offset' \in 0..(Size - 1)
  BY NextOffsetInside DEF TypeOK, Get
<1>3. entry' \in 0..Size
  BY SizeAssumption DEF TypeOK, Get
<1> QED
  BY <1>1, <1>2, <1>3 DEF TypeOK, Get

(* Every step keeps the types: no offset leaves the ring and the count     *)
(* never passes the size of it.                                            *)
LEMMA NextTypeOK == TypeOK /\ [Next]_vars => TypeOK'
<1> SUFFICES ASSUME TypeOK, [Next]_vars PROVE TypeOK'
  OBVIOUS
<1> USE DEF ring
<1>1. ASSUME NEW t \in Thread, NEW v \in Mail, SendNow(t, v)
      PROVE  TypeOK'
  BY <1>1, PutTypes DEF SendNow, TypeOK
<1>2. ASSUME NEW t \in Thread, NEW v \in Mail, NEW time \in TimeoutOf(t),
             SendSuspend(t, v, time)
      PROVE  TypeOK'
  <2>1. senders' \in Seq(Thread) /\ timer' \subseteq Thread
    BY <1>2, ListTypes DEF TypeOK, SendSuspend, Arm
  <2>2. time \in {"none", "ticks", "forever"}
    BY DEF TimeoutOf
  <2> QED
    BY <1>2, <2>1, <2>2 DEF SendSuspend, TypeOK, Locations, Errors
<1>3. ASSUME NEW t \in Thread, SendFails(t) \/ RecvFails(t)
      PROVE  TypeOK'
  BY <1>3 DEF SendFails, RecvFails, TypeOK, Locations
<1>4. ASSUME NEW t \in Thread, SendRetry(t) PROVE TypeOK'
  <2>1. CASE entry # Size
    <3>1. mail[t] \in Mail /\ Put(mail[t])
      BY <1>4, <2>1 DEF SendRetry, TypeOK
    <3> QED
      BY <1>4, <2>1, <3>1, PutTypes DEF SendRetry, TypeOK, Locations
  <2>2. CASE entry = Size
    <3>1. PICK time \in Recomputed(left[t]) :
            /\ IF time = "none"
               THEN /\ pc' = [pc EXCEPT ![t] = "idle"]
                    /\ UNCHANGED <<senders, timer>>
               ELSE /\ senders' = Enqueue(senders, t, Flag, Priority)
                    /\ Arm(t, time)
                    /\ UNCHANGED pc
            /\ left' = [left EXCEPT ![t] = time]
            /\ UNCHANGED <<ring, receivers, error, mail>>
      BY <1>4, <2>2 DEF SendRetry
    <3>2. senders' \in Seq(Thread) /\ timer' \subseteq Thread
      BY <3>1, ListTypes DEF TypeOK, Arm
    <3>3. time \in {"none", "ticks", "forever"}
      BY DEF TypeOK, Recomputed
    <3> QED
      BY <1>4, <3>1, <3>2, <3>3 DEF SendRetry, TypeOK, Locations
  <2> QED
    BY <2>1, <2>2
<1>5. ASSUME NEW t \in Thread, RecvNow(t) PROVE TypeOK'
  BY <1>5, GetTypes DEF RecvNow, TypeOK
<1>6. ASSUME NEW t \in Thread, NEW time \in TimeoutOf(t), RecvSuspend(t, time)
      PROVE  TypeOK'
  <2>1. receivers' \in Seq(Thread) /\ timer' \subseteq Thread
    BY <1>6, ListTypes DEF TypeOK, RecvSuspend, Arm
  <2>2. time \in {"none", "ticks", "forever"}
    BY DEF TimeoutOf
  <2> QED
    BY <1>6, <2>1, <2>2 DEF RecvSuspend, TypeOK, Locations, Errors
<1>7. ASSUME NEW t \in Thread, RecvRetry(t) PROVE TypeOK'
  <2>1. CASE entry # 0
    BY <1>7, <2>1, GetTypes DEF RecvRetry, TypeOK, Locations
  <2>2. CASE entry = 0
    <3>1. PICK time \in Recomputed(left[t]) :
            /\ IF time = "none"
               THEN /\ pc' = [pc EXCEPT ![t] = "idle"]
                    /\ error' = [error EXCEPT ![t] = "ETIMEOUT"]
                    /\ UNCHANGED <<receivers, timer>>
               ELSE /\ receivers' = Enqueue(receivers, t, Flag, Priority)
                    /\ Arm(t, time)
                    /\ UNCHANGED <<pc, error>>
            /\ left' = [left EXCEPT ![t] = time]
            /\ UNCHANGED <<ring, senders, mail>>
      BY <1>7, <2>2 DEF RecvRetry
    <3>2. receivers' \in Seq(Thread) /\ timer' \subseteq Thread
      BY <3>1, ListTypes DEF TypeOK, Arm
    <3>3. time \in {"none", "ticks", "forever"}
      BY DEF TypeOK, Recomputed
    <3> QED
      BY <1>7, <3>1, <3>2, <3>3 DEF RecvRetry, TypeOK, Locations, Errors
  <2> QED
    BY <2>1, <2>2
<1>8. ASSUME NEW t \in Thread, Timeout(t) PROVE TypeOK'
  BY <1>8, ListTypes DEF Timeout, UnlinkWaiter, TypeOK, Errors
<1>9. ASSUME NEW t \in Thread, Signal(t) PROVE TypeOK'
  <2>1. error' \in [Thread -> Errors]
    BY <1>9 DEF Signal, TypeOK, Errors
  <2>2. kills' \in 0..MaxKills
    BY <1>9, KillAssumption DEF Signal, TypeOK
  <2> QED
    BY <1>9, <2>1, <2>2, ListTypes DEF Signal, UnlinkWaiter, TypeOK
<1>10. ASSUME NEW t \in Thread, Reset(t) PROVE TypeOK'
  <2>1. error' \in [Thread -> Errors] /\ <<>> \in Seq(Thread)
    BY <1>10 DEF Reset, TypeOK, Errors
  <2>2. 0 \in 0..(Size - 1) /\ 0 \in 0..Size
    BY SizeAssumption
  <2> QED
    BY <1>10, <2>1, <2>2 DEF Reset, TypeOK
<1>11. ASSUME NEW t \in Thread,
              DetachBegin(t) \/ ResumeAllTest(t) \/ Unregister(t)
       PROVE  TypeOK'
  BY <1>11 DEF DetachBegin, ResumeAllTest, Unregister, TypeOK, Locations,
               Detaching
<1>12. ASSUME NEW t \in Thread, ResumeAllTake(t) PROVE TypeOK'
  <2>1. PICK list \in {receivers, senders} :
           IF list = <<>>
           THEN /\ pc' = [pc EXCEPT ![t] = "wild"]
                /\ UNCHANGED <<receivers, senders, timer, error>>
           ELSE /\ error' = [error EXCEPT ![Head(list)] = "ERROR"]
                /\ UnlinkWaiter(Head(list))
                /\ \E l \in Detaching : pc' = [pc EXCEPT ![t] = l]
    BY <1>12 DEF ResumeAllTake, Detaching
  <2>2. CASE list = <<>>
    BY <1>12, <2>1, <2>2 DEF ResumeAllTake, TypeOK, Locations, Detaching
  <2>3. CASE list # <<>>
    <3>1. PICK w \in Thread : w = Head(list)
      BY <2>3, ListTypes DEF TypeOK
    <3>2. /\ Unlink(receivers, w) \in Seq(Thread)
          /\ Unlink(senders, w) \in Seq(Thread)
      BY ListTypes DEF TypeOK
    <3>3. /\ receivers' \in Seq(Thread) /\ senders' \in Seq(Thread)
          /\ timer' \subseteq Thread
      BY <2>1, <2>3, <3>1, <3>2 DEF UnlinkWaiter, TypeOK
    <3>4. pc' \in [Thread -> Locations] /\ error' \in [Thread -> Errors]
      BY <2>1, <2>3, <3>1 DEF TypeOK, Locations, Errors
    <3> QED
      BY <1>12, <3>3, <3>4 DEF ResumeAllTake, TypeOK
  <2> QED
    BY <2>2, <2>3
<1>13. CASE UNCHANGED vars
  BY <1>13 DEF vars, TypeOK
<1> QED
  BY <1>1, <1>2, <1>3, <1>4, <1>5, <1>6, <1>7, <1>8, <1>9, <1>10, <1>11,
     <1>12, <1>13 DEF Next, CallStep

(* Types of the initial states. *)
LEMMA InitTypeOK == Init => TypeOK
BY SizeAssumption, KillAssumption
   DEF Init, TypeOK, Errors, Locations

------------------------------------------------------------------------------
(* What a step does to the ring: it sends one mail, receives one, empties  *)
(* the ring or leaves it alone.                                            *)
LEMMA RingSteps ==
  ASSUME TypeOK, [Next]_vars
  PROVE  \/ \E v \in Mail : entry # Size /\ Put(v)
         \/ entry # 0 /\ Get
         \/ entry' = 0 /\ in_offset' = 0 /\ out_offset' = 0
         \/ UNCHANGED ring
<1>1. ASSUME NEW t \in Thread, SendRetry(t), entry # Size
      PROVE  \E v \in Mail : entry # Size /\ Put(v)
  BY <1>1 DEF SendRetry, TypeOK
<1>2. ASSUME NEW t \in Thread, SendRetry(t), entry = Size
      PROVE  UNCHANGED ring
  BY <1>2 DEF SendRetry
<1>3. ASSUME NEW t \in Thread, RecvRetry(t)
      PROVE  (entry # 0 /\ Get) \/ UNCHANGED ring
  BY <1>3 DEF RecvRetry
<1>4. ASSUME NEW t \in Thread, Reset(t)
      PROVE  entry' = 0 /\ in_offset' = 0 /\ out_offset' = 0
  BY <1>4 DEF Reset
<1>5. ASSUME NEW t \in Thread,
             SendFails(t) \/ RecvFails(t) \/ DetachBegin(t) \/ ResumeAllTest(t)
               \/ ResumeAllTake(t) \/ Unregister(t) \/ Timeout(t) \/ Signal(t)
      PROVE  UNCHANGED ring
  BY <1>5 DEF SendFails, RecvFails, DetachBegin, ResumeAllTest, ResumeAllTake,
              Unregister, Timeout, Signal
<1>6. ASSUME NEW t \in Thread, NEW v \in Mail, NEW time \in TimeoutOf(t),
             SendSuspend(t, v, time)
      PROVE  UNCHANGED ring
  BY <1>6 DEF SendSuspend
<1>7. CASE UNCHANGED vars
  BY <1>7 DEF vars, ring
<1>8. ASSUME NEW t \in Thread, NEW v \in Mail, SendNow(t, v)
      PROVE  entry # Size /\ Put(v)
  BY <1>8 DEF SendNow
<1>9. ASSUME NEW t \in Thread, RecvNow(t)
      PROVE  entry # 0 /\ Get
  BY <1>9 DEF RecvNow
<1>10. ASSUME NEW t \in Thread, NEW time \in TimeoutOf(t), RecvSuspend(t, time)
       PROVE  UNCHANGED ring
  BY <1>10 DEF RecvSuspend
<1> QED
  BY <1>1, <1>2, <1>3, <1>4, <1>5, <1>6, <1>7, <1>8, <1>9, <1>10
     DEF Next, CallStep

(* The offset of the writer stays where the count says, through every wrap *)
(* of either offset and through a reset.                                   *)
LEMMA NextRingConsistent ==
  ASSUME TypeOK, RingConsistent, [Next]_vars
  PROVE  RingConsistent'
<1> USE DEF RingConsistent
<1>1. /\ Size \in Nat \ {0} /\ entry \in 0..Size
      /\ in_offset \in 0..(Size - 1) /\ out_offset \in 0..(Size - 1)
  BY SizeAssumption DEF TypeOK
<1>2. in_offset = IF out_offset + entry < Size THEN out_offset + entry
                  ELSE out_offset + entry - Size
  BY <1>1, RingWrap
<1>3. ASSUME NEW v \in Mail, entry # Size, Put(v)
      PROVE  in_offset' = (out_offset' + entry') % Size
  <2>1. /\ out_offset' = out_offset /\ entry' = entry + 1
        /\ in_offset' = IF in_offset + 1 = Size THEN 0 ELSE in_offset + 1
    BY <1>3, <1>1, NextOffsetInside DEF Put
  <2>2. (out_offset + (entry + 1)) % Size =
           IF out_offset + (entry + 1) < Size THEN out_offset + (entry + 1)
           ELSE out_offset + (entry + 1) - Size
    BY <1>1, <1>3, RingWrap
  <2> QED
    BY <1>1, <1>2, <1>3, <2>1, <2>2
<1>4. ASSUME entry # 0, Get
      PROVE  in_offset' = (out_offset' + entry') % Size
  <2> DEFINE out == IF out_offset + 1 = Size THEN 0 ELSE out_offset + 1
  <2>1. in_offset' = in_offset /\ entry' = entry - 1 /\ out_offset' = out
    BY <1>4, <1>1, NextOffsetInside DEF Get
  <2>2. (out + (entry - 1)) % Size =
           IF out + (entry - 1) < Size THEN out + (entry - 1)
           ELSE out + (entry - 1) - Size
    BY <1>1, <1>4, RingWrap
  <2> QED
    BY <1>1, <1>2, <1>4, <2>1, <2>2
<1>5. CASE entry' = 0 /\ in_offset' = 0 /\ out_offset' = 0
  BY <1>1, <1>5, RingWrap
<1>6. CASE UNCHANGED ring
  BY <1>6 DEF ring
<1> QED
  BY <1>3, <1>4, <1>5, <1>6, RingSteps

------------------------------------------------------------------------------
(* What being on a list means: the thread is in the loop of that call and  *)
(* has no error yet.                                                       *)
Receives(t) == pc[t] = "receiving" /\ error[t] = "EOK"
Sends(t) == pc[t] = "sending" /\ error[t] = "EOK"

(* The inductive invariant of the two lists. *)
WaitInv ==
    /\ TypeOK
    /\ \A t \in timer : Suspended(t)
    /\ Once(receivers) /\ Once(senders)
    /\ \A t \in Thread : Linked(receivers, t) => Receives(t)
    /\ \A t \in Thread : Linked(senders, t) => Sends(t)

(* No thread is on both lists, so their concatenation has it once.         *)
LEMMA WaitInvGuards == WaitInv => TimerGuardsWait
<1> SUFFICES ASSUME WaitInv PROVE Once(receivers \o senders)
  BY DEF WaitInv, TimerGuardsWait
<1> DEFINE a == receivers
           b == senders
           n == Len(a)
<1>1. a \in Seq(Thread) /\ b \in Seq(Thread) /\ n \in Nat /\ Len(b) \in Nat
  BY LenProperties DEF WaitInv, TypeOK
<1>2. ASSUME NEW i \in 1..n, NEW j \in 1..Len(b) PROVE a[i] # b[j]
  <2>1. a[i] \in Thread /\ b[j] \in Thread
    BY <1>1, ElementOfSeq
  <2>2. Linked(receivers, a[i]) /\ Linked(senders, b[j])
    BY DEF Linked
  <2> QED
    BY <2>1, <2>2 DEF WaitInv, Receives, Sends
<1>3. /\ \A i, j \in 1..n : a[i] = a[j] => i = j
      /\ \A i, j \in 1..Len(b) : b[i] = b[j] => i = j
  BY DEF WaitInv, Once
<1>4. /\ Len(a \o b) = n + Len(b)
      /\ \A i \in 1..(n + Len(b)) :
           (a \o b)[i] = IF i <= n THEN a[i] ELSE b[i - n]
  BY <1>1, ConcatProperties
<1> HIDE DEF a, b, n
<1>5. ASSUME NEW i \in 1..(n + Len(b)), NEW j \in 1..(n + Len(b)),
             (a \o b)[i] = (a \o b)[j]
      PROVE  i = j
  <2>1. CASE i <= n /\ j <= n
    <3>1. i \in 1..n /\ j \in 1..n
      BY <1>1, <2>1
    <3> QED
      BY <1>3, <1>4, <1>5, <2>1, <3>1
  <2>2. CASE i > n /\ j > n
    <3>1. i - n \in 1..Len(b) /\ j - n \in 1..Len(b)
      BY <1>1, <2>2
    <3>2. b[i - n] = b[j - n]
      BY <1>1, <1>4, <1>5, <2>2
    <3>3. i - n = j - n
      BY <1>3, <3>1, <3>2
    <3> QED
      BY <1>1, <3>3
  <2>3. CASE i <= n /\ j > n
    <3>1. i \in 1..n /\ j - n \in 1..Len(b)
      BY <1>1, <2>3
    <3> QED
      BY <1>1, <1>2, <1>4, <1>5, <2>3, <3>1
  <2>4. CASE i > n /\ j <= n
    <3>1. j \in 1..n /\ i - n \in 1..Len(b)
      BY <1>1, <2>4
    <3> QED
      BY <1>1, <1>2, <1>4, <1>5, <2>4, <3>1
  <2> QED
    BY <1>1, <2>1, <2>2, <2>3, <2>4
<1> QED
  BY <1>4, <1>5 DEF Once, a, b

(* The steps that take threads off the lists, and their timers with them,  *)
(* and leave those that stay where they were.                              *)
LEMMA Waking ==
  ASSUME WaitInv, TypeOK', NEW gone \in SUBSET Thread,
         Once(receivers'), Once(senders'),
         \A u \in Thread :
            /\ Linked(receivers', u) <=> (Linked(receivers, u) /\ u \notin gone)
            /\ Linked(senders', u) <=> (Linked(senders, u) /\ u \notin gone),
         timer' \subseteq timer \ gone,
         \A u \in Thread :
            Suspended(u) /\ u \notin gone => /\ pc'[u] = pc[u]
                                             /\ error'[u] = error[u]
  PROVE  WaitInv'
<1>1. \A u \in Thread : Suspended(u)' <=> (Suspended(u) /\ u \notin gone)
  BY DEF Suspended
<1>2. \A u \in timer' : u \in Thread /\ Suspended(u)'
  BY <1>1 DEF WaitInv, TypeOK
<1>3. /\ \A u \in Thread : Linked(receivers', u) => Receives(u)'
      /\ \A u \in Thread : Linked(senders', u) => Sends(u)'
  BY DEF WaitInv, Suspended, Receives, Sends
<1> QED
  BY <1>2, <1>3 DEF WaitInv

(* A thread that is on neither list enqueues on the receivers, ...         *)
LEMMA Receiving ==
  ASSUME WaitInv, TypeOK', NEW t \in Thread, ~Suspended(t),
         receivers' = Enqueue(receivers, t, Flag, Priority),
         senders' = senders, timer' \subseteq timer \union {t},
         Receives(t)',
         \A u \in Thread : u # t => pc'[u] = pc[u] /\ error'[u] = error[u]
  PROVE  WaitInv'
<1>1. /\ Once(receivers')
      /\ \A u : Linked(receivers', u) <=> (Linked(receivers, u) \/ u = t)
  BY EnqueueLinked, PriorityAssumption DEF WaitInv, TypeOK, Suspended
<1>2. \A u \in timer' : Suspended(u)'
  BY <1>1 DEF WaitInv, TypeOK, Suspended
<1>3. \A u \in Thread : Linked(receivers', u) => Receives(u)'
  BY <1>1 DEF WaitInv, Receives
<1>4. \A u \in Thread : Linked(senders', u) => Sends(u)'
  BY DEF WaitInv, Sends, Suspended
<1> QED
  BY <1>1, <1>2, <1>3, <1>4 DEF WaitInv

(* ... or on the senders.                                                  *)
LEMMA Sending ==
  ASSUME WaitInv, TypeOK', NEW t \in Thread, ~Suspended(t),
         senders' = Enqueue(senders, t, Flag, Priority),
         receivers' = receivers, timer' \subseteq timer \union {t},
         Sends(t)',
         \A u \in Thread : u # t => pc'[u] = pc[u] /\ error'[u] = error[u]
  PROVE  WaitInv'
<1>1. /\ Once(senders')
      /\ \A u : Linked(senders', u) <=> (Linked(senders, u) \/ u = t)
  BY EnqueueLinked, PriorityAssumption DEF WaitInv, TypeOK, Suspended
<1>2. \A u \in timer' : Suspended(u)'
  BY <1>1 DEF WaitInv, TypeOK, Suspended
<1>3. \A u \in Thread : Linked(senders', u) => Sends(u)'
  BY <1>1 DEF WaitInv, Sends
<1>4. \A u \in Thread : Linked(receivers', u) => Receives(u)'
  BY DEF WaitInv, Receives, Suspended
<1> QED
  BY <1>1, <1>2, <1>3, <1>4 DEF WaitInv

(* A thread that has left the loop or has not entered it is on no list.    *)
LEMMA OthersAreOffTheLists ==
  ASSUME WaitInv
  PROVE  /\ \A t \in Thread :
              pc[t] \notin {"sending", "receiving"} => ~Suspended(t)
         /\ \A t \in Thread : Linked(receivers, t) => ~Linked(senders, t)
         /\ \A t \in Thread : Suspended(t) => error[t] = "EOK"
BY DEF WaitInv, Suspended, Receives, Sends

(* The head of a list leaves it; it is not on the other one.               *)
LEMMA HeadLeaves ==
  ASSUME WaitInv
  PROVE  /\ receivers # <<>> =>
              \E w \in Thread :
                 /\ w = Head(receivers)
                 /\ Linked(receivers, w) /\ ~Linked(senders, w)
                 /\ Once(Tail(receivers))
                 /\ \A u : Linked(Tail(receivers), u)
                             <=> (Linked(receivers, u) /\ u # w)
         /\ senders # <<>> =>
              \E w \in Thread :
                 /\ w = Head(senders)
                 /\ Linked(senders, w) /\ ~Linked(receivers, w)
                 /\ Once(Tail(senders))
                 /\ \A u : Linked(Tail(senders), u)
                             <=> (Linked(senders, u) /\ u # w)
<1>1. CASE receivers # <<>>
  BY <1>1, TailProperties, PriorityAssumption, OthersAreOffTheLists
     DEF WaitInv, TypeOK
<1>2. CASE senders # <<>>
  BY <1>2, TailProperties, PriorityAssumption, OthersAreOffTheLists
     DEF WaitInv, TypeOK
<1> QED
  BY <1>1, <1>2

(* A thread is unlinked wherever it is. *)
LEMMA OneLeaves ==
  ASSUME WaitInv, NEW t \in Thread
  PROVE  /\ Once(Unlink(receivers, t)) /\ Once(Unlink(senders, t))
         /\ \A u : Linked(Unlink(receivers, t), u)
                     <=> (Linked(receivers, u) /\ u # t)
         /\ \A u : Linked(Unlink(senders, t), u)
                     <=> (Linked(senders, u) /\ u # t)
<1>1. receivers \in Seq(Thread) /\ senders \in Seq(Thread)
  BY DEF WaitInv, TypeOK
<1>2. Once(receivers) /\ Once(senders)
  BY DEF WaitInv
<1> QED
  BY <1>1, <1>2, UnlinkProperties, PriorityAssumption

(* A send by a thread that is not suspended. *)
LEMMA PutWaits ==
  ASSUME WaitInv, TypeOK', NEW v \in Mail, Put(v), error' = error,
         \A u \in Thread : Suspended(u) => pc'[u] = pc[u]
  PROVE  WaitInv'
<1>1. CASE receivers = <<>>
  <2>1. receivers' = receivers /\ senders' = senders /\ timer' = timer
    BY <1>1 DEF Put, ResumeReceiver
  <2> QED
    BY <2>1, Waking, {} \in SUBSET Thread DEF WaitInv
<1>2. CASE receivers # <<>>
  <2>1. PICK w \in Thread :
           /\ w = Head(receivers)
           /\ Linked(receivers, w) /\ ~Linked(senders, w)
           /\ Once(Tail(receivers))
           /\ \A u : Linked(Tail(receivers), u)
                       <=> (Linked(receivers, u) /\ u # w)
    BY <1>2, HeadLeaves
  <2>2. /\ receivers' = Tail(receivers) /\ senders' = senders
        /\ timer' = timer \ {w}
    BY <1>2, <2>1 DEF Put, ResumeReceiver
  <2>3. Once(senders')
    BY <2>2 DEF WaitInv
  <2> QED
    BY <2>1, <2>2, <2>3, Waking, {w} \in SUBSET Thread
<1> QED
  BY <1>1, <1>2

(* A receive by a thread that is not suspended. *)
LEMMA GetWaits ==
  ASSUME WaitInv, TypeOK', Get, error' = error,
         \A u \in Thread : Suspended(u) => pc'[u] = pc[u]
  PROVE  WaitInv'
<1>1. CASE senders = <<>>
  <2>1. receivers' = receivers /\ senders' = senders /\ timer' = timer
    BY <1>1 DEF Get, ResumeSender
  <2> QED
    BY <2>1, Waking, {} \in SUBSET Thread DEF WaitInv
<1>2. CASE senders # <<>>
  <2>1. PICK w \in Thread :
           /\ w = Head(senders)
           /\ Linked(senders, w) /\ ~Linked(receivers, w)
           /\ Once(Tail(senders))
           /\ \A u : Linked(Tail(senders), u)
                       <=> (Linked(senders, u) /\ u # w)
    BY <1>2, HeadLeaves
  <2>2. /\ senders' = Tail(senders) /\ receivers' = receivers
        /\ timer' = timer \ {w}
    BY <1>2, <2>1 DEF Get, ResumeSender
  <2>3. Once(receivers')
    BY <2>2 DEF WaitInv
  <2> QED
    BY <2>1, <2>2, <2>3, Waking, {w} \in SUBSET Thread
<1> QED
  BY <1>1, <1>2

(* A timeout, a signal and one round of rt_ipc_list_resume_all: the thread *)
(* is unlinked, whatever error it is given.                                *)
LEMMA UnlinkWaits ==
  ASSUME WaitInv, TypeOK', NEW t \in Thread, UnlinkWaiter(t),
         \A u \in Thread : Suspended(u) /\ u # t => /\ pc'[u] = pc[u]
                                                    /\ error'[u] = error[u]
  PROVE  WaitInv'
<1>1. /\ receivers' = Unlink(receivers, t) /\ senders' = Unlink(senders, t)
      /\ timer' = timer \ {t}
  BY DEF UnlinkWaiter
<1>2. /\ Once(receivers') /\ Once(senders')
      /\ \A u : Linked(receivers', u) <=> (Linked(receivers, u) /\ u # t)
      /\ \A u : Linked(senders', u) <=> (Linked(senders, u) /\ u # t)
  BY <1>1, OneLeaves
<1> QED
  BY <1>1, <1>2, Waking, {t} \in SUBSET Thread

(* A step that leaves the lists and the threads on them alone.             *)
LEMMA NobodyMoves ==
  ASSUME WaitInv, TypeOK', UNCHANGED <<receivers, senders, timer>>,
         \A u \in Thread : Suspended(u) => /\ pc'[u] = pc[u]
                                           /\ error'[u] = error[u]
  PROVE  WaitInv'
BY Waking, {} \in SUBSET Thread DEF WaitInv

(* Every step keeps the timers, the lists and the places of the threads on *)
(* them in agreement.                                                      *)
LEMMA NextWaitInv == WaitInv /\ [Next]_vars => WaitInv'
<1> SUFFICES ASSUME WaitInv, [Next]_vars PROVE WaitInv'
  OBVIOUS
<1>1. TypeOK /\ TypeOK'
  BY NextTypeOK DEF WaitInv
<1>2. /\ pc \in [Thread -> Locations] /\ error \in [Thread -> Errors]
      /\ mail \in [Thread -> Mail] /\ timer \subseteq Thread
  BY <1>1 DEF TypeOK
<1>3. ASSUME NEW t \in Thread, NEW v \in Mail, SendNow(t, v)
      PROVE  WaitInv'
  BY <1>1, <1>3, PutWaits DEF SendNow
<1>4. ASSUME NEW t \in Thread, NEW v \in Mail, NEW time \in TimeoutOf(t),
             SendSuspend(t, v, time)
      PROVE  WaitInv'
  <2>1. ~Suspended(t)
    BY <1>4, OthersAreOffTheLists DEF SendSuspend
  <2>2. /\ Sends(t)'
        /\ \A u \in Thread : u # t => pc'[u] = pc[u] /\ error'[u] = error[u]
    BY <1>2, <1>4 DEF SendSuspend, Sends
  <2>3. timer' \subseteq timer \union {t}
    BY <1>4 DEF SendSuspend, Arm
  <2>4. senders' = Enqueue(senders, t, Flag, Priority) /\ receivers' = receivers
    BY <1>4 DEF SendSuspend
  <2> QED
    BY <1>1, <2>1, <2>2, <2>3, <2>4, Sending
<1>5. ASSUME NEW t \in Thread, SendFails(t) \/ RecvFails(t)
      PROVE  WaitInv'
  <2>1. ~Suspended(t)
    BY <1>5 DEF SendFails, RecvFails, Resumed
  <2> QED
    BY <1>1, <1>2, <1>5, <2>1, NobodyMoves DEF SendFails, RecvFails
<1>6. ASSUME NEW t \in Thread, SendRetry(t) PROVE WaitInv'
  <2>1. /\ ~Suspended(t) /\ Sends(t)
    BY <1>6 DEF SendRetry, Resumed, Sends
  <2>2. CASE entry # Size
    BY <1>1, <1>2, <1>6, <2>1, <2>2, PutWaits DEF SendRetry
  <2>3. CASE entry = Size
    <3>1. PICK time \in Recomputed(left[t]) :
            /\ IF time = "none"
               THEN /\ pc' = [pc EXCEPT ![t] = "idle"]
                    /\ UNCHANGED <<senders, timer>>
               ELSE /\ senders' = Enqueue(senders, t, Flag, Priority)
                    /\ Arm(t, time)
                    /\ UNCHANGED pc
            /\ UNCHANGED <<receivers, error>>
      BY <1>6, <2>3 DEF SendRetry
    <3>2. CASE time = "none"
      BY <1>1, <1>2, <2>1, <3>1, <3>2, NobodyMoves
    <3>3. CASE time # "none"
      BY <1>1, <2>1, <3>1, <3>3, Sending DEF Arm, Sends
    <3> QED
      BY <3>2, <3>3
  <2> QED
    BY <2>2, <2>3
<1>7. ASSUME NEW t \in Thread, RecvNow(t) PROVE WaitInv'
  BY <1>1, <1>7, GetWaits DEF RecvNow
<1>8. ASSUME NEW t \in Thread, NEW time \in TimeoutOf(t), RecvSuspend(t, time)
      PROVE  WaitInv'
  <2>1. ~Suspended(t)
    BY <1>8, OthersAreOffTheLists DEF RecvSuspend
  <2>2. /\ Receives(t)'
        /\ \A u \in Thread : u # t => pc'[u] = pc[u] /\ error'[u] = error[u]
    BY <1>2, <1>8 DEF RecvSuspend, Receives
  <2>3. timer' \subseteq timer \union {t}
    BY <1>8 DEF RecvSuspend, Arm
  <2>4. receivers' = Enqueue(receivers, t, Flag, Priority) /\ senders' = senders
    BY <1>8 DEF RecvSuspend
  <2> QED
    BY <1>1, <2>1, <2>2, <2>3, <2>4, Receiving
<1>9. ASSUME NEW t \in Thread, RecvRetry(t) PROVE WaitInv'
  <2>1. /\ ~Suspended(t) /\ Receives(t)
    BY <1>9 DEF RecvRetry, Resumed, Receives
  <2>2. CASE entry # 0
    BY <1>1, <1>2, <1>9, <2>1, <2>2, GetWaits DEF RecvRetry
  <2>3. CASE entry = 0
    <3>1. PICK time \in Recomputed(left[t]) :
            /\ IF time = "none"
               THEN /\ pc' = [pc EXCEPT ![t] = "idle"]
                    /\ error' = [error EXCEPT ![t] = "ETIMEOUT"]
                    /\ UNCHANGED <<receivers, timer>>
               ELSE /\ receivers' = Enqueue(receivers, t, Flag, Priority)
                    /\ Arm(t, time)
                    /\ UNCHANGED <<pc, error>>
            /\ UNCHANGED senders
      BY <1>9, <2>3 DEF RecvRetry
    <3>2. CASE time = "none"
      BY <1>1, <1>2, <2>1, <3>1, <3>2, NobodyMoves
    <3>3. CASE time # "none"
      BY <1>1, <2>1, <3>1, <3>3, Receiving DEF Arm, Receives
    <3> QED
      BY <3>2, <3>3
  <2> QED
    BY <2>2, <2>3
<1>10. ASSUME NEW t \in Thread, Timeout(t) PROVE WaitInv'
  BY <1>1, <1>2, <1>10, UnlinkWaits DEF Timeout
<1>11. ASSUME NEW t \in Thread, Signal(t) PROVE WaitInv'
  <2>1. PICK e \in {error[t], "EINTR"} : error' = [error EXCEPT ![t] = e]
    BY <1>11 DEF Signal
  <2> QED
    BY <1>1, <1>2, <1>11, <2>1, UnlinkWaits DEF Signal
<1>12. ASSUME NEW t \in Thread, Reset(t) PROVE WaitInv'
  <2>1. /\ receivers' = <<>> /\ senders' = <<>>
        /\ timer' = {u \in timer : ~Suspended(u)}
    BY <1>12 DEF Reset
  <2>2. timer' = {}
    BY <2>1 DEF WaitInv
  <2>3. \A u : ~Linked(<<>>, u)
    BY DEF Linked
  <2>4. Once(<<>>)
    BY DEF Once
  <2> QED
    BY <1>1, <2>1, <2>2, <2>3, <2>4 DEF WaitInv
<1>13. ASSUME NEW t \in Thread,
              DetachBegin(t) \/ ResumeAllTest(t) \/ Unregister(t)
       PROVE  WaitInv'
  <2>1. pc[t] \notin {"sending", "receiving"}
    BY <1>13 DEF DetachBegin, ResumeAllTest, Unregister
  <2>2. ~Suspended(t)
    BY <2>1, OthersAreOffTheLists
  <2>3. \E l : pc' = [pc EXCEPT ![t] = l]
    BY <1>13 DEF DetachBegin, ResumeAllTest, Unregister
  <2>4. UNCHANGED <<receivers, senders, timer, error>>
    BY <1>13 DEF DetachBegin, ResumeAllTest, Unregister
  <2> QED
    BY <1>1, <1>2, <2>2, <2>3, <2>4, NobodyMoves
<1>14. ASSUME NEW t \in Thread, ResumeAllTake(t) PROVE WaitInv'
  <2>1. PICK list \in {receivers, senders} :
           IF list = <<>>
           THEN /\ pc' = [pc EXCEPT ![t] = "wild"]
                /\ UNCHANGED <<receivers, senders, timer, error>>
           ELSE /\ error' = [error EXCEPT ![Head(list)] = "ERROR"]
                /\ UnlinkWaiter(Head(list))
                /\ \E l \in Detaching : pc' = [pc EXCEPT ![t] = l]
    BY <1>14 DEF ResumeAllTake, Detaching
  <2>2. ~Suspended(t)
    BY <1>14, OthersAreOffTheLists DEF ResumeAllTake
  <2>3. CASE list = <<>>
    BY <1>1, <1>2, <2>1, <2>2, <2>3, NobodyMoves
  <2>4. CASE list # <<>>
    <3>1. PICK w \in Thread : w = Head(list)
      BY <1>1, <2>4, ListTypes DEF TypeOK
    <3>2. UnlinkWaiter(w) /\ error' = [error EXCEPT ![w] = "ERROR"]
      BY <2>1, <2>4, <3>1
    <3>3. \A u \in Thread : u # t => pc'[u] = pc[u]
      BY <1>2, <2>1, <2>4
    <3> QED
      BY <1>1, <1>2, <2>2, <3>2, <3>3, UnlinkWaits
  <2> QED
    BY <2>3, <2>4
<1>15. CASE UNCHANGED vars
  BY <1>1, <1>15, NobodyMoves DEF vars
<1> QED
  BY <1>3, <1>4, <1>5, <1>6, <1>7, <1>8, <1>9, <1>10, <1>11, <1>12, <1>13,
     <1>14, <1>15 DEF Next, CallStep

(* Initially both lists are empty. *)
LEMMA InitWaitInv == Init => WaitInv /\ RingConsistent
<1> SUFFICES ASSUME Init PROVE WaitInv /\ RingConsistent
  OBVIOUS
<1>1. TypeOK
  BY InitTypeOK
<1>2. RingConsistent
  BY RingWrap, SizeAssumption DEF Init, RingConsistent
<1>3. /\ Once(receivers) /\ Once(senders)
      /\ \A t \in Thread : ~Linked(receivers, t) /\ ~Linked(senders, t)
  BY DEF Init, Once, Linked
<1> QED
  BY <1>1, <1>2, <1>3 DEF Init, WaitInv

(* The ring, the lists and the timers agree in every reachable state of    *)
(* rt_mb_send_wait, rt_mb_recv, rt_mb_control and rt_mb_detach: no offset  *)
(* leaves the ring, the count says where the next mail goes, no thread is  *)
(* linked twice and no timer outlives the wait it guards.                  *)
THEOREM BoxAlwaysConsistent == Spec => []BoxConsistent
<1> DEFINE Inv == WaitInv /\ RingConsistent
<1>1. Init => Inv
  BY InitWaitInv
<1>2. Inv /\ [Next]_vars => Inv'
  BY NextWaitInv, NextRingConsistent DEF WaitInv
<1>3. Inv => BoxConsistent
  BY WaitInvGuards DEF BoxConsistent, WaitInv
<1> QED
  BY <1>1, <1>2, <1>3, PTL DEF Spec

------------------------------------------------------------------------------
(* The two halves of NoStrandedWaiter. *)
MailsLookedFor ==
    receivers # <<>> => entry <= Cardinality(Looking("receiving")) + kills
SlotsLookedFor ==
    senders # <<>> => Size - entry <= Cardinality(Looking("sending")) + kills

(* The numbers that they compare. *)
LEMMA Numbers ==
  TypeOK => /\ entry \in Nat /\ kills \in Nat /\ Size \in Nat
            /\ entry <= Size
            /\ \A where : Looking(where) \in SUBSET Thread
BY SizeAssumption, KillAssumption DEF TypeOK, Looking, Resumed

(* An untouched thread looks on, unless it is linked.                      *)
LEMMA LookersStay ==
  ASSUME NEW where, NEW busy \in SUBSET Thread,
         \A u \in Thread : u \notin busy => /\ pc'[u] = pc[u]
                                            /\ error'[u] = error[u]
                                            /\ Suspended(u)' => Suspended(u)
  PROVE  Looking(where) \ busy \subseteq Looking(where)'
BY DEF Looking, Resumed

(* A send: the number of mails grows and so does that of the receivers who *)
(* look, or nobody is on the list; one slot is gone, and at most one of    *)
(* those who look for a slot, the one that sent.                           *)
LEMMA PutCounts ==
  ASSUME WaitInv, TypeOK', MailsLookedFor, SlotsLookedFor,
         NEW v \in Mail, Put(v), kills' = kills, error' = error,
         NEW t \in Thread, ~Suspended(t), ~Receives(t),
         \A u \in Thread : u # t => pc'[u] = pc[u]
  PROVE  MailsLookedFor' /\ SlotsLookedFor'
<1> DEFINE L == Looking("receiving")
           S == Looking("sending")
<1>1. /\ TypeOK /\ TypeOK'
      /\ entry \in Nat /\ entry' = entry + 1 /\ kills \in Nat /\ Size \in Nat
      /\ L \in SUBSET Thread /\ L' \in SUBSET Thread
      /\ S \in SUBSET Thread /\ S' \in SUBSET Thread
  BY Numbers DEF WaitInv, Put, Looking, Resumed
<1>2. CASE receivers = <<>>
  <2>1. receivers' = receivers /\ senders' = senders
    BY <1>2 DEF Put, ResumeReceiver
  <2>2. S \ {t} \subseteq S'
    BY <2>1, LookersStay, {t} \in SUBSET Thread DEF Suspended
  <2>3. Cardinality(S) \in Nat /\ Cardinality(S') \in Nat
        /\ Cardinality(S) <= Cardinality(S') + 1
    BY <1>1, <2>2, ThreadAssumption, SubsetCounts
  <2>4. SlotsLookedFor'
    BY <1>1, <2>1, <2>3 DEF SlotsLookedFor
  <2> QED
    BY <1>2, <2>1, <2>4 DEF MailsLookedFor
<1>3. CASE receivers # <<>>
  <2>1. PICK w \in Thread :
           /\ w = Head(receivers)
           /\ Linked(receivers, w) /\ ~Linked(senders, w)
           /\ \A u : Linked(Tail(receivers), u)
                       <=> (Linked(receivers, u) /\ u # w)
    BY <1>3, HeadLeaves
  <2>2. receivers' = Tail(receivers) /\ senders' = senders
    BY <1>3, <2>1 DEF Put, ResumeReceiver
  <2>3. \A u \in Thread : Suspended(u)' <=> (Suspended(u) /\ u # w)
    BY <2>1, <2>2 DEF Suspended
  <2>4. w \notin L /\ w # t
    BY <2>1 DEF Looking, Resumed, Suspended
  <2>5. w \in L'
    BY <2>1, <2>3, <2>4 DEF WaitInv, Receives, Looking, Resumed
  <2>6. L \subseteq L'
    <3>1. t \notin L
      BY DEF Looking, Resumed, Receives
    <3>2. L \ {t} \subseteq L'
      BY <2>3, LookersStay, {t} \in SUBSET Thread
    <3> QED
      BY <3>1, <3>2
  <2>7. S \ {t} \subseteq S'
    BY <2>3, LookersStay, {t} \in SUBSET Thread
  <2>8. /\ Cardinality(L) \in Nat /\ Cardinality(L') \in Nat
        /\ Cardinality(L) + 1 <= Cardinality(L')
    BY <1>1, <2>4, <2>5, <2>6, ThreadAssumption, SubsetCounts
  <2>9. /\ Cardinality(S) \in Nat /\ Cardinality(S') \in Nat
        /\ Cardinality(S) <= Cardinality(S') + 1
    BY <1>1, <2>7, ThreadAssumption, SubsetCounts
  <2>10. MailsLookedFor'
    BY <1>1, <1>3, <2>8 DEF MailsLookedFor
  <2>11. SlotsLookedFor'
    BY <1>1, <2>2, <2>9 DEF SlotsLookedFor
  <2> QED
    BY <2>10, <2>11
<1> QED
  BY <1>2, <1>3

(* A receive: the same with the two sides exchanged.                       *)
LEMMA GetCounts ==
  ASSUME WaitInv, TypeOK', MailsLookedFor, SlotsLookedFor,
         entry # 0, Get, kills' = kills, error' = error,
         NEW t \in Thread, ~Suspended(t), ~Sends(t),
         \A u \in Thread : u # t => pc'[u] = pc[u]
  PROVE  MailsLookedFor' /\ SlotsLookedFor'
<1> DEFINE L == Looking("receiving")
           S == Looking("sending")
<1>1. /\ TypeOK /\ TypeOK'
      /\ entry \in Nat /\ entry' = entry - 1 /\ kills \in Nat /\ Size \in Nat
      /\ L \in SUBSET Thread /\ L' \in SUBSET Thread
      /\ S \in SUBSET Thread /\ S' \in SUBSET Thread
  BY Numbers DEF WaitInv, Get, Looking, Resumed
<1>2. CASE senders = <<>>
  <2>1. receivers' = receivers /\ senders' = senders
    BY <1>2 DEF Get, ResumeSender
  <2>2. L \ {t} \subseteq L'
    BY <2>1, LookersStay, {t} \in SUBSET Thread DEF Suspended
  <2>3. Cardinality(L) \in Nat /\ Cardinality(L') \in Nat
        /\ Cardinality(L) <= Cardinality(L') + 1
    BY <1>1, <2>2, ThreadAssumption, SubsetCounts
  <2>4. MailsLookedFor'
    BY <1>1, <2>1, <2>3 DEF MailsLookedFor
  <2> QED
    BY <1>2, <2>1, <2>4 DEF SlotsLookedFor
<1>3. CASE senders # <<>>
  <2>1. PICK w \in Thread :
           /\ w = Head(senders)
           /\ Linked(senders, w) /\ ~Linked(receivers, w)
           /\ \A u : Linked(Tail(senders), u)
                       <=> (Linked(senders, u) /\ u # w)
    BY <1>3, HeadLeaves
  <2>2. senders' = Tail(senders) /\ receivers' = receivers
    BY <1>3, <2>1 DEF Get, ResumeSender
  <2>3. \A u \in Thread : Suspended(u)' <=> (Suspended(u) /\ u # w)
    BY <2>1, <2>2 DEF Suspended
  <2>4. w \notin S /\ w # t
    BY <2>1 DEF Looking, Resumed, Suspended
  <2>5. w \in S'
    BY <2>1, <2>3, <2>4 DEF WaitInv, Sends, Looking, Resumed
  <2>6. S \subseteq S'
    <3>1. t \notin S
      BY DEF Looking, Resumed, Sends
    <3>2. S \ {t} \subseteq S'
      BY <2>3, LookersStay, {t} \in SUBSET Thread
    <3> QED
      BY <3>1, <3>2
  <2>7. L \ {t} \subseteq L'
    BY <2>3, LookersStay, {t} \in SUBSET Thread
  <2>8. /\ Cardinality(S) \in Nat /\ Cardinality(S') \in Nat
        /\ Cardinality(S) + 1 <= Cardinality(S')
    BY <1>1, <2>4, <2>5, <2>6, ThreadAssumption, SubsetCounts
  <2>9. /\ Cardinality(L) \in Nat /\ Cardinality(L') \in Nat
        /\ Cardinality(L) <= Cardinality(L') + 1
    BY <1>1, <2>7, ThreadAssumption, SubsetCounts
  <2>10. SlotsLookedFor'
    BY <1>1, <1>3, <2>8 DEF SlotsLookedFor
  <2>11. MailsLookedFor'
    BY <1>1, <2>2, <2>9 DEF MailsLookedFor
  <2> QED
    BY <2>10, <2>11
<1> QED
  BY <1>2, <1>3

(* The steps that move no mail and link nobody.  Nobody stops looking, or  *)
(* one thread does and a signal has been sent.                             *)
LEMMA NoMailMoves ==
  ASSUME TypeOK, TypeOK', MailsLookedFor, SlotsLookedFor,
         entry' = entry,
         receivers = <<>> => receivers' = <<>>,
         senders = <<>> => senders' = <<>>,
         \/ /\ kills' = kills
            /\ \A where \in {"receiving", "sending"} :
                 Looking(where) \subseteq Looking(where)'
         \/ /\ kills' = kills + 1
            /\ \E t : \A where \in {"receiving", "sending"} :
                 Looking(where) \ {t} \subseteq Looking(where)'
  PROVE  MailsLookedFor' /\ SlotsLookedFor'
<1> DEFINE L == Looking("receiving")
           S == Looking("sending")
<1>1. /\ entry \in Nat /\ kills \in Nat /\ Size \in Nat
      /\ L \in SUBSET Thread /\ L' \in SUBSET Thread
      /\ S \in SUBSET Thread /\ S' \in SUBSET Thread
  BY Numbers DEF Looking, Resumed
<1>2. /\ Cardinality(L) \in Nat /\ Cardinality(L') \in Nat
      /\ Cardinality(S) \in Nat /\ Cardinality(S') \in Nat
  BY <1>1, ThreadAssumption, SubsetCounts
<1>3. /\ Cardinality(L) + kills <= Cardinality(L') + kills'
      /\ Cardinality(S) + kills <= Cardinality(S') + kills'
  <2>1. CASE /\ kills' = kills
             /\ \A where \in {"receiving", "sending"} :
                  Looking(where) \subseteq Looking(where)'
    <3>1. L \subseteq L' /\ S \subseteq S'
      BY <2>1
    <3>2. Cardinality(L) <= Cardinality(L') /\ Cardinality(S) <= Cardinality(S')
      BY <1>1, <3>1, ThreadAssumption, SubsetCounts
    <3> QED
      BY <1>1, <1>2, <2>1, <3>2
  <2>2. CASE /\ kills' = kills + 1
             /\ \E t : \A where \in {"receiving", "sending"} :
                  Looking(where) \ {t} \subseteq Looking(where)'
    <3>1. PICK t : L \ {t} \subseteq L' /\ S \ {t} \subseteq S'
      BY <2>2
    <3>2. /\ Cardinality(L) <= Cardinality(L') + 1
          /\ Cardinality(S) <= Cardinality(S') + 1
      BY <1>1, <3>1, ThreadAssumption, SubsetCounts
    <3> QED
      BY <1>1, <1>2, <2>2, <3>2
  <2> QED
    BY <2>1, <2>2
<1> HIDE DEF L, S
<1>4. MailsLookedFor'
  <2>1. receivers # <<>> => entry <= Cardinality(L) + kills
    BY DEF MailsLookedFor, L
  <2>2. receivers' # <<>> => entry' <= Cardinality(L') + kills'
    BY <1>1, <1>2, <1>3, <2>1, KillAssumption DEF TypeOK
  <2> QED
    BY <2>2 DEF MailsLookedFor, L
<1>5. SlotsLookedFor'
  <2>1. senders # <<>> => Size - entry <= Cardinality(S) + kills
    BY DEF SlotsLookedFor, S
  <2>2. senders' # <<>> => Size - entry' <= Cardinality(S') + kills'
    BY <1>1, <1>2, <1>3, <2>1, KillAssumption DEF TypeOK
  <2> QED
    BY <2>2 DEF SlotsLookedFor, S
<1> QED
  BY <1>4, <1>5

(* Unlinking a thread from an empty list changes nothing.                  *)
LEMMA UnlinkNobody == ASSUME NEW t PROVE Unlink(<<>>, t) = <<>>
BY DEF Unlink, Linked

(* A thread that waits for a mail finds none, so there is none to strand;  *)
(* it was not looking for a slot.                                          *)
LEMMA ReceiverJoins ==
  ASSUME TypeOK, TypeOK', SlotsLookedFor, entry = 0, entry' = entry,
         kills' = kills, senders' = senders,
         Looking("sending") \subseteq Looking("sending")'
  PROVE  MailsLookedFor' /\ SlotsLookedFor'
<1> DEFINE L == Looking("receiving")
           S == Looking("sending")
<1>1. /\ kills \in Nat /\ Size \in Nat
      /\ L' \in SUBSET Thread /\ S \in SUBSET Thread /\ S' \in SUBSET Thread
  BY Numbers DEF Looking, Resumed
<1>2. /\ Cardinality(L') \in Nat
      /\ Cardinality(S) \in Nat /\ Cardinality(S') \in Nat
      /\ Cardinality(S) <= Cardinality(S')
  BY <1>1, ThreadAssumption, SubsetCounts
<1> QED
  BY <1>1, <1>2 DEF MailsLookedFor, SlotsLookedFor

(* A thread that waits for a slot finds none. *)
LEMMA SenderJoins ==
  ASSUME TypeOK, TypeOK', MailsLookedFor, entry = Size, entry' = entry,
         kills' = kills, receivers' = receivers,
         Looking("receiving") \subseteq Looking("receiving")'
  PROVE  MailsLookedFor' /\ SlotsLookedFor'
<1> DEFINE L == Looking("receiving")
           S == Looking("sending")
<1>1. /\ kills \in Nat /\ Size \in Nat
      /\ L \in SUBSET Thread /\ L' \in SUBSET Thread /\ S' \in SUBSET Thread
  BY Numbers DEF Looking, Resumed
<1>2. /\ Cardinality(S') \in Nat
      /\ Cardinality(L) \in Nat /\ Cardinality(L') \in Nat
      /\ Cardinality(L) <= Cardinality(L')
  BY <1>1, ThreadAssumption, SubsetCounts
<1> QED
  BY <1>1, <1>2 DEF MailsLookedFor, SlotsLookedFor

(* A step that unlinks one thread: the others look on, and so does the     *)
(* thread itself unless it looked already.                                 *)
LEMMA UnlinkCounts ==
  ASSUME WaitInv, NEW t \in Thread, UnlinkWaiter(t),
         \A u \in Thread : u # t => pc'[u] = pc[u] /\ error'[u] = error[u]
  PROVE  /\ receivers = <<>> => receivers' = <<>>
         /\ senders = <<>> => senders' = <<>>
         /\ \A where : Looking(where) \ {t} \subseteq Looking(where)'
<1>1. receivers' = Unlink(receivers, t) /\ senders' = Unlink(senders, t)
  BY DEF UnlinkWaiter
<1>2. \A u \in Thread : Suspended(u)' => Suspended(u)
  BY <1>1, OneLeaves DEF Suspended
<1> QED
  BY <1>1, <1>2, UnlinkNobody, LookersStay, {t} \in SUBSET Thread

(* Every step leaves enough threads looking for the mails and the slots.   *)
LEMMA NextLookedFor ==
  ASSUME WaitInv, MailsLookedFor, SlotsLookedFor, [Next]_vars
  PROVE  MailsLookedFor' /\ SlotsLookedFor'
<1>1. TypeOK /\ TypeOK'
  BY NextTypeOK DEF WaitInv
<1>2. /\ pc \in [Thread -> Locations] /\ error \in [Thread -> Errors]
      /\ kills \in Nat
  BY <1>1, Numbers DEF TypeOK
<1> USE DEF ring
<1>3. ASSUME NEW t \in Thread, NEW v \in Mail, SendNow(t, v)
      PROVE  MailsLookedFor' /\ SlotsLookedFor'
  <2>1. ~Suspended(t) /\ ~Receives(t)
    BY <1>3, OthersAreOffTheLists DEF SendNow, Receives
  <2> QED
    BY <1>1, <1>3, <2>1, PutCounts DEF SendNow
<1>4. ASSUME NEW t \in Thread, NEW v \in Mail, NEW time \in TimeoutOf(t),
             SendSuspend(t, v, time)
      PROVE  MailsLookedFor' /\ SlotsLookedFor'
  <2>1. /\ entry = Size /\ entry' = entry /\ kills' = kills
        /\ receivers' = receivers /\ pc[t] = "idle"
        /\ \A u \in Thread : u # t => pc'[u] = pc[u] /\ error'[u] = error[u]
    BY <1>2, <1>4 DEF SendSuspend
  <2>2. \A u \in Thread : pc[u] = "receiving" => ~Linked(senders', u)
    BY <1>4, NextWaitInv, <2>1, <1>2 DEF WaitInv, Sends, SendSuspend
  <2>3. Looking("receiving") \subseteq Looking("receiving")'
    BY <2>1, <2>2 DEF Looking, Resumed, Suspended
  <2> QED
    BY <1>1, <2>1, <2>3, SenderJoins
<1>5. ASSUME NEW t \in Thread, SendFails(t) \/ RecvFails(t)
      PROVE  MailsLookedFor' /\ SlotsLookedFor'
  <2>1. /\ error[t] # "EOK" /\ UNCHANGED <<receivers, senders, error>>
        /\ entry' = entry /\ kills' = kills
        /\ \A u \in Thread : u # t => pc'[u] = pc[u]
    BY <1>2, <1>5 DEF SendFails, RecvFails
  <2>2. \A where : Looking(where) \subseteq Looking(where)'
    BY <2>1 DEF Looking, Resumed, Suspended
  <2> QED
    BY <1>1, <2>1, <2>2, NoMailMoves
<1>6. ASSUME NEW t \in Thread, SendRetry(t)
      PROVE  MailsLookedFor' /\ SlotsLookedFor'
  <2>1. ~Suspended(t) /\ pc[t] = "sending" /\ error[t] = "EOK" /\ kills' = kills
    BY <1>6 DEF SendRetry, Resumed
  <2>2. CASE entry # Size
    <3>1. /\ Put(mail[t]) /\ mail[t] \in Mail /\ error' = error
          /\ \A u \in Thread : u # t => pc'[u] = pc[u]
      BY <1>1, <1>2, <1>6, <2>2 DEF SendRetry, TypeOK
    <3> QED
      BY <1>1, <2>1, <3>1, PutCounts DEF Receives
  <2>3. CASE entry = Size
    <3>1. PICK time \in Recomputed(left[t]) :
            /\ IF time = "none"
               THEN /\ pc' = [pc EXCEPT ![t] = "idle"]
                    /\ UNCHANGED <<senders, timer>>
               ELSE /\ senders' = Enqueue(senders, t, Flag, Priority)
                    /\ Arm(t, time)
                    /\ UNCHANGED pc
            /\ UNCHANGED <<ring, receivers, error>>
      BY <1>6, <2>3 DEF SendRetry
    <3>2. \A u \in Thread : u # t => pc'[u] = pc[u]
      BY <1>2, <3>1
    <3>3. \A u \in Thread : pc[u] = "receiving" => ~Linked(senders', u)
      BY <2>1, <3>2, NextWaitInv DEF WaitInv, Sends
    <3>4. Looking("receiving") \subseteq Looking("receiving")'
      BY <2>1, <3>1, <3>2, <3>3 DEF Looking, Resumed, Suspended
    <3> QED
      BY <1>1, <2>1, <2>3, <3>1, <3>4, SenderJoins
  <2> QED
    BY <2>2, <2>3
<1>7. ASSUME NEW t \in Thread, RecvNow(t)
      PROVE  MailsLookedFor' /\ SlotsLookedFor'
  <2>1. ~Suspended(t) /\ ~Sends(t)
    BY <1>7, OthersAreOffTheLists DEF RecvNow, Sends
  <2> QED
    BY <1>1, <1>7, <2>1, GetCounts DEF RecvNow
<1>8. ASSUME NEW t \in Thread, NEW time \in TimeoutOf(t), RecvSuspend(t, time)
      PROVE  MailsLookedFor' /\ SlotsLookedFor'
  <2>1. /\ entry = 0 /\ entry' = entry /\ kills' = kills
        /\ senders' = senders /\ pc[t] = "idle"
        /\ \A u \in Thread : u # t => pc'[u] = pc[u] /\ error'[u] = error[u]
    BY <1>2, <1>8 DEF RecvSuspend
  <2>2. \A u \in Thread : pc[u] = "sending" => ~Linked(receivers', u)
    BY <1>8, NextWaitInv, <2>1, <1>2 DEF WaitInv, Receives, RecvSuspend
  <2>3. Looking("sending") \subseteq Looking("sending")'
    BY <2>1, <2>2 DEF Looking, Resumed, Suspended
  <2> QED
    BY <1>1, <2>1, <2>3, ReceiverJoins
<1>9. ASSUME NEW t \in Thread, RecvRetry(t)
      PROVE  MailsLookedFor' /\ SlotsLookedFor'
  <2>1. /\ ~Suspended(t) /\ pc[t] = "receiving" /\ error[t] = "EOK"
        /\ kills' = kills
    BY <1>9 DEF RecvRetry, Resumed
  <2>2. CASE entry # 0
    <3>1. /\ Get /\ error' = error
          /\ \A u \in Thread : u # t => pc'[u] = pc[u]
      BY <1>2, <1>9, <2>2 DEF RecvRetry
    <3> QED
      BY <1>1, <2>1, <2>2, <3>1, GetCounts DEF Sends
  <2>3. CASE entry = 0
    <3>1. PICK time \in Recomputed(left[t]) :
            /\ IF time = "none"
               THEN /\ pc' = [pc EXCEPT ![t] = "idle"]
                    /\ error' = [error EXCEPT ![t] = "ETIMEOUT"]
                    /\ UNCHANGED <<receivers, timer>>
               ELSE /\ receivers' = Enqueue(receivers, t, Flag, Priority)
                    /\ Arm(t, time)
                    /\ UNCHANGED <<pc, error>>
            /\ UNCHANGED <<ring, senders>>
      BY <1>9, <2>3 DEF RecvRetry
    <3>2. \A u \in Thread : u # t => pc'[u] = pc[u] /\ error'[u] = error[u]
      BY <1>2, <3>1
    <3>3. \A u \in Thread : pc[u] = "sending" => ~Linked(receivers', u)
      BY <2>1, <3>2, NextWaitInv DEF WaitInv, Receives
    <3>4. Looking("sending") \subseteq Looking("sending")'
      BY <2>1, <3>1, <3>2, <3>3 DEF Looking, Resumed, Suspended
    <3> QED
      BY <1>1, <2>1, <2>3, <3>1, <3>4, ReceiverJoins
  <2> QED
    BY <2>2, <2>3
<1>10. ASSUME NEW t \in Thread, Timeout(t)
       PROVE  MailsLookedFor' /\ SlotsLookedFor'
  <2>1. /\ Suspended(t) /\ UnlinkWaiter(t) /\ pc' = pc
        /\ entry' = entry /\ kills' = kills
        /\ \A u \in Thread : u # t => error'[u] = error[u]
    BY <1>2, <1>10 DEF WaitInv, Timeout
  <2>2. \A where : t \notin Looking(where)
    BY <2>1 DEF Looking, Resumed
  <2>3. /\ receivers = <<>> => receivers' = <<>>
        /\ senders = <<>> => senders' = <<>>
        /\ \A where : Looking(where) \subseteq Looking(where)'
    BY <2>1, <2>2, UnlinkCounts
  <2> QED
    BY <1>1, <2>1, <2>3, NoMailMoves
<1>11. ASSUME NEW t \in Thread, Signal(t)
       PROVE  MailsLookedFor' /\ SlotsLookedFor'
  <2>1. /\ UnlinkWaiter(t) /\ pc' = pc
        /\ entry' = entry /\ kills' = kills + 1
    BY <1>11 DEF Signal
  <2>2. PICK e \in {error[t], "EINTR"} : error' = [error EXCEPT ![t] = e]
    BY <1>11 DEF Signal
  <2>3. /\ receivers = <<>> => receivers' = <<>>
        /\ senders = <<>> => senders' = <<>>
        /\ \A where : Looking(where) \ {t} \subseteq Looking(where)'
    BY <1>2, <2>1, <2>2, UnlinkCounts
  <2> QED
    BY <1>1, <2>1, <2>3, NoMailMoves
<1>12. ASSUME NEW t \in Thread, Reset(t)
       PROVE  MailsLookedFor' /\ SlotsLookedFor'
  BY <1>12 DEF Reset, MailsLookedFor, SlotsLookedFor
<1>13. ASSUME NEW t \in Thread,
              DetachBegin(t) \/ ResumeAllTest(t) \/ Unregister(t)
       PROVE  MailsLookedFor' /\ SlotsLookedFor'
  <2>1. pc[t] \notin {"sending", "receiving"}
    BY <1>13 DEF DetachBegin, ResumeAllTest, Unregister
  <2>2. /\ UNCHANGED <<receivers, senders, error>>
        /\ entry' = entry /\ kills' = kills
    BY <1>13 DEF DetachBegin, ResumeAllTest, Unregister
  <2>3. \A u \in Thread : u # t => pc'[u] = pc[u]
    BY <1>2, <1>13 DEF DetachBegin, ResumeAllTest, Unregister
  <2>4. \A where \in {"receiving", "sending"} :
           Looking(where) \subseteq Looking(where)'
    BY <2>1, <2>2, <2>3 DEF Looking, Resumed, Suspended
  <2> QED
    BY <1>1, <2>2, <2>4, NoMailMoves
<1>14. ASSUME NEW t \in Thread, ResumeAllTake(t)
       PROVE  MailsLookedFor' /\ SlotsLookedFor'
  <2>1. PICK list \in {receivers, senders} :
           IF list = <<>>
           THEN /\ pc' = [pc EXCEPT ![t] = "wild"]
                /\ UNCHANGED <<receivers, senders, timer, error>>
           ELSE /\ error' = [error EXCEPT ![Head(list)] = "ERROR"]
                /\ UnlinkWaiter(Head(list))
                /\ \E l \in Detaching : pc' = [pc EXCEPT ![t] = l]
    BY <1>14 DEF ResumeAllTake, Detaching
  <2>2. /\ pc[t] \notin {"sending", "receiving"}
        /\ entry' = entry /\ kills' = kills
    BY <1>14 DEF ResumeAllTake
  <2>3. \A u \in Thread : u # t => pc'[u] = pc[u]
    BY <1>2, <2>1
  <2>4. CASE list = <<>>
    <3>1. UNCHANGED <<receivers, senders, error>>
      BY <2>1, <2>4
    <3>2. \A where \in {"receiving", "sending"} :
             Looking(where) \subseteq Looking(where)'
      BY <2>2, <2>3, <3>1 DEF Looking, Resumed, Suspended
    <3> QED
      BY <1>1, <2>2, <3>1, <3>2, NoMailMoves
  <2>5. CASE list # <<>>
    <3>1. PICK w \in Thread : w = Head(list) /\ Suspended(w)
      BY <1>1, <2>5, HeadLeaves DEF WaitInv, TypeOK, Suspended
    <3>2. UnlinkWaiter(w) /\ error' = [error EXCEPT ![w] = "ERROR"]
      BY <2>1, <2>5, <3>1
    <3>3. /\ receivers' = Unlink(receivers, w) /\ senders' = Unlink(senders, w)
      BY <3>2 DEF UnlinkWaiter
    <3>4. /\ receivers = <<>> => receivers' = <<>>
          /\ senders = <<>> => senders' = <<>>
      BY <3>3, UnlinkNobody
    <3>5. \A u \in Thread : Suspended(u)' => Suspended(u)
      BY <3>1, <3>3, OneLeaves DEF Suspended
    <3>6. \A u \in Thread : u # w => error'[u] = error[u]
      BY <1>2, <3>2
    <3>7. \A where \in {"receiving", "sending"} :
             Looking(where) \subseteq Looking(where)'
      <4> SUFFICES ASSUME NEW where \in {"receiving", "sending"}
                   PROVE  Looking(where) \subseteq Looking(where)'
        OBVIOUS
      <4>1. t \notin Looking(where) /\ w \notin Looking(where)
        BY <2>2, <3>1 DEF Looking, Resumed
      <4>2. Looking(where) \ {t, w} \subseteq Looking(where)'
        BY <2>3, <3>5, <3>6, LookersStay, {t, w} \in SUBSET Thread
      <4> QED
        BY <4>1, <4>2
    <3> QED
      BY <1>1, <2>2, <3>4, <3>7, NoMailMoves
  <2> QED
    BY <2>4, <2>5
<1>15. CASE UNCHANGED vars
  BY <1>15 DEF vars, MailsLookedFor, SlotsLookedFor, Looking, Resumed, Suspended
<1> QED
  BY <1>3, <1>4, <1>5, <1>6, <1>7, <1>8, <1>9, <1>10, <1>11, <1>12, <1>13,
     <1>14, <1>15 DEF Next, CallStep

(* No mail is stranded beside a suspended receiver and no free slot beside *)
(* a suspended sender: a send or a receive resumes one thread for each, a  *)
(* thread that overtakes takes as many as it removes, and only a signal to *)
(* a thread that was resumed can lose one.                                 *)
THEOREM NobodyStranded == Spec => []NoStrandedWaiter
<1> DEFINE Inv == WaitInv /\ MailsLookedFor /\ SlotsLookedFor
<1>1. Init => Inv
  BY InitWaitInv DEF Init, MailsLookedFor, SlotsLookedFor
<1>2. Inv /\ [Next]_vars => Inv'
  BY NextWaitInv, NextLookedFor
<1>3. Inv => NoStrandedWaiter
  BY DEF NoStrandedWaiter, MailsLookedFor, SlotsLookedFor
<1> QED
  BY <1>1, <1>2, <1>3, PTL DEF Spec

------------------------------------------------------------------------------
(* The mails stored, oldest first, and the slot of the ith of them.        *)
QueueOf(pool, o, n) == [i \in 1..n |-> pool[(o + i - 1) % Size]]
Queue == QueueOf(msg_pool, out_offset, entry)
Slot(o, i) == IF o + i - 1 < Size THEN o + i - 1 ELSE o + i - 1 - Size

(* Counting from an offset of the ring leads to a slot of the ring.        *)
LEMMA SlotInside ==
  ASSUME NEW o \in 0..(Size - 1), NEW i \in 1..Size
  PROVE  (o + i - 1) % Size = Slot(o, i) /\ Slot(o, i) \in 0..(Size - 1)
<1>1. o + i - 1 \in Nat /\ o + i - 1 < Size + Size
  BY SizeAssumption
<1> QED
  BY <1>1, RingWrap, SizeAssumption DEF Slot

(* The stored mails form a sequence, element by element.                   *)
LEMMA QueueElements ==
  ASSUME NEW n \in 0..Size, NEW o \in 0..(Size - 1),
         NEW pool \in [0..(Size - 1) -> Mail]
  PROVE  /\ QueueOf(pool, o, n) \in Seq(Mail) /\ Len(QueueOf(pool, o, n)) = n
         /\ \A i \in 1..n : QueueOf(pool, o, n)[i] = pool[Slot(o, i)]
<1>1. n \in Nat /\ \A i \in 1..n : i \in 1..Size
  BY SizeAssumption
<1>2. ASSUME NEW i \in 1..n
      PROVE  /\ QueueOf(pool, o, n)[i] = pool[Slot(o, i)]
             /\ pool[(o + i - 1) % Size] \in Mail
  <2>1. (o + i - 1) % Size = Slot(o, i) /\ Slot(o, i) \in 0..(Size - 1)
    BY <1>1, SlotInside
  <2> QED
    BY <1>1, <2>1 DEF QueueOf
<1>3. QueueOf(pool, o, n) \in [1..n -> Mail]
  BY <1>2 DEF QueueOf
<1> QED
  BY <1>1, <1>2, <1>3, SeqDef, LenProperties

(* A send appends: the slot it writes is none of those that hold a mail.   *)
LEMMA PutAppends ==
  ASSUME TypeOK, TypeOK', RingConsistent, NEW v \in Mail, entry # Size, Put(v)
  PROVE  Queue' = Append(Queue, v)
<1>1. /\ entry \in 0..Size /\ entry < Size /\ out_offset \in 0..(Size - 1)
      /\ in_offset \in 0..(Size - 1) /\ Size \in Nat
      /\ msg_pool \in [0..(Size - 1) -> Mail]
  BY SizeAssumption DEF TypeOK
<1>2. /\ entry' = entry + 1 /\ out_offset' = out_offset
      /\ msg_pool' = [msg_pool EXCEPT ![in_offset] = v]
  BY DEF Put, Store
<1>3. in_offset = Slot(out_offset, entry + 1)
  <2>1. out_offset + (entry + 1) - 1 = out_offset + entry
    BY <1>1
  <2>2. (out_offset + entry) % Size = Slot(out_offset, entry + 1)
    BY <1>1, <2>1, SlotInside
  <2> QED
    BY <2>2 DEF RingConsistent
<1>4. /\ Queue \in Seq(Mail) /\ Len(Queue) = entry
      /\ \A i \in 1..entry : Queue[i] = msg_pool[Slot(out_offset, i)]
  BY QueueElements DEF Queue, TypeOK
<1>5. /\ Queue' \in Seq(Mail) /\ Len(Queue') = entry'
      /\ \A i \in 1..entry' : Queue'[i] = msg_pool'[Slot(out_offset', i)]
  BY QueueElements DEF Queue, TypeOK
<1>6. /\ Append(Queue, v) \in Seq(Mail) /\ Len(Append(Queue, v)) = entry + 1
      /\ \A i \in 1..entry : Append(Queue, v)[i] = Queue[i]
      /\ Append(Queue, v)[entry + 1] = v
  BY <1>4, AppendProperties
<1>7. ASSUME NEW i \in 1..(entry + 1)
      PROVE  Queue'[i] = Append(Queue, v)[i]
  <2>1. Queue'[i] = msg_pool'[Slot(out_offset, i)]
    BY <1>2, <1>5
  <2>2. Slot(out_offset, i) \in 0..(Size - 1)
    BY <1>1, SlotInside
  <2>3. CASE i = entry + 1
    BY <1>1, <1>2, <1>3, <1>6, <2>1, <2>3
  <2>4. CASE i # entry + 1
    <3>1. i \in 1..entry
      BY <1>1, <2>4
    <3>2. Slot(out_offset, i) # in_offset
      BY <1>1, <1>3, <3>1 DEF Slot
    <3> QED
      BY <1>1, <1>2, <1>4, <1>6, <2>1, <2>2, <3>1, <3>2
  <2> QED
    BY <2>3, <2>4
<1> HIDE DEF Queue
<1> QED
  BY <1>2, <1>5, <1>6, <1>7, SeqEqual

(* A receive takes the oldest mail away. *)
LEMMA GetTakesOldest ==
  ASSUME TypeOK, TypeOK', entry # 0, Get
  PROVE  Queue # <<>> /\ Queue' = Tail(Queue)
<1>1. /\ entry \in 0..Size /\ entry > 0 /\ out_offset \in 0..(Size - 1)
      /\ Size \in Nat
  BY SizeAssumption DEF TypeOK
<1>2. /\ entry' = entry - 1 /\ msg_pool' = msg_pool
      /\ out_offset' = IF out_offset + 1 = Size THEN 0 ELSE out_offset + 1
  BY <1>1, NextOffsetInside DEF Get
<1>3. /\ Queue \in Seq(Mail) /\ Len(Queue) = entry
      /\ \A i \in 1..entry : Queue[i] = msg_pool[Slot(out_offset, i)]
  BY QueueElements DEF Queue, TypeOK
<1>4. /\ Queue' \in Seq(Mail) /\ Len(Queue') = entry'
      /\ \A i \in 1..entry' : Queue'[i] = msg_pool'[Slot(out_offset', i)]
  BY QueueElements DEF Queue, TypeOK
<1>5. Queue # <<>>
  BY <1>1, <1>3, EmptySeq
<1>6. /\ Tail(Queue) \in Seq(Mail) /\ Len(Tail(Queue)) = entry - 1
      /\ \A i \in 1..(entry - 1) : Tail(Queue)[i] = Queue[i + 1]
  BY <1>3, <1>5, HeadTailProperties
<1>7. ASSUME NEW i \in 1..(entry - 1)
      PROVE  Queue'[i] = Tail(Queue)[i]
  <2>1. Slot(out_offset', i) = Slot(out_offset, i + 1)
    BY <1>1, <1>2 DEF Slot
  <2>2. i + 1 \in 1..entry
    BY <1>1
  <2>3. Queue'[i] = msg_pool'[Slot(out_offset', i)]
    BY <1>2, <1>4
  <2> QED
    BY <1>2, <1>3, <1>6, <2>1, <2>2, <2>3
<1> HIDE DEF Queue
<1> QED
  BY <1>2, <1>4, <1>5, <1>6, <1>7, SeqEqual

(* Every step of the mailbox is a step of the bounded queue or changes     *)
(* nothing of it.                                                          *)
LEMMA StepIsFifoStep ==
  ASSUME TypeOK, RingConsistent, [Next]_vars
  PROVE  Fifo!Send \/ Fifo!Recv \/ Fifo!Reset \/ Queue' = Queue
<1>1. TypeOK'
  BY NextTypeOK
<1>2. Len(Queue) = entry /\ entry \in 0..Size /\ Size \in Nat
  BY QueueElements, SizeAssumption DEF Queue, TypeOK
<1>3. ASSUME NEW v \in Mail, entry # Size, Put(v) PROVE Fifo!Send
  <2>1. Queue' = Append(Queue, v) /\ Len(Queue) < Size
    BY <1>1, <1>2, <1>3, PutAppends
  <2> QED
    BY <2>1 DEF Fifo!Send, Queue, QueueOf
<1>4. ASSUME entry # 0, Get PROVE Fifo!Recv
  BY <1>1, <1>4, GetTakesOldest DEF Fifo!Recv, Queue, QueueOf
<1>5. ASSUME entry' = 0 PROVE Fifo!Reset
  <2>1. Queue' \in Seq(Mail) /\ Len(Queue') = entry'
    BY <1>1, QueueElements DEF Queue, TypeOK
  <2>2. Queue' = <<>>
    BY <1>5, <2>1, EmptySeq
  <2> QED
    BY <2>2 DEF Fifo!Reset, Queue, QueueOf
<1>6. CASE UNCHANGED ring
  BY <1>6 DEF ring, Queue, QueueOf
<1> QED
  BY <1>3, <1>4, <1>5, <1>6, RingSteps

(* The ring of slots with its two offsets, through wraps, resets, retries, *)
(* timeouts and signals, is a queue of at most Size mails that are read in *)
(* the order in which they were sent, each of them once.                   *)
THEOREM MailboxImplementsFifo == Spec => ImplementsFifo
<1> DEFINE Inv == TypeOK /\ RingConsistent
<1>1. Init => Inv
  BY InitWaitInv DEF WaitInv
<1>2. Inv /\ [Next]_vars => Inv'
  BY NextTypeOK, NextRingConsistent
<1>3. Init => Fifo!Init
  <2> SUFFICES ASSUME Init PROVE Queue = <<>>
    BY DEF Fifo!Init, Queue, QueueOf
  <2>1. Queue \in Seq(Mail) /\ Len(Queue) = 0
    BY <1>1, QueueElements DEF Init, Queue, TypeOK
  <2> QED
    BY <2>1, EmptySeq
<1>4. Inv /\ [Next]_vars => [Fifo!Next]_Queue
  BY StepIsFifoStep DEF Fifo!Next
<1>5. [Fifo!Next]_Queue
        => [Fifo!Next]_([i \in 1..entry |->
                           msg_pool[(out_offset + i - 1) % Size]])
  BY DEF Queue, QueueOf
<1> QED
  BY <1>1, <1>2, <1>3, <1>4, <1>5, PTL DEF Spec, ImplementsFifo, Fifo!Spec
==============================================================================
