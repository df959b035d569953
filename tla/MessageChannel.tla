---------------------------- MODULE MessageChannel ----------------------------
(***************************************************************************)
(* What a message queue promises: a message is written into a place of its *)
(* own, enters the queue at the tail (or the head, when urgent), leaves it *)
(* at the head, and is delivered once, as it was written.  At most         *)
(* Capacity messages are being written, queued or being read.              *)
(***************************************************************************)
EXTENDS Naturals, Sequences, FiniteSets

CONSTANTS Thread, Message, Capacity,
          Ordinary, Urgent,   \* how a message is sent
          Nothing

VARIABLES queue,     \* the messages in the queue
          writing,   \* writing[t]: how and what t is sending, or Nothing
          reading    \* reading[t]: <<the message t has taken>>, or Nothing

Busy(f) == {t \in Thread : f[t] # Nothing}

Idle(t) == writing[t] = Nothing /\ reading[t] = Nothing

Init == /\ queue = <<>>
        /\ writing = [t \in Thread |-> Nothing]
        /\ reading = [t \in Thread |-> Nothing]

Reserve(t, how, v) ==
    /\ Idle(t)
    /\ Len(queue) + Cardinality(Busy(writing)) + Cardinality(Busy(reading))
         < Capacity
    /\ writing' = [writing EXCEPT ![t] = <<how, v>>]
    /\ UNCHANGED <<queue, reading>>

Enter(t) ==
    /\ writing[t] # Nothing
    /\ queue' = IF writing[t][1] = Urgent THEN <<writing[t][2]>> \o queue
                                          ELSE Append(queue, writing[t][2])
    /\ writing' = [writing EXCEPT ![t] = Nothing]
    /\ UNCHANGED reading

Leave(t) ==
    /\ Idle(t) /\ queue # <<>>
    /\ reading' = [reading EXCEPT ![t] = <<Head(queue)>>]
    /\ queue' = Tail(queue)
    /\ UNCHANGED writing

GiveBack(t) ==
    /\ reading[t] # Nothing
    /\ reading' = [reading EXCEPT ![t] = Nothing]
    /\ UNCHANGED <<queue, writing>>

Reset == queue' = <<>> /\ UNCHANGED <<writing, reading>>

Next ==
    \/ Reset
    \/ \E t \in Thread :
          \/ \E how \in {Ordinary, Urgent}, v \in Message : Reserve(t, how, v)
          \/ Enter(t) \/ Leave(t) \/ GiveBack(t)

Spec == Init /\ [][Next]_<<queue, writing, reading>>
==============================================================================
