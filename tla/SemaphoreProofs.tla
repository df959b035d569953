---------------------------- MODULE SemaphoreProofs ----------------------------
(***************************************************************************)
(* Theorems about module Semaphore, for every set of threads, priorities,  *)
(* list policy, bounds and choice of who times out, resets, detaches or is *)
(* signalled.                                                              *)
(***************************************************************************)
EXTENDS Semaphore, IpcListProofs

(* What being on the list means.  A suspended thread is in rt_sem_take and *)
(* has no error yet, and a thread that holds a unit is not in rt_sem_take. *)
Waits ==
    /\ \A t \in Thread : Suspended(t) => pc[t] = "waiting" /\ error[t] = "EOK"
    /\ \A t \in held : pc[t] # "waiting"

(* The inductive invariant of the wait list. *)
WaitInv ==
    TypeOK /\ NoIdleUnit /\ TimerGuardsWait /\ ServedInOrder /\ Waits

(* The initial states satisfy the invariant of the waits. *)
LEMMA InitWaitInv == Init => WaitInv
<1> SUFFICES ASSUME Init PROVE WaitInv
  OBVIOUS
<1>1. TypeOK
  BY ValueAssumption DEF Init, TypeOK, Errors, Locations
<1>2. list = <<>> /\ Len(list) = 0
  BY DEF Init
<1>3. \A t : ~Suspended(t)
  BY <1>2 DEF Suspended, Linked
<1>4. Waits /\ TimerGuardsWait /\ NoIdleUnit
  BY <1>2, <1>3 DEF Init, Waits, TimerGuardsWait, NoIdleUnit
<1>5. ServedInOrder
  BY <1>2 DEF ServedInOrder, Once, Sorted
<1> QED
  BY <1>1, <1>4, <1>5 DEF WaitInv

------------------------------------------------------------------------------
(* Where the list can go in one step: the head leaves, ... *)
LEMMA HeadLeaves ==
  ASSUME WaitInv, list # <<>>
  PROVE  /\ Head(list) \in Thread /\ Suspended(Head(list))
         /\ Tail(list) \in Seq(Thread)
         /\ Once(Tail(list))
         /\ Flag = PRIO => Sorted(Tail(list), Priority)
         /\ \A u : Linked(Tail(list), u) <=> (Suspended(u) /\ u # Head(list))
  BY TailProperties, PriorityAssumption
     DEF WaitInv, TypeOK, ServedInOrder, Suspended

(* ... one thread is unlinked, ... *)
LEMMA OneLeaves ==
  ASSUME WaitInv, NEW t \in Thread
  PROVE  /\ Unlink(list, t) \in Seq(Thread)
         /\ Once(Unlink(list, t))
         /\ Flag = PRIO => Sorted(Unlink(list, t), Priority)
         /\ \A u : Linked(Unlink(list, t), u) <=> (Suspended(u) /\ u # t)
  BY UnlinkProperties, PriorityAssumption
     DEF WaitInv, TypeOK, ServedInOrder, Suspended

(* ... or one thread is linked. *)
LEMMA OneJoins ==
  ASSUME WaitInv, NEW t \in Thread, ~Suspended(t)
  PROVE  /\ Enqueue(list, t, Flag, Priority) \in Seq(Thread)
         /\ Once(Enqueue(list, t, Flag, Priority))
         /\ Flag = PRIO => Sorted(Enqueue(list, t, Flag, Priority), Priority)
         /\ \A u : Linked(Enqueue(list, t, Flag, Priority), u)
                   <=> (Suspended(u) \/ u = t)
<1>1. list \in Seq(Thread) /\ Once(list) /\ ~Linked(list, t)
      /\ (Flag = PRIO => Sorted(list, Priority))
  BY DEF WaitInv, TypeOK, ServedInOrder, Suspended
<1>2. Flag = PRIO => Sorted(Enqueue(list, t, Flag, Priority), Priority)
  BY <1>1, EnqueueSorted, PriorityAssumption
<1> QED
  BY <1>1, <1>2, EnqueueElements, EnqueueLinked, PriorityAssumption
     DEF Suspended

(* Nobody is linked on an empty list. *)
LEMMA NoneLinked ==
  ASSUME list' = <<>>
  PROVE  /\ list' \in Seq(Thread)
         /\ \A u : ~Suspended(u)'
         /\ ServedInOrder'
<1>1. Len(list') = 0
  OBVIOUS
<1> QED
  BY <1>1 DEF Suspended, Linked, ServedInOrder, Once, Sorted

(* The count of the units handed out is a natural number. *)
LEMMA UnitsOutType ==
  ASSUME TypeOK
  PROVE  /\ IsFiniteSet(held) /\ IsFiniteSet(Granted)
         /\ Cardinality(held) \in Nat /\ Cardinality(Granted) \in Nat
         /\ UnitsOut \in Nat
<1>1. held \in SUBSET Thread /\ Granted \in SUBSET Thread
  BY DEF TypeOK, Granted
<1>2. IsFiniteSet(held) /\ IsFiniteSet(Granted)
  BY <1>1, FS_Subset, ThreadAssumption
<1>3. Cardinality(held) \in Nat /\ Cardinality(Granted) \in Nat
  BY <1>2, FS_CardinalityType
<1> QED
  BY <1>2, <1>3 DEF UnitsOut

------------------------------------------------------------------------------
(* Each operation preserves the invariant of the wait list. *)
LEMMA TakeAvailableWaitInv ==
  ASSUME WaitInv, NEW t \in Thread, TakeAvailable(t)
  PROVE  WaitInv'
<1> USE DEF TakeAvailable
<1>1. TypeOK'
  BY ValueAssumption DEF WaitInv, TypeOK
<1>2. NoIdleUnit' /\ ServedInOrder' /\ TimerGuardsWait'
  BY DEF WaitInv, NoIdleUnit, ServedInOrder, TimerGuardsWait, Suspended, TypeOK
<1>3. Waits'
  BY DEF WaitInv, Waits, Suspended
<1> QED
  BY <1>1, <1>2, <1>3 DEF WaitInv

(* rt_sem_take, the part that suspends the caller. *)
LEMMA TakeSuspendWaitInv ==
  ASSUME WaitInv, NEW t \in Thread, NEW timed \in BOOLEAN, TakeSuspend(t, timed)
  PROVE  WaitInv'
<1> USE DEF TakeSuspend
<1>0. ~Suspended(t)
  BY DEF WaitInv, Waits
<1>1. TypeOK'
  BY <1>0, OneJoins DEF WaitInv, TypeOK, Errors, Locations
<1>2. ServedInOrder'
  BY <1>0, OneJoins DEF ServedInOrder
<1>3. \A u : Suspended(u)' <=> (Suspended(u) \/ u = t)
  BY <1>0, OneJoins DEF Suspended
<1>4. NoIdleUnit'
  BY DEF NoIdleUnit, WaitInv, TypeOK
<1>5. TimerGuardsWait'
  BY <1>3 DEF WaitInv, TimerGuardsWait
<1>6. Waits'
  BY <1>3 DEF WaitInv, Waits, TypeOK
<1> QED
  BY <1>1, <1>2, <1>4, <1>5, <1>6 DEF WaitInv

(* rt_sem_take, the part after rt_schedule. *)
LEMMA ReturnWaitInv ==
  ASSUME WaitInv, NEW t \in Thread, Return(t)
  PROVE  WaitInv'
<1> USE DEF Return
<1>1. TypeOK'
  BY DEF WaitInv, TypeOK, Locations
<1>2. NoIdleUnit' /\ ServedInOrder' /\ TimerGuardsWait'
  BY DEF WaitInv, NoIdleUnit, ServedInOrder, TimerGuardsWait, Suspended
<1>3. Waits'
  BY DEF WaitInv, Waits, Suspended, TypeOK
<1> QED
  BY <1>1, <1>2, <1>3 DEF WaitInv

(* A thread leaves the list with an error: by its timer or by a signal.    *)
LEMMA UnlinkedWaitInv ==
  ASSUME WaitInv, NEW t \in Thread, NEW e \in Errors,
         error' = [error EXCEPT ![t] = e],
         list' = Unlink(list, t),
         timer' = timer \ {t},
         kills' \in 0..MaxKills,
         UNCHANGED <<value, pc, live, held, total>>
  PROVE  WaitInv'
<1>1. TypeOK'
  BY OneLeaves DEF WaitInv, TypeOK
<1>2. ServedInOrder'
  BY OneLeaves DEF ServedInOrder
<1>3. \A u : Suspended(u)' <=> (Suspended(u) /\ u # t)
  BY OneLeaves DEF Suspended
<1>4. NoIdleUnit'
  <2>1. list = <<>> => list' = <<>>
    BY DEF Unlink, Linked
  <2> QED
    BY <2>1 DEF NoIdleUnit, WaitInv
<1>5. TimerGuardsWait'
  BY <1>3 DEF WaitInv, TimerGuardsWait
<1>6. Waits'
  BY <1>3 DEF WaitInv, Waits, TypeOK
<1> QED
  BY <1>1, <1>2, <1>4, <1>5, <1>6 DEF WaitInv

(* rt_thread_timeout. *)
LEMMA TimeoutWaitInv ==
  ASSUME WaitInv, NEW t \in Thread, Timeout(t)
  PROVE  WaitInv'
  BY UnlinkedWaitInv DEF Timeout, Errors, WaitInv, TypeOK

(* _signal_deliver to a waiting thread. *)
LEMMA SignalWaitInv ==
  ASSUME WaitInv, NEW t \in Thread, Signal(t)
  PROVE  WaitInv'
<1>1. PICK e \in Errors : error' = [error EXCEPT ![t] = e]
  BY DEF Signal, WaitInv, TypeOK, Errors
<1>2. kills' \in 0..MaxKills
  BY ValueAssumption DEF Signal, WaitInv, TypeOK
<1> QED
  BY <1>1, <1>2, UnlinkedWaitInv DEF Signal

(* A unit is put in: by the thread that held it or from outside.           *)
LEMMA ReleaseUnitWaitInv ==
  ASSUME WaitInv, ReleaseUnit, held' \subseteq held, total' \in 0..MaxTotal,
         UNCHANGED <<error, pc, live, kills>>
  PROVE  WaitInv'
<1> USE DEF ReleaseUnit
<1>1. CASE list = <<>>
  <2>1. TypeOK'
    BY <1>1, ValueAssumption DEF WaitInv, TypeOK
  <2>2. NoIdleUnit' /\ ServedInOrder' /\ TimerGuardsWait' /\ Waits'
    BY <1>1 DEF WaitInv, NoIdleUnit, ServedInOrder, TimerGuardsWait, Waits,
                Suspended
  <2> QED
    BY <2>1, <2>2 DEF WaitInv
<1>2. CASE list # <<>>
  <2>1. TypeOK'
    BY <1>2, HeadLeaves DEF WaitInv, TypeOK
  <2>2. ServedInOrder'
    BY <1>2, HeadLeaves DEF ServedInOrder
  <2>3. \A u : Suspended(u)' <=> (Suspended(u) /\ u # Head(list))
    BY <1>2, HeadLeaves DEF Suspended
  <2>4. NoIdleUnit'
    BY <1>2 DEF WaitInv, NoIdleUnit
  <2>5. TimerGuardsWait' /\ Waits'
    BY <1>2, <2>3 DEF WaitInv, TimerGuardsWait, Waits
  <2> QED
    BY <2>1, <2>2, <2>4, <2>5 DEF WaitInv
<1> QED
  BY <1>1, <1>2

(* rt_sem_release by a thread that has a unit. *)
LEMMA ReleaseWaitInv ==
  ASSUME WaitInv, NEW t \in Thread, Release(t)
  PROVE  WaitInv'
  BY ReleaseUnitWaitInv DEF Release, WaitInv, TypeOK

(* rt_sem_release by anybody. *)
LEMMA PostWaitInv ==
  ASSUME WaitInv, Post
  PROVE  WaitInv'
<1>1. total' \in 0..MaxTotal
  BY ValueAssumption DEF Post, WaitInv, TypeOK
<1> QED
  BY <1>1, ReleaseUnitWaitInv DEF Post

(* rt_sem_control(RT_IPC_CMD_RESET). *)
LEMMA ResetWaitInv ==
  ASSUME WaitInv, NEW t \in Thread, NEW v \in 0..MaxTotal, Reset(t, v)
  PROVE  WaitInv'
<1> USE DEF Reset
<1>1. list' = <<>>
  OBVIOUS
<1>2. TypeOK'
  <2>1. total' \in 0..MaxTotal
    BY UnitsOutType, ValueAssumption DEF WaitInv
  <2>2. value' \in 0..(ValueMod - 1)
    BY ValueAssumption
  <2>3. error' \in [Thread -> Errors]
    BY DEF WaitInv, TypeOK, Errors
  <2> QED
    BY <1>1, <2>1, <2>2, <2>3, NoneLinked DEF WaitInv, TypeOK
<1>3. NoIdleUnit' /\ ServedInOrder'
  BY <1>1, NoneLinked DEF NoIdleUnit
<1>4. TimerGuardsWait'
  <2>1. timer' = {}
    BY DEF WaitInv, TimerGuardsWait
  <2> QED
    BY <2>1 DEF TimerGuardsWait
<1>5. Waits'
  BY <1>1, NoneLinked DEF WaitInv, Waits
<1> QED
  BY <1>2, <1>3, <1>4, <1>5 DEF WaitInv

(* The steps of a detach that move no waiter. *)
LEMMA DetachWaitInv ==
  ASSUME WaitInv, NEW t \in Thread,
         DetachBegin(t) \/ ResumeAllTest(t) \/ Unregister(t)
  PROVE  WaitInv'
<1>1. /\ UNCHANGED <<value, list, timer, error, held, total, kills>>
      /\ pc[t] # "waiting" /\ live' \in BOOLEAN
      /\ \E l \in Locations : l # "waiting" /\ pc' = [pc EXCEPT ![t] = l]
  BY DEF DetachBegin, ResumeAllTest, Unregister, Locations, WaitInv, TypeOK
<1>2. TypeOK'
  BY <1>1 DEF WaitInv, TypeOK
<1>3. NoIdleUnit' /\ ServedInOrder' /\ TimerGuardsWait'
  BY <1>1 DEF WaitInv, NoIdleUnit, ServedInOrder, TimerGuardsWait, Suspended
<1>4. Waits'
  BY <1>1 DEF WaitInv, Waits, Suspended, TypeOK
<1> QED
  BY <1>2, <1>3, <1>4 DEF WaitInv

(* rt_ipc_list_resume_all, the part with interrupts disabled. *)
LEMMA ResumeAllTakeWaitInv ==
  ASSUME WaitInv, NEW t \in Thread, ResumeAllTake(t)
  PROVE  WaitInv'
<1> USE DEF ResumeAllTake
<1>1. CASE list = <<>>
  <2>1. TypeOK'
    BY <1>1 DEF WaitInv, TypeOK, Locations
  <2>2. NoIdleUnit' /\ ServedInOrder' /\ TimerGuardsWait' /\ Waits'
    BY <1>1 DEF WaitInv, NoIdleUnit, ServedInOrder, TimerGuardsWait, Waits,
                Suspended, TypeOK
  <2> QED
    BY <2>1, <2>2 DEF WaitInv
<1>2. CASE list # <<>>
  <2>1. TypeOK'
    BY <1>2, HeadLeaves DEF WaitInv, TypeOK, Errors, Locations
  <2>2. ServedInOrder'
    BY <1>2, HeadLeaves DEF ServedInOrder
  <2>3. \A u : Suspended(u)' <=> (Suspended(u) /\ u # Head(list))
    BY <1>2, HeadLeaves DEF Suspended
  <2>4. NoIdleUnit'
    BY <1>2 DEF WaitInv, NoIdleUnit
  <2>5. TimerGuardsWait' /\ Waits'
    BY <1>2, <2>3, HeadLeaves DEF WaitInv, TimerGuardsWait, Waits, TypeOK
  <2> QED
    BY <2>1, <2>2, <2>4, <2>5 DEF WaitInv
<1> QED
  BY <1>1, <1>2

(* Every step keeps the invariant of the waits. *)
LEMMA NextWaitInv == WaitInv /\ [Next]_vars => WaitInv'
<1> SUFFICES ASSUME WaitInv, [Next]_vars PROVE WaitInv'
  OBVIOUS
<1>1. CASE UNCHANGED vars
  BY <1>1 DEF vars, WaitInv, TypeOK, NoIdleUnit, TimerGuardsWait,
              ServedInOrder, Waits, Suspended
<1>2. CASE Post
  BY <1>2, PostWaitInv
<1>3. ASSUME NEW t \in Thread, CallStep(t)
      PROVE  WaitInv'
  BY <1>3, ReturnWaitInv, DetachWaitInv, ResumeAllTakeWaitInv DEF CallStep
<1> QED
  BY <1>1, <1>2, <1>3, TakeAvailableWaitInv, TakeSuspendWaitInv, ReleaseWaitInv,
     ResetWaitInv, DetachWaitInv, TimeoutWaitInv, SignalWaitInv DEF Next

(* The types, and the three invariants of the wait list: nobody waits      *)
(* while a unit is available, a timer is only active during its wait, and  *)
(* RT_IPC_FLAG_PRIO keeps the most urgent waiter first, whatever releases, *)
(* timers, resets, detaches and signals do to the list between them.       *)
THEOREM WaitListCorrect == Spec => []WaitListInv
<1>1. WaitInv => WaitListInv
  BY DEF WaitInv, WaitListInv
<1> QED
  BY <1>1, InitWaitInv, NextWaitInv, PTL DEF Spec

------------------------------------------------------------------------------
(* Which units each operation moves.  Only a release that finds a waiter,  *)
(* the return of a thread that was granted a unit, and a signal change the *)
(* set of granted threads.                                                 *)
LEMMA ReleaseUnitGrants ==
  ASSUME WaitInv, ReleaseUnit, UNCHANGED <<error, pc>>
  PROVE  IF list = <<>> THEN Granted' = Granted
         ELSE /\ Head(list) \notin Granted
              /\ Granted' = Granted \union {Head(list)}
<1>1. CASE list = <<>>
  BY <1>1 DEF ReleaseUnit, Granted, Suspended
<1>2. CASE list # <<>>
  <2>1. \A u : Suspended(u)' <=> (Suspended(u) /\ u # Head(list))
    BY <1>2, HeadLeaves DEF ReleaseUnit, Suspended
  <2>2. /\ Head(list) \in Thread /\ Suspended(Head(list))
        /\ pc[Head(list)] = "waiting" /\ error[Head(list)] = "EOK"
    BY <1>2, HeadLeaves DEF WaitInv, Waits
  <2> QED
    BY <1>2, <2>1, <2>2 DEF Granted
<1> QED
  BY <1>1, <1>2

(* A return moves a unit from granted to held, or changes neither. *)
LEMMA ReturnUnits ==
  ASSUME WaitInv, NEW t \in Thread, Return(t)
  PROVE  IF error[t] = "EOK"
         THEN /\ t \in Granted /\ Granted' = Granted \ {t}
              /\ t \notin held /\ held' = held \union {t}
         ELSE Granted' = Granted /\ held' = held
<1>1. t \in Granted <=> error[t] = "EOK"
  BY DEF Return, Granted
<1>2. Granted' = Granted \ {t}
  BY DEF Return, Granted, Suspended, WaitInv, TypeOK
<1>3. t \notin held
  BY DEF Return, WaitInv, Waits
<1> QED
  BY <1>1, <1>2, <1>3 DEF Return

(* No step but a release, a return and a signal changes the units granted. *)
LEMMA SameGranted ==
  ASSUME WaitInv, NEW t \in Thread,
         \/ TakeAvailable(t) \/ \E timed \in BOOLEAN : TakeSuspend(t, timed)
         \/ Timeout(t) \/ \E v \in 0..MaxTotal : Reset(t, v)
         \/ DetachBegin(t) \/ ResumeAllTest(t) \/ ResumeAllTake(t)
         \/ Unregister(t)
  PROVE  Granted' = Granted
<1>1. CASE TakeAvailable(t)
  BY <1>1 DEF TakeAvailable, Granted, Suspended
<1>2. ASSUME NEW timed \in BOOLEAN, TakeSuspend(t, timed)
      PROVE  Granted' = Granted
  <2>1. ~Suspended(t)
    BY <1>2 DEF TakeSuspend, WaitInv, Waits
  <2>2. \A u : Suspended(u)' <=> (Suspended(u) \/ u = t)
    BY <1>2, <2>1, OneJoins DEF TakeSuspend, Suspended
  <2>3. t \notin Granted
    BY <1>2 DEF TakeSuspend, Granted
  <2> QED
    BY <1>2, <2>2, <2>3 DEF TakeSuspend, Granted, WaitInv, TypeOK
<1>3. CASE Timeout(t)
  <2>1. \A u : Suspended(u)' <=> (Suspended(u) /\ u # t)
    BY <1>3, OneLeaves DEF Timeout, Suspended
  <2>2. Suspended(t)
    BY <1>3 DEF Timeout, WaitInv, TimerGuardsWait
  <2> QED
    BY <1>3, <2>1, <2>2 DEF Timeout, Granted, WaitInv, TypeOK
<1>4. ASSUME NEW v \in 0..MaxTotal, Reset(t, v)
      PROVE  Granted' = Granted
  <2>1. \A u : ~Suspended(u)'
    BY <1>4, NoneLinked DEF Reset
  <2> QED
    BY <1>4, <2>1 DEF Reset, Granted
<1>5. CASE DetachBegin(t) \/ ResumeAllTest(t) \/ Unregister(t)
  <2>1. pc[t] # "waiting" /\ UNCHANGED <<list, error>>
        /\ \E l \in Locations : l # "waiting" /\ pc' = [pc EXCEPT ![t] = l]
    BY <1>5 DEF DetachBegin, ResumeAllTest, Unregister, Locations
  <2> QED
    BY <2>1 DEF Granted, Suspended, WaitInv, TypeOK
<1>6. CASE ResumeAllTake(t)
  <2>1. CASE list = <<>>
    BY <1>6, <2>1 DEF ResumeAllTake, Granted, Suspended, WaitInv, TypeOK
  <2>2. CASE list # <<>>
    <3>1. \A u : Suspended(u)' <=> (Suspended(u) /\ u # Head(list))
      BY <1>6, <2>2, HeadLeaves DEF ResumeAllTake, Suspended
    <3>2. Head(list) \notin Granted /\ Head(list) \in Thread
      BY <2>2, HeadLeaves DEF Granted
    <3>3. /\ pc' = [pc EXCEPT ![t] = "resume_all"]
          /\ error' = [error EXCEPT ![Head(list)] = "ERROR"]
          /\ pc[t] = "resume_one"
      BY <1>6, <2>2 DEF ResumeAllTake
    <3> QED
      BY <3>1, <3>2, <3>3 DEF Granted, WaitInv, TypeOK
  <2> QED
    BY <2>1, <2>2
<1> QED
  BY <1>1, <1>2, <1>3, <1>4, <1>5, <1>6

(* A signal can only add its target to the granted, or take it out. *)
LEMMA SignalUnits ==
  ASSUME WaitInv, NEW t \in Thread, Signal(t)
  PROVE  Granted' = Granted \union {t} \/ Granted' = Granted \ {t}
<1>1. \A u : Suspended(u)' <=> (Suspended(u) /\ u # t)
  BY OneLeaves DEF Signal, Suspended
<1>2. PICK e \in Errors : error' = [error EXCEPT ![t] = e]
  BY DEF Signal, WaitInv, TypeOK, Errors
<1>3. \A u \in Thread \ {t} : u \in Granted' <=> u \in Granted
  BY <1>1, <1>2 DEF Signal, Granted, WaitInv, TypeOK
<1>4. Granted \subseteq Thread /\ Granted' \subseteq Thread
  BY DEF Granted
<1> QED
  BY <1>3, <1>4

------------------------------------------------------------------------------
(* The count never wraps: there are no more units than were put in and     *)
(* signals sent.                                                           *)
UnitsInv == WaitInv /\ UnitsConserved

(* The initial states satisfy the invariant of the units. *)
LEMMA InitUnits == Init => UnitsInv /\ Granted = {} /\ Cardinality({}) = 0
<1> SUFFICES ASSUME Init PROVE UnitsInv /\ Granted = {} /\ Cardinality({}) = 0
  OBVIOUS
<1>1. Granted = {}
  BY DEF Init, Granted
<1>2. Cardinality({}) = 0
  BY FS_EmptySet
<1>3. UnitsConserved
  BY <1>1, <1>2, ValueAssumption DEF Init, UnitsConserved, UnitsOut
<1> QED
  BY <1>1, <1>2, <1>3, InitWaitInv DEF UnitsInv

(* The balance of the units, as numbers the arithmetic below can use. *)
LEMMA CountedUnits ==
  ASSUME UnitsInv
  PROVE  /\ value \in Nat /\ total \in Nat /\ kills \in Nat
         /\ total <= MaxTotal /\ kills <= MaxKills
         /\ Cardinality(held) \in Nat /\ Cardinality(Granted) \in Nat
         /\ value + Cardinality(held) + Cardinality(Granted) <= total + kills
         /\ value + Cardinality(held) + Cardinality(Granted) >= total - kills
  BY UnitsOutType, ValueAssumption
     DEF UnitsInv, WaitInv, TypeOK, UnitsConserved, UnitsOut

(* A count below its width does not wrap. *)
LEMMA SmallModulo ==
  ASSUME NEW n \in Nat, NEW m \in Nat, n < m
  PROVE  n % m = n
  OBVIOUS

(* A unit put in becomes available, on the counter or in the hands of the  *)
(* first waiter.                                                           *)
LEMMA ReleaseUnitAvail ==
  ASSUME UnitsInv, ReleaseUnit, UNCHANGED <<error, pc>>, value + 1 < ValueMod
  PROVE  value' + Cardinality(Granted') = value + Cardinality(Granted) + 1
<1>1. CASE list = <<>>
  <2>1. value' = value + 1
    <3>1. value + 1 \in Nat /\ ValueMod \in Nat
      BY CountedUnits, ValueAssumption
    <3>2. value' = (value + 1) % ValueMod
      BY <1>1 DEF ReleaseUnit
    <3> QED
      BY <3>1, <3>2, SmallModulo
  <2>2. Granted' = Granted
    BY <1>1, ReleaseUnitGrants DEF UnitsInv
  <2> QED
    BY <2>1, <2>2, CountedUnits
<1>2. CASE list # <<>>
  <2>1. value' = value
    BY <1>2 DEF ReleaseUnit
  <2>2. Cardinality(Granted') = Cardinality(Granted) + 1
    BY <1>2, ReleaseUnitGrants, UnitsOutType, FS_AddElement
       DEF UnitsInv, WaitInv
  <2> QED
    BY <2>1, <2>2, CountedUnits
<1> QED
  BY <1>1, <1>2

(* Every step of the semaphore is a step of its promise, or changes        *)
(* nothing the promise speaks of.                                          *)
LEMMA StepKeepsPromise ==
  ASSUME UnitsInv, [Next]_vars
  PROVE  [Promise!Next]_<<value + Cardinality(Granted), held, total, kills>>
<1> DEFINE g == Cardinality(Granted)
<1>0. /\ value \in Nat /\ total \in Nat /\ kills \in Nat /\ g \in Nat
      /\ Cardinality(held) \in Nat
      /\ WaitInv /\ IsFiniteSet(held) /\ IsFiniteSet(Granted)
  BY CountedUnits, UnitsOutType DEF UnitsInv, WaitInv
<1> USE DEF Promise!Next
<1>1. CASE UNCHANGED vars
  BY <1>1 DEF vars, Granted, Suspended
<1>2. CASE Post
  <2>1. value + 1 < ValueMod
    BY <1>0, <1>2, CountedUnits, ValueAssumption DEF Post
  <2>2. value' + Cardinality(Granted') = value + g + 1
    BY <1>2, <2>1, ReleaseUnitAvail DEF Post
  <2>3. Promise!Post
    BY <1>2, <2>2 DEF Promise!Post, Post
  <2> QED
    BY <2>3
<1>3. ASSUME NEW t \in Thread, TakeAvailable(t)
      PROVE  Promise!Acquire(t)
  <2>1. Granted' = Granted
    BY <1>0, <1>3, SameGranted
  <2> QED
    BY <1>0, <1>3, <2>1 DEF TakeAvailable, Promise!Acquire
<1>4. ASSUME NEW t \in Thread, Return(t)
      PROVE  Promise!Acquire(t)
             \/ UNCHANGED <<value + Cardinality(Granted), held, total, kills>>
  <2>1. CASE error[t] = "EOK"
    <3>1. t \in Granted /\ Granted' = Granted \ {t} /\ t \notin held
          /\ held' = held \union {t}
      BY <1>0, <1>4, <2>1, ReturnUnits
    <3>2. Cardinality(Granted') = g - 1
      BY <1>0, <3>1, FS_RemoveElement
    <3>3. g > 0
      BY <1>0, <3>1, FS_EmptySet
    <3> QED
      BY <1>0, <1>4, <3>1, <3>2, <3>3 DEF Return, Promise!Acquire
  <2>2. CASE error[t] # "EOK"
    BY <1>0, <1>4, <2>2, ReturnUnits DEF Return
  <2> QED
    BY <2>1, <2>2
<1>5. ASSUME NEW t \in Thread, Release(t)
      PROVE  Promise!GiveBack(t)
  <2>1. t \in held
    BY <1>5 DEF Release
  <2>2. Cardinality(held) >= 1
    BY <1>0, <2>1, FS_EmptySet
  <2>3. value + 1 < ValueMod
    BY <1>0, <2>2, CountedUnits, ValueAssumption
  <2>4. value' + Cardinality(Granted') = value + g + 1
    BY <1>5, <2>3, ReleaseUnitAvail DEF Release
  <2> QED
    BY <1>5, <2>1, <2>4 DEF Release, Promise!GiveBack
<1>6. ASSUME NEW t \in Thread, NEW v \in 0..MaxTotal, Reset(t, v)
      PROVE  Promise!Reset
  <2>1. Granted' = Granted
    BY <1>0, <1>6, SameGranted
  <2>2. v % ValueMod = v /\ v \in Nat
    BY SmallModulo, ValueAssumption
  <2>3. value' = v /\ total' = v + Cardinality(held) + g
    BY <1>0, <1>6, <2>2 DEF Reset, UnitsOut
  <2>4. total' \in Nat /\ value' + g = total' - Cardinality(held)
    BY <1>0, <2>2, <2>3
  <2>5. held' = held /\ kills' = kills
    BY <1>6 DEF Reset
  <2> HIDE DEF g
  <2> QED
    BY <2>1, <2>4, <2>5 DEF Promise!Reset, g, Promise!Cardinality, Cardinality
<1>7. ASSUME NEW t \in Thread, Signal(t)
      PROVE  Promise!Interrupt
  <2>1. Granted' = Granted \union {t} \/ Granted' = Granted \ {t}
    BY <1>0, <1>7, SignalUnits
  <2>2. Cardinality(Granted') \in {g - 1, g, g + 1}
    BY <1>0, <2>1, FS_AddElement, FS_RemoveElement
  <2>3. value' = value /\ held' = held /\ total' = total /\ kills' = kills + 1
    BY <1>7 DEF Signal
  <2> QED
    BY <1>0, <2>2, <2>3 DEF Promise!Interrupt
<1>8. ASSUME NEW t \in Thread,
             \/ \E timed \in BOOLEAN : TakeSuspend(t, timed)
             \/ Timeout(t) \/ DetachBegin(t)
             \/ ResumeAllTest(t) \/ ResumeAllTake(t) \/ Unregister(t)
      PROVE  UNCHANGED <<value + Cardinality(Granted), held, total, kills>>
  <2>1. Granted' = Granted
    BY <1>0, <1>8, SameGranted
  <2>2. UNCHANGED <<value, held, total, kills>>
    BY <1>8 DEF TakeSuspend, Timeout, DetachBegin, ResumeAllTest, ResumeAllTake,
                Unregister
  <2> QED
    BY <2>1, <2>2
<1> QED
  BY <1>1, <1>2, <1>3, <1>4, <1>5, <1>6, <1>7, <1>8 DEF Next, CallStep

(* The promise accounts for every unit, but for one per signal.            *)
LEMMA ResetArithmetic ==
  ASSUME NEW x \in Int, NEW y \in Int, NEW n \in Int, NEW k \in Nat,
         x = n - y
  PROVE  x + y <= n + k /\ x + y >= n - k
OBVIOUS

(* One signal moves the balance by at most one unit. *)
LEMMA InterruptArithmetic ==
  ASSUME NEW x \in Int, NEW y \in Int, NEW n \in Int, NEW k \in Nat,
         NEW z \in (x - 1)..(x + 1),
         x + y <= n + k, x + y >= n - k
  PROVE  z + y <= n + (k + 1) /\ z + y >= n - (k + 1)
OBVIOUS

(* Every step of the abstract semaphore keeps its balance. *)
LEMMA PromiseConserves ==
  ASSUME UnitsInv, TypeOK',
         [Promise!Next]_<<value + Cardinality(Granted), held, total, kills>>
  PROVE  UnitsConserved'
<1> DEFINE a == value + Cardinality(Granted)
           h == Cardinality(held)
<1>0. /\ a \in Nat /\ h \in Nat /\ total \in Nat /\ kills \in Nat
      /\ IsFiniteSet(held)
      /\ a + h <= total + kills /\ a + h >= total - kills
  BY CountedUnits, UnitsOutType DEF UnitsInv, WaitInv
<1>1. /\ a' = value' + Cardinality(Granted') /\ h' = Cardinality(held')
      /\ h' \in Nat /\ a' \in Nat /\ total' \in Nat /\ kills' \in Nat
      /\ value' \in Nat /\ Cardinality(Granted') \in Nat
  <2>1. IsFiniteSet(held') /\ IsFiniteSet(Granted')
    <3>1. held' \in SUBSET Thread /\ Granted' \in SUBSET Thread
      BY DEF TypeOK, Granted
    <3> QED
      BY <3>1, FS_Subset, ThreadAssumption
  <2> QED
    BY <2>1, FS_CardinalityType, ValueAssumption DEF TypeOK
<1>2. SUFFICES a' + h' <= total' + kills' /\ a' + h' >= total' - kills'
  <2>1. value' + (Cardinality(held') + Cardinality(Granted')) = a' + h'
    BY <1>1
  <2>2. a' + h' \in (total' - kills')..(total' + kills')
    BY <1>1, <1>2
  <2> QED
    BY <2>1, <2>2 DEF UnitsConserved, UnitsOut
<1>3. CASE UNCHANGED <<a, held, total, kills>>
  BY <1>0, <1>3
<1>4. ASSUME NEW t \in Thread, Promise!Acquire(t)
      PROVE  a' + h' <= total' + kills' /\ a' + h' >= total' - kills'
  <2>1. h' = h + 1
    BY <1>0, <1>4, FS_AddElement DEF Promise!Acquire
  <2>2. a' = a - 1 /\ total' = total /\ kills' = kills
    BY <1>4 DEF Promise!Acquire
  <2>3. a' \in Int /\ h' \in Int /\ total' \in Int /\ kills' \in Int
    BY <1>1
  <2> HIDE DEF a, h
  <2> QED
    BY <1>0, <2>1, <2>2, <2>3
<1>5. ASSUME NEW t \in Thread, Promise!GiveBack(t)
      PROVE  a' + h' <= total' + kills' /\ a' + h' >= total' - kills'
  <2>1. h' = h - 1
    BY <1>0, <1>5, FS_RemoveElement DEF Promise!GiveBack
  <2>2. a' = a + 1 /\ total' = total /\ kills' = kills
    BY <1>5 DEF Promise!GiveBack
  <2>3. a' \in Int /\ h' \in Int /\ total' \in Int /\ kills' \in Int
    BY <1>1
  <2> HIDE DEF a, h
  <2> QED
    BY <1>0, <2>1, <2>2, <2>3
<1>6. CASE Promise!Post
  <2>1. /\ a' = a + 1 /\ total' = total + 1 /\ held' = held /\ kills' = kills
    BY <1>6 DEF Promise!Post
  <2>2. h' = h
    BY <2>1
  <2>3. a' \in Int /\ h' \in Int /\ total' \in Int /\ kills' \in Int
    BY <1>1
  <2> HIDE DEF a, h
  <2> QED
    BY <1>0, <2>1, <2>2, <2>3
<1>7. CASE Promise!Reset
  <2>1. a' = total' - h' /\ kills' \in Nat
    BY <1>1, <1>7 DEF Promise!Reset, Promise!Cardinality, Cardinality
  <2>2. a' \in Int /\ h' \in Int /\ total' \in Int
    BY <1>1
  <2> HIDE DEF a, h
  <2> QED
    BY <2>1, <2>2, ResetArithmetic
<1>8. CASE Promise!Interrupt
  <2>1. a' \in (a - 1)..(a + 1) /\ total' = total /\ kills' = kills + 1
    BY <1>8 DEF Promise!Interrupt
  <2>2. h' = h
    BY <1>8 DEF Promise!Interrupt
  <2>3. /\ a \in Int /\ h \in Int /\ total \in Int /\ kills \in Nat
        /\ a + h <= total + kills /\ a + h >= total - kills
    BY <1>0
  <2> HIDE DEF a, h
  <2>4. a' + h <= total + (kills + 1) /\ a' + h >= total - (kills + 1)
    BY <2>1, <2>3, InterruptArithmetic
  <2> QED
    BY <2>1, <2>2, <2>4
<1> QED
  BY <1>3, <1>4, <1>5, <1>6, <1>7, <1>8 DEF Promise!Next

(* Every step keeps the invariant of the units. *)
LEMMA NextUnitsInv == UnitsInv /\ [Next]_vars => UnitsInv'
<1> SUFFICES ASSUME UnitsInv, [Next]_vars PROVE UnitsInv'
  OBVIOUS
<1>1. WaitInv'
  BY NextWaitInv DEF UnitsInv
<1>2. UnitsConserved'
  BY <1>1, StepKeepsPromise, PromiseConserves DEF WaitInv
<1> QED
  BY <1>1, <1>2 DEF UnitsInv

(* rt_sem_take returns RT_EOK once for every unit put in, but for at most  *)
(* one unit that each signal creates or destroys, and exactly once when no *)
(* thread is signalled.                                                    *)
THEOREM UnitsAreConserved == Spec => []UnitsConserved
<1>1. UnitsInv => UnitsConserved
  BY DEF UnitsInv
<1> QED
  BY <1>1, InitUnits, NextUnitsInv, PTL DEF Spec

(* The semaphore with its wait list, timers and hand-over of units is a    *)
(* counting semaphore: it implements module CountingSemaphore.             *)
THEOREM SemaphoreKeepsPromise == Spec => ImplementsPromise
<1>1. ASSUME Init
      PROVE  Promise!Init
  <2>1. Cardinality(Granted) = 0
    BY <1>1, InitUnits
  <2> QED
    BY <1>1, <2>1, ValueAssumption DEF Init, Promise!Init
<1>2. UnitsInv /\ [Next]_vars
        => [Promise!Next]_<<value + Cardinality(Granted), held, total, kills>>
  BY StepKeepsPromise
<1>3. Init => UnitsInv
  BY InitUnits
<1> QED
  BY <1>1, <1>2, <1>3, NextUnitsInv, PTL
     DEF Spec, ImplementsPromise, Promise!Spec
==============================================================================
