---------------------------- MODULE PoolSmpProofs ----------------------------
(***************************************************************************)
(* Theorems about two components that share no name and no state.          *)
(*                                                                         *)
(* The memory pool (module MemPool), for every set of threads, handlers    *)
(* and blocks, every bound and every choice of who waits with a timeout,   *)
(* who is signalled and who detaches.                                      *)
(*                                                                         *)
(* The scheduler of several processors (module Smp), for any number of     *)
(* processors and threads and any priorities, when the kernel is built for *)
(* at most 32 of them.                                                     *)
(***************************************************************************)
EXTENDS MemPool, Smp, IpcListProofs

(* A thread on the list of the pool is inside rt_mp_alloc. *)
WaitersInCall == \A t \in Thread : Suspended(t) => place[t] = "waiting"

(* The inductive invariant is PoolInv; the rest are its parts: the waiting *)
(* threads, the chain, where the threads are, and how the kernel hangs.    *)
ListInv ==
    /\ suspend_thread \in Seq(Thread) /\ Once(suspend_thread)
    /\ suspend_thread_count \in Int /\ over \in Nat
    /\ timer \subseteq {t \in Thread : Suspended(t)}
    /\ error \in [Thread -> {"EOK", "ETIMEOUT", "ERROR", "EINTR"}]
    /\ CountDriftsByTimeouts

ChainInv ==
    /\ block_list \in Seq(Block) /\ block_free_count \in Nat
    /\ owner \in [Block -> User \union {Nobody}]
    /\ ChainComplete

CallInv ==
    /\ place \in [Thread -> {"idle", "waiting"} \union Detaching]
    /\ left \in [Thread -> {"none", "ticks", "forever"}]
    /\ live \in BOOLEAN
    /\ kills \in 0..MaxKills
    /\ WaitersInCall

HangInv == hung \in BOOLEAN /\ HangsWhenEmpty

PoolInv == PoolAccounted /\ WaitersInCall

------------------------------------------------------------------------------
(* The whole and its parts, before a step and after it. *)
LEMMA PoolInvParts ==
  /\ PoolInv <=> (ListInv /\ ChainInv /\ CallInv /\ HangInv)
  /\ PoolInv' <=> (ListInv' /\ ChainInv' /\ CallInv' /\ HangInv')
  BY DEF PoolInv, PoolAccounted, PoolTypeOK, ListInv, ChainInv, CallInv,
         HangInv

(* The list has a length. *)
LEMMA ListLength ==
  ASSUME ListInv
  PROVE  Len(suspend_thread) \in Nat
  BY LenProperties DEF ListInv

(* The first waiter leaves the list, ... *)
LEMMA FirstLeaves ==
  ASSUME ListInv, suspend_thread # <<>>
  PROVE  /\ Head(suspend_thread) \in Thread
         /\ Tail(suspend_thread) \in Seq(Thread) /\ Once(Tail(suspend_thread))
         /\ Len(Tail(suspend_thread)) = Len(suspend_thread) - 1
         /\ \A u : Linked(Tail(suspend_thread), u)
                     <=> (Suspended(u) /\ u # Head(suspend_thread))
<1> DEFINE prio == [t \in Thread |-> 0]
<1>1. prio \in [Thread -> Nat]
  OBVIOUS
<1> HIDE DEF prio
<1>2. suspend_thread \in Seq(Thread) /\ Once(suspend_thread)
  BY DEF ListInv
<1>3. /\ Head(suspend_thread) \in Thread
      /\ Tail(suspend_thread) \in Seq(Thread) /\ Once(Tail(suspend_thread))
      /\ \A u : Linked(Tail(suspend_thread), u)
                  <=> (Suspended(u) /\ u # Head(suspend_thread))
  BY <1>1, <1>2, TailProperties DEF Suspended
<1> QED
  BY <1>2, <1>3, HeadTailProperties

(* The head of a list is on it. *)
LEMMA HeadIsLinked ==
  ASSUME ListInv, suspend_thread # <<>>
  PROVE  Suspended(Head(suspend_thread))
<1>1. /\ suspend_thread \in Seq(Thread) /\ Len(suspend_thread) \in Nat
      /\ Len(suspend_thread) # 0 /\ Head(suspend_thread) = suspend_thread[1]
  BY LenProperties, EmptySeq DEF ListInv
<1> QED
  BY <1>1 DEF Suspended, Linked

(* ... a waiter is taken out of the list, ... *)
LEMMA WaiterLeaves ==
  ASSUME ListInv, NEW t \in Thread
  PROVE  /\ Unlink(suspend_thread, t) \in Seq(Thread)
         /\ Once(Unlink(suspend_thread, t))
         /\ Len(Unlink(suspend_thread, t))
              = IF Suspended(t) THEN Len(suspend_thread) - 1
                ELSE Len(suspend_thread)
         /\ \A u : Linked(Unlink(suspend_thread, t), u)
                     <=> (Suspended(u) /\ u # t)
<1> DEFINE prio == [u \in Thread |-> 0]
<1>1. prio \in [Thread -> Nat]
  OBVIOUS
<1> HIDE DEF prio
<1>2. suspend_thread \in Seq(Thread) /\ Once(suspend_thread)
  BY DEF ListInv
<1>3. /\ Unlink(suspend_thread, t) \in Seq(Thread)
      /\ Once(Unlink(suspend_thread, t))
      /\ \A u : Linked(Unlink(suspend_thread, t), u)
                  <=> (Suspended(u) /\ u # t)
  BY <1>1, <1>2, UnlinkProperties DEF Suspended
<1>4. CASE Suspended(t)
  BY <1>2, <1>3, <1>4, UnlinkLength DEF Suspended
<1>5. CASE ~Suspended(t)
  BY <1>3, <1>5 DEF Unlink, Suspended
<1> QED
  BY <1>3, <1>4, <1>5

(* ... or the caller is linked in front. *)
LEMMA CallerJoins ==
  ASSUME ListInv, NEW t \in Thread, ~Suspended(t)
  PROVE  /\ <<t>> \o suspend_thread \in Seq(Thread)
         /\ Once(<<t>> \o suspend_thread)
         /\ Len(<<t>> \o suspend_thread) = Len(suspend_thread) + 1
         /\ \A u : Linked(<<t>> \o suspend_thread, u)
                     <=> (Suspended(u) \/ u = t)
  BY PrependProperties DEF ListInv, Suspended

------------------------------------------------------------------------------
(* The loop of rt_mp_alloc suspends its caller and counts it. *)
LEMMA SuspendKeepsList ==
  ASSUME ListInv, NEW t \in Thread, NEW time,
         ~Suspended(t), SuspendSelf(t, time), over' = over
  PROVE  /\ ListInv'
         /\ \A u : Suspended(u)' <=> (Suspended(u) \/ u = t)
<1>1. /\ suspend_thread' = <<t>> \o suspend_thread
      /\ suspend_thread_count' = suspend_thread_count + 1
      /\ timer' \subseteq timer \union {t}
      /\ error' = [error EXCEPT ![t] = "EOK"]
  BY DEF SuspendSelf
<1>2. /\ suspend_thread' \in Seq(Thread) /\ Once(suspend_thread')
      /\ Len(suspend_thread') = Len(suspend_thread) + 1
      /\ \A u : Suspended(u)' <=> (Suspended(u) \/ u = t)
  BY <1>1, CallerJoins DEF Suspended
<1>3. CountDriftsByTimeouts'
  BY <1>1, <1>2, ListLength DEF ListInv, CountDriftsByTimeouts
<1>4. timer' \subseteq {u \in Thread : Suspended(u)'}
  BY <1>1, <1>2 DEF ListInv
<1> QED
  BY <1>1, <1>2, <1>3, <1>4 DEF ListInv

(* The first waiter is resumed, or the list is empty and the kernel hangs. *)
LEMMA ResumeKeepsList ==
  ASSUME ListInv, NEW err \in {"EOK", "ERROR"}, over' = over,
         ResumeFirst(err) \/ ResumeOfNone
  PROVE  /\ ListInv'
         /\ \A u : Suspended(u)' => Suspended(u)
<1>1. CASE ResumeFirst(err)
  <2> DEFINE h == Head(suspend_thread)
  <2>1. /\ suspend_thread # <<>>
        /\ suspend_thread_count' = suspend_thread_count - 1
        /\ suspend_thread' = Tail(suspend_thread)
        /\ timer' = timer \ {h}
        /\ error' = [error EXCEPT ![h] = err]
    BY <1>1 DEF ResumeFirst
  <2>2. /\ suspend_thread' \in Seq(Thread) /\ Once(suspend_thread')
        /\ Len(suspend_thread') = Len(suspend_thread) - 1
        /\ h \in Thread
        /\ \A u : Suspended(u)' <=> (Suspended(u) /\ u # h)
    BY <2>1, FirstLeaves DEF Suspended
  <2> HIDE DEF h
  <2>3. CountDriftsByTimeouts'
    BY <2>1, <2>2, ListLength DEF ListInv, CountDriftsByTimeouts
  <2>4. timer' \subseteq {u \in Thread : Suspended(u)'}
    BY <2>1, <2>2 DEF ListInv
  <2> QED
    BY <2>1, <2>2, <2>3, <2>4 DEF ListInv
<1>2. CASE ResumeOfNone
  BY <1>2 DEF ResumeOfNone, waiters, ListInv, CountDriftsByTimeouts, Suspended
<1> QED
  BY <1>1, <1>2

(* A timeout or a signal takes a thread off the list behind the pool's     *)
(* back.                                                                   *)
LEMMA UnlinkKeepsList ==
  ASSUME ListInv, NEW t \in Thread,
         suspend_thread' = Unlink(suspend_thread, t),
         timer' = timer \ {t},
         NEW e \in {"EOK", "ETIMEOUT", "ERROR", "EINTR"},
         error' = [error EXCEPT ![t] = e],
         over' = IF Suspended(t) THEN over + 1 ELSE over,
         UNCHANGED suspend_thread_count
  PROVE  /\ ListInv'
         /\ \A u : Suspended(u)' => Suspended(u)
<1>1. /\ suspend_thread' \in Seq(Thread) /\ Once(suspend_thread')
      /\ Len(suspend_thread') = IF Suspended(t) THEN Len(suspend_thread) - 1
                                ELSE Len(suspend_thread)
      /\ \A u : Suspended(u)' <=> (Suspended(u) /\ u # t)
  BY WaiterLeaves DEF Suspended
<1>2. CountDriftsByTimeouts'
  <2>1. CASE Suspended(t)
    BY <1>1, <2>1, ListLength DEF ListInv, CountDriftsByTimeouts
  <2>2. CASE ~Suspended(t)
    BY <1>1, <2>2, ListLength DEF ListInv, CountDriftsByTimeouts
  <2> QED
    BY <2>1, <2>2
<1>3. timer' \subseteq {u \in Thread : Suspended(u)'}
  BY <1>1 DEF ListInv
<1>4. over' \in Nat
  BY DEF ListInv
<1> QED
  BY <1>1, <1>2, <1>3, <1>4 DEF ListInv

------------------------------------------------------------------------------
(* The chain after the block at its head is given to u ... *)
LEMMA ChainAfterTake ==
  ASSUME ChainInv, NEW u \in User, block_free_count # 0, Take(u)
  PROVE  /\ ChainInv'
         /\ Head(block_list) \in Block /\ owner[Head(block_list)] = Nobody
         /\ owner' = [owner EXCEPT ![Head(block_list)] = u]
<1> DEFINE prio == [b \in Block |-> 0]
           h == Head(block_list)
<1>1. prio \in [Block -> Nat]
  OBVIOUS
<1> HIDE DEF prio
<1>2. /\ block_list \in Seq(Block) /\ block_free_count \in Nat
      /\ owner \in [Block -> User \union {Nobody}]
      /\ block_free_count = Len(block_list) /\ Once(block_list)
      /\ \A b \in Block : Linked(block_list, b) <=> owner[b] = Nobody
  BY DEF ChainInv, ChainComplete
<1>3. block_list # <<>>
  <2> SUFFICES ASSUME block_list = <<>> PROVE FALSE
    OBVIOUS
  <2>1. Len(block_list) = 0
    OBVIOUS
  <2> QED
    BY <1>2, <2>1
<1>4. /\ block_free_count' = block_free_count - 1
      /\ block_list' = Tail(block_list)
      /\ owner' = [owner EXCEPT ![h] = u]
  BY DEF Take
<1>5. /\ block_list' \in Seq(Block) /\ Once(block_list')
      /\ Len(block_list') = Len(block_list) - 1
      /\ h \in Block /\ Linked(block_list, h)
      /\ \A b : Linked(block_list', b) <=> (Linked(block_list, b) /\ b # h)
  BY <1>1, <1>2, <1>3, <1>4, TailProperties, HeadTailProperties
<1>6. u # Nobody
  BY UserAssumption
<1> HIDE DEF h
<1>7. \A b \in Block : Linked(block_list', b) <=> owner'[b] = Nobody
  BY <1>2, <1>4, <1>5, <1>6
<1>8. ChainComplete'
  BY <1>2, <1>4, <1>5, <1>7 DEF ChainComplete
<1> QED
  BY <1>2, <1>4, <1>5, <1>8 DEF h, ChainInv

(* ... and after the block of u is given back. *)
LEMMA ChainAfterFree ==
  ASSUME ChainInv, NEW u \in User, NEW b \in Block, Free(u, b)
  PROVE  ChainInv'
<1>1. /\ block_list \in Seq(Block) /\ block_free_count \in Nat
      /\ owner \in [Block -> User \union {Nobody}]
      /\ block_free_count = Len(block_list) /\ Once(block_list)
      /\ \A x \in Block : Linked(block_list, x) <=> owner[x] = Nobody
  BY DEF ChainInv, ChainComplete
<1>2. /\ block_free_count' = block_free_count + 1
      /\ block_list' = <<b>> \o block_list
      /\ owner' = [owner EXCEPT ![b] = Nobody] /\ owner[b] = u
  BY DEF Free
<1>3. ~Linked(block_list, b)
  BY <1>1, <1>2, UserAssumption
<1>4. /\ block_list' \in Seq(Block) /\ Once(block_list')
      /\ Len(block_list') = Len(block_list) + 1
      /\ \A x : Linked(block_list', x) <=> (Linked(block_list, x) \/ x = b)
  BY <1>1, <1>2, <1>3, PrependProperties
<1>5. \A x \in Block : Linked(block_list', x) <=> owner'[x] = Nobody
  BY <1>1, <1>2, <1>4
<1> QED
  BY <1>1, <1>2, <1>4, <1>5 DEF ChainInv, ChainComplete

------------------------------------------------------------------------------
(* The initial states satisfy the invariant. *)
LEMMA InitPoolInv == PoolInit => PoolInv
<1> SUFFICES ASSUME PoolInit PROVE PoolInv
  OBVIOUS
<1>1. suspend_thread = <<>> /\ Len(suspend_thread) = 0
  BY DEF PoolInit
<1>2. \A t : ~Suspended(t)
  BY <1>1 DEF Suspended, Linked
<1>3. ListInv
  BY <1>1 DEF PoolInit, ListInv, Once, CountDriftsByTimeouts
<1>4. ChainInv
  BY BlockAssumption, LenProperties DEF PoolInit, ChainInv, ChainComplete
<1>5. CallInv
  BY <1>2, BoundAssumption DEF PoolInit, CallInv, WaitersInCall
<1>6. HangInv
  BY DEF PoolInit, HangInv, HangsWhenEmpty
<1> QED
  BY <1>3, <1>4, <1>5, <1>6, PoolInvParts

(* A thread that goes on where it is, or goes elsewhere while it is not on *)
(* the list, leaves the waiting threads inside their calls.                *)
LEMMA CallKept ==
  ASSUME CallInv, NEW t \in Thread,
         \A u : Suspended(u)' => Suspended(u) \/ u = t,
         \/ place' = place /\ (Suspended(t)' => place[t] = "waiting")
         \/ place' = [place EXCEPT ![t] = "waiting"]
         \/ /\ ~Suspended(t)'
            /\ \E where \in {"idle"} \union Detaching :
                 place' = [place EXCEPT ![t] = where],
         left' \in [Thread -> {"none", "ticks", "forever"}],
         live' \in BOOLEAN, kills' \in 0..MaxKills
  PROVE  CallInv'
<1>1. place' \in [Thread -> {"idle", "waiting"} \union Detaching]
  BY DEF CallInv
<1>2. WaitersInCall'
  BY <1>1 DEF CallInv, WaitersInCall
<1> QED
  BY <1>1, <1>2 DEF CallInv

(* rt_mp_alloc, the part that gives a block at once. *)
LEMMA AllocNowPoolInv ==
  ASSUME PoolInv, NEW u \in User, AllocNow(u)
  PROVE  ListInv' /\ ChainInv' /\ CallInv'
<1> USE DEF AllocNow, waiters
<1>1. ListInv'
  BY PoolInvParts DEF ListInv, Suspended, CountDriftsByTimeouts
<1>2. ChainInv'
  BY PoolInvParts, ChainAfterTake
<1>3. CallInv'
  BY PoolInvParts DEF CallInv, WaitersInCall, Suspended
<1> QED
  BY <1>1, <1>2, <1>3, PoolInvParts

(* rt_mp_free. *)
LEMMA FreePoolInv ==
  ASSUME PoolInv, NEW u \in User, NEW b \in Block, Free(u, b)
  PROVE  ListInv' /\ ChainInv' /\ CallInv'
<1>1. Wake /\ UNCHANGED <<place, left, live, over, kills>>
  BY DEF Free
<1>2. ListInv' /\ \A t : Suspended(t)' => Suspended(t)
  <2>1. CASE UNCHANGED <<waiters, error>>
    BY <1>1, <2>1, PoolInvParts
       DEF waiters, ListInv, Suspended, CountDriftsByTimeouts
  <2>2. CASE ResumeFirst("EOK") \/ ResumeOfNone
    BY <1>1, <2>2, PoolInvParts, ResumeKeepsList
  <2> QED
    BY <1>1, <2>1, <2>2 DEF Wake
<1>3. ChainInv'
  BY PoolInvParts, ChainAfterFree
<1>4. CallInv'
  BY <1>1, <1>2, PoolInvParts DEF CallInv, WaitersInCall
<1> QED
  BY <1>2, <1>3, <1>4

(* rt_mp_alloc, the first suspension. *)
LEMMA AllocSuspendPoolInv ==
  ASSUME PoolInv, NEW t \in Thread, AllocSuspend(t)
  PROVE  ListInv' /\ ChainInv' /\ CallInv'
<1> USE DEF AllocSuspend
<1>1. ~Suspended(t)
  BY PoolInvParts DEF CallInv, WaitersInCall
<1>2. ListInv' /\ \A u : Suspended(u)' <=> (Suspended(u) \/ u = t)
  BY <1>1, PoolInvParts, SuspendKeepsList
<1>3. ChainInv'
  BY PoolInvParts DEF pool, ChainInv, ChainComplete
<1>4. left' \in [Thread -> {"none", "ticks", "forever"}]
  BY PoolInvParts DEF CallInv, TimeOf
<1>5. CallInv'
  BY <1>2, <1>4, PoolInvParts, CallKept DEF CallInv
<1> QED
  BY <1>2, <1>3, <1>5, PoolInvParts

(* rt_mp_alloc once the thread is resumed: it fails, finds a block, or     *)
(* goes back on the list with the time that is left.                       *)
LEMMA AllocRetryPoolInv ==
  ASSUME PoolInv, NEW t \in Thread, AllocFails(t) \/ AllocRetry(t)
  PROVE  ListInv' /\ ChainInv' /\ CallInv'
<1>0. ~Suspended(t) /\ place[t] = "waiting" /\ over' = over
      /\ UNCHANGED <<live, kills>>
  BY DEF AllocFails, AllocRetry, Looking, Resumed
<1>1. CASE /\ UNCHANGED <<pool, waiters, error>>
           /\ place' = [place EXCEPT ![t] = "idle"]
           /\ left' \in [Thread -> {"none", "ticks", "forever"}]
  <2>1. ListInv' /\ \A u : Suspended(u)' <=> Suspended(u)
    BY <1>0, <1>1, PoolInvParts
       DEF waiters, ListInv, Suspended, CountDriftsByTimeouts
  <2>2. ChainInv'
    BY <1>1, PoolInvParts DEF pool, ChainInv, ChainComplete
  <2>3. CallInv'
    BY <1>0, <1>1, <2>1, PoolInvParts, CallKept DEF CallInv
  <2> QED
    BY <2>1, <2>2, <2>3, PoolInvParts
<1>2. CASE AllocFails(t)
  BY <1>1, <1>2, PoolInvParts DEF AllocFails, CallInv
<1>3. CASE AllocRetry(t) /\ block_free_count # 0
  <2>1. /\ Take(t) /\ place' = [place EXCEPT ![t] = "idle"]
        /\ UNCHANGED <<waiters, error, left>>
    BY <1>3 DEF AllocRetry
  <2>2. ListInv' /\ \A u : Suspended(u)' <=> Suspended(u)
    BY <1>0, <2>1, PoolInvParts
       DEF waiters, ListInv, Suspended, CountDriftsByTimeouts
  <2>3. ChainInv'
    BY <1>3, <2>1, PoolInvParts, ChainAfterTake DEF User
  <2>4. CallInv'
    BY <1>0, <2>1, <2>2, PoolInvParts, CallKept DEF CallInv
  <2> QED
    BY <2>2, <2>3, <2>4, PoolInvParts
<1>4. CASE AllocRetry(t) /\ block_free_count = 0
  <2>1. PICK time \in Recomputed(left[t]) :
          /\ IF time = "none"
             THEN /\ place' = [place EXCEPT ![t] = "idle"]
                  /\ UNCHANGED <<waiters, error>>
             ELSE SuspendSelf(t, time) /\ UNCHANGED place
          /\ left' = [left EXCEPT ![t] = time]
          /\ UNCHANGED pool
    BY <1>4 DEF AllocRetry
  <2>2. left' \in [Thread -> {"none", "ticks", "forever"}]
    BY <2>1, PoolInvParts DEF CallInv, Recomputed
  <2>3. CASE time = "none"
    BY <1>1, <2>1, <2>2, <2>3
  <2>4. CASE time # "none"
    <3>1. ListInv' /\ \A u : Suspended(u)' <=> (Suspended(u) \/ u = t)
      BY <1>0, <2>1, <2>4, PoolInvParts, SuspendKeepsList
    <3>2. ChainInv'
      BY <2>1, PoolInvParts DEF pool, ChainInv, ChainComplete
    <3>3. CallInv'
      BY <1>0, <2>1, <2>2, <2>4, <3>1, PoolInvParts, CallKept DEF CallInv
    <3> QED
      BY <3>1, <3>2, <3>3, PoolInvParts
  <2> QED
    BY <2>3, <2>4
<1> QED
  BY <1>2, <1>3, <1>4

(* rt_thread_timeout and rt_thread_kill, which do not know of the pool. *)
LEMMA UnlinkPoolInv ==
  ASSUME PoolInv, NEW t \in Thread, Timeout(t) \/ Signal(t)
  PROVE  ListInv' /\ ChainInv' /\ CallInv'
<1>1. /\ suspend_thread' = Unlink(suspend_thread, t)
      /\ timer' = timer \ {t}
      /\ UNCHANGED <<pool, suspend_thread_count, place, left, live>>
  BY DEF Timeout, Signal
<1>2. PICK e \in {"EOK", "ETIMEOUT", "ERROR", "EINTR"} :
        error' = [error EXCEPT ![t] = e]
  BY PoolInvParts DEF Timeout, Signal, ListInv
<1>3. over' = IF Suspended(t) THEN over + 1 ELSE over
  BY PoolInvParts DEF Timeout, Signal, ListInv
<1>4. ListInv' /\ \A u : Suspended(u)' => Suspended(u)
  BY <1>1, <1>2, <1>3, PoolInvParts, UnlinkKeepsList
<1>5. ChainInv'
  BY <1>1, PoolInvParts DEF pool, ChainInv, ChainComplete
<1>6. kills' \in 0..MaxKills
  BY PoolInvParts, BoundAssumption DEF Timeout, Signal, CallInv
<1>7. CallInv'
  BY <1>1, <1>4, <1>6, PoolInvParts DEF CallInv, WaitersInCall
<1> QED
  BY <1>4, <1>5, <1>7, PoolInvParts

(* rt_mp_detach and rt_mp_delete. *)
LEMMA DetachPoolInv ==
  ASSUME PoolInv, NEW t \in Thread,
         \/ DetachBegin(t) \/ ResumeAllTest(t)
         \/ ResumeAllTake(t) \/ Unregister(t)
  PROVE  ListInv' /\ ChainInv' /\ CallInv'
<1> USE DEF Goes
<1>0. /\ ~Suspended(t) /\ UNCHANGED <<pool, left, over, kills>>
      /\ live' \in BOOLEAN
      /\ \E where \in {"idle"} \union Detaching :
            place' = [place EXCEPT ![t] = where]
  <2>1. place[t] # "waiting"
    BY DEF DetachBegin, ResumeAllTest, ResumeAllTake, Unregister
  <2>2. \E where \in {"idle"} \union Detaching :
          place' = [place EXCEPT ![t] = where]
    <3>1. CASE DetachBegin(t) \/ ResumeAllTest(t) \/ Unregister(t)
      BY <3>1 DEF DetachBegin, ResumeAllTest, Unregister, Detaching
    <3>2. CASE ResumeAllTake(t) /\ UNCHANGED place
      <4>1. place' = [place EXCEPT ![t] = "resume_one"]
        BY <3>2, PoolInvParts DEF ResumeAllTake, CallInv
      <4> QED
        BY <4>1 DEF Detaching
    <3>3. CASE ResumeAllTake(t) /\ Goes(t, "resume_all")
      BY <3>3 DEF Detaching
    <3> QED
      BY <3>1, <3>2, <3>3 DEF ResumeAllTake
  <2>3. ~Suspended(t)
    BY <2>1, PoolInvParts DEF CallInv, WaitersInCall
  <2> QED
    BY <2>2, <2>3, PoolInvParts
       DEF DetachBegin, ResumeAllTest, ResumeAllTake, Unregister, CallInv
<1>1. ListInv' /\ \A u : Suspended(u)' => Suspended(u)
  <2>1. CASE UNCHANGED <<waiters, error>>
    BY <1>0, <2>1, PoolInvParts
       DEF waiters, ListInv, Suspended, CountDriftsByTimeouts
  <2>2. CASE ResumeFirst("ERROR") \/ ResumeOfNone
    BY <1>0, <2>2, PoolInvParts, ResumeKeepsList
  <2> QED
    BY <2>1, <2>2 DEF DetachBegin, ResumeAllTest, ResumeAllTake, Unregister
<1>2. ChainInv'
  BY <1>0, PoolInvParts DEF pool, ChainInv, ChainComplete
<1>3. CallInv'
  BY <1>0, <1>1, PoolInvParts, CallKept DEF CallInv
<1> QED
  BY <1>1, <1>2, <1>3, PoolInvParts

(* The kernel hangs only with an empty list, ... *)
LEMMA HangKept ==
  ASSUME PoolInv, PoolNext
  PROVE  HangInv'
<1> USE DEF HangInv, HangsWhenEmpty
<1>1. ~hung
  BY DEF PoolNext
<1>2. CASE hung' = hung
  <2>1. hung' = FALSE
    BY <1>1, <1>2, PoolInvParts
  <2> QED
    BY <2>1
<1>3. ASSUME NEW u \in User, NEW b \in Block, Free(u, b), hung' # hung
      PROVE  HangInv'
  <2>1. /\ suspend_thread_count > 0 /\ ResumeOfNone /\ over' = over
    BY <1>3 DEF Free, Wake, ResumeFirst
  <2>2. suspend_thread = <<>> /\ suspend_thread' = suspend_thread /\ hung'
    BY <2>1 DEF ResumeOfNone, waiters
  <2>3. Len(suspend_thread) = 0
    BY <2>2
  <2>4. over > 0
    BY <2>1, <2>3, PoolInvParts DEF ListInv, CountDriftsByTimeouts
  <2> QED
    BY <2>1, <2>2, <2>4
<1>4. ASSUME NEW t \in Thread, ResumeAllTake(t), hung' # hung
      PROVE  HangInv'
  <2>1. place[t] = "resume_one" /\ ResumeOfNone /\ place' = place
    BY <1>4 DEF ResumeAllTake, ResumeFirst
  <2> QED
    BY <2>1 DEF ResumeOfNone, waiters
<1>5. ASSUME NEW u \in User, AllocNow(u)
      PROVE  hung' = hung
  BY <1>5 DEF AllocNow
<1>6. ASSUME NEW t \in Thread,
             \/ AllocSuspend(t) \/ AllocFails(t) \/ AllocRetry(t)
             \/ Timeout(t) \/ Signal(t)
             \/ DetachBegin(t) \/ ResumeAllTest(t) \/ Unregister(t)
      PROVE  hung' = hung
  BY <1>6 DEF AllocSuspend, AllocFails, AllocRetry, Timeout, Signal,
              DetachBegin, ResumeAllTest, Unregister
<1> QED
  BY <1>2, <1>3, <1>4, <1>5, <1>6 DEF PoolNext, CallStep

(* ... and every step keeps the invariant. *)
LEMMA NextPoolInv == PoolInv /\ [PoolNext]_poolVars => PoolInv'
<1> SUFFICES ASSUME PoolInv, [PoolNext]_poolVars PROVE PoolInv'
  OBVIOUS
<1>1. CASE UNCHANGED poolVars
  BY <1>1 DEF poolVars, PoolInv, PoolAccounted, PoolTypeOK, ChainComplete,
              CountDriftsByTimeouts, HangsWhenEmpty, WaitersInCall, Suspended
<1>2. CASE PoolNext
  <2>1. ListInv' /\ ChainInv' /\ CallInv'
    BY <1>2, AllocNowPoolInv, FreePoolInv, AllocSuspendPoolInv,
       AllocRetryPoolInv, UnlinkPoolInv, DetachPoolInv DEF PoolNext, CallStep
  <2> QED
    BY <1>2, <2>1, HangKept, PoolInvParts
<1> QED
  BY <1>1, <1>2

(* Whatever threads and handlers do: the chain holds exactly the blocks    *)
(* that nobody owns, the free count is its length, the count of the        *)
(* waiting threads is too high by exactly the waits that timeouts and      *)
(* signals ended, and the kernel hangs only in an rt_mp_free that finds    *)
(* the list empty after such a wait, or in a detach.                       *)
THEOREM PoolIsAccounted == PoolSpec => []PoolAccounted
<1>1. PoolInv => PoolAccounted
  BY DEF PoolInv
<1> QED
  BY <1>1, InitPoolInv, NextPoolInv, PTL DEF PoolSpec

------------------------------------------------------------------------------
(* Every step of the pool gives a block that has no owner, takes one back  *)
(* from its owner, or leaves the owners alone.                             *)
LEMMA StepGivesOrTakesBack ==
  ASSUME PoolInv, [PoolNext]_poolVars
  PROVE  [Pool!Next]_owner
<1> USE DEF Pool!Next
<1>1. CASE UNCHANGED poolVars
  BY <1>1 DEF poolVars
<1>2. ASSUME NEW u \in User, block_free_count # 0, Take(u)
      PROVE  Pool!Next
  BY <1>2, ChainAfterTake, PoolInvParts DEF Pool!Give
<1>3. ASSUME NEW u \in User, AllocNow(u)
      PROVE  Pool!Next
  BY <1>2, <1>3 DEF AllocNow
<1>4. ASSUME NEW u \in User, NEW b \in Block, Free(u, b)
      PROVE  Pool!Next
  BY <1>4 DEF Free, Pool!GiveBack
<1>5. ASSUME NEW t \in Thread, AllocRetry(t)
      PROVE  [Pool!Next]_owner
  <2>1. CASE block_free_count # 0
    BY <1>2, <1>5, <2>1 DEF AllocRetry, User
  <2>2. CASE block_free_count = 0
    BY <1>5, <2>2 DEF AllocRetry, pool
  <2> QED
    BY <2>1, <2>2
<1>6. ASSUME NEW t \in Thread,
             \/ AllocSuspend(t) \/ AllocFails(t) \/ Timeout(t) \/ Signal(t)
             \/ DetachBegin(t) \/ ResumeAllTest(t)
             \/ ResumeAllTake(t) \/ Unregister(t)
      PROVE  UNCHANGED owner
  BY <1>6 DEF AllocSuspend, AllocFails, Timeout, Signal, DetachBegin,
              ResumeAllTest, ResumeAllTake, Unregister, pool
<1> QED
  BY <1>1, <1>3, <1>4, <1>5, <1>6 DEF PoolNext, CallStep

(* The pool with its chain, its counts, its waiting threads and their      *)
(* timeouts implements module BlockPool: no block is given to two owners.  *)
THEOREM MemPoolKeepsPromise == PoolSpec => ImplementsPool
<1>1. PoolInit => Pool!Init
  BY DEF PoolInit, Pool!Init
<1>2. PoolInv /\ [PoolNext]_poolVars => [Pool!Next]_owner
  BY StepGivesOrTakesBack
<1> QED
  BY <1>1, <1>2, InitPoolInv, NextPoolInv, PTL
     DEF PoolSpec, ImplementsPool, Pool!Spec

------------------------------------------------------------------------------
(* The numbers that a step compares. *)
LEMMA LookingCounts ==
  ASSUME PoolInv, PoolInv'
  PROVE  /\ Cardinality(Looking) \in Nat /\ Cardinality(Looking') \in Nat
         /\ block_free_count \in Nat /\ kills \in Nat
         /\ Looking \subseteq Looking'
              => Cardinality(Looking) <= Cardinality(Looking')
         /\ \A t : Looking \ {t} \subseteq Looking'
              => Cardinality(Looking) <= Cardinality(Looking') + 1
         /\ \A t : t \notin Looking /\ Looking \union {t} \subseteq Looking'
              => Cardinality(Looking) + 1 <= Cardinality(Looking')
<1>1. Looking \in SUBSET Thread /\ Looking' \in SUBSET Thread
  BY DEF Looking, Resumed
<1>2. IsFiniteSet(Thread)
  BY UserAssumption, FS_Subset, Thread \in SUBSET User DEF User
<1>3. block_free_count \in Nat /\ kills \in Nat
  BY BoundAssumption DEF PoolInv, PoolAccounted, PoolTypeOK
<1> QED
  BY <1>1, <1>2, <1>3, SubsetCounts

(* A thread that no step touches looks on, unless it is linked.            *)
LEMMA LookersStay ==
  ASSUME NEW busy \in SUBSET Thread,
         \A u \in Thread : u \notin busy => place'[u] = place[u] /\ error'[u] = error[u],
         \A u \in Thread : u \notin busy => (Suspended(u)' => Suspended(u))
  PROVE  Looking \ busy \subseteq Looking'
BY DEF Looking, Resumed

(* rt_mp_alloc, a block at once: one block less, the same threads look.    *)
LEMMA AllocNowLookedFor ==
  ASSUME PoolInv, PoolInv', NoStrandedWaiter, NEW u \in User, AllocNow(u)
  PROVE  NoStrandedWaiter'
<1>1. /\ block_free_count' = block_free_count - 1 /\ kills' = kills
      /\ UNCHANGED <<suspend_thread, error, place>>
  BY DEF AllocNow, Take, waiters
<1>2. Looking' = Looking
  BY <1>1 DEF Looking, Resumed, Suspended
<1> QED
  BY <1>1, <1>2, LookingCounts DEF NoStrandedWaiter

(* rt_mp_free: one block more, and one thread more looks for it, the first *)
(* of the list, which the count never hides.                               *)
LEMMA FreeLookedFor ==
  ASSUME PoolInv, PoolInv', NoStrandedWaiter,
         NEW u \in User, NEW b \in Block, Free(u, b)
  PROVE  NoStrandedWaiter'
<1>1. /\ block_free_count' = block_free_count + 1
      /\ place' = place /\ kills' = kills /\ Wake
  BY DEF Free
<1>2. CASE suspend_thread = <<>>
  BY <1>1, <1>2
     DEF Wake, ResumeFirst, ResumeOfNone, waiters, NoStrandedWaiter
<1>3. CASE suspend_thread # <<>>
  <2>1. PICK w \in Thread :
           /\ w = Head(suspend_thread)
           /\ \A x : Linked(Tail(suspend_thread), x)
                       <=> (Suspended(x) /\ x # w)
    BY <1>3, PoolInvParts, FirstLeaves
  <2>2. suspend_thread_count > 0
    <3>1. Len(suspend_thread) \in Nat /\ Len(suspend_thread) # 0
      BY <1>3, PoolInvParts, ListLength, EmptySeq DEF ListInv
    <3> QED
      BY <3>1, PoolInvParts DEF ListInv, CountDriftsByTimeouts
  <2>3. /\ suspend_thread' = Tail(suspend_thread)
        /\ error' = [error EXCEPT ![w] = "EOK"]
    BY <1>1, <1>3, <2>1, <2>2 DEF Wake, ResumeFirst, ResumeOfNone
  <2>4. \A x \in Thread : Suspended(x)' <=> (Suspended(x) /\ x # w)
    BY <2>1, <2>3 DEF Suspended
  <2>5. Suspended(w) /\ place[w] = "waiting"
    BY <1>3, <2>1, PoolInvParts, HeadIsLinked DEF CallInv, WaitersInCall
  <2>6. /\ error \in [Thread -> {"EOK", "ETIMEOUT", "ERROR", "EINTR"}]
        /\ \A x \in Thread : x # w => error'[x] = error[x]
        /\ error'[w] = "EOK"
    BY <2>3, PoolInvParts DEF ListInv
  <2>7. w \notin Looking /\ w \in Looking'
    BY <1>1, <2>4, <2>5, <2>6 DEF Looking, Resumed
  <2>8. Looking \union {w} \subseteq Looking'
    BY <1>1, <2>4, <2>6, <2>7, LookersStay, {w} \in SUBSET Thread
  <2> QED
    BY <1>1, <1>3, <2>7, <2>8, LookingCounts DEF NoStrandedWaiter
<1> QED
  BY <1>2, <1>3

(* A step that moves no block: nobody is added to an empty list, and       *)
(* nobody stops looking, or one thread does after a signal.                *)
LEMMA NoBlockMoves ==
  ASSUME PoolInv, PoolInv', NoStrandedWaiter,
         block_free_count' = block_free_count,
         suspend_thread = <<>> => suspend_thread' = <<>>,
         \/ kills' = kills /\ Looking \subseteq Looking'
         \/ kills' = kills + 1 /\ \E t : Looking \ {t} \subseteq Looking'
  PROVE  NoStrandedWaiter'
<1>1. Cardinality(Looking) + kills <= Cardinality(Looking') + kills'
  <2>1. CASE kills' = kills /\ Looking \subseteq Looking'
    BY <2>1, LookingCounts
  <2>2. CASE kills' = kills + 1 /\ \E t : Looking \ {t} \subseteq Looking'
    <3>1. PICK t : Looking \ {t} \subseteq Looking'
      BY <2>2
    <3>2. Cardinality(Looking) <= Cardinality(Looking') + 1
      BY <3>1, LookingCounts
    <3> QED
      BY <2>2, <3>2, LookingCounts
  <2> QED
    BY <2>1, <2>2
<1> QED
  BY <1>1, LookingCounts DEF NoStrandedWaiter

(* A thread joins the list only when there is no block to strand.          *)
LEMMA JoinLookedFor ==
  ASSUME PoolInv, PoolInv', block_free_count = 0, UNCHANGED block_free_count,
         kills' = kills
  PROVE  NoStrandedWaiter'
BY LookingCounts DEF NoStrandedWaiter

(* Every step leaves enough threads looking for the blocks.                *)
LEMMA NextLookedFor ==
  ASSUME PoolInv, NoStrandedWaiter, [PoolNext]_poolVars
  PROVE  NoStrandedWaiter'
<1>1. PoolInv /\ PoolInv'
  BY NextPoolInv
<1>2. /\ place \in [Thread -> {"idle", "waiting"} \union Detaching]
      /\ error \in [Thread -> {"EOK", "ETIMEOUT", "ERROR", "EINTR"}]
      /\ \A t \in timer : t \in Thread /\ Suspended(t)
      /\ \A t \in Thread : Suspended(t) => place[t] = "waiting"
  BY PoolInvParts DEF CallInv, ListInv, WaitersInCall
<1> USE DEF pool, waiters
<1>3. ASSUME NEW t \in Thread, AllocSuspend(t)
      PROVE  NoStrandedWaiter'
  BY <1>1, <1>3, JoinLookedFor DEF AllocSuspend
<1>4. ASSUME NEW t \in Thread, AllocFails(t)
      PROVE  NoStrandedWaiter'
  <2>1. /\ error[t] # "EOK" /\ error' = error
        /\ UNCHANGED <<suspend_thread, block_free_count, kills>>
        /\ \A u \in Thread : u # t => place'[u] = place[u]
    BY <1>2, <1>4 DEF AllocFails, Looking
  <2>2. Looking \subseteq Looking'
    BY <2>1 DEF Looking, Resumed, Suspended
  <2> QED
    BY <1>1, <2>1, <2>2, NoBlockMoves
<1>5. ASSUME NEW t \in Thread, AllocRetry(t)
      PROVE  NoStrandedWaiter'
  <2>1. CASE block_free_count # 0
    <3>1. /\ block_free_count' = block_free_count - 1
          /\ UNCHANGED <<suspend_thread, error, kills>>
          /\ \A u \in Thread : u # t => place'[u] = place[u]
      BY <1>2, <1>5, <2>1 DEF AllocRetry, Take
    <3>2. Looking \ {t} \subseteq Looking'
      BY <3>1 DEF Looking, Resumed, Suspended
    <3>3. Cardinality(Looking) <= Cardinality(Looking') + 1
      BY <1>1, <3>2, LookingCounts
    <3>4. /\ Cardinality(Looking) \in Nat /\ Cardinality(Looking') \in Nat
          /\ block_free_count \in Nat /\ kills \in Nat
      BY <1>1, LookingCounts
    <3> QED
      BY <3>1, <3>3, <3>4 DEF NoStrandedWaiter
  <2>2. CASE block_free_count = 0
    BY <1>1, <1>5, <2>2, JoinLookedFor DEF AllocRetry
  <2> QED
    BY <2>1, <2>2
<1>6. ASSUME NEW t \in Thread, Timeout(t) \/ Signal(t)
      PROVE  NoStrandedWaiter'
  <2>1. /\ suspend_thread' = Unlink(suspend_thread, t) /\ place' = place
        /\ block_free_count' = block_free_count
    BY <1>6 DEF Timeout, Signal
  <2>2. \A u \in Thread : u # t => error'[u] = error[u]
    BY <1>2, <1>6 DEF Timeout, Signal
  <2>3. \A u \in Thread : Suspended(u)' => Suspended(u)
    BY <2>1, PoolInvParts, WaiterLeaves DEF Suspended
  <2>4. suspend_thread = <<>> => suspend_thread' = <<>>
    BY <2>1 DEF Unlink, Linked
  <2>5. Looking \ {t} \subseteq Looking'
    BY <2>1, <2>2, <2>3, LookersStay, {t} \in SUBSET Thread
  <2>6. CASE Timeout(t)
    <3>1. t \notin Looking /\ kills' = kills
      BY <1>2, <2>6 DEF Timeout, Looking, Resumed
    <3> QED
      BY <1>1, <2>1, <2>4, <2>5, <3>1, NoBlockMoves
  <2>7. CASE Signal(t)
    BY <1>1, <2>1, <2>4, <2>5, <2>7, NoBlockMoves DEF Signal
  <2> QED
    BY <1>6, <2>6, <2>7
<1>7. ASSUME NEW t \in Thread,
             DetachBegin(t) \/ ResumeAllTest(t) \/ Unregister(t)
      PROVE  NoStrandedWaiter'
  <2>1. /\ place[t] # "waiting"
        /\ UNCHANGED <<suspend_thread, block_free_count, error, kills>>
    BY <1>7 DEF DetachBegin, ResumeAllTest, Unregister, Detaching
  <2>2. \A u \in Thread : u # t => place'[u] = place[u]
    BY <1>2, <1>7 DEF DetachBegin, ResumeAllTest, Unregister, Goes
  <2>3. Looking \subseteq Looking'
    BY <2>1, <2>2 DEF Looking, Resumed, Suspended
  <2> QED
    BY <1>1, <2>1, <2>3, NoBlockMoves
<1>8. ASSUME NEW t \in Thread, ResumeAllTake(t)
      PROVE  NoStrandedWaiter'
  <2>1. /\ place[t] # "waiting" /\ UNCHANGED <<block_free_count, kills>>
        /\ \A u \in Thread : u # t => place'[u] = place[u]
    BY <1>2, <1>8 DEF ResumeAllTake, Goes
  <2>2. CASE suspend_thread = <<>>
    BY <1>8, <2>2
       DEF ResumeAllTake, ResumeFirst, ResumeOfNone, NoStrandedWaiter
  <2>3. CASE suspend_thread # <<>>
    <3>1. PICK w \in Thread :
             /\ w = Head(suspend_thread) /\ Suspended(w)
             /\ \A x : Linked(Tail(suspend_thread), x)
                         <=> (Suspended(x) /\ x # w)
      BY <2>3, PoolInvParts, FirstLeaves, HeadIsLinked
    <3>2. /\ suspend_thread' = Tail(suspend_thread)
          /\ error' = [error EXCEPT ![w] = "ERROR"]
      BY <1>8, <2>3, <3>1 DEF ResumeAllTake, ResumeFirst, ResumeOfNone
    <3>3. \A u \in Thread : u # w => error'[u] = error[u]
      BY <1>2, <3>2
    <3>4. \A u \in Thread : Suspended(u)' => Suspended(u)
      BY <3>1, <3>2 DEF Suspended
    <3>5. t \notin Looking /\ w \notin Looking
      BY <2>1, <3>1 DEF Looking, Resumed
    <3>6. Looking \ {t, w} \subseteq Looking'
      BY <2>1, <3>3, <3>4, LookersStay, {t, w} \in SUBSET Thread
    <3> QED
      BY <1>1, <2>1, <2>3, <3>5, <3>6, NoBlockMoves
  <2> QED
    BY <2>2, <2>3
<1>9. CASE UNCHANGED poolVars
  BY <1>9 DEF poolVars, NoStrandedWaiter, Looking, Resumed, Suspended
<1> QED
  BY <1>1, <1>3, <1>4, <1>5, <1>6, <1>7, <1>8, <1>9, AllocNowLookedFor,
     FreeLookedFor DEF PoolNext, CallStep

(* No block is stranded beside a suspended thread: each rt_mp_free resumes *)
(* a thread that will look for its block, in spite of the count that       *)
(* timeouts leave too high, and those that leave with an error were not    *)
(* resumed for one.  Only a signal to a resumed thread can lose a block.   *)
THEOREM NobodyStranded == PoolSpec => []NoStrandedWaiter
<1> DEFINE Inv == PoolInv /\ NoStrandedWaiter
<1>1. PoolInit => Inv
  BY InitPoolInv DEF PoolInit, NoStrandedWaiter
<1>2. Inv /\ [PoolNext]_poolVars => Inv'
  BY NextPoolInv, NextLookedFor
<1>3. Inv => NoStrandedWaiter
  OBVIOUS
<1> QED
  BY <1>1, <1>2, <1>3, PTL DEF PoolSpec
------------------------------------------------------------------------------
(* The ready lists R and the bits G file the threads of W: each one once,  *)
(* in its queue and at its level.                                          *)
AtHome(t, q, p) == BindCpu[t] = q /\ Priority[t] = p

Files(R, G, W) ==
    /\ R \in [Queue -> [Level -> Seq(Thread)]]
    /\ G \in [Queue -> SUBSET Level]
    /\ \A q \in Queue, p \in Level :
          /\ Once(R[q][p])
          /\ p \in G[q] <=> R[q][p] # <<>>
          /\ \A t \in Thread :
                Linked(R[q][p], t) <=> t \in W /\ AtHome(t, q, p)

(* The threads that wait for a processor. *)
Waiting(st, on) == {t \in Thread : st[t] = "READY" /\ on[t] = None}

ListsInv == Files(ready, group, Waiting(stat, oncpu))

(* A processor and the threads it has to do with.                          *)
Attended(c) == stage[c] \in {"run", "irq"}

HasThread(c) ==
    /\ stage[c] # "wild"
    /\ Attended(c) => /\ current[c] \in Thread /\ oncpu[current[c]] = c
                      /\ to[c] \in {None, current[c]}
    /\ Switching(c) => /\ to[c] \in Thread /\ oncpu[to[c]] = c
                       /\ current[c] # None => oncpu[current[c]] = None
    /\ stage[c] = "save" => current[c] \in Thread
    /\ stage[c] = "start" => current[c] = None /\ to[c] = None
    /\ stat[Idle[c]] = "READY"

HasProcessor(t) ==
    oncpu[t] # None =>
       /\ BindCpu[t] \in {oncpu[t], None}
       /\ stage[oncpu[t]] # "start"
       /\ t = IF Switching(oncpu[t]) THEN to[oncpu[t]] ELSE current[oncpu[t]]

Holds(c) == Switching(c) \/ (stage[c] = "run" /\ cpus_nest[current[c]] > 0)

InRegisters(c, t) ==
    stage[c] \in {"run", "irq", "save"} /\ current[c] = t

PlaceInv ==
    /\ \A c \in Cpu : HasThread(c)
    /\ \A t \in Thread :
          /\ HasProcessor(t)
          /\ t \in saved <=> \A c \in Cpu : ~InRegisters(c, t)

(* What the location of a thread says of its two counts. *)
Counts(t) ==
    /\ pc[t] \in {"user", "schedule"} => cpus_nest[t] = 0
    /\ pc[t] = "section" => cpus_nest[t] = 1 /\ sched_nest[t] >= 1
    /\ pc[t] = "enable" => cpus_nest[t] \in {1, 2} /\ sched_nest[t] = 1
    /\ t \in saved => pc[t] # "section"

LockInv ==
    /\ \A t \in Thread : Counts(t)
    /\ \A c \in Cpu : /\ stage[c] = "irq" => cpus_nest[current[c]] = 0
                      /\ stage[c] = "save" => pc[current[c]] # "section"
    /\ cpus_lock <=> \E c \in Cpu : Holds(c)
    /\ \A c, d \in Cpu : Holds(c) /\ Holds(d) => c = d

(* No thread that waits and may run on c is more urgent than t, which is   *)
(* ready.                                                                  *)
Suits(c, t) ==
    /\ stat[t] = "READY"
    /\ \A u \in Waiting(stat, oncpu) :
          BindCpu[u] \in {c, None} => Priority[t] <= Priority[u]

(* What will see to it otherwise. *)
Excused(c, t) ==
    \/ stage[c] = "irq" /\ irq_switch_flag[c]
    \/ pc[t] = "schedule"
    \/ pc[t] = "user" /\ sched_nest[t] > 0
    \/ pc[t] = "section" /\ stat[t] # "READY"

OwesCall(t) ==
    stat[t] # "READY" => \/ pc[t] = "schedule" /\ sched_nest[t] = 0
                         \/ pc[t] = "section" /\ sched_nest[t] = 1

Urgent(c) ==
    /\ Switching(c) => stat[to[c]] = "READY"
                       /\ (c \in ipi \/ Suits(c, to[c]))
    /\ Attended(c) => /\ OwesCall(current[c])
                      /\ c \in ipi \/ Suits(c, current[c])
                         \/ Excused(c, current[c])

UrgentInv == \A c \in Cpu : Urgent(c)

------------------------------------------------------------------------------
(* What the operators give that choose from a set.                         *)

(* A set of levels that is not empty has a least one, and Least finds it.  *)
LEMMA LeastIsLeast ==
  ASSUME NEW S \in SUBSET Nat, S # {}
  PROVE  Least(S) \in S /\ \A x \in S : Least(S) <= x
<1>1. \E x \in S : \A y \in S : x <= y
  BY SmallestNat
<1> QED
  BY <1>1 DEF Least

(* There are levels, and one of them is the least urgent.                  *)
LEMMA LowestIsLowest ==
  Lowest \in Level /\ \A p \in Level : p <= Lowest
<1>1. PICK n \in Nat : ExistsBijection(1..n, Level)
  BY FS_NatBijection, LevelAssumption
<1>2. PICK f \in [1..n -> Level] : \A p \in Level : \E i \in 1..n : f[i] = p
  BY <1>1 DEF ExistsBijection, Bijection, Surjection
<1>3. Idle[Boot] \in Thread /\ Priority[Idle[Boot]] \in Level
  BY ThreadAssumption, LevelAssumption
<1>4. n # 0
  BY <1>2, <1>3
<1> DEFINE High(k) == \E m \in 1..k : \A j \in 1..k : f[j] <= f[m]
           Bad == {k \in 1..n : ~High(k)}
<1>5. Bad = {}
  <2> SUFFICES ASSUME Bad # {} PROVE FALSE
    OBVIOUS
  <2>1. PICK k \in Bad : \A j \in Bad : k <= j
    BY SmallestNat, Bad \in SUBSET Nat
  <2>2. k \in 1..n /\ ~High(k)
    BY <2>1
  <2>3. \A j \in 1..n : f[j] \in Nat
    BY LevelAssumption
  <2>4. k # 1
    <3>1. 1 \in 1..n /\ f[1] <= f[1]
      BY <1>1, <1>4, <2>3
    <3> QED
      BY <2>2, <3>1
  <2>5. k - 1 \in 1..n /\ High(k - 1)
    <3>1. k - 1 \in 1..n /\ ~(k <= k - 1)
      BY <1>1, <2>2, <2>4
    <3>2. k - 1 \notin Bad
      BY <2>1, <3>1
    <3> QED
      BY <3>1, <3>2
  <2>6. PICK m \in 1..(k - 1) : \A j \in 1..(k - 1) : f[j] <= f[m]
    BY <2>5
  <2>7. CASE f[k] <= f[m]
    <3>1. m \in 1..k /\ \A j \in 1..k : f[j] <= f[m]
      BY <2>2, <2>6, <2>7
    <3> QED
      BY <2>2, <3>1
  <2>8. CASE ~(f[k] <= f[m])
    <3>1. m \in 1..n /\ f[m] \in Nat /\ f[k] \in Nat
      BY <2>2, <2>3, <2>6
    <3>2. \A j \in 1..k : j \in 1..(k - 1) \/ j = k
      BY <2>2
    <3>3. f[m] <= f[k] /\ f[k] <= f[k]
      BY <2>8, <3>1
    <3>4. ASSUME NEW j \in 1..k PROVE f[j] <= f[k]
      <4>1. CASE j = k
        BY <3>3, <4>1
      <4>2. CASE j \in 1..(k - 1)
        <5>1. f[j] <= f[m] /\ f[j] \in Nat
          BY <2>2, <2>3, <2>6, <4>2, j \in 1..n
        <5> QED
          BY <3>1, <3>3, <5>1
      <4> QED
        BY <3>2, <4>1, <4>2
    <3>5. k \in 1..k
      BY <2>2
    <3> QED
      BY <2>2, <3>4, <3>5
  <2> QED
    BY <2>7, <2>8
<1>6. High(n)
  <2>1. n \in 1..n
    BY <1>1, <1>4
  <2> QED
    BY <1>5, <2>1
<1>7. PICK m \in 1..n : \A j \in 1..n : f[j] <= f[m]
  BY <1>6
<1>8. f[m] \in {p \in Level : \A r \in Level : r <= p}
  BY <1>2, <1>7
<1> DEFINE S == {p \in Level : \A r \in Level : r <= p}
<1>9. S \in SUBSET Nat /\ S # {}
  BY <1>8, LevelAssumption
<1>10. Lowest \in S
  BY <1>9, LeastIsLeast DEF Lowest
<1> QED
  BY <1>10

(* The sequence that SetToSeq makes of a set has each member once.         *)
LEMMA SetAsList ==
  ASSUME NEW S, IsFiniteSet(S)
  PROVE  /\ SetToSeq(S) \in Seq(S) /\ Once(SetToSeq(S))
         /\ \A t : Linked(SetToSeq(S), t) <=> t \in S
<1> DEFINE n == Cardinality(S)
           s == SetToSeq(S)
<1>1. n \in Nat /\ ExistsBijection(1..n, S)
  BY FS_CardinalityType
<1>2. PICK f \in [1..n -> S] : IsInjective(f)
  BY <1>1 DEF ExistsBijection, Bijection, Injection, IsInjective
<1>3. s \in [1..n -> S] /\ IsInjective(s)
  BY <1>2 DEF SetToSeq
<1> HIDE DEF s
<1>4. \A i, j \in 1..n : s[i] = s[j] => i = j
  BY <1>3 DEF IsInjective
<1>5. s \in Injection(1..n, S)
  BY <1>3, <1>4 DEF Injection
<1>6. IsFiniteSet(1..n) /\ Cardinality(1..n) = n
  BY <1>1, FS_Interval
<1>7. s \in Surjection(1..n, S)
  BY <1>5, <1>6, FS_Injection
<1>8. \A t \in S : \E i \in 1..n : s[i] = t
  BY <1>7 DEF Surjection
<1>9. s \in Seq(S) /\ Len(s) = n
  BY <1>1, <1>3
<1>10. Once(s)
  BY <1>4, <1>9 DEF Once
<1>11. \A t : Linked(s, t) <=> t \in S
  BY <1>3, <1>8, <1>9 DEF Linked
<1> QED
  BY <1>9, <1>10, <1>11 DEF s

------------------------------------------------------------------------------
(* The ready lists.                                                        *)

(* A witness for the priorities that the lemmas about lists are stated     *)
(* with: the ready lists are not kept by priority.                         *)
zero == [t \in Thread |-> 0]

(* Where a thread belongs. *)
LEMMA HomeTypes ==
  ASSUME NEW t \in Thread
  PROVE  BindCpu[t] \in Queue /\ Priority[t] \in Level
BY ThreadAssumption, LevelAssumption DEF Queue

(* A thread put at the end of its list, with its bit, is filed.            *)
LEMMA FilesAdd ==
  ASSUME NEW R, NEW G, NEW W, Files(R, G, W), NEW t \in Thread, t \notin W,
         NEW q, NEW p, AtHome(t, q, p)
  PROVE  Files([R EXCEPT ![q][p] = Append(@, t)],
               [G EXCEPT ![q] = @ \union {p}], W \union {t})
<1> DEFINE R1 == [R EXCEPT ![q][p] = Append(@, t)]
           G1 == [G EXCEPT ![q] = @ \union {p}]
<1>1. q \in Queue /\ p \in Level
  BY HomeTypes DEF AtHome
<1>2. R[q][p] \in Seq(Thread) /\ Once(R[q][p]) /\ ~Linked(R[q][p], t)
  BY <1>1 DEF Files
<1>3. zero \in [Thread -> Nat]
  BY DEF zero
<1> DEFINE e == Append(R[q][p], t)
<1>4. e = Enqueue(R[q][p], t, FIFO, zero)
  BY DEF Enqueue, FIFO, PRIO
<1>5. /\ \A u : Linked(e, u) <=> Linked(R[q][p], u) \/ u = t
      /\ Once(e) /\ e \in Seq(Thread) /\ e # <<>>
  <2> DEFINE row == R[q][p]
  <2>1. e \in Seq(Thread) /\ Len(e) = Len(row) + 1 /\ Len(row) \in Nat
    BY <1>2, AppendProperties, LenProperties
  <2>2. row \in Seq(Thread) /\ Once(row) /\ ~Linked(row, t)
    BY <1>2
  <2>3. e = Enqueue(row, t, FIFO, zero)
    BY <1>4
  <2> HIDE DEF row, e, zero
  <2>4. /\ \A u : Linked(Enqueue(row, t, FIFO, zero), u)
                  <=> (Linked(row, u) \/ u = t)
        /\ Once(Enqueue(row, t, FIFO, zero))
    BY <1>3, <2>2, EnqueueLinked
  <2>5. e # <<>>
    BY <2>1
  <2> QED
    BY <2>1, <2>3, <2>4, <2>5 DEF row
<1> HIDE DEF e
<1>6. /\ R1 \in [Queue -> [Level -> Seq(Thread)]]
      /\ \A a \in Queue, b \in Level :
            R1[a][b] = IF a = q /\ b = p THEN e ELSE R[a][b]
  BY <1>1, <1>5 DEF Files, e
<1>7. /\ G1 \in [Queue -> SUBSET Level]
      /\ \A a \in Queue : G1[a] = IF a = q THEN G[a] \union {p} ELSE G[a]
  BY <1>1 DEF Files
<1> HIDE DEF R1, G1
<1>8. ASSUME NEW a \in Queue, NEW b \in Level
      PROVE  /\ Once(R1[a][b])
             /\ b \in G1[a] <=> R1[a][b] # <<>>
             /\ \A u \in Thread :
                   Linked(R1[a][b], u) <=> u \in W \union {t} /\ AtHome(u, a, b)
  <2>1. CASE a = q /\ b = p
    BY <1>5, <1>6, <1>7, <2>1 DEF Files, AtHome
  <2>2. CASE ~(a = q /\ b = p)
    BY <1>6, <1>7, <2>2 DEF Files, AtHome
  <2> QED
    BY <2>1, <2>2
<1> QED
  BY <1>6, <1>7, <1>8 DEF Files, R1, G1

(* A thread taken off its list, whose bit goes when the list is empty, is  *)
(* filed no more; nothing changes for one that was not.                    *)
LEMMA FilesRemove ==
  ASSUME NEW R, NEW G, NEW W, Files(R, G, W), NEW t \in Thread,
         NEW q, NEW p, AtHome(t, q, p)
  PROVE  LET R1 == [R EXCEPT ![q][p] = Unlink(@, t)]
         IN Files(R1, IF R1[q][p] = <<>> THEN [G EXCEPT ![q] = @ \ {p}] ELSE G,
                  W \ {t})
<1> DEFINE R1 == [R EXCEPT ![q][p] = Unlink(@, t)]
           G1 == IF R1[q][p] = <<>> THEN [G EXCEPT ![q] = @ \ {p}] ELSE G
           e == Unlink(R[q][p], t)
<1>1. q \in Queue /\ p \in Level
  BY HomeTypes DEF AtHome
<1>2. R[q][p] \in Seq(Thread) /\ Once(R[q][p])
  BY <1>1 DEF Files
<1>3. zero \in [Thread -> Nat]
  BY DEF zero
<1>4. /\ \A u : Linked(e, u) <=> Linked(R[q][p], u) /\ u # t
      /\ Once(e) /\ e \in Seq(Thread)
  BY <1>2, <1>3, UnlinkProperties
<1> HIDE DEF e
<1>5. /\ R1 \in [Queue -> [Level -> Seq(Thread)]]
      /\ \A a \in Queue, b \in Level :
            R1[a][b] = IF a = q /\ b = p THEN e ELSE R[a][b]
  BY <1>1, <1>4 DEF Files, e
<1>6. R[q][p] = <<>> => e = <<>>
  BY DEF e, Unlink, Linked
<1>7. /\ G1 \in [Queue -> SUBSET Level]
      /\ \A a \in Queue, b \in Level :
            b \in G1[a] <=> IF a = q /\ b = p THEN e # <<>> ELSE b \in G[a]
  <2>1. R1[q][p] = e /\ (p \in G[q] <=> R[q][p] # <<>>)
    BY <1>1, <1>5 DEF Files
  <2>2. G \in [Queue -> SUBSET Level]
    BY DEF Files
  <2> HIDE DEF R1
  <2>3. CASE e = <<>>
    <3>1. G1 = [G EXCEPT ![q] = @ \ {p}]
      BY <2>1, <2>3
    <3> QED
      BY <1>1, <2>2, <2>3, <3>1
  <2>4. CASE e # <<>>
    <3>1. G1 = G
      BY <2>1, <2>4
    <3> QED
      BY <1>6, <2>1, <2>2, <2>4, <3>1
  <2> QED
    BY <2>3, <2>4
<1> HIDE DEF R1, G1
<1>8. ASSUME NEW a \in Queue, NEW b \in Level
      PROVE  /\ Once(R1[a][b])
             /\ b \in G1[a] <=> R1[a][b] # <<>>
             /\ \A u \in Thread :
                   Linked(R1[a][b], u) <=> u \in W \ {t} /\ AtHome(u, a, b)
  <2>1. CASE a = q /\ b = p
    BY <1>4, <1>5, <1>7, <2>1 DEF Files, AtHome
  <2>2. CASE ~(a = q /\ b = p)
    BY <1>5, <1>7, <2>2 DEF Files, AtHome
  <2> QED
    BY <2>1, <2>2
<1>9. Files(R1, G1, W \ {t})
  BY <1>5, <1>7, <1>8 DEF Files
<1> QED
  BY <1>9 DEF R1, G1

(* A list that is not empty begins with a thread that is filed there.      *)
LEMMA HeadIsFiled ==
  ASSUME NEW R, NEW G, NEW W, Files(R, G, W), NEW q \in Queue, NEW p \in Level,
         R[q][p] # <<>>
  PROVE  /\ Head(R[q][p]) \in Thread \intersect W
         /\ AtHome(Head(R[q][p]), q, p)
<1>1. R[q][p] \in Seq(Thread)
  BY DEF Files
<1>2. zero \in [Thread -> Nat]
  BY DEF zero
<1>3. Head(R[q][p]) \in Thread /\ Linked(R[q][p], Head(R[q][p]))
  BY <1>1, <1>2, TailProperties
<1> QED
  BY <1>3 DEF Files

(* The list of a thread that is filed is not empty, and its bit is set.    *)
LEMMA FiledIsShown ==
  ASSUME NEW R, NEW G, NEW W, Files(R, G, W), NEW t \in Thread, t \in W
  PROVE  /\ R[BindCpu[t]][Priority[t]] # <<>>
         /\ Priority[t] \in G[BindCpu[t]]
<1>1. BindCpu[t] \in Queue /\ Priority[t] \in Level
  BY HomeTypes
<1>2. Linked(R[BindCpu[t]][Priority[t]], t)
  BY <1>1 DEF Files, AtHome
<1>3. R[BindCpu[t]][Priority[t]] # <<>>
  BY <1>2 DEF Linked
<1> QED
  BY <1>1, <1>3 DEF Files

------------------------------------------------------------------------------
(* The record of the lists, and the operations on it.                      *)
Lists ==
    [stat : [Thread -> {"INIT", "READY", "SUSPEND"}],
     oncpu : [Thread -> Cpu \union {None}],
     ready : [Queue -> [Level -> Seq(Thread)]],
     table : [Queue -> SUBSET Level],
     group : [Queue -> SUBSET Level],
     ipi : SUBSET Cpu]

(* The processors that an insertion of t on c is told to.                  *)
Told(c, t) == IF BindCpu[t] = None THEN Cpu \ {c} ELSE {BindCpu[t]} \ {c}

(* rt_schedule_insert_thread files a thread that has no processor and      *)
(* tells the other processors that may run it; one that still has its      *)
(* processor only becomes ready.                                           *)
LEMMA InsertThreadDoes ==
  ASSUME ~Wide, NEW s \in Lists, NEW W, Files(s.ready, s.group, W),
         NEW c, NEW t \in Thread, s.oncpu[t] = None => t \notin W
  PROVE  LET r == InsertThread(s, c, t) IN
         /\ r \in Lists
         /\ r.stat = [s.stat EXCEPT ![t] = "READY"]
         /\ r.oncpu = s.oncpu
         /\ s.ipi \subseteq r.ipi
         /\ s.oncpu[t] = None => Told(c, t) \subseteq r.ipi
         /\ Files(r.ready, r.group,
                  IF s.oncpu[t] = None THEN W \union {t} ELSE W)
<1> DEFINE q == BindCpu[t]
           p == Priority[t]
           r == InsertThread(s, c, t)
<1>1. q \in Queue /\ p \in Level
  BY HomeTypes
<1>2. CASE s.oncpu[t] # None
  <2>1. r = [s EXCEPT !.stat[t] = "READY"]
    BY <1>2 DEF InsertThread
  <2> DEFINE st1 == [s.stat EXCEPT ![t] = "READY"]
  <2>2. r = [stat |-> st1, oncpu |-> s.oncpu, ready |-> s.ready,
             table |-> s.table, group |-> s.group, ipi |-> s.ipi]
    BY <2>1 DEF Lists
  <2>3. st1 \in [Thread -> {"INIT", "READY", "SUSPEND"}]
    BY DEF Lists
  <2> HIDE DEF st1
  <2>4. r \in Lists
    BY <2>2, <2>3 DEF Lists
  <2> QED
    BY <1>2, <2>2, <2>4 DEF st1
<1>3. CASE s.oncpu[t] = None
  <2> DEFINE R1 == [s.ready EXCEPT ![q][p] = Append(@, t)]
             G1 == [s.group EXCEPT ![q] = @ \union {p}]
             i1 == s.ipi \union Told(c, t)
             st1 == [s.stat EXCEPT ![t] = "READY"]
  <2>1. r = [stat |-> st1, oncpu |-> s.oncpu, ready |-> R1,
             table |-> s.table, group |-> G1, ipi |-> i1]
    BY <1>3 DEF InsertThread, SetBit, Told, Lists
  <2>2. Files(R1, G1, W \union {t})
    BY <1>3, FilesAdd DEF AtHome
  <2>3. i1 \in SUBSET Cpu
    <3>1. q = None \/ q \in Cpu
      BY <1>1 DEF Queue
    <3> QED
      BY <3>1 DEF Lists, Told
  <2>4. st1 \in [Thread -> {"INIT", "READY", "SUSPEND"}]
    BY DEF Lists
  <2>5. R1 \in [Queue -> [Level -> Seq(Thread)]] /\ G1 \in [Queue -> SUBSET Level]
    BY <2>2 DEF Files
  <2> HIDE DEF R1, G1, st1, i1
  <2>6. r \in Lists
    BY <2>1, <2>3, <2>4, <2>5 DEF Lists
  <2> QED
    BY <1>3, <2>1, <2>2, <2>6 DEF st1, i1
<1> QED
  BY <1>2, <1>3

(* rt_schedule_remove_thread takes a thread off its list, and out of the   *)
(* bits when it was the last one.                                          *)
LEMMA RemoveThreadDoes ==
  ASSUME ~Wide, NEW s \in Lists, NEW W, Files(s.ready, s.group, W),
         NEW t \in Thread
  PROVE  LET r == RemoveThread(s, t) IN
         /\ r \in Lists
         /\ r.stat = s.stat /\ r.oncpu = s.oncpu /\ r.ipi = s.ipi
         /\ Files(r.ready, r.group, W \ {t})
<1> DEFINE q == BindCpu[t]
           p == Priority[t]
           R1 == [s.ready EXCEPT ![q][p] = Unlink(@, t)]
           G1 == IF R1[q][p] = <<>> THEN [s.group EXCEPT ![q] = @ \ {p}]
                                    ELSE s.group
           r == RemoveThread(s, t)
<1>1. Files(R1, G1, W \ {t})
  BY FilesRemove DEF AtHome
<1> DEFINE d == [s EXCEPT !.ready[q][p] = Unlink(@, t)]
<1>2. d = [stat |-> s.stat, oncpu |-> s.oncpu, ready |-> R1,
           table |-> s.table, group |-> s.group, ipi |-> s.ipi]
  <2>1. q \in Queue /\ p \in Level
    BY HomeTypes
  <2>2. d = [s EXCEPT !.ready = R1]
    BY <2>1 DEF Lists
  <2> HIDE DEF R1, d
  <2> QED
    BY <2>2 DEF Lists
<1>3. r = IF d.ready[q][p] = <<>> THEN [d EXCEPT !.group[q] = @ \ {p}] ELSE d
  BY DEF RemoveThread, ClearBit
<1> HIDE DEF R1, d
<1>4. r = [stat |-> s.stat, oncpu |-> s.oncpu, ready |-> R1,
           table |-> s.table, group |-> G1, ipi |-> s.ipi]
  BY <1>2, <1>3
<1> HIDE DEF G1, r
<1>5. R1 \in [Queue -> [Level -> Seq(Thread)]] /\ G1 \in [Queue -> SUBSET Level]
  BY <1>1 DEF Files
<1>6. r \in Lists
  BY <1>4, <1>5 DEF Lists
<1> QED
  BY <1>1, <1>4, <1>6 DEF r

(* The threads that may run on processor c. *)
May(t, c) == BindCpu[t] \in {c, None}

(* _get_highest_priority_thread finds a most urgent one of the threads that*)
(* are filed where processor c looks, when there is one.                   *)
LEMMA HighestFinds ==
  ASSUME ~Wide, NEW s \in Lists, NEW W \in SUBSET Thread,
         Files(s.ready, s.group, W), NEW c \in Cpu
  PROVE  LET h == Highest(s, c)
             u == HeadOf(s, h)
         IN /\ (s.group[None] = {} /\ s.group[c] = {})
                 <=> \A w \in W : ~May(w, c)
            /\ (\E w \in W : May(w, c)) =>
                  /\ u \in W /\ May(u, c)
                  /\ h.prio = Priority[u]
                  /\ \A w \in W : May(w, c) => h.prio <= Priority[w]
<1> DEFINE h == Highest(s, c)
           u == HeadOf(s, h)
           G == s.group
<1>1. /\ G \in [Queue -> SUBSET Level] /\ Level \subseteq Nat
      /\ None \in Queue /\ c \in Queue
  BY LevelAssumption DEF Lists, Queue
<1>2. ASSUME NEW q \in Queue
      PROVE  IF G[q] = {} THEN Shown(s, q) = Lowest + 1
             ELSE /\ Shown(s, q) \in G[q]
                  /\ \A p \in G[q] : Shown(s, q) <= p
  BY <1>1, LeastIsLeast, G[q] \in SUBSET Nat DEF Shown
<1>3. ASSUME NEW q \in {None, c}
      PROVE  /\ Shown(s, q) \in Nat /\ Lowest + 1 \in Nat
             /\ IF G[q] = {} THEN Shown(s, q) = Lowest + 1
                ELSE Shown(s, q) < Lowest + 1 /\ Shown(s, q) \in G[q]
  <2>1. q \in Queue /\ G[q] \in SUBSET Level
    BY <1>1
  <2>2. Lowest \in Nat /\ \A p \in G[q] : p \in Nat /\ p <= Lowest
    BY <1>1, <2>1, LowestIsLowest
  <2> HIDE DEF G
  <2>3. CASE G[q] = {}
    BY <1>2, <2>1, <2>2, <2>3
  <2>4. CASE G[q] # {}
    BY <1>2, <2>1, <2>2, <2>4
  <2> QED
    BY <2>3, <2>4
<1>4. ASSUME NEW w \in W, May(w, c)
      PROVE  BindCpu[w] \in {None, c} /\ Priority[w] \in G[BindCpu[w]]
  BY <1>4, FiledIsShown DEF May
<1>5. ASSUME NEW q \in {None, c}, G[q] # {}
      PROVE  \E w \in W : May(w, c)
  <2>1. PICK p \in Level : p \in G[q]
    BY <1>1, <1>5
  <2>2. s.ready[q][p] # <<>>
    BY <1>1, <2>1 DEF Files
  <2>3. /\ Head(s.ready[q][p]) \in W
        /\ AtHome(Head(s.ready[q][p]), q, p)
    BY <1>1, <2>2, HeadIsFiled
  <2> QED
    BY <2>3 DEF AtHome, May
<1>6. (G[None] = {} /\ G[c] = {}) <=> \A w \in W : ~May(w, c)
  BY <1>4, <1>5
<1>7. ASSUME NEW v \in W, May(v, c)
      PROVE  /\ u \in W /\ May(u, c)
             /\ h.prio = Priority[u]
             /\ \A w \in W : May(w, c) => h.prio <= Priority[w]
  <2>1. G[None] # {} \/ G[c] # {}
    BY <1>6, <1>7
  <2>2. /\ h.queue \in {None, c}
        /\ h.prio = Shown(s, h.queue)
        /\ h.prio <= Shown(s, None) /\ h.prio <= Shown(s, c)
        /\ G[h.queue] # {}
    <3>1. CASE Shown(s, None) < Shown(s, c)
      <4>1. h.queue = None /\ h.prio = Shown(s, None)
        BY <3>1 DEF Highest
      <4>2. G[None] # {}
        BY <1>3, <2>1, <3>1
      <4>3. Shown(s, None) \in Nat /\ Shown(s, c) \in Nat
        BY <1>3
      <4> QED
        BY <3>1, <4>1, <4>2, <4>3
    <3>2. CASE ~(Shown(s, None) < Shown(s, c))
      <4>1. h.queue = c /\ h.prio = Shown(s, c)
        BY <3>2 DEF Highest
      <4>2. G[c] # {}
        BY <1>3, <2>1, <3>2
      <4>3. Shown(s, None) \in Nat /\ Shown(s, c) \in Nat
        BY <1>3
      <4> QED
        BY <3>2, <4>1, <4>2, <4>3
    <3> QED
      BY <3>1, <3>2
  <2>3. h.queue \in Queue /\ h.prio \in G[h.queue] /\ h.prio \in Level
    BY <1>1, <1>2, <2>2
  <2>4. s.ready[h.queue][h.prio] # <<>>
    BY <2>3 DEF Files
  <2>5. u = Head(s.ready[h.queue][h.prio])
    BY <2>3, <2>4 DEF HeadOf
  <2>6. u \in W /\ AtHome(u, h.queue, h.prio)
    BY <2>3, <2>4, <2>5, HeadIsFiled
  <2>7. ASSUME NEW w \in W, May(w, c)
        PROVE  h.prio <= Priority[w]
    <3>1. /\ BindCpu[w] \in {None, c} /\ Priority[w] \in G[BindCpu[w]]
          /\ BindCpu[w] \in Queue
      BY <1>1, <1>4, <2>7
    <3>2. Shown(s, BindCpu[w]) <= Priority[w] /\ Shown(s, BindCpu[w]) \in Level
      BY <1>1, <1>2, <3>1
    <3>3. h.prio <= Shown(s, BindCpu[w])
      BY <2>2, <3>1
    <3>4. /\ h.prio \in Nat /\ Shown(s, BindCpu[w]) \in Nat
          /\ Priority[w] \in Nat
      BY <1>1, <2>3, <3>2, HomeTypes
    <3> QED
      BY <3>2, <3>3, <3>4
  <2> QED
    BY <2>2, <2>6, <2>7 DEF AtHome, May
<1> QED
  BY <1>6, <1>7

(* Only the processor of one thread changes. *)
LEMMA ProcessorSet ==
  ASSUME NEW s \in Lists, NEW t, NEW c
  PROVE  [s EXCEPT !.oncpu[t] = c] =
           [stat |-> s.stat, oncpu |-> [s.oncpu EXCEPT ![t] = c],
            ready |-> s.ready, table |-> s.table, group |-> s.group,
            ipi |-> s.ipi]
<1> DEFINE on == [s.oncpu EXCEPT ![t] = c]
<1>1. [s EXCEPT !.oncpu[t] = c] = [s EXCEPT !.oncpu = on]
  OBVIOUS
<1> HIDE DEF on
<1>2. [s EXCEPT !.oncpu = on] =
        [stat |-> s.stat, oncpu |-> on, ready |-> s.ready,
         table |-> s.table, group |-> s.group, ipi |-> s.ipi]
  BY DEF Lists
<1> QED
  BY <1>1, <1>2 DEF on

(* What rt_schedule and rt_scheduler_do_irq_switch choose on processor c:  *)
(* a ready thread u that may run there, none of the others more urgent.    *)
(* It takes the processor, the current thread t leaves it and is filed when*)
(* it is ready, and the other processors that may run t are told.          *)
Chosen(s, c, t, u, r) ==
    /\ u \in Thread /\ May(u, c) /\ s.stat[u] = "READY"
    /\ u = t \/ u \in Waiting(s.stat, s.oncpu)
    /\ \A w \in Waiting(s.stat, s.oncpu) :
          May(w, c) => Priority[u] <= Priority[w]
    /\ s.stat[t] = "READY" => Priority[u] <= Priority[t]
    /\ r \in Lists
    /\ r.stat = s.stat
    /\ r.oncpu = [x \in Thread |-> IF x = u THEN c
                                   ELSE IF x = t THEN None ELSE s.oncpu[x]]
    /\ s.ipi \subseteq r.ipi
    /\ u # t /\ s.stat[t] = "READY" => Told(c, t) \subseteq r.ipi
    /\ Files(r.ready, r.group, Waiting(r.stat, r.oncpu))

(* The state in which processor c leaves its thread t. *)
Leaves(s, c, t) ==
    /\ s \in Lists /\ Files(s.ready, s.group, Waiting(s.stat, s.oncpu))
    /\ c \in Cpu /\ t \in Thread /\ t = current[c]
    /\ s.oncpu[t] = c /\ May(t, c)
    /\ s.stat[Idle[c]] = "READY"
    /\ s.oncpu[Idle[c]] # None => Idle[c] = t

(* Its thread waits again if it is ready, and the waiting thread u comes.  *)
Relieves(s, c, t, u, z) ==
    LET i == IF s.stat[t] = "READY" THEN InsertThread(s, c, t) ELSE s
    IN z = RemoveThread([i EXCEPT !.oncpu[u] = c], u)

Detached(s, W, c, t) ==
    /\ s \in Lists /\ Files(s.ready, s.group, W) /\ c \in Cpu
    /\ t \in Thread /\ s.oncpu[t] = None /\ t \notin W

(* The lists after that. *)
LEMMA Relieved ==
  ASSUME ~Wide, NEW s, NEW W, NEW c, NEW t, NEW u \in Thread, NEW z,
         Detached(s, W, c, t), Relieves(s, c, t, u, z)
  PROVE  /\ z \in Lists /\ z.stat = s.stat
         /\ z.oncpu = [s.oncpu EXCEPT ![u] = c]
         /\ s.ipi \subseteq z.ipi
         /\ s.stat[t] = "READY" => Told(c, t) \subseteq z.ipi
         /\ Files(z.ready, z.group,
                  (IF s.stat[t] = "READY" THEN W \union {t} ELSE W) \ {u})
<1> DEFINE i == IF s.stat[t] = "READY" THEN InsertThread(s, c, t) ELSE s
           V == IF s.stat[t] = "READY" THEN W \union {t} ELSE W
           on == [i.oncpu EXCEPT ![u] = c]
           d == [stat |-> i.stat, oncpu |-> on, ready |-> i.ready,
                 table |-> i.table, group |-> i.group, ipi |-> i.ipi]
<1>1. /\ i \in Lists /\ i.stat = s.stat /\ i.oncpu = s.oncpu
      /\ s.ipi \subseteq i.ipi
      /\ s.stat[t] = "READY" => Told(c, t) \subseteq i.ipi
      /\ Files(i.ready, i.group, V)
  <2>1. CASE s.stat[t] = "READY"
    <3> DEFINE r == InsertThread(s, c, t)
    <3>1. /\ r \in Lists
          /\ r.stat = [s.stat EXCEPT ![t] = "READY"]
          /\ r.oncpu = s.oncpu
          /\ s.ipi \subseteq r.ipi
          /\ s.oncpu[t] = None => Told(c, t) \subseteq r.ipi
          /\ Files(r.ready, r.group,
                   IF s.oncpu[t] = None THEN W \union {t} ELSE W)
      BY InsertThreadDoes DEF Detached
    <3>2. [s.stat EXCEPT ![t] = "READY"] = s.stat
      BY <2>1 DEF Lists, Detached
    <3> QED
      BY <2>1, <3>1, <3>2 DEF Detached
  <2>2. CASE s.stat[t] # "READY"
    BY <2>2 DEF Detached
  <2> QED
    BY <2>1, <2>2
<1>6. z = RemoveThread([i EXCEPT !.oncpu[u] = c], u)
  BY DEF Relieves
<1> HIDE DEF i
<1>2. on \in [Thread -> Cpu \union {None}]
  BY <1>1 DEF Lists, Detached
<1>3. [i EXCEPT !.oncpu[u] = c] = d
  <2>1. [i EXCEPT !.oncpu[u] = c] = [i EXCEPT !.oncpu = on]
    OBVIOUS
  <2>2. i \in Lists
    BY <1>1
  <2> HIDE DEF on
  <2>3. [i EXCEPT !.oncpu = on] = d
    BY <2>2 DEF Lists
  <2> QED
    BY <2>1, <2>3
<1> HIDE DEF on, V
<1>4. d \in Lists
  BY <1>1, <1>2 DEF Lists
<1>5. d.stat = i.stat /\ d.oncpu = on /\ d.ipi = i.ipi
      /\ Files(d.ready, d.group, V)
  BY <1>1
<1>7. z = RemoveThread(d, u)
  BY <1>3, <1>6
<1> HIDE DEF d
<1>8. /\ z \in Lists /\ z.stat = d.stat /\ z.oncpu = d.oncpu
      /\ z.ipi = d.ipi /\ Files(z.ready, z.group, V \ {u})
  BY <1>4, <1>5, <1>7, RemoveThreadDoes
<1> QED
  BY <1>1, <1>5, <1>8 DEF on, V

(* Select chooses so when the idle thread of the processor is ready and    *)
(* either is the current one or waits.                                     *)
LEMMA SelectDoes ==
  ASSUME ~Wide, NEW s, NEW c, NEW t, Leaves(s, c, t)
  PROVE  Chosen(s, c, t, Select(s, c).to, Select(s, c).s)
<1> DEFINE W == Waiting(s.stat, s.oncpu)
           h == Highest(s, c)
           x0 == Select(s, c)
           r == [s EXCEPT !.oncpu[t] = None]
           keeps == s.stat[t] = "READY" /\ Priority[t] < h.prio
           on(y) == [x \in Thread |-> IF x = y THEN c
                                   ELSE IF x = t THEN None ELSE s.oncpu[x]]
<1>0. /\ s \in Lists /\ c \in Cpu /\ t \in Thread /\ t = current[c]
      /\ s.oncpu[t] = c /\ May(t, c)
      /\ Files(s.ready, s.group, W)
      /\ s.stat[Idle[c]] = "READY"
      /\ s.oncpu[Idle[c]] # None => Idle[c] = t
      /\ c # None /\ Idle[c] \in Thread /\ BindCpu[Idle[c]] = c
      /\ W \in SUBSET Thread /\ None \notin Thread
      /\ s.oncpu \in [Thread -> Cpu \union {None}]
      /\ s.stat \in [Thread -> {"INIT", "READY", "SUSPEND"}]
  BY ThreadAssumption DEF Leaves, Waiting, Lists
<1>1. t \notin W
  BY <1>0 DEF Waiting
<1>2. /\ (s.group[None] = {} /\ s.group[c] = {}) <=> \A w \in W : ~May(w, c)
      /\ (\E w \in W : May(w, c)) =>
            /\ HeadOf(s, h) \in W /\ May(HeadOf(s, h), c)
            /\ h.prio = Priority[HeadOf(s, h)]
            /\ \A w \in W : May(w, c) => h.prio <= Priority[w]
  <2>1. W \in SUBSET Thread /\ Files(s.ready, s.group, W)
    BY <1>0
  <2> HIDE DEF W, h
  <2> QED
    BY <1>0, <2>1, HighestFinds DEF h
<1> DEFINE a0 == s.group[None] = {} /\ s.group[c] = {}
           u0 == IF keeps THEN t ELSE HeadOf(s, h)
           i0 == IF s.stat[t] = "READY" /\ ~keeps THEN InsertThread(r, c, t)
                 ELSE r
           d0 == [i0 EXCEPT !.oncpu[u0] = c]
<1>3. x0 = IF a0 THEN [to |-> t, s |-> s]
           ELSE IF u0 = None THEN [to |-> None, s |-> i0]
           ELSE [to |-> u0, s |-> IF u0 = t THEN d0 ELSE RemoveThread(d0, u0)]
  BY <1>0 DEF Select
<1>4. \A p \in Thread, q \in Thread :
         Priority[p] \in Nat /\ Priority[q] \in Nat
  BY LevelAssumption
<1> DEFINE r1 == [stat |-> s.stat, oncpu |-> [s.oncpu EXCEPT ![t] = None],
                  ready |-> s.ready, table |-> s.table, group |-> s.group,
                  ipi |-> s.ipi]
<1>5. r = r1
  BY <1>0, ProcessorSet
<1>6. r1 \in Lists
  BY <1>0, ThreadAssumption DEF Lists
<1> HIDE DEF x0, r, i0, keeps, h
<1>7. CASE a0
  <2>1. x0 = [to |-> t, s |-> s]
    BY <1>3, <1>7
  <2>2. Idle[c] \notin W
    BY <1>0, <1>2, <1>7 DEF May
  <2>3. Idle[c] = t
    BY <1>0, <2>2 DEF Waiting
  <2>4. on(t) = s.oncpu
    BY <1>0
  <2> QED
    BY <1>0, <1>2, <1>4, <1>7, <2>1, <2>3, <2>4 DEF Chosen, x0
<1>8. CASE ~a0 /\ keeps
  <2>1. u0 = t /\ i0 = r1 /\ s.stat[t] = "READY" /\ Priority[t] < h.prio
    BY <1>5, <1>8 DEF keeps, i0
  <2>2. x0 = [to |-> t, s |-> d0]
    BY <1>0, <1>3, <1>8, <2>1
  <2>3. d0 = s
    <3>1. d0 = [r1 EXCEPT !.oncpu[t] = c]
      BY <2>1
    <3>2. d0 = [stat |-> s.stat,
                oncpu |-> [[s.oncpu EXCEPT ![t] = None] EXCEPT ![t] = c],
                ready |-> s.ready, table |-> s.table, group |-> s.group,
                ipi |-> s.ipi]
      BY <3>1
    <3>3. [[s.oncpu EXCEPT ![t] = None] EXCEPT ![t] = c] = s.oncpu
      BY <1>0
    <3> QED
      BY <1>0, <3>2, <3>3 DEF Lists
  <2>4. on(t) = s.oncpu
    BY <1>0
  <2>5. \A w \in W : May(w, c) => Priority[t] <= Priority[w]
    <3> SUFFICES ASSUME NEW w \in W, May(w, c)
                 PROVE  Priority[t] <= Priority[w]
      OBVIOUS
    <3>1. h.prio <= Priority[w] /\ h.prio \in Nat
      BY <1>0, <1>2, <1>4
    <3> QED
      BY <1>0, <1>4, <2>1, <3>1
  <2> HIDE DEF d0
  <2> QED
    BY <1>0, <1>4, <2>1, <2>2, <2>3, <2>4, <2>5 DEF Chosen, x0
<1>9. CASE ~a0 /\ ~keeps
  <2> DEFINE u == HeadOf(s, h)
             V == IF s.stat[t] = "READY" THEN W \union {t} ELSE W
  <2>1. /\ u \in W /\ May(u, c) /\ h.prio = Priority[u]
        /\ \A w \in W : May(w, c) => h.prio <= Priority[w]
    BY <1>2, <1>9
  <2>2. u0 = u /\ u \in Thread /\ u # t /\ u # None
    BY <1>0, <1>1, <1>9, <2>1
  <2> HIDE DEF u, u0
  <2> DEFINE z == RemoveThread(d0, u0)
  <2>3. x0 = [to |-> u, s |-> z]
    BY <1>3, <1>9, <2>2
  <2>4. /\ r1.stat = s.stat /\ r1.ipi = s.ipi /\ r1.oncpu[t] = None
        /\ Files(r1.ready, r1.group, W)
    BY <1>0
  <2>5. i0 = IF r1.stat[t] = "READY" THEN InsertThread(r1, c, t) ELSE r1
    BY <1>5, <1>9 DEF i0
  <2>6. [r1.oncpu EXCEPT ![u] = c] = on(u)
    BY <1>0, <2>2
  <2> HIDE DEF r1, W, V
  <2>7. u0 \in Thread
    BY <2>2
  <2>8. Detached(r1, W, c, t)
    BY <1>0, <1>1, <1>6, <2>4 DEF Detached
  <2>9. Relieves(r1, c, t, u0, z)
    BY <2>5 DEF Relieves
  <2> HIDE DEF z
  <2>10. /\ z \in Lists /\ z.stat = r1.stat
         /\ z.oncpu = [r1.oncpu EXCEPT ![u0] = c]
         /\ r1.ipi \subseteq z.ipi
         /\ r1.stat[t] = "READY" => Told(c, t) \subseteq z.ipi
         /\ Files(z.ready, z.group,
                  (IF r1.stat[t] = "READY" THEN W \union {t} ELSE W) \ {u0})
    BY <2>7, <2>8, <2>9, Relieved
  <2>11. V \ {u} = Waiting(s.stat, on(u))
    BY <1>0, <1>1, <2>2 DEF Waiting, V, W
  <2>12. /\ s.stat[u] = "READY"
         /\ s.stat[t] = "READY" => Priority[u] <= Priority[t]
    BY <1>0, <1>4, <1>9, <2>1, <2>2 DEF keeps, Waiting, W
  <2>13. /\ z.stat = s.stat /\ z.oncpu = on(u)
         /\ s.ipi \subseteq z.ipi
         /\ s.stat[t] = "READY" => Told(c, t) \subseteq z.ipi
         /\ Files(z.ready, z.group, Waiting(z.stat, z.oncpu))
    BY <2>2, <2>4, <2>6, <2>10, <2>11 DEF V
  <2>14. Chosen(s, c, t, u, z)
    <3>1. \A w \in Waiting(s.stat, s.oncpu) :
             May(w, c) => Priority[u] <= Priority[w]
      BY <2>1 DEF W
    <3>2. u \in Waiting(s.stat, s.oncpu)
      BY <2>1 DEF W
    <3> QED
      BY <2>1, <2>2, <2>10, <2>12, <2>13, <3>1, <3>2 DEF Chosen
  <2> QED
    BY <2>3, <2>14 DEF x0
<1> QED
  BY <1>7, <1>8, <1>9

------------------------------------------------------------------------------
(* What the sections do to the lists, in terms of the variables.           *)
ListsType == Now \in Lists

SelectEffect(c, t, u) ==
    /\ u \in Thread /\ May(u, c) /\ stat[u] = "READY"
    /\ u = t \/ u \in Waiting(stat, oncpu)
    /\ \A w \in Waiting(stat, oncpu) :
          May(w, c) => Priority[u] <= Priority[w]
    /\ stat[t] = "READY" => Priority[u] <= Priority[t]
    /\ stat' = stat
    /\ oncpu' = [x \in Thread |-> IF x = u THEN c
                                  ELSE IF x = t THEN None ELSE oncpu[x]]
    /\ ipi \subseteq ipi'
    /\ u # t /\ stat[t] = "READY" => Told(c, t) \subseteq ipi'

StartEffect(c, u) ==
    /\ u \in Waiting(stat, oncpu) /\ May(u, c)
    /\ \A w \in Waiting(stat, oncpu) :
          May(w, c) => Priority[u] <= Priority[w]
    /\ stat' = stat
    /\ oncpu' = [oncpu EXCEPT ![u] = c]
    /\ ipi' = ipi

InsertEffect(c, u) ==
    /\ stat' = [stat EXCEPT ![u] = "READY"]
    /\ oncpu' = oncpu
    /\ ipi \subseteq ipi'
    /\ oncpu[u] = None => Told(c, u) \subseteq ipi'

SuspendEffect(t) ==
    /\ stat' = [stat EXCEPT ![t] = "SUSPEND"]
    /\ oncpu' = oncpu /\ ipi' = ipi

(* The record holds the variables. *)
LEMMA NowFields ==
  /\ Now.stat = stat /\ Now.oncpu = oncpu /\ Now.ready = ready
  /\ Now.table = table /\ Now.group = group /\ Now.ipi = ipi
BY DEF Now

(* The lists become what a section has made of them. *)
LEMMA BecomeLists ==
  ASSUME NEW s \in Lists, Become(s),
         Files(s.ready, s.group, Waiting(s.stat, s.oncpu))
  PROVE  /\ ListsType' /\ ListsInv'
         /\ stat' = s.stat /\ oncpu' = s.oncpu /\ ipi' = s.ipi
<1>1. /\ stat' = s.stat /\ oncpu' = s.oncpu /\ ready' = s.ready
      /\ table' = s.table /\ group' = s.group /\ ipi' = s.ipi
  BY DEF Become
<1>2. Now' = s
  BY <1>1 DEF Now, Lists
<1> QED
  BY <1>1, <1>2 DEF ListsType, ListsInv

(* A thread of a processor is the one that runs there when it runs one.    *)
LEMMA OnProcessor ==
  ASSUME ListsType, PlaceInv, NEW c \in Cpu, Attended(c)
  PROVE  /\ current[c] \in Thread /\ oncpu[current[c]] = c
         /\ May(current[c], c)
         /\ \A x \in Thread : oncpu[x] = c => x = current[c]
         /\ stat[Idle[c]] = "READY"
         /\ oncpu[Idle[c]] # None => Idle[c] = current[c]
<1>1. HasThread(c) /\ \A x \in Thread : HasProcessor(x)
  BY DEF PlaceInv
<1>2. c # None /\ Idle[c] \in Thread /\ BindCpu[Idle[c]] = c
  BY ThreadAssumption
<1>3. current[c] \in Thread /\ oncpu[current[c]] = c /\ stat[Idle[c]] = "READY"
  BY <1>1 DEF HasThread
<1>4. ~Switching(c)
  BY DEF Attended, Switching
<1>5. \A x \in Thread : oncpu[x] = c => x = current[c]
  BY <1>1, <1>2, <1>4 DEF HasProcessor
<1>6. May(current[c], c)
  BY <1>1, <1>2, <1>3 DEF HasProcessor, May
<1>7. oncpu[Idle[c]] # None => oncpu[Idle[c]] = c
  BY <1>1, <1>2 DEF HasProcessor
<1> QED
  BY <1>2, <1>3, <1>5, <1>6, <1>7

(* A section that selects. *)
LEMMA SelectStep ==
  ASSUME ~Wide, ListsType, ListsInv, PlaceInv, NEW c \in Cpu, Attended(c),
         Become(Select(Now, c).s)
  PROVE  /\ ListsType' /\ ListsInv'
         /\ SelectEffect(c, current[c], Select(Now, c).to)
<1> DEFINE t == current[c]
           u == Select(Now, c).to
           r == Select(Now, c).s
<1>1. Leaves(Now, c, t)
  BY OnProcessor, NowFields DEF Leaves, ListsType, ListsInv
<1>2. Chosen(Now, c, t, u, r)
  BY <1>1, SelectDoes
<1> HIDE DEF t, u, r
<1>3. /\ ListsType' /\ ListsInv'
      /\ stat' = r.stat /\ oncpu' = r.oncpu /\ ipi' = r.ipi
  <2>1. r \in Lists /\ Files(r.ready, r.group, Waiting(r.stat, r.oncpu))
    BY <1>2 DEF Chosen
  <2>2. Become(r)
    BY DEF r
  <2> QED
    BY <2>1, <2>2, BecomeLists
<1>4. SelectEffect(c, t, u)
  BY <1>2, <1>3, NowFields DEF Chosen, SelectEffect
<1> QED
  BY <1>3, <1>4 DEF t, u

(* A section that resumes u on processor c. *)
LEMMA ResumeStep ==
  ASSUME ~Wide, ListsType, ListsInv, NEW c, NEW u \in Thread,
         stat[u] = "SUSPEND", Become(InsertThread(Now, c, u))
  PROVE  ListsType' /\ ListsInv' /\ InsertEffect(c, u)
<1> DEFINE W == Waiting(stat, oncpu)
           r == InsertThread(Now, c, u)
<1>1. u \notin W
  BY DEF Waiting
<1>2. Now \in Lists /\ Files(Now.ready, Now.group, W)
  BY NowFields DEF ListsType, ListsInv
<1>3. /\ stat \in [Thread -> {"INIT", "READY", "SUSPEND"}]
      /\ oncpu \in [Thread -> Cpu \union {None}]
  BY NowFields DEF ListsType, Lists
<1>7. /\ r \in Lists
      /\ r.stat = [Now.stat EXCEPT ![u] = "READY"]
      /\ r.oncpu = Now.oncpu
      /\ Now.ipi \subseteq r.ipi
      /\ Now.oncpu[u] = None => Told(c, u) \subseteq r.ipi
      /\ Files(r.ready, r.group,
               IF Now.oncpu[u] = None THEN W \union {u} ELSE W)
  <2>1. Now.oncpu[u] = None => u \notin W
    BY <1>1
  <2> HIDE DEF W
  <2> QED
    BY <1>2, <2>1, InsertThreadDoes
<1> HIDE DEF r
<1>8. /\ r.stat = [stat EXCEPT ![u] = "READY"] /\ r.oncpu = oncpu
      /\ ipi \subseteq r.ipi
      /\ oncpu[u] = None => Told(c, u) \subseteq r.ipi
      /\ Files(r.ready, r.group, IF oncpu[u] = None THEN W \union {u} ELSE W)
  BY <1>7, NowFields
<1>9. (IF oncpu[u] = None THEN W \union {u} ELSE W) = Waiting(r.stat, r.oncpu)
  BY <1>3, <1>8 DEF Waiting
<1>10. Become(r)
  BY DEF r
<1>11. /\ ListsType' /\ ListsInv'
       /\ stat' = r.stat /\ oncpu' = r.oncpu /\ ipi' = r.ipi
  BY <1>7, <1>8, <1>9, <1>10, BecomeLists
<1> QED
  BY <1>8, <1>11 DEF InsertEffect

(* A thread that has its processor suspends itself. *)
LEMMA SuspendStep ==
  ASSUME ~Wide, ListsType, ListsInv, NEW t \in Thread, oncpu[t] # None,
         Become(RemoveThread([Now EXCEPT !.stat[t] = "SUSPEND"], t))
  PROVE  ListsType' /\ ListsInv' /\ SuspendEffect(t)
<1> DEFINE W == Waiting(stat, oncpu)
           st == [stat EXCEPT ![t] = "SUSPEND"]
           s == [stat |-> st, oncpu |-> oncpu, ready |-> ready,
                 table |-> table, group |-> group, ipi |-> ipi]
           r == RemoveThread(s, t)
<1>1. /\ stat \in [Thread -> {"INIT", "READY", "SUSPEND"}]
      /\ oncpu \in [Thread -> Cpu \union {None}]
  BY NowFields DEF ListsType, Lists
<1>2. [Now EXCEPT !.stat[t] = "SUSPEND"] = s
  <2>1. [Now EXCEPT !.stat[t] = "SUSPEND"] = [Now EXCEPT !.stat = st]
    BY NowFields
  <2> HIDE DEF st
  <2> QED
    BY <2>1 DEF Now
<1>3. t \notin W /\ Waiting(st, oncpu) = W
  BY <1>1 DEF Waiting
<1>4. st \in [Thread -> {"INIT", "READY", "SUSPEND"}]
  BY <1>1
<1> HIDE DEF W, st
<1>5. s \in Lists
  BY <1>4, NowFields DEF ListsType, Lists
<1>6. Files(s.ready, s.group, W)
  BY DEF ListsInv, W
<1>7. s.stat = st /\ s.oncpu = oncpu /\ s.ipi = ipi
  OBVIOUS
<1>8. Become(r)
  BY <1>2
<1> HIDE DEF s
<1>9. /\ r \in Lists /\ r.stat = s.stat /\ r.oncpu = s.oncpu /\ r.ipi = s.ipi
      /\ Files(r.ready, r.group, W \ {t})
  BY <1>5, <1>6, RemoveThreadDoes
<1> HIDE DEF r
<1>10. W \ {t} = Waiting(r.stat, r.oncpu)
  BY <1>3, <1>7, <1>9
<1>11. /\ ListsType' /\ ListsInv'
       /\ stat' = r.stat /\ oncpu' = r.oncpu /\ ipi' = r.ipi
  BY <1>8, <1>9, <1>10, BecomeLists
<1> QED
  BY <1>7, <1>9, <1>11 DEF SuspendEffect, st

(* A processor starts with a thread that waits. *)
LEMMA StartStep ==
  ASSUME ~Wide, ListsType, ListsInv, PlaceInv, NEW c \in Cpu,
         stage[c] = "start", NEW u, u = HeadOf(Now, Highest(Now, c)),
         Become(RemoveThread([Now EXCEPT !.oncpu[u] = c], u))
  PROVE  ListsType' /\ ListsInv' /\ StartEffect(c, u)
<1> DEFINE W == Waiting(stat, oncpu)
           on == [oncpu EXCEPT ![u] = c]
           s == [stat |-> stat, oncpu |-> on, ready |-> ready,
                 table |-> table, group |-> group, ipi |-> ipi]
           r == RemoveThread(s, u)
<1>1. /\ stat \in [Thread -> {"INIT", "READY", "SUSPEND"}]
      /\ oncpu \in [Thread -> Cpu \union {None}]
      /\ c # None
  BY NowFields, ThreadAssumption DEF ListsType, Lists
<1>2. Idle[c] \in W /\ May(Idle[c], c)
  <2>1. Idle[c] \in Thread /\ BindCpu[Idle[c]] = c
    BY ThreadAssumption
  <2>2. HasThread(c) /\ HasProcessor(Idle[c])
    BY <2>1 DEF PlaceInv
  <2> QED
    BY <1>1, <2>1, <2>2 DEF HasThread, HasProcessor, Waiting, May
<1>3. /\ u \in W /\ May(u, c)
      /\ \A w \in W : May(w, c) => Priority[u] <= Priority[w]
  <2>1. Now \in Lists /\ Files(Now.ready, Now.group, W) /\ W \in SUBSET Thread
    BY NowFields DEF ListsType, ListsInv, Waiting
  <2> DEFINE h == Highest(Now, c)
  <2> HIDE DEF W
  <2>2. (\E w \in W : May(w, c)) =>
            /\ HeadOf(Now, h) \in W /\ May(HeadOf(Now, h), c)
            /\ h.prio = Priority[HeadOf(Now, h)]
            /\ \A w \in W : May(w, c) => h.prio <= Priority[w]
    BY <2>1, HighestFinds
  <2> HIDE DEF h
  <2>3. u = HeadOf(Now, h)
    BY DEF h
  <2> QED
    BY <1>2, <2>2, <2>3
<1>4. u \in Thread
  BY <1>3 DEF Waiting
<1>5. [Now EXCEPT !.oncpu[u] = c] = s
  <2>1. [Now EXCEPT !.oncpu[u] = c] = [Now EXCEPT !.oncpu = on]
    BY NowFields
  <2> HIDE DEF on
  <2> QED
    BY <2>1 DEF Now
<1>6. W \ {u} = Waiting(stat, on)
  BY <1>1, <1>4 DEF Waiting
<1>7. on \in [Thread -> Cpu \union {None}]
  BY <1>1, <1>4
<1> HIDE DEF W, on
<1>8. s \in Lists
  BY <1>7, NowFields DEF ListsType, Lists
<1>9. Files(s.ready, s.group, W)
  BY DEF ListsInv, W
<1>10. s.stat = stat /\ s.oncpu = on /\ s.ipi = ipi
  OBVIOUS
<1>11. Become(r)
  BY <1>5
<1> HIDE DEF s
<1>12. /\ r \in Lists /\ r.stat = s.stat /\ r.oncpu = s.oncpu
       /\ r.ipi = s.ipi /\ Files(r.ready, r.group, W \ {u})
  BY <1>4, <1>8, <1>9, RemoveThreadDoes
<1> HIDE DEF r
<1>13. W \ {u} = Waiting(r.stat, r.oncpu)
  BY <1>6, <1>10, <1>12
<1>14. /\ ListsType' /\ ListsInv'
       /\ stat' = r.stat /\ oncpu' = r.oncpu /\ ipi' = r.ipi
  BY <1>11, <1>12, <1>13, BecomeLists
<1> QED
  BY <1>3, <1>10, <1>12, <1>14 DEF StartEffect, W, on

------------------------------------------------------------------------------
(* Which thread is where.                                                  *)
PlaceType ==
    /\ stage \in [Cpu -> Stages]
    /\ current \in [Cpu -> Thread \union {None}]
    /\ to \in [Cpu -> Thread \union {None}]
    /\ saved \in SUBSET Thread
    /\ oncpu \in [Thread -> Cpu \union {None}]

IdlesReady == \A c \in Cpu : stat[Idle[c]] = "READY"

(* Nothing moves, or a processor enters or leaves the end of an interrupt. *)
Stays ==
    /\ UNCHANGED <<oncpu, current, saved>>
    /\ \A c \in Cpu :
          \/ stage'[c] = stage[c] /\ to'[c] = to[c]
          \/ /\ Attended(c) /\ stage'[c] \in {"run", "irq"}
             /\ to'[c] \in {to[c], current[c]}

LEMMA StaysInPlace ==
  ASSUME PlaceType, PlaceInv, Stays, IdlesReady'
  PROVE  PlaceInv'
<1>0. None \notin Cpu
  BY ThreadAssumption
<1>1. ASSUME NEW c \in Cpu
      PROVE  HasThread(c)'
  <2>1. HasThread(c)
    BY DEF PlaceInv
  <2>2. \/ stage'[c] = stage[c] /\ to'[c] = to[c]
        \/ /\ Attended(c) /\ stage'[c] \in {"run", "irq"}
           /\ to'[c] \in {to[c], current[c]}
    BY DEF Stays
  <2>3. oncpu' = oncpu /\ current' = current /\ stat'[Idle[c]] = "READY"
    BY DEF Stays, IdlesReady
  <2>4. CASE stage'[c] = stage[c] /\ to'[c] = to[c]
    BY <2>1, <2>3, <2>4 DEF HasThread, Attended, Switching
  <2>5. CASE /\ Attended(c) /\ stage'[c] \in {"run", "irq"}
             /\ to'[c] \in {to[c], current[c]}
    BY <2>1, <2>3, <2>5 DEF HasThread, Attended, Switching
  <2> QED
    BY <2>2, <2>4, <2>5
<1>2. ASSUME NEW t \in Thread
      PROVE  HasProcessor(t)'
  <2> DEFINE c == oncpu[t]
  <2>1. HasProcessor(t)
    BY DEF PlaceInv
  <2>2. CASE c = None
    BY <2>2 DEF HasProcessor, Stays
  <2>3. CASE c # None
    <3>1. c \in Cpu
      BY <2>3 DEF PlaceType
    <3>2. \/ stage'[c] = stage[c] /\ to'[c] = to[c]
          \/ Attended(c) /\ stage'[c] \in {"run", "irq"}
      BY <3>1 DEF Stays
    <3>3. oncpu' = oncpu /\ current' = current
      BY DEF Stays
    <3> QED
      BY <2>1, <2>3, <3>2, <3>3 DEF HasProcessor, Attended, Switching
  <2> QED
    BY <2>2, <2>3
<1>3. ASSUME NEW t \in Thread
      PROVE  t \in saved' <=> \A c \in Cpu : ~InRegisters(c, t)'
  <2>1. ASSUME NEW c \in Cpu
        PROVE  InRegisters(c, t)' <=> InRegisters(c, t)
    BY DEF Stays, InRegisters, Attended
  <2>2. t \in saved <=> \A c \in Cpu : ~InRegisters(c, t)
    BY DEF PlaceInv
  <2>3. saved' = saved
    BY DEF Stays
  <2> QED
    BY <2>1, <2>2, <2>3
<1> QED
  BY <1>1, <1>2, <1>3 DEF PlaceInv

(* A processor has selected another thread, while no processor switches.   *)
LEMMA SwitchPrepared ==
  ASSUME PlaceType, PlaceInv, IdlesReady', NEW c \in Cpu, Attended(c), NEW u,
         SelectEffect(c, current[c], u), u # current[c],
         \A d \in Cpu : ~Switching(d),
         stage' = [stage EXCEPT ![c] = "save"], to' = [to EXCEPT ![c] = u],
         UNCHANGED <<current, saved>>
  PROVE  PlaceInv'
<1> DEFINE t == current[c]
<1>0. /\ None \notin Cpu /\ None \notin Thread
      /\ u \in Thread /\ u \in Waiting(stat, oncpu) /\ oncpu[u] = None
      /\ oncpu' = [x \in Thread |-> IF x = u THEN c
                                  ELSE IF x = t THEN None ELSE oncpu[x]]
      /\ May(u, c)
  BY ThreadAssumption DEF SelectEffect, Waiting
<1>1. /\ stage'[c] = "save" /\ to'[c] = u
      /\ \A d \in Cpu : d # c => stage'[d] = stage[d] /\ to'[d] = to[d]
  BY DEF PlaceType
<1>2. t \in Thread /\ oncpu[t] = c /\ oncpu'[t] = None /\ oncpu'[u] = c
  <2>1. HasThread(c)
    BY DEF PlaceInv
  <2> QED
    BY <1>0, <2>1 DEF HasThread
<1>3. ASSUME NEW d \in Cpu
      PROVE  HasThread(d)'
  <2>1. HasThread(d) /\ ~Switching(d) /\ stat'[Idle[d]] = "READY"
    BY DEF PlaceInv, IdlesReady
  <2>2. CASE d = c
    BY <1>0, <1>1, <1>2, <2>2, <2>1 DEF HasThread, Attended, Switching
  <2>3. CASE d # c
    <3>1. Attended(d) => oncpu'[current[d]] = d
      BY <1>0, <1>2, <2>1, <2>3 DEF HasThread
    <3> QED
      BY <1>1, <2>1, <2>3, <3>1 DEF HasThread, Attended, Switching
  <2> QED
    BY <2>2, <2>3
<1>4. ASSUME NEW x \in Thread
      PROVE  HasProcessor(x)'
  <2>1. HasProcessor(x)
    BY DEF PlaceInv
  <2>2. CASE x = u
    BY <1>0, <1>1, <1>2, <2>2 DEF HasProcessor, May, Switching
  <2>3. CASE x = t
    BY <1>2, <2>3 DEF HasProcessor
  <2>4. CASE x # u /\ x # t /\ oncpu[x] # None
    <3>1. oncpu'[x] = oncpu[x] /\ oncpu[x] \in Cpu
      BY <1>0, <2>4 DEF PlaceType
    <3>2. oncpu[x] # c
      <4>1. ~Switching(c)
        OBVIOUS
      <4> QED
        BY <1>0, <2>1, <2>4, <4>1 DEF HasProcessor
    <3> QED
      BY <1>1, <2>1, <2>4, <3>1, <3>2 DEF HasProcessor, Switching
  <2>5. CASE x # u /\ x # t /\ oncpu[x] = None
    BY <1>0, <2>5 DEF HasProcessor
  <2> QED
    BY <2>2, <2>3, <2>4, <2>5
<1>5. ASSUME NEW x \in Thread
      PROVE  x \in saved' <=> \A d \in Cpu : ~InRegisters(d, x)'
  <2>1. ASSUME NEW d \in Cpu
        PROVE  InRegisters(d, x)' <=> InRegisters(d, x)
    BY <1>1 DEF InRegisters, Attended
  <2>2. x \in saved <=> \A d \in Cpu : ~InRegisters(d, x)
    BY DEF PlaceInv
  <2> QED
    BY <2>1, <2>2
<1> QED
  BY <1>3, <1>4, <1>5 DEF PlaceInv

(* The context of the thread that goes is stored. *)
LEMMA SaveKeepsPlaces ==
  ASSUME PlaceType, PlaceInv, NEW c \in Cpu, Save(c),
         \A d \in Cpu : Switching(d) => d = c
  PROVE  PlaceInv'
<1> DEFINE t == current[c]
<1>1. /\ stage[c] = "save" /\ stage'[c] = "load" /\ Switching(c)
      /\ \A d \in Cpu : d # c => stage'[d] = stage[d]
      /\ UNCHANGED <<oncpu, stat, to, current>>
      /\ saved' = saved \union {t}
  BY DEF PlaceType, Save, Switching, lists
<1>2. t \in Thread /\ oncpu[t] = None /\ None \notin Cpu /\ None \notin Thread
  <2>1. HasThread(c)
    BY DEF PlaceInv
  <2> QED
    BY <1>1, <2>1, ThreadAssumption DEF HasThread
<1>3. ASSUME NEW d \in Cpu
      PROVE  HasThread(d)'
  <2>1. HasThread(d)
    BY DEF PlaceInv
  <2>2. CASE d = c
    BY <1>1, <1>2, <2>1, <2>2 DEF HasThread, Attended, Switching
  <2>3. CASE d # c
    BY <1>1, <2>1, <2>3 DEF HasThread, Attended, Switching
  <2> QED
    BY <2>2, <2>3
<1>4. ASSUME NEW x \in Thread
      PROVE  HasProcessor(x)'
  <2>1. HasProcessor(x) /\ oncpu[x] \in Cpu \union {None}
    BY DEF PlaceInv, PlaceType
  <2>2. CASE oncpu[x] = c
    BY <1>1, <2>1, <2>2 DEF HasProcessor, Switching
  <2>3. CASE oncpu[x] # c
    BY <1>1, <2>1, <2>3 DEF HasProcessor, Switching
  <2> QED
    BY <2>2, <2>3
<1>5. ASSUME NEW x \in Thread
      PROVE  x \in saved' <=> \A d \in Cpu : ~InRegisters(d, x)'
  <2>1. x \in saved <=> \A d \in Cpu : ~InRegisters(d, x)
    BY DEF PlaceInv
  <2>2. ASSUME NEW d \in Cpu, d # c
        PROVE  /\ InRegisters(d, x)' <=> InRegisters(d, x)
               /\ ~InRegisters(d, t)
    <3>1. HasThread(d) /\ ~Switching(d)
      BY <2>2 DEF PlaceInv
    <3> QED
      BY <1>1, <1>2, <2>2, <3>1 DEF InRegisters, HasThread, Attended, Switching
  <2>3. ~InRegisters(c, x)' /\ (InRegisters(c, x) <=> x = t)
    BY <1>1 DEF InRegisters
  <2> QED
    BY <1>1, <2>1, <2>2, <2>3
<1> QED
  BY <1>3, <1>4, <1>5 DEF PlaceInv

(* The other context is loaded. *)
LEMMA LoadKeepsPlaces ==
  ASSUME PlaceType, PlaceInv, NEW c \in Cpu, stage[c] = "load",
         stage' = [stage EXCEPT ![c] = "run"],
         current' = [current EXCEPT ![c] = to[c]],
         to' = [to EXCEPT ![c] = None], saved' = saved \ {to[c]},
         UNCHANGED <<oncpu, stat>>
  PROVE  PlaceInv'
<1> DEFINE u == to[c]
<1>1. /\ stage'[c] = "run" /\ current'[c] = u /\ to'[c] = None
      /\ \A d \in Cpu : d # c => /\ stage'[d] = stage[d] /\ to'[d] = to[d]
                                 /\ current'[d] = current[d]
      /\ Switching(c)
  BY DEF PlaceType, Switching
<1>2. u \in Thread /\ oncpu[u] = c /\ None \notin Cpu /\ None \notin Thread
  <2>1. HasThread(c)
    BY DEF PlaceInv
  <2> QED
    BY <1>1, <2>1, ThreadAssumption DEF HasThread
<1>3. ASSUME NEW d \in Cpu
      PROVE  HasThread(d)'
  <2>1. HasThread(d)
    BY DEF PlaceInv
  <2>2. CASE d = c
    BY <1>1, <1>2, <2>1, <2>2 DEF HasThread, Attended, Switching
  <2>3. CASE d # c
    BY <1>1, <2>1, <2>3 DEF HasThread, Attended, Switching
  <2> QED
    BY <2>2, <2>3
<1>4. ASSUME NEW x \in Thread
      PROVE  HasProcessor(x)'
  <2>1. HasProcessor(x) /\ oncpu[x] \in Cpu \union {None}
    BY DEF PlaceInv, PlaceType
  <2>2. CASE oncpu[x] = c
    BY <1>1, <1>2, <2>1, <2>2 DEF HasProcessor, Switching
  <2>3. CASE oncpu[x] # c
    BY <1>1, <2>1, <2>3 DEF HasProcessor, Switching
  <2> QED
    BY <2>2, <2>3
<1>5. ASSUME NEW x \in Thread
      PROVE  x \in saved' <=> \A d \in Cpu : ~InRegisters(d, x)'
  <2>1. x \in saved <=> \A d \in Cpu : ~InRegisters(d, x)
    BY DEF PlaceInv
  <2>2. ASSUME NEW d \in Cpu, d # c
        PROVE  InRegisters(d, x)' <=> InRegisters(d, x)
    BY <1>1, <2>2 DEF InRegisters
  <2>3. ~InRegisters(c, x) /\ (InRegisters(c, x)' <=> x = u)
    BY <1>1 DEF InRegisters
  <2> QED
    BY <2>1, <2>2, <2>3
<1> QED
  BY <1>3, <1>4, <1>5 DEF PlaceInv

(* A processor starts, while none switches. *)
LEMMA StartKeepsPlaces ==
  ASSUME PlaceType, PlaceInv, IdlesReady', NEW c \in Cpu, stage[c] = "start",
         NEW u, StartEffect(c, u), \A d \in Cpu : ~Switching(d),
         stage' = [stage EXCEPT ![c] = "load"], to' = [to EXCEPT ![c] = u],
         UNCHANGED <<current, saved>>
  PROVE  PlaceInv'
<1>1. /\ stage'[c] = "load" /\ to'[c] = u
      /\ \A d \in Cpu : d # c => stage'[d] = stage[d] /\ to'[d] = to[d]
  BY DEF PlaceType
<1>2. /\ u \in Thread /\ oncpu[u] = None /\ May(u, c)
      /\ oncpu'[u] = c /\ None \notin Cpu /\ None \notin Thread
      /\ \A x \in Thread : x # u => oncpu'[x] = oncpu[x]
      /\ current[c] = None
  <2>1. HasThread(c)
    BY DEF PlaceInv
  <2> QED
    BY <2>1, ThreadAssumption DEF StartEffect, Waiting, PlaceType, HasThread
<1>3. ASSUME NEW d \in Cpu
      PROVE  HasThread(d)'
  <2>1. HasThread(d) /\ ~Switching(d) /\ stat'[Idle[d]] = "READY"
    BY DEF PlaceInv, IdlesReady
  <2>2. CASE d = c
    BY <1>1, <1>2, <2>1, <2>2 DEF HasThread, Attended, Switching
  <2>3. CASE d # c
    <3>1. Attended(d) => oncpu'[current[d]] = d
      BY <1>2, <2>1, <2>3 DEF HasThread
    <3> QED
      BY <1>1, <2>1, <2>3, <3>1 DEF HasThread, Attended, Switching
  <2> QED
    BY <2>2, <2>3
<1>4. ASSUME NEW x \in Thread
      PROVE  HasProcessor(x)'
  <2>1. HasProcessor(x) /\ oncpu[x] \in Cpu \union {None}
    BY DEF PlaceInv, PlaceType
  <2>2. CASE x = u
    BY <1>1, <1>2, <2>2 DEF HasProcessor, May, Switching
  <2>3. CASE x # u
    <3>1. oncpu'[x] = oncpu[x] /\ oncpu[x] # c
      BY <1>2, <2>1, <2>3 DEF HasProcessor
    <3> QED
      BY <1>1, <2>1, <3>1 DEF HasProcessor, Switching
  <2> QED
    BY <2>2, <2>3
<1>5. ASSUME NEW x \in Thread
      PROVE  x \in saved' <=> \A d \in Cpu : ~InRegisters(d, x)'
  <2>1. ASSUME NEW d \in Cpu
        PROVE  InRegisters(d, x)' <=> InRegisters(d, x)
    BY <1>1 DEF InRegisters
  <2>2. x \in saved <=> \A d \in Cpu : ~InRegisters(d, x)
    BY DEF PlaceInv
  <2> QED
    BY <2>1, <2>2
<1> QED
  BY <1>3, <1>4, <1>5 DEF PlaceInv

------------------------------------------------------------------------------
(* The locks.                                                              *)
LockType ==
    /\ cpus_lock \in BOOLEAN /\ critical_lock \in BOOLEAN
    /\ cpus_nest \in [Thread -> Nat] /\ sched_nest \in [Thread -> 0..MaxNest]
    /\ pc \in [Thread -> Locations]

(* The lock over all processors excludes the others. *)
LEMMA OneHolder ==
  ASSUME LockInv
  PROVE  /\ ~cpus_lock => \A d \in Cpu : ~Holds(d) /\ ~Switching(d)
         /\ \A c, d \in Cpu : Holds(c) /\ (Holds(d) \/ Switching(d)) => d = c
BY DEF LockInv, Holds

(* A thread is in the registers of one processor only, and not in memory.  *)
LEMMA Elsewhere ==
  ASSUME PlaceInv, NEW c \in Cpu, Attended(c)
  PROVE  /\ current[c] \in Thread /\ current[c] \notin saved
         /\ oncpu[current[c]] = c
         /\ \A d \in Cpu : d # c /\ stage[d] \in {"run", "irq", "save"}
                             => current[d] \in Thread \ {current[c]}
<1>1. HasThread(c) /\ c # None
  BY ThreadAssumption DEF PlaceInv
<1>2. current[c] \in Thread /\ oncpu[current[c]] = c
  BY <1>1 DEF HasThread
<1>3. InRegisters(c, current[c])
  BY DEF InRegisters, Attended
<1>4. ASSUME NEW d \in Cpu, d # c, stage[d] \in {"run", "irq", "save"}
      PROVE  current[d] \in Thread \ {current[c]}
  <2>1. HasThread(d) /\ None \notin Thread
    BY ThreadAssumption DEF PlaceInv
  <2> QED
    BY <1>1, <1>2, <1>4, <2>1 DEF HasThread, Attended, Switching
<1> QED
  BY <1>2, <1>3, <1>4 DEF PlaceInv

(* A step of processor c keeps the locks when it keeps what it must.       *)
LEMMA LocksMove ==
  ASSUME LockType, LockInv, NEW c \in Cpu,
         \A d \in Cpu \ {c} :
            /\ stage'[d] = stage[d] /\ current'[d] = current[d]
            /\ stage[d] \in {"run", "irq", "save"} =>
                  /\ cpus_nest'[current[d]] = cpus_nest[current[d]]
                  /\ pc'[current[d]] = pc[current[d]],
         \A x \in Thread : Counts(x)',
         stage'[c] = "irq" => cpus_nest'[current'[c]] = 0,
         stage'[c] = "save" => pc'[current'[c]] # "section",
         LockType',
         \/ cpus_lock' = cpus_lock /\ (Holds(c)' <=> Holds(c))
         \/ (~cpus_lock \/ Holds(c)) /\ (cpus_lock' <=> Holds(c)')
  PROVE  LockInv'
<1>1. ASSUME NEW d \in Cpu, d # c
      PROVE  /\ Holds(d)' <=> Holds(d)
             /\ stage'[d] = "irq" => cpus_nest'[current'[d]] = 0
             /\ stage'[d] = "save" => pc'[current'[d]] # "section"
  BY <1>1 DEF LockInv, Holds, Switching
<1>2. /\ \A d \in Cpu : stage'[d] = "irq" => cpus_nest'[current'[d]] = 0
      /\ \A d \in Cpu : stage'[d] = "save" => pc'[current'[d]] # "section"
  BY <1>1
<1>3. /\ cpus_lock <=> \E d \in Cpu : Holds(d)
      /\ \A d, e \in Cpu : Holds(d) /\ Holds(e) => d = e
  BY DEF LockInv
<1>4. /\ (cpus_lock <=> \E d \in Cpu : Holds(d))'
      /\ (\A d, e \in Cpu : Holds(d) /\ Holds(e) => d = e)'
  <2>1. CASE cpus_lock' = cpus_lock /\ (Holds(c)' <=> Holds(c))
    <3>1. \A d \in Cpu : Holds(d)' <=> Holds(d)
      BY <1>1, <2>1
    <3> QED
      BY <1>3, <2>1, <3>1
  <2>2. CASE (~cpus_lock \/ Holds(c)) /\ (cpus_lock' <=> Holds(c)')
    <3>1. \A d \in Cpu : d # c => ~Holds(d)'
      BY <1>1, <1>3, <2>2
    <3> QED
      BY <2>2, <3>1
  <2> QED
    BY <2>1, <2>2
<1> QED
  BY <1>2, <1>4 DEF LockInv

(* A step of the thread t that processor c runs. *)
ThreadMove(c, t) ==
    /\ stage[c] = "run" /\ current[c] = t
    /\ UNCHANGED <<stage, current, saved>>
    /\ \A x \in Thread \ {t} : /\ pc'[x] = pc[x] /\ cpus_nest'[x] = cpus_nest[x]
                               /\ sched_nest'[x] = sched_nest[x]

LEMMA ThreadMoveLocks ==
  ASSUME LockType, LockType', PlaceInv, LockInv, NEW c \in Cpu, NEW t \in Thread,
         ThreadMove(c, t),
         /\ pc'[t] \in {"user", "schedule"} => cpus_nest'[t] = 0
         /\ pc'[t] = "section" => cpus_nest'[t] = 1 /\ sched_nest'[t] >= 1
         /\ pc'[t] = "enable" => pc[t] = "enable" /\ UNCHANGED locks,
         \/ cpus_lock' = cpus_lock /\ cpus_nest'[t] = cpus_nest[t]
         \/ /\ ~cpus_lock \/ cpus_nest[t] > 0
            /\ cpus_lock' <=> cpus_nest'[t] > 0
  PROVE  LockInv'
<1>1. Attended(c) /\ current[c] = t
  BY DEF ThreadMove, Attended
<1>2. /\ t \notin saved
      /\ \A d \in Cpu : d # c /\ stage[d] \in {"run", "irq", "save"}
                             => current[d] \in Thread \ {t}
  BY <1>1, Elsewhere
<1>3. ASSUME NEW d \in Cpu \ {c}
      PROVE  /\ stage'[d] = stage[d] /\ current'[d] = current[d]
             /\ stage[d] \in {"run", "irq", "save"} =>
                   /\ cpus_nest'[current[d]] = cpus_nest[current[d]]
                   /\ pc'[current[d]] = pc[current[d]]
  BY <1>2 DEF ThreadMove
<1>4. ASSUME NEW x \in Thread
      PROVE  Counts(x)'
  <2>1. Counts(x) /\ saved' = saved
    BY DEF LockInv, ThreadMove
  <2>2. CASE x = t
    BY <1>2, <2>1, <2>2 DEF Counts, locks
  <2>3. CASE x # t
    BY <2>1, <2>3 DEF Counts, ThreadMove
  <2> QED
    BY <2>2, <2>3
<1>5. /\ stage'[c] = "run" /\ stage[c] = "run" /\ current'[c] = t
      /\ Holds(c) <=> cpus_nest[t] > 0
      /\ Holds(c)' <=> cpus_nest'[t] > 0
  BY DEF ThreadMove, Holds, Switching
<1> QED
  BY <1>3, <1>4, <1>5, LocksMove

------------------------------------------------------------------------------
(* Who may wait for whom.                                                  *)
FlagType == irq_switch_flag \in [Cpu -> BOOLEAN]

(* Whoever begins to wait is told to the other processors that may run it. *)
ToldElsewhere(c) ==
    \A d \in Cpu \ {c}, w \in Thread :
       w \in Waiting(stat', oncpu') /\ May(w, d) =>
          w \in Waiting(stat, oncpu) \/ d \in ipi'

LEMMA SelectTells ==
  ASSUME PlaceType, NEW c \in Cpu, NEW t \in Thread, NEW u, May(t, c),
         SelectEffect(c, t, u)
  PROVE  ToldElsewhere(c)
<1>1. SUFFICES ASSUME NEW d \in Cpu \ {c}, NEW w \in Thread,
                      w \in Waiting(stat', oncpu'), May(w, d),
                      w \notin Waiting(stat, oncpu)
               PROVE  d \in ipi'
  BY DEF ToldElsewhere
<1>2. stat'[w] = "READY" /\ oncpu'[w] = None /\ None \notin Cpu
  BY <1>1, ThreadAssumption DEF Waiting
<1>3. w # u /\ w = t /\ stat[t] = "READY"
  BY <1>1, <1>2 DEF SelectEffect, Waiting
<1>4. Told(c, t) \subseteq ipi'
  BY <1>3 DEF SelectEffect
<1>5. d \in Told(c, t)
  BY <1>1, <1>2, <1>3 DEF May, Told
<1> QED
  BY <1>4, <1>5

LEMMA InsertTells ==
  ASSUME ListsType, NEW c \in Cpu, NEW u \in Thread, InsertEffect(c, u)
  PROVE  ToldElsewhere(c)
<1>0. stat \in [Thread -> {"INIT", "READY", "SUSPEND"}]
  BY NowFields DEF ListsType, Lists
<1>1. SUFFICES ASSUME NEW d \in Cpu \ {c}, NEW w \in Thread,
                      w \in Waiting(stat', oncpu'), May(w, d),
                      w \notin Waiting(stat, oncpu)
               PROVE  d \in ipi'
  BY DEF ToldElsewhere
<1>2. stat'[w] = "READY" /\ oncpu'[w] = None /\ oncpu' = oncpu
  BY <1>1 DEF Waiting, InsertEffect
<1>3. w = u /\ oncpu[u] = None
  BY <1>0, <1>1, <1>2 DEF InsertEffect, Waiting
<1>4. Told(c, u) \subseteq ipi'
  BY <1>3 DEF InsertEffect
<1>5. d \in Told(c, u)
  BY <1>1, <1>2, <1>3, ThreadAssumption DEF May, Told
<1> QED
  BY <1>4, <1>5

(* Nobody begins to wait. *)
LEMMA NobodyToTell ==
  ASSUME ListsType, NEW c \in Cpu,
         \/ \E t \in Thread : SuspendEffect(t)
         \/ \E u : StartEffect(c, u)
         \/ UNCHANGED <<stat, oncpu>>
  PROVE  /\ ToldElsewhere(c)
         /\ Waiting(stat', oncpu') \subseteq Waiting(stat, oncpu)
<1>0. /\ stat \in [Thread -> {"INIT", "READY", "SUSPEND"}]
      /\ oncpu \in [Thread -> Cpu \union {None}] /\ None \notin Cpu
  BY NowFields, ThreadAssumption DEF ListsType, Lists
<1>1. Waiting(stat', oncpu') \subseteq Waiting(stat, oncpu)
  <2>1. CASE \E t \in Thread : SuspendEffect(t)
    <3>1. PICK t \in Thread : SuspendEffect(t)
      BY <2>1
    <3> QED
      BY <1>0, <3>1 DEF SuspendEffect, Waiting
  <2>2. CASE \E u : StartEffect(c, u)
    <3>1. PICK u : StartEffect(c, u)
      BY <2>2
    <3> QED
      BY <1>0, <3>1 DEF StartEffect, Waiting
  <2>3. CASE UNCHANGED <<stat, oncpu>>
    BY <2>3 DEF Waiting
  <2> QED
    BY <2>1, <2>2, <2>3
<1> QED
  BY <1>1 DEF ToldElsewhere

(* A thread that is not suspended, nor resumed in a section of its own.    *)
Steady(t) == stat'[t] = stat[t] \/ (stat'[t] = "READY" /\ ~cpus_lock)

(* The processors that do not take part in a step stay as they are.        *)
LEMMA UrgentElsewhere ==
  ASSUME UrgentInv, LockInv, NEW c \in Cpu, NEW d \in Cpu \ {c},
         ToldElsewhere(c), ipi \ {c} \subseteq ipi',
         /\ stage'[d] = stage[d] /\ current'[d] = current[d]
         /\ to'[d] = to[d] /\ irq_switch_flag'[d] = irq_switch_flag[d],
         Attended(d) =>
            /\ current[d] \in Thread
            /\ pc'[current[d]] = pc[current[d]]
            /\ sched_nest'[current[d]] = sched_nest[current[d]]
            /\ Steady(current[d]),
         Switching(d) => Steady(to[d])
  PROVE  Urgent(d)'
<1>1. Urgent(d) /\ d # c /\ (d \in ipi => d \in ipi')
  BY DEF UrgentInv
<1>2. /\ Switching(d)' <=> Switching(d)
      /\ Attended(d)' <=> Attended(d)
  BY DEF Switching, Attended
<1>3. ASSUME NEW x, Suits(d, x), stat'[x] = "READY"
      PROVE  d \in ipi' \/ Suits(d, x)'
  <2>1. ASSUME NEW w, w \in Waiting(stat', oncpu'), BindCpu[w] \in {d, None},
               d \notin ipi'
        PROVE  Priority[x] <= Priority[w]
    BY <1>3, <2>1 DEF ToldElsewhere, Suits, Waiting, May
  <2> QED
    BY <1>3, <2>1 DEF Suits
<1>4. ASSUME Switching(d)
      PROVE  stat'[to[d]] = "READY" /\ (d \in ipi' \/ Suits(d, to[d])')
  <2>1. stat'[to[d]] = "READY"
    BY <1>1, <1>4 DEF Urgent, Steady
  <2> QED
    BY <1>1, <1>3, <1>4, <2>1 DEF Urgent
<1>5. ASSUME Attended(d)
      PROVE  LET t == current[d] IN
             /\ OwesCall(t)'
             /\ d \in ipi' \/ Suits(d, t)' \/ Excused(d, t)'
  <2> DEFINE t == current[d]
  <2>1. /\ Steady(t)
        /\ t \in Thread
        /\ pc'[t] = pc[t] /\ sched_nest'[t] = sched_nest[t]
    BY <1>5 DEF Steady
  <2>2. OwesCall(t) /\ (d \in ipi \/ Suits(d, t) \/ Excused(d, t))
    BY <1>1, <1>5 DEF Urgent
  <2>3. pc[t] = "section" => cpus_lock
    <3> SUFFICES ASSUME pc[t] = "section" PROVE cpus_lock
      OBVIOUS
    <3>1. cpus_nest[t] = 1
      BY <2>1 DEF LockInv, Counts
    <3>2. stage[d] = "run"
      BY <1>5, <3>1 DEF LockInv, Attended
    <3>3. Holds(d)
      BY <3>1, <3>2 DEF Holds
    <3> QED
      BY <3>3 DEF LockInv
  <2>4. OwesCall(t)'
    BY <2>1, <2>2 DEF OwesCall, Steady
  <2>5. CASE d \in ipi
    BY <1>1, <2>4, <2>5
  <2>6. CASE Suits(d, t)
    <3>1. stat'[t] = "READY"
      BY <2>1, <2>6 DEF Suits, Steady
    <3> QED
      BY <1>3, <2>4, <2>6, <3>1
  <2>7. CASE Excused(d, t)
    <3>1. Excused(d, t)'
      BY <1>5, <2>1, <2>3, <2>7 DEF Excused, Steady
    <3> QED
      BY <2>4, <3>1
  <2> QED
    BY <2>2, <2>5, <2>6, <2>7
<1> QED
  BY <1>2, <1>4, <1>5 DEF Urgent

------------------------------------------------------------------------------
(* The inductive invariant, and the steps of a thread that leave the lists *)
(* or the processors alone.                                                *)
SmpInv ==
    /\ ListsType /\ PlaceType /\ LockType /\ FlagType
    /\ ListsInv /\ PlaceInv /\ LockInv /\ CriticalAlone /\ UrgentInv

(* The critical section is where it was. *)
LEMMA CriticalStays ==
  ASSUME CriticalAlone, critical_lock' = critical_lock,
         \A x \in Thread : Critical(x)' <=> Critical(x),
         \A d \in Cpu, x \in Thread :
            Critical(x) /\ Attended(d) /\ current[d] = x
               => Attended(d)' /\ current'[d] = x
  PROVE  CriticalAlone'
<1>1. \A x, y \in Thread : Critical(x) /\ Critical(y) => x = y
  BY DEF CriticalAlone
<1>2. critical_lock <=> \E x \in Thread : Critical(x)
  BY DEF CriticalAlone
<1>3. ASSUME NEW x \in Thread, Critical(x)
      PROVE  \E d \in Cpu : current'[d] = x /\ Attended(d)'
  <2>1. PICK d \in Cpu : current[d] = x /\ Attended(d)
    BY <1>3 DEF CriticalAlone, Attended
  <2> QED
    BY <1>3, <2>1
<1>4. ASSUME NEW x \in Thread, Critical(x)'
      PROVE  \E d \in Cpu : current'[d] = x /\ stage'[d] \in {"run", "irq"}
  BY <1>3, <1>4 DEF Attended
<1>5. \A x, y \in Thread : Critical(x)' /\ Critical(y)' => x = y
  BY <1>1
<1>6. critical_lock' <=> \E x \in Thread : Critical(x)'
  BY <1>2
<1> QED
  BY <1>4, <1>5, <1>6 DEF CriticalAlone

(* The lists do not change. *)
LEMMA ListsStay ==
  ASSUME ListsType, ListsInv, UNCHANGED lists
  PROVE  ListsType' /\ ListsInv' /\ UNCHANGED <<stat, oncpu, ipi>>
<1>1. /\ UNCHANGED <<stat, oncpu, ipi>> /\ UNCHANGED <<ready, group>>
      /\ Now' = Now
  BY DEF lists, Now
<1> QED
  BY <1>1 DEF ListsType, ListsInv

(* The current threads of the processors that do not take part, and those  *)
(* they switch to, are not the thread t of processor c.                    *)
LEMMA OtherThreads ==
  ASSUME PlaceInv, NEW c \in Cpu, Attended(c), NEW d \in Cpu \ {c}
  PROVE  /\ Attended(d) => current[d] \in Thread \ {current[c]}
         /\ Switching(d) => to[d] \in Thread \ {current[c]}
<1>1. HasThread(d) /\ HasThread(c)
  BY DEF PlaceInv
<1> QED
  BY <1>1 DEF HasThread, Attended

(* A thread that runs. *)
LEMMA RunningThread ==
  ASSUME SmpInv, NEW c \in Cpu, NEW t, Runs(c, t)
  PROVE  /\ t \in Thread /\ t = current[c] /\ Attended(c) /\ stage[c] = "run"
         /\ oncpu[t] = c /\ oncpu[t] # None /\ May(t, c)
         /\ Counts(t) /\ OwesCall(t) /\ t \notin saved
         /\ c \in ipi \/ Suits(c, t) \/ Excused(c, t)
         /\ Holds(c) <=> cpus_nest[t] > 0
         /\ cpus_nest[t] \in Nat /\ sched_nest[t] \in Nat
<1>1. t = current[c] /\ Attended(c) /\ stage[c] = "run"
  BY DEF Runs, Attended
<1>2. t \in Thread /\ oncpu[t] = c /\ May(t, c)
  BY <1>1, OnProcessor DEF SmpInv
<1>3. c # None
  BY ThreadAssumption
<1>4. t \notin saved
  BY <1>1, Elsewhere DEF SmpInv
<1>5. Counts(t) /\ Urgent(c)
  BY <1>2 DEF SmpInv, LockInv, UrgentInv
<1>6. Holds(c) <=> cpus_nest[t] > 0
  BY <1>1 DEF Holds, Switching
<1>7. cpus_nest[t] \in Nat /\ sched_nest[t] \in Nat
  BY <1>2, LevelAssumption DEF SmpInv, LockType
<1> QED
  BY <1>1, <1>2, <1>3, <1>4, <1>5, <1>6, <1>7 DEF Urgent

(* A step of a thread that leaves the lists and the processors alone.      *)
LEMMA QuietStep ==
  ASSUME SmpInv, NEW c \in Cpu, NEW t \in Thread, ThreadMove(c, t),
         UNCHANGED <<lists, to, irq_switch_flag>>,
         LockType', LockInv', CriticalAlone',
         OwesCall(t)', Excused(c, t) => Excused(c, t)'
  PROVE  SmpInv'
<1>1. ListsType' /\ ListsInv' /\ UNCHANGED <<stat, oncpu, ipi>>
  BY ListsStay DEF SmpInv
<1>2. UNCHANGED <<stage, current, saved, to, irq_switch_flag>>
  BY DEF ThreadMove
<1>3. PlaceType' /\ FlagType'
  BY <1>1, <1>2 DEF SmpInv, PlaceType, FlagType
<1>4. PlaceInv'
  <2>1. IdlesReady'
    BY <1>1 DEF SmpInv, PlaceInv, HasThread, IdlesReady
  <2>2. Stays
    BY <1>1, <1>2 DEF Stays
  <2> QED
    BY <2>1, <2>2, StaysInPlace DEF SmpInv
<1>5. Runs(c, t)
  BY DEF Runs, ThreadMove
<1>6. ASSUME NEW d \in Cpu \ {c}
      PROVE  Urgent(d)'
  <2>1. ToldElsewhere(c)
    BY <1>1, NobodyToTell DEF SmpInv
  <2>2. Attended(d) => current[d] \in Thread \ {t}
    BY <1>5, RunningThread, OtherThreads DEF SmpInv
  <2>3. \A x : Steady(x)
    BY <1>1 DEF Steady
  <2>4. Attended(d) =>
            /\ current[d] \in Thread
            /\ pc'[current[d]] = pc[current[d]]
            /\ sched_nest'[current[d]] = sched_nest[current[d]]
            /\ Steady(current[d])
    BY <2>2, <2>3 DEF ThreadMove
  <2> QED
    BY <1>1, <1>2, <2>1, <2>3, <2>4, UrgentElsewhere DEF SmpInv
<1>7. Urgent(c)'
  <2>1. /\ stage'[c] = "run" /\ current'[c] = t
        /\ c \in ipi \/ Suits(c, t) \/ Excused(c, t)
    BY <1>2, <1>5, RunningThread
  <2>2. Suits(c, t)' <=> Suits(c, t)
    BY <1>1 DEF Suits
  <2> QED
    BY <1>1, <2>1, <2>2 DEF Urgent, Switching
<1> QED
  BY <1>1, <1>3, <1>4, <1>6, <1>7 DEF SmpInv, UrgentInv

------------------------------------------------------------------------------
(* The operations.                                                         *)

(* rt_schedule with the scheduler locked. *)
ScheduleRefused(c, t) ==
    /\ Runs(c, t)
    /\ IF pc[t] = "section" THEN sched_nest[t] # 1
       ELSE pc[t] \in {"user", "schedule"} /\ sched_nest[t] # 0
    /\ pc' = [pc EXCEPT ![t] = IF @ = "section" THEN "section" ELSE "user"]
    /\ UNCHANGED <<lists, switch, locks, irq_switch_flag>>

LEMMA ScheduleRefusedKeeps ==
  ASSUME SmpInv, NEW c \in Cpu, NEW t \in Thread, ScheduleRefused(c, t)
  PROVE  SmpInv'
<1>1. /\ Counts(t) /\ OwesCall(t) /\ Attended(c) /\ t = current[c]
      /\ stage[c] = "run" /\ sched_nest[t] \in Nat /\ cpus_nest[t] \in Nat
  BY RunningThread DEF ScheduleRefused
<1>2. /\ UNCHANGED <<current, saved, stage, to>>
      /\ UNCHANGED <<cpus_lock, critical_lock, cpus_nest, sched_nest>>
      /\ UNCHANGED <<lists, irq_switch_flag>> /\ UNCHANGED <<stat, ipi>>
  BY DEF ScheduleRefused, switch, locks, lists
<1>3. /\ pc \in [Thread -> Locations]
      /\ pc' = [pc EXCEPT ![t] = IF @ = "section" THEN "section" ELSE "user"]
  BY DEF ScheduleRefused, SmpInv, LockType
<1>4. LockType'
  BY <1>2, <1>3 DEF SmpInv, LockType, Locations
<1>5. pc'[t] = IF pc[t] = "section" THEN "section" ELSE "user"
  BY <1>3
<1>6. ThreadMove(c, t)
  BY <1>1, <1>2, <1>3 DEF ThreadMove
<1>7. LockInv'
  <2>1. /\ pc'[t] \in {"user", "schedule"} => cpus_nest'[t] = 0
        /\ pc'[t] = "section" => cpus_nest'[t] = 1 /\ sched_nest'[t] >= 1
        /\ pc'[t] # "enable"
    BY <1>1, <1>2, <1>5 DEF Counts, ScheduleRefused
  <2> QED
    BY <1>2, <1>4, <1>6, <2>1, ThreadMoveLocks DEF SmpInv
<1>8. CriticalAlone'
  BY <1>2, CriticalStays DEF SmpInv, Critical, InSection, Attended
<1>9. OwesCall(t)' /\ (Excused(c, t) => Excused(c, t)')
  BY <1>1, <1>2, <1>5 DEF OwesCall, Excused, ScheduleRefused
<1> QED
  BY <1>2, <1>4, <1>6, <1>7, <1>8, <1>9, QuietStep

(* rt_cpus_lock at the begin of a section. *)
LEMMA LockKeeps ==
  ASSUME SmpInv, NEW c \in Cpu, NEW t \in Thread, Lock(c, t)
  PROVE  SmpInv'
<1>1. /\ Counts(t) /\ OwesCall(t) /\ Attended(c) /\ t = current[c]
      /\ stage[c] = "run" /\ sched_nest[t] \in Nat /\ cpus_nest[t] \in Nat
  BY RunningThread DEF Lock
<1>2. /\ UNCHANGED <<current, saved, stage, to, critical_lock>>
      /\ UNCHANGED <<lists, irq_switch_flag>> /\ UNCHANGED <<stat, ipi>>
      /\ pc[t] = "user" /\ ~cpus_lock /\ sched_nest[t] = 0 /\ cpus_lock'
  BY DEF Lock, switch, lists
<1>3. cpus_nest[t] = 0 /\ stat[t] = "READY"
  BY <1>1, <1>2 DEF Counts, OwesCall
<1>4. /\ pc \in [Thread -> Locations] /\ cpus_nest \in [Thread -> Nat]
      /\ sched_nest \in [Thread -> 0..MaxNest] /\ 1 \in 0..MaxNest
  BY LevelAssumption DEF SmpInv, LockType
<1>5. /\ pc' = [pc EXCEPT ![t] = "section"]
      /\ cpus_nest' = [cpus_nest EXCEPT ![t] = 1]
      /\ sched_nest' = [sched_nest EXCEPT ![t] = 1]
  BY <1>2, <1>3 DEF Lock
<1>6. LockType'
  BY <1>2, <1>4, <1>5 DEF SmpInv, LockType, Locations, Lock
<1>7. /\ pc'[t] = "section" /\ cpus_nest'[t] = 1 /\ sched_nest'[t] = 1
      /\ \A x \in Thread \ {t} :
            /\ pc'[x] = pc[x] /\ cpus_nest'[x] = cpus_nest[x]
            /\ sched_nest'[x] = sched_nest[x]
  BY <1>4, <1>5
<1>8. ThreadMove(c, t)
  BY <1>1, <1>2, <1>7 DEF ThreadMove
<1>9. LockInv'
  <2>1. /\ pc'[t] \in {"user", "schedule"} => cpus_nest'[t] = 0
        /\ pc'[t] = "section" => cpus_nest'[t] = 1 /\ sched_nest'[t] >= 1
        /\ pc'[t] # "enable"
    BY <1>7
  <2>2. ~cpus_lock /\ (cpus_lock' <=> cpus_nest'[t] > 0)
    BY <1>2, <1>7
  <2> QED
    BY <1>6, <1>8, <2>1, <2>2, ThreadMoveLocks DEF SmpInv
<1>10. CriticalAlone'
  <2>1. ~Critical(t) /\ ~Critical(t)'
    BY <1>2, <1>3, <1>7 DEF Critical, InSection
  <2>2. \A x \in Thread \ {t} : Critical(x)' <=> Critical(x)
    BY <1>7 DEF Critical, InSection
  <2> QED
    BY <1>2, <2>1, <2>2, CriticalStays DEF SmpInv, Attended
<1>11. OwesCall(t)' /\ ~Excused(c, t)
  BY <1>1, <1>2, <1>3 DEF OwesCall, Excused
<1> QED
  BY <1>2, <1>6, <1>8, <1>9, <1>10, <1>11, QuietStep

(* The end of a section, or of rt_schedule after a switch. *)
LEMMA UnlockKeeps ==
  ASSUME SmpInv, NEW c \in Cpu, NEW t \in Thread, Unlock(c, t)
  PROVE  SmpInv'
<1>1. /\ Counts(t) /\ OwesCall(t) /\ Attended(c) /\ t = current[c]
      /\ stage[c] = "run" /\ sched_nest[t] \in Nat /\ cpus_nest[t] \in Nat
  BY RunningThread DEF Unlock
<1>2. /\ UNCHANGED <<current, saved, stage, to, critical_lock>>
      /\ UNCHANGED <<lists, irq_switch_flag>> /\ UNCHANGED <<stat, ipi>>
      /\ pc[t] \in {"enable", "section"}
      /\ pc[t] = "section" => stat[t] = "READY" /\ sched_nest[t] = 1
      /\ cpus_nest' = [cpus_nest EXCEPT ![t] = @ - 1]
  BY DEF Unlock, switch, lists
<1>3. /\ cpus_nest[t] \in {1, 2} /\ sched_nest[t] = 1 /\ stat[t] = "READY"
      /\ pc[t] = "section" => cpus_nest[t] = 1
  BY <1>1, <1>2 DEF Counts, OwesCall
<1>4. /\ pc \in [Thread -> Locations] /\ cpus_nest \in [Thread -> Nat]
      /\ sched_nest \in [Thread -> 0..MaxNest] /\ 0 \in 0..MaxNest
      /\ cpus_lock \in BOOLEAN
  BY LevelAssumption DEF SmpInv, LockType
<1>5. /\ cpus_nest'[t] = cpus_nest[t] - 1
      /\ \A x \in Thread \ {t} : cpus_nest'[x] = cpus_nest[x]
      /\ cpus_nest' \in [Thread -> Nat]
  BY <1>2, <1>3, <1>4
<1>6. CASE cpus_nest[t] = 1
  <2>1. /\ sched_nest' = [sched_nest EXCEPT ![t] = @ - 1]
        /\ cpus_lock' = FALSE
        /\ pc' = [pc EXCEPT ![t] = "user"]
    BY <1>6 DEF Unlock
  <2>2. /\ pc'[t] = "user" /\ cpus_nest'[t] = 0 /\ sched_nest'[t] = 0
        /\ sched_nest' \in [Thread -> 0..MaxNest]
        /\ \A x \in Thread \ {t} :
              pc'[x] = pc[x] /\ sched_nest'[x] = sched_nest[x]
    BY <1>3, <1>4, <1>5, <1>6, <2>1
  <2>3. LockType'
    BY <1>2, <1>4, <1>5, <2>1, <2>2 DEF SmpInv, LockType, Locations
  <2>4. ThreadMove(c, t)
    BY <1>1, <1>2, <1>5, <2>2 DEF ThreadMove
  <2>5. LockInv'
    BY <1>6, <2>1, <2>2, <2>3, <2>4, ThreadMoveLocks DEF SmpInv
  <2>6. CriticalAlone'
    <3>1. ~Critical(t) /\ ~Critical(t)'
      BY <1>3, <1>6, <2>2 DEF Critical, InSection
    <3>2. \A x \in Thread \ {t} : Critical(x)' <=> Critical(x)
      BY <1>5, <2>2 DEF Critical, InSection
    <3> QED
      BY <1>2, <3>1, <3>2, CriticalStays DEF SmpInv, Attended
  <2>7. OwesCall(t)' /\ ~Excused(c, t)
    BY <1>1, <1>2, <1>3 DEF OwesCall, Excused
  <2> QED
    BY <1>2, <2>3, <2>4, <2>5, <2>6, <2>7, QuietStep
<1>7. CASE cpus_nest[t] # 1
  <2>1. /\ UNCHANGED <<sched_nest, cpus_lock>>
        /\ pc' = [pc EXCEPT ![t] = "section"]
    BY <1>7 DEF Unlock
  <2>2. /\ pc'[t] = "section" /\ cpus_nest'[t] = 1
        /\ cpus_nest[t] = 2
        /\ \A x \in Thread \ {t} : pc'[x] = pc[x]
    BY <1>3, <1>4, <1>5, <1>7, <2>1
  <2>3. LockType'
    BY <1>2, <1>4, <1>5, <2>1 DEF SmpInv, LockType, Locations
  <2>4. ThreadMove(c, t)
    BY <1>1, <1>2, <1>5, <2>1, <2>2 DEF ThreadMove
  <2>5. Holds(c)
    BY <1>1, <2>2 DEF Holds
  <2>6. LockInv'
    <3>1. cpus_lock
      BY <2>5 DEF SmpInv, LockInv
    <3> QED
      BY <1>3, <2>1, <2>2, <2>3, <2>4, <3>1, ThreadMoveLocks DEF SmpInv
  <2>7. CriticalAlone'
    <3>1. ~Critical(t) /\ ~Critical(t)'
      BY <1>3, <2>1, <2>2 DEF Critical, InSection
    <3>2. \A x \in Thread \ {t} : Critical(x)' <=> Critical(x)
      BY <1>5, <2>1 DEF Critical, InSection
    <3> QED
      BY <1>2, <3>1, <3>2, CriticalStays DEF SmpInv, Attended
  <2>8. OwesCall(t)' /\ ~Excused(c, t)
    BY <1>1, <1>2, <1>3 DEF OwesCall, Excused
  <2> QED
    BY <1>2, <2>3, <2>4, <2>6, <2>7, <2>8, QuietStep
<1> QED
  BY <1>6, <1>7

(* rt_enter_critical. *)
LEMMA EnterCriticalKeeps ==
  ASSUME SmpInv, NEW c \in Cpu, NEW t \in Thread, EnterCritical(c, t)
  PROVE  SmpInv'
<1>1. /\ Counts(t) /\ OwesCall(t) /\ Attended(c) /\ t = current[c]
      /\ stage[c] = "run" /\ sched_nest[t] \in Nat /\ cpus_nest[t] \in Nat
  BY RunningThread DEF EnterCritical
<1>2. /\ UNCHANGED <<current, saved, stage, to, cpus_lock, cpus_nest, pc>>
      /\ UNCHANGED <<lists, irq_switch_flag>> /\ UNCHANGED <<stat, ipi>>
      /\ pc[t] \in {"user", "section"} /\ stat[t] = "READY"
      /\ sched_nest[t] < MaxNest
      /\ sched_nest[t] = InSection(t) => ~critical_lock
      /\ critical_lock' = TRUE
  BY DEF EnterCritical, switch, lists
<1>3. /\ sched_nest \in [Thread -> 0..MaxNest] /\ MaxNest \in Nat
      /\ sched_nest' = [sched_nest EXCEPT ![t] = @ + 1]
  BY LevelAssumption DEF SmpInv, LockType, EnterCritical
<1>4. /\ sched_nest'[t] = sched_nest[t] + 1
      /\ \A x \in Thread \ {t} : sched_nest'[x] = sched_nest[x]
      /\ sched_nest' \in [Thread -> 0..MaxNest]
  BY <1>1, <1>2, <1>3
<1>5. LockType'
  BY <1>2, <1>4 DEF SmpInv, LockType
<1>6. ThreadMove(c, t)
  BY <1>1, <1>2, <1>4 DEF ThreadMove
<1>7. LockInv'
  <2>1. /\ pc'[t] \in {"user", "schedule"} => cpus_nest'[t] = 0
        /\ pc'[t] = "section" => cpus_nest'[t] = 1 /\ sched_nest'[t] >= 1
        /\ pc'[t] # "enable"
    BY <1>1, <1>2, <1>4 DEF Counts
  <2> QED
    BY <1>2, <1>5, <1>6, <2>1, ThreadMoveLocks DEF SmpInv
<1>8. InSection(t)' = InSection(t) /\ InSection(t) \in {0, 1}
      /\ sched_nest[t] >= InSection(t)
  BY <1>1, <1>2 DEF InSection, Counts
<1>9. \A x \in Thread \ {t} : ~Critical(x) /\ ~Critical(x)'
  <2>1. ASSUME NEW x \in Thread \ {t}
        PROVE  ~Critical(x)
    <3>1. CASE Critical(t)
      BY <3>1 DEF SmpInv, CriticalAlone
    <3>2. CASE ~Critical(t)
      <4>1. ~critical_lock
        BY <1>1, <1>2, <1>8, <3>2 DEF Critical
      <4> QED
        BY <4>1 DEF SmpInv, CriticalAlone
    <3> QED
      BY <3>1, <3>2
  <2> QED
    BY <1>2, <1>4, <2>1 DEF Critical, InSection
<1>10. CriticalAlone'
  <2>1. Critical(t)'
    BY <1>1, <1>4, <1>8 DEF Critical
  <2>2. \A x, y \in Thread : Critical(x)' /\ Critical(y)' => x = y
    BY <1>9
  <2>3. critical_lock' <=> \E x \in Thread : Critical(x)'
    BY <1>2, <2>1
  <2>4. current'[c] = t /\ stage'[c] \in {"run", "irq"}
    BY <1>1, <1>2
  <2>5. \A x \in Thread : Critical(x)' =>
           \E d \in Cpu : current'[d] = x /\ stage'[d] \in {"run", "irq"}
    BY <1>9, <2>4
  <2> QED
    BY <2>2, <2>3, <2>5 DEF CriticalAlone
<1>11. OwesCall(t)' /\ (Excused(c, t) => Excused(c, t)')
  BY <1>1, <1>2, <1>4 DEF OwesCall, Excused
<1> QED
  BY <1>2, <1>5, <1>6, <1>7, <1>10, <1>11, QuietStep

(* rt_exit_critical. *)
LEMMA ExitCriticalKeeps ==
  ASSUME SmpInv, NEW c \in Cpu, NEW t \in Thread, ExitCritical(c, t)
  PROVE  SmpInv'
<1>1. /\ Counts(t) /\ OwesCall(t) /\ Attended(c) /\ t = current[c]
      /\ stage[c] = "run" /\ sched_nest[t] \in Nat /\ cpus_nest[t] \in Nat
  BY RunningThread DEF ExitCritical
<1>2. /\ UNCHANGED <<current, saved, stage, to, cpus_lock, cpus_nest>>
      /\ UNCHANGED <<lists, irq_switch_flag>> /\ UNCHANGED <<stat, ipi>>
      /\ pc[t] \in {"user", "section"} /\ sched_nest[t] > InSection(t)
      /\ critical_lock' =
            (critical_lock /\ sched_nest[t] - 1 # InSection(t))
      /\ pc' = [pc EXCEPT ![t] = IF sched_nest[t] = 1 THEN "schedule" ELSE @]
  BY DEF ExitCritical, switch, lists
<1>3. /\ sched_nest \in [Thread -> 0..MaxNest] /\ MaxNest \in Nat
      /\ sched_nest' = [sched_nest EXCEPT ![t] = @ - 1]
      /\ pc \in [Thread -> Locations]
  BY LevelAssumption DEF SmpInv, LockType, ExitCritical
<1>4. /\ InSection(t)' = InSection(t)
      /\ InSection(t) = IF pc[t] = "section" THEN 1 ELSE 0
      /\ pc[t] = "section" => cpus_nest[t] = 1
      /\ pc[t] = "user" => cpus_nest[t] = 0
  BY <1>1, <1>2 DEF InSection, Counts
<1>5. /\ sched_nest'[t] = sched_nest[t] - 1 /\ sched_nest[t] > 0
      /\ \A x \in Thread \ {t} : /\ sched_nest'[x] = sched_nest[x]
                                 /\ pc'[x] = pc[x]
      /\ sched_nest' \in [Thread -> 0..MaxNest]
      /\ pc'[t] = IF sched_nest[t] = 1 THEN "schedule" ELSE pc[t]
  BY <1>1, <1>2, <1>3, <1>4
<1>6. LockType'
  <2>1. critical_lock' \in BOOLEAN
    BY <1>2
  <2>2. pc' \in [Thread -> Locations]
    BY <1>2, <1>3 DEF Locations
  <2> QED
    BY <1>2, <1>5, <2>1, <2>2 DEF SmpInv, LockType
<1>7. ThreadMove(c, t)
  BY <1>1, <1>2, <1>5 DEF ThreadMove
<1>8. stat[t] = "READY"
  BY <1>1, <1>2, <1>4 DEF OwesCall
<1>9. LockInv'
  <2>1. /\ pc'[t] \in {"user", "schedule"} => cpus_nest'[t] = 0
        /\ pc'[t] = "section" => cpus_nest'[t] = 1 /\ sched_nest'[t] >= 1
        /\ pc'[t] # "enable"
    BY <1>1, <1>2, <1>4, <1>5
  <2> QED
    BY <1>2, <1>6, <1>7, <2>1, ThreadMoveLocks DEF SmpInv
<1>10. CriticalAlone'
  <2>1. Critical(t)
    BY <1>2 DEF Critical
  <2>2. \A x \in Thread \ {t} : ~Critical(x) /\ ~Critical(x)'
    <3>1. \A x \in Thread \ {t} : ~Critical(x)
      BY <2>1 DEF SmpInv, CriticalAlone
    <3> QED
      BY <1>2, <1>5, <3>1 DEF Critical, InSection
  <2>3. critical_lock
    BY <2>1 DEF SmpInv, CriticalAlone
  <2>4. Critical(t)' <=> sched_nest[t] - 1 # InSection(t)
    BY <1>1, <1>2, <1>4, <1>5 DEF Critical
  <2>5. critical_lock' <=> Critical(t)'
    BY <1>2, <2>3, <2>4
  <2>6. \A x, y \in Thread : Critical(x)' /\ Critical(y)' => x = y
    BY <2>2
  <2>7. critical_lock' <=> \E x \in Thread : Critical(x)'
    BY <2>2, <2>5
  <2>8. current'[c] = t /\ stage'[c] \in {"run", "irq"}
    BY <1>1, <1>2
  <2>9. \A x \in Thread : Critical(x)' =>
           \E d \in Cpu : current'[d] = x /\ stage'[d] \in {"run", "irq"}
    BY <2>2, <2>8
  <2> QED
    BY <2>6, <2>7, <2>9 DEF CriticalAlone
<1>11. OwesCall(t)' /\ (Excused(c, t) => Excused(c, t)')
  BY <1>1, <1>2, <1>5, <1>8 DEF OwesCall, Excused
<1> QED
  BY <1>2, <1>6, <1>7, <1>9, <1>10, <1>11, QuietStep


(* A section of the thread t that changes the lists, and leaves the lock   *)
(* and the processors as they were.                                        *)
SectionMove(c, t) ==
    /\ Runs(c, t)
    /\ pc[t] # "enable" /\ pc'[t] \in {"user", "schedule", "section"}
    /\ pc'[t] = "section" <=> pc[t] = "section"
    /\ pc' \in [Thread -> Locations]
    /\ \A x \in Thread \ {t} : pc'[x] = pc[x]
    /\ UNCHANGED <<current, saved, stage, to, irq_switch_flag>>
    /\ UNCHANGED <<cpus_lock, critical_lock, cpus_nest, sched_nest>>

(* Such a section keeps the invariant when it does right by the lists, and *)
(* by those who are concerned.                                             *)
LEMMA SectionStep ==
  ASSUME SmpInv, NEW c \in Cpu, NEW t \in Thread, SectionMove(c, t),
         ListsType', ListsInv', oncpu' = oncpu, IdlesReady',
         ToldElsewhere(c), ipi \subseteq ipi',
         \A x \in Thread \ {t} : Steady(x),
         OwesCall(t)', Excused(c, t)' \/ Suits(c, t)'
  PROVE  SmpInv'
<1>1. /\ Counts(t) /\ Attended(c) /\ t = current[c] /\ stage[c] = "run"
      /\ sched_nest[t] \in Nat /\ cpus_nest[t] \in Nat
  BY RunningThread DEF SectionMove
<1>2. /\ UNCHANGED <<current, saved, stage, to, irq_switch_flag>>
      /\ UNCHANGED <<cpus_lock, critical_lock, cpus_nest, sched_nest>>
  BY DEF SectionMove
<1>3. PlaceType' /\ LockType' /\ FlagType'
  <2>1. PlaceType' /\ FlagType'
    BY <1>2 DEF SmpInv, PlaceType, FlagType
  <2>2. LockType'
    BY <1>2 DEF SmpInv, LockType, SectionMove
  <2> QED
    BY <2>1, <2>2
<1>4. PlaceInv'
  <2>1. Stays
    BY <1>2 DEF Stays
  <2> QED
    BY <2>1, StaysInPlace DEF SmpInv
<1>5. LockInv'
  <2>1. /\ pc'[t] \in {"user", "schedule"} => cpus_nest'[t] = 0
        /\ pc'[t] = "section" => cpus_nest'[t] = 1 /\ sched_nest'[t] >= 1
        /\ pc'[t] # "enable"
    <3>1. pc[t] \in Locations
      BY DEF SmpInv, LockType
    <3> QED
      BY <1>1, <1>2, <3>1 DEF Counts, SectionMove, Locations
  <2>2. ThreadMove(c, t)
    BY <1>1, <1>2 DEF ThreadMove, SectionMove
  <2> QED
    BY <1>2, <1>3, <2>1, <2>2, ThreadMoveLocks DEF SmpInv
<1>6. CriticalAlone'
  BY <1>2, CriticalStays DEF SmpInv, Critical, InSection, Attended
<1>7. ASSUME NEW d \in Cpu \ {c}
      PROVE  Urgent(d)'
  <2>1. /\ Attended(d) => current[d] \in Thread \ {t}
        /\ Switching(d) => to[d] \in Thread \ {t}
    BY <1>1, OtherThreads DEF SmpInv
  <2>2. Attended(d) =>
            /\ current[d] \in Thread
            /\ pc'[current[d]] = pc[current[d]]
            /\ sched_nest'[current[d]] = sched_nest[current[d]]
            /\ Steady(current[d])
    BY <1>2, <2>1 DEF SectionMove
  <2>3. Switching(d) => Steady(to[d])
    BY <2>1
  <2>4. ipi \ {c} \subseteq ipi'
    OBVIOUS
  <2> QED
    BY <1>2, <2>2, <2>3, <2>4, UrgentElsewhere DEF SmpInv
<1>8. Urgent(c)'
  BY <1>1, <1>2 DEF Urgent, Switching
<1> QED
  BY <1>3, <1>4, <1>5, <1>6, <1>7, <1>8 DEF SmpInv, UrgentInv

(* A thread suspends itself. *)
LEMMA SuspendKeeps ==
  ASSUME ~Wide, SmpInv, NEW c \in Cpu, NEW t \in Thread, Suspend(c, t)
  PROVE  SmpInv'
<1>1. /\ oncpu[t] # None /\ Counts(t)
  BY RunningThread DEF Suspend
<1>2. ListsType' /\ ListsInv' /\ SuspendEffect(t)
  BY <1>1, SuspendStep DEF Suspend, SmpInv
<1>3. stat \in [Thread -> {"INIT", "READY", "SUSPEND"}]
  BY NowFields DEF SmpInv, ListsType, Lists
<1>4. /\ stat' = [stat EXCEPT ![t] = "SUSPEND"] /\ oncpu' = oncpu /\ ipi' = ipi
  BY <1>2 DEF SuspendEffect
<1>5. IdlesReady'
  <2>1. \A d \in Cpu : Idle[d] \in Thread /\ Idle[d] # t
    BY ThreadAssumption DEF Suspend
  <2>2. \A d \in Cpu : stat[Idle[d]] = "READY"
    BY DEF SmpInv, PlaceInv, HasThread
  <2> QED
    BY <1>3, <1>4, <2>1, <2>2 DEF IdlesReady
<1>6. ToldElsewhere(c)
  BY <1>2, NobodyToTell DEF SmpInv
<1>7. /\ pc \in [Thread -> Locations]
      /\ pc' = [pc EXCEPT ![t] = IF @ = "user" THEN "schedule" ELSE @]
      /\ UNCHANGED <<current, saved, stage, to, irq_switch_flag>>
      /\ UNCHANGED <<cpus_lock, critical_lock, cpus_nest, sched_nest>>
      /\ Runs(c, t)
      /\ \/ pc[t] = "user" /\ sched_nest[t] = 0
         \/ pc[t] = "section" /\ sched_nest[t] = 1
  BY DEF SmpInv, LockType, Suspend, switch, locks
<1>8. /\ pc'[t] = IF pc[t] = "user" THEN "schedule" ELSE pc[t]
      /\ \A x \in Thread \ {t} : pc'[x] = pc[x]
      /\ pc' \in [Thread -> Locations]
  BY <1>7 DEF Locations
<1>9. SectionMove(c, t)
  BY <1>7, <1>8 DEF SectionMove
<1>10. \A x \in Thread \ {t} : Steady(x)
  BY <1>3, <1>4 DEF Steady
<1>11. stat'[t] = "SUSPEND"
  BY <1>3, <1>4
<1>12. OwesCall(t)' /\ Excused(c, t)'
  BY <1>7, <1>8, <1>11 DEF OwesCall, Excused
<1> QED
  BY <1>2, <1>4, <1>5, <1>6, <1>9, <1>10, <1>12, SectionStep

(* A thread resumes another one. *)
LEMMA ResumeKeeps ==
  ASSUME ~Wide, SmpInv, NEW c \in Cpu, NEW t \in Thread, NEW u \in Thread,
         Resume(c, t, u)
  PROVE  SmpInv'
<1>1. OwesCall(t)
  BY RunningThread DEF Resume
<1>2. ListsType' /\ ListsInv' /\ InsertEffect(c, u)
  BY ResumeStep DEF Resume, SmpInv
<1>3. stat \in [Thread -> {"INIT", "READY", "SUSPEND"}]
  BY NowFields DEF SmpInv, ListsType, Lists
<1>4. /\ stat' = [stat EXCEPT ![u] = "READY"] /\ oncpu' = oncpu
      /\ ipi \subseteq ipi'
  BY <1>2 DEF InsertEffect
<1>5. IdlesReady'
  <2>1. \A d \in Cpu : stat[Idle[d]] = "READY" /\ Idle[d] \in Thread
    BY ThreadAssumption DEF SmpInv, PlaceInv, HasThread
  <2> QED
    BY <1>3, <1>4, <2>1 DEF IdlesReady
<1>6. ToldElsewhere(c)
  BY <1>2, InsertTells DEF SmpInv
<1>7. /\ pc \in [Thread -> Locations]
      /\ pc' = [pc EXCEPT ![t] = "schedule"]
      /\ UNCHANGED <<current, saved, stage, to, irq_switch_flag>>
      /\ UNCHANGED <<cpus_lock, critical_lock, cpus_nest, sched_nest>>
      /\ Runs(c, t) /\ pc[t] = "user" /\ ~cpus_lock
  BY DEF SmpInv, LockType, Resume, switch, locks
<1>8. /\ pc'[t] = "schedule"
      /\ \A x \in Thread \ {t} : pc'[x] = pc[x]
      /\ pc' \in [Thread -> Locations]
  BY <1>7 DEF Locations
<1>9. SectionMove(c, t)
  BY <1>7, <1>8 DEF SectionMove
<1>10. \A x \in Thread : Steady(x)
  BY <1>3, <1>4, <1>7 DEF Steady
<1>11. stat[t] = "READY" /\ stat'[t] = "READY"
  BY <1>1, <1>3, <1>4, <1>7 DEF OwesCall
<1>12. OwesCall(t)' /\ Excused(c, t)'
  BY <1>8, <1>11 DEF OwesCall, Excused
<1> QED
  BY <1>2, <1>4, <1>5, <1>6, <1>9, <1>10, <1>12, SectionStep


(* An interrupt handler keeps the invariant when it does right by the      *)
(* lists, and leaves a flag when they have changed.                        *)
LEMMA InterruptStep ==
  ASSUME SmpInv, NEW c \in Cpu, Interrupted(c),
         ListsType', ListsInv', oncpu' = oncpu, IdlesReady',
         ToldElsewhere(c), ipi \ {c} \subseteq ipi',
         \A x \in Thread : Steady(x), FlagType',
         \A d \in Cpu \ {c} : irq_switch_flag'[d] = irq_switch_flag[d],
         irq_switch_flag'[c] \/ UNCHANGED <<stat, ipi>>
  PROVE  SmpInv'
<1> DEFINE t == current[c]
<1>1. /\ stage[c] = "run" /\ cpus_nest[t] = 0 /\ ~cpus_lock /\ Attended(c)
      /\ stage' = [stage EXCEPT ![c] = "irq"]
      /\ UNCHANGED <<current, saved, to, pc>>
      /\ UNCHANGED <<cpus_lock, critical_lock, cpus_nest, sched_nest>>
  BY DEF Interrupted, locks, Attended
<1>2. Runs(c, t)
  BY <1>1 DEF Runs
<1>3. /\ t \in Thread /\ Counts(t) /\ OwesCall(t)
      /\ c \in ipi \/ Suits(c, t) \/ Excused(c, t)
  BY <1>2, RunningThread
<1>4. /\ stage \in [Cpu -> Stages] /\ stage' \in [Cpu -> Stages]
      /\ stage'[c] = "irq" /\ \A d \in Cpu \ {c} : stage'[d] = stage[d]
  BY <1>1 DEF SmpInv, PlaceType, Stages
<1>5. PlaceType' /\ LockType'
  <2>1. PlaceType'
    BY <1>1, <1>4 DEF SmpInv, PlaceType
  <2>2. LockType'
    BY <1>1 DEF SmpInv, LockType
  <2> QED
    BY <2>1, <2>2
<1>6. PlaceInv'
  <2>1. Stays
    BY <1>1, <1>4 DEF Stays
  <2> QED
    BY <2>1, StaysInPlace DEF SmpInv
<1>7. LockInv'
  <2>1. \A x \in Thread : Counts(x)'
    BY <1>1 DEF SmpInv, LockInv, Counts
  <2>2. ~Holds(c) /\ ~Holds(c)'
    BY <1>1, <1>4 DEF Holds, Switching
  <2> QED
    BY <1>1, <1>4, <1>5, <2>1, <2>2, LocksMove DEF SmpInv
<1>8. CriticalAlone'
  <2>1. \A d \in Cpu : Attended(d) => Attended(d)'
    BY <1>4 DEF Attended
  <2> QED
    BY <1>1, <2>1, CriticalStays DEF SmpInv, Critical, InSection
<1>9. ASSUME NEW d \in Cpu \ {c}
      PROVE  Urgent(d)'
  <2>1. Attended(d) => current[d] \in Thread
    BY Elsewhere DEF SmpInv
  <2>2. Switching(d) => Steady(to[d])
    <3>1. Switching(d) => to[d] \in Thread
      BY DEF SmpInv, PlaceInv, HasThread
    <3> QED
      BY <3>1
  <2> QED
    BY <1>1, <1>4, <2>1, <2>2, UrgentElsewhere DEF SmpInv
<1>10. Urgent(c)'
  <2>1. OwesCall(t)'
    BY <1>1, <1>3 DEF OwesCall, Steady
  <2>2. c \in ipi' \/ Suits(c, t)' \/ Excused(c, t)'
    <3>1. CASE irq_switch_flag'[c]
      BY <1>4, <3>1 DEF Excused
    <3>2. CASE UNCHANGED <<stat, ipi>>
      <4>1. Suits(c, t)' <=> Suits(c, t)
        BY <1>1, <3>2 DEF Suits
      <4>2. Excused(c, t) => Excused(c, t)'
        BY <1>1, <3>2 DEF Excused
      <4> QED
        BY <1>3, <3>2, <4>1, <4>2
    <3> QED
      BY <3>1, <3>2
  <2> QED
    BY <1>1, <1>4, <2>1, <2>2 DEF Urgent, Switching
<1> QED
  BY <1>5, <1>6, <1>7, <1>8, <1>9, <1>10 DEF SmpInv, UrgentInv

(* The idle threads are ready as long as no thread is suspended. *)
LEMMA IdlesStayReady ==
  ASSUME SmpInv, \A x \in Thread : stat[x] = "READY" => stat'[x] = "READY"
  PROVE  IdlesReady'
BY ThreadAssumption DEF SmpInv, PlaceInv, HasThread, IdlesReady

(* The interrupt of another processor. *)
LEMMA IpiKeeps ==
  ASSUME SmpInv, NEW c \in Cpu, Ipi(c)
  PROVE  SmpInv'
<1>1. /\ Interrupted(c) /\ ipi' = ipi \ {c} /\ Flag(c)
      /\ UNCHANGED <<stat, oncpu>> /\ UNCHANGED <<ready, table, group>>
  BY DEF Ipi
<1>2. ListsType' /\ ListsInv'
  <2>1. ListsType'
    BY <1>1 DEF SmpInv, ListsType, Now, Lists
  <2>2. ListsInv'
    BY <1>1 DEF SmpInv, ListsInv
  <2> QED
    BY <2>1, <2>2
<1>3. ToldElsewhere(c)
  BY <1>1, NobodyToTell DEF SmpInv
<1>4. IdlesReady' /\ \A x \in Thread : Steady(x)
  BY <1>1, IdlesStayReady DEF Steady
<1>5. /\ FlagType' /\ irq_switch_flag'[c]
      /\ \A d \in Cpu \ {c} : irq_switch_flag'[d] = irq_switch_flag[d]
  BY <1>1 DEF Flag, FlagType, SmpInv
<1> QED
  BY <1>1, <1>2, <1>3, <1>4, <1>5, InterruptStep

(* The interrupt of a device. *)
LEMMA DeviceKeeps ==
  ASSUME ~Wide, SmpInv, NEW c \in Cpu, NEW u \in Thread, Device(c, u)
  PROVE  SmpInv'
<1>1. /\ Interrupted(c) /\ Flag(c) /\ ~cpus_lock /\ stat[u] = "SUSPEND"
      /\ Become(InsertThread(Now, c, u))
  BY DEF Device, Interrupted
<1>2. ListsType' /\ ListsInv' /\ InsertEffect(c, u)
  BY <1>1, ResumeStep DEF SmpInv
<1>3. stat \in [Thread -> {"INIT", "READY", "SUSPEND"}]
  BY NowFields DEF SmpInv, ListsType, Lists
<1>4. /\ stat' = [stat EXCEPT ![u] = "READY"] /\ oncpu' = oncpu
      /\ ipi \subseteq ipi'
  BY <1>2 DEF InsertEffect
<1>5. ToldElsewhere(c)
  BY <1>2, InsertTells DEF SmpInv
<1>6. IdlesReady' /\ \A x \in Thread : Steady(x)
  BY <1>1, <1>3, <1>4, IdlesStayReady DEF Steady
<1>7. /\ FlagType' /\ irq_switch_flag'[c]
      /\ \A d \in Cpu \ {c} : irq_switch_flag'[d] = irq_switch_flag[d]
  BY <1>1 DEF Flag, FlagType, SmpInv
<1>8. ipi \ {c} \subseteq ipi'
  BY <1>4
<1> QED
  BY <1>1, <1>2, <1>4, <1>5, <1>6, <1>7, <1>8, InterruptStep

(* The tick. *)
LEMMA TickKeeps ==
  ASSUME SmpInv, NEW c \in Cpu, Tick(c)
  PROVE  SmpInv'
<1>1. /\ Interrupted(c) /\ UNCHANGED lists
      /\ Flag(c) \/ UNCHANGED irq_switch_flag
  BY DEF Tick
<1>2. ListsType' /\ ListsInv' /\ UNCHANGED <<stat, oncpu, ipi>>
  BY <1>1, ListsStay DEF SmpInv
<1>3. ToldElsewhere(c)
  BY <1>2, NobodyToTell DEF SmpInv
<1>4. IdlesReady' /\ \A x \in Thread : Steady(x)
  BY <1>2, IdlesStayReady DEF Steady
<1>5. /\ FlagType'
      /\ \A d \in Cpu \ {c} : irq_switch_flag'[d] = irq_switch_flag[d]
  BY <1>1 DEF Flag, FlagType, SmpInv
<1> QED
  BY <1>1, <1>2, <1>3, <1>4, <1>5, InterruptStep

------------------------------------------------------------------------------
(* The switch to another thread.                                           *)

(* What a section leaves in which processor c has selected u, another      *)
(* thread than its own t, and has prepared the switch.                     *)
SwitchMove(c, t, u) ==
    /\ Attended(c) /\ t = current[c] /\ u # t
    /\ stage' = [stage EXCEPT ![c] = "save"] /\ to' = [to EXCEPT ![c] = u]
    /\ UNCHANGED <<current, saved, critical_lock>>
    /\ cpus_lock' /\ (~cpus_lock \/ Holds(c))
    /\ \A x \in Thread \ {t} : /\ pc'[x] = pc[x] /\ cpus_nest'[x] = cpus_nest[x]
                               /\ sched_nest'[x] = sched_nest[x]
    /\ \A d \in Cpu \ {c} : irq_switch_flag'[d] = irq_switch_flag[d]

LEMMA SwitchStep ==
  ASSUME SmpInv, NEW c \in Cpu, NEW t \in Thread, NEW u, SwitchMove(c, t, u),
         ListsType', ListsInv', SelectEffect(c, t, u), LockType', FlagType',
         ~Critical(t), ~Critical(t)', Counts(t)', pc'[t] # "section"
  PROVE  SmpInv'
<1>1. /\ Attended(c) /\ t = current[c] /\ u # t
      /\ stage' = [stage EXCEPT ![c] = "save"] /\ to' = [to EXCEPT ![c] = u]
      /\ UNCHANGED <<current, saved, critical_lock>>
      /\ cpus_lock' /\ (~cpus_lock \/ Holds(c))
      /\ u \in Thread /\ stat' = stat /\ ipi \subseteq ipi'
  BY DEF SwitchMove, SelectEffect
<1>2. /\ stage \in [Cpu -> Stages] /\ stage' \in [Cpu -> Stages]
      /\ to \in [Cpu -> Thread \union {None}]
      /\ to' \in [Cpu -> Thread \union {None}]
      /\ stage'[c] = "save" /\ to'[c] = u
      /\ \A d \in Cpu \ {c} : stage'[d] = stage[d] /\ to'[d] = to[d]
  BY <1>1 DEF SmpInv, PlaceType, Stages
<1>3. PlaceType'
  <2>1. oncpu' \in [Thread -> Cpu \union {None}]
    <3>1. Now'.oncpu \in [Thread -> Cpu \union {None}]
      BY DEF ListsType, Lists
    <3> QED
      BY <3>1 DEF Now
  <2> QED
    BY <1>1, <1>2, <2>1 DEF SmpInv, PlaceType
<1>4. ~Switching(c)
  BY <1>1 DEF Attended, Switching
<1>5. \A d \in Cpu : ~Switching(d)
  BY <1>1, <1>4, OneHolder DEF SmpInv
<1>6. IdlesReady'
  BY <1>1, IdlesStayReady
<1>7. PlaceInv'
  BY <1>1, <1>5, <1>6, SwitchPrepared DEF SmpInv
<1>8. ASSUME NEW d \in Cpu \ {c}
      PROVE  stage[d] \in {"run", "irq", "save"} =>
                /\ current[d] \in Thread \ {t}
                /\ pc'[current[d]] = pc[current[d]]
                /\ cpus_nest'[current[d]] = cpus_nest[current[d]]
                /\ sched_nest'[current[d]] = sched_nest[current[d]]
  <2>1. stage[d] \in {"run", "irq", "save"} => current[d] \in Thread \ {t}
    BY <1>1, Elsewhere DEF SmpInv
  <2> QED
    BY <2>1 DEF SwitchMove
<1>9. LockInv'
  <2>1. ASSUME NEW x \in Thread PROVE Counts(x)'
    <3>1. CASE x # t
      <4>1. Counts(x)
        BY DEF SmpInv, LockInv
      <4> QED
        BY <1>1, <3>1, <4>1 DEF Counts, SwitchMove
    <3> QED
      BY <3>1
  <2>2. Holds(c)'
    BY <1>2 DEF Holds, Switching
  <2>3. pc'[current'[c]] # "section"
    BY <1>1
  <2> QED
    BY <1>1, <1>2, <1>8, <2>1, <2>2, <2>3, LocksMove DEF SmpInv
<1>10. CriticalAlone'
  <2>1. \A x \in Thread : Critical(x)' <=> Critical(x)
    BY DEF SwitchMove, Critical, InSection
  <2>2. ASSUME NEW d \in Cpu, NEW x \in Thread,
               Critical(x), Attended(d), current[d] = x
        PROVE  Attended(d)' /\ current'[d] = x
    <3>1. d # c
      BY <1>1, <2>2
    <3> QED
      BY <1>1, <1>2, <2>2, <3>1 DEF Attended
  <2> QED
    BY <1>1, <2>1, <2>2, CriticalStays DEF SmpInv
<1>11. ASSUME NEW d \in Cpu \ {c}
       PROVE  Urgent(d)'
  <2>1. ToldElsewhere(c)
    <3>1. May(t, c)
      BY <1>1, OnProcessor DEF SmpInv
    <3> QED
      BY <3>1, SelectTells DEF SmpInv
  <2>2. \A x : Steady(x)
    BY <1>1 DEF Steady
  <2>3. Attended(d) =>
            /\ current[d] \in Thread
            /\ pc'[current[d]] = pc[current[d]]
            /\ sched_nest'[current[d]] = sched_nest[current[d]]
            /\ Steady(current[d])
    BY <1>8, <2>2 DEF Attended
  <2>4. ipi \ {c} \subseteq ipi'
    BY <1>1
  <2>5. /\ stage'[d] = stage[d] /\ current'[d] = current[d]
        /\ to'[d] = to[d] /\ irq_switch_flag'[d] = irq_switch_flag[d]
    BY <1>1, <1>2 DEF SwitchMove
  <2> QED
    BY <2>1, <2>2, <2>3, <2>4, <2>5, UrgentElsewhere DEF SmpInv
<1>12. Urgent(c)'
  <2>1. stat'[u] = "READY"
    BY <1>1 DEF SelectEffect
  <2>2. ASSUME NEW w \in Waiting(stat', oncpu'), BindCpu[w] \in {c, None}
        PROVE  Priority[u] <= Priority[w]
    <3>1. w \in Thread /\ stat[w] = "READY" /\ oncpu'[w] = None
      BY <1>1 DEF Waiting
    <3>2. w = t \/ w \in Waiting(stat, oncpu)
      <4>1. c # None
        BY ThreadAssumption
      <4> QED
        BY <3>1, <4>1 DEF SelectEffect, Waiting
    <3> QED
      BY <2>2, <3>1, <3>2 DEF SelectEffect, May
  <2>3. Suits(c, u)'
    BY <2>1, <2>2 DEF Suits
  <2> QED
    BY <1>2, <2>1, <2>3 DEF Urgent, Switching, Attended
<1> QED
  BY <1>3, <1>7, <1>9, <1>10, <1>11, <1>12 DEF SmpInv, UrgentInv


(* A processor that goes on with its thread. *)
LEMMA SameThread ==
  ASSUME SmpInv, NEW c \in Cpu, NEW t \in Thread, Attended(c), t = current[c],
         SelectEffect(c, t, t)
  PROVE  /\ stat' = stat /\ oncpu' = oncpu /\ ipi \subseteq ipi'
         /\ stat[t] = "READY" /\ Suits(c, t) /\ ToldElsewhere(c) /\ IdlesReady'
<1>1. /\ stat' = stat /\ ipi \subseteq ipi' /\ stat[t] = "READY"
      /\ oncpu' = [x \in Thread |-> IF x = t THEN c ELSE oncpu[x]]
      /\ \A w \in Waiting(stat, oncpu) :
            May(w, c) => Priority[t] <= Priority[w]
  BY DEF SelectEffect
<1>2. oncpu[t] = c /\ May(t, c)
  BY OnProcessor DEF SmpInv
<1>3. oncpu' = oncpu
  BY <1>1, <1>2 DEF SmpInv, PlaceType
<1>4. Suits(c, t)
  BY <1>1 DEF Suits, May
<1>5. ToldElsewhere(c)
  BY <1>2, SelectTells DEF SmpInv
<1>6. IdlesReady'
  BY <1>1, IdlesStayReady
<1> QED
  BY <1>1, <1>3, <1>4, <1>5, <1>6

(* rt_schedule. *)
LEMMA ScheduleKeeps ==
  ASSUME ~Wide, SmpInv, NEW c \in Cpu, NEW t \in Thread, Schedule(c, t)
  PROVE  SmpInv'
<1> DEFINE inside == pc[t] = "section"
           nest == IF inside THEN sched_nest[t] ELSE sched_nest[t] + 1
           r == Select(Now, c)
           u == r.to
           back == [pc EXCEPT ![t] = IF inside THEN "section" ELSE "user"]
<1>1. /\ Runs(c, t) /\ UNCHANGED irq_switch_flag
      /\ pc[t] \in {"user", "schedule", "section"}
      /\ inside \/ ~cpus_lock
      /\ IF nest # 1
         THEN pc' = back /\ UNCHANGED <<lists, switch, locks>>
         ELSE /\ Become(r.s)
              /\ IF u = t
                 THEN pc' = back /\ UNCHANGED <<switch, locks>>
                 ELSE /\ SwitchTo(c, u, "save")
                      /\ pc' = [pc EXCEPT ![t] = "enable"]
                      /\ cpus_lock' = TRUE
                      /\ cpus_nest' = [cpus_nest EXCEPT ![t] = @ + 1]
                      /\ sched_nest' = [sched_nest EXCEPT ![t] = nest]
                      /\ UNCHANGED critical_lock
  BY DEF Schedule
<1> HIDE DEF r
<1>2. /\ Attended(c) /\ t = current[c] /\ stage[c] = "run"
      /\ Counts(t) /\ OwesCall(t) /\ (Holds(c) <=> cpus_nest[t] > 0)
      /\ sched_nest[t] \in Nat /\ cpus_nest[t] \in Nat
  BY <1>1, RunningThread
<1>3. inside => cpus_nest[t] = 1 /\ Holds(c)
  BY <1>2 DEF Counts
<1>4. ~inside => cpus_nest[t] = 0
  BY <1>1, <1>2 DEF Counts
<1>5. /\ pc \in [Thread -> Locations] /\ cpus_nest \in [Thread -> Nat]
      /\ sched_nest \in [Thread -> 0..MaxNest]
      /\ MaxNest \in Nat \ {0}
  BY LevelAssumption DEF SmpInv, LockType
<1>6. nest = 1 => sched_nest[t] = IF inside THEN 1 ELSE 0
  BY <1>2
<1>7. CASE nest # 1
  <2>1. IF inside THEN sched_nest[t] # 1 ELSE sched_nest[t] # 0
    BY <1>7
  <2>2. pc' = back /\ UNCHANGED <<lists, switch, locks, irq_switch_flag>>
    BY <1>1, <1>7
  <2>3. ScheduleRefused(c, t)
    BY <1>1, <2>1, <2>2 DEF ScheduleRefused
  <2> QED
    BY <2>3, ScheduleRefusedKeeps
<1> HIDE DEF nest
<1>8. ASSUME nest = 1
      PROVE  ListsType' /\ ListsInv' /\ SelectEffect(c, t, u)
  BY <1>1, <1>2, <1>8, SelectStep DEF SmpInv, r
<1>9. CASE nest = 1 /\ u = t
  <2>1. /\ pc' = back /\ UNCHANGED <<switch, locks>>
    BY <1>1, <1>9
  <2>2. /\ stat' = stat /\ oncpu' = oncpu /\ ipi \subseteq ipi'
        /\ stat[t] = "READY" /\ Suits(c, t) /\ ToldElsewhere(c) /\ IdlesReady'
    BY <1>2, <1>8, <1>9, SameThread
  <2>3. /\ pc'[t] = (IF inside THEN "section" ELSE "user")
        /\ \A x \in Thread \ {t} : pc'[x] = pc[x]
        /\ pc' \in [Thread -> Locations]
    BY <1>5, <2>1 DEF Locations
  <2>4. SectionMove(c, t)
    BY <1>1, <2>1, <2>3 DEF SectionMove, switch, locks
  <2>5. OwesCall(t)' /\ \A x : Steady(x)
    BY <2>2 DEF OwesCall, Steady
  <2>6. Suits(c, t)'
    BY <2>2 DEF Suits
  <2> QED
    BY <1>8, <1>9, <2>2, <2>4, <2>5, <2>6, SectionStep
<1>10. CASE nest = 1 /\ u # t
  <2>1. /\ SwitchTo(c, u, "save")
        /\ pc' = [pc EXCEPT ![t] = "enable"]
        /\ cpus_lock' = TRUE
        /\ cpus_nest' = [cpus_nest EXCEPT ![t] = @ + 1]
        /\ sched_nest' = [sched_nest EXCEPT ![t] = 1]
        /\ UNCHANGED critical_lock
    BY <1>1, <1>10
  <2>2. ListsType' /\ ListsInv' /\ SelectEffect(c, t, u)
    BY <1>8, <1>10
  <2>3. u # None
    BY <2>2, ThreadAssumption DEF SelectEffect
  <2>4. /\ stage' = [stage EXCEPT ![c] = "save"]
        /\ to' = [to EXCEPT ![c] = u] /\ UNCHANGED <<current, saved>>
    BY <2>1, <2>3 DEF SwitchTo
  <2>5. /\ pc'[t] = "enable" /\ cpus_nest'[t] = cpus_nest[t] + 1
        /\ sched_nest'[t] = 1
        /\ \A x \in Thread \ {t} :
              /\ pc'[x] = pc[x] /\ cpus_nest'[x] = cpus_nest[x]
              /\ sched_nest'[x] = sched_nest[x]
    BY <1>5, <2>1
  <2>6. LockType'
    <3>1. pc' \in [Thread -> Locations]
      BY <1>5, <2>1 DEF Locations
    <3>2. cpus_nest' \in [Thread -> Nat]
      BY <1>5, <2>1
    <3>3. sched_nest' \in [Thread -> 0..MaxNest]
      <4>1. 1 \in 0..MaxNest
        BY <1>5
      <4> QED
        BY <1>5, <2>1, <4>1
    <3> QED
      BY <2>1, <3>1, <3>2, <3>3 DEF SmpInv, LockType
  <2>7. FlagType'
    BY <1>1 DEF SmpInv, FlagType
  <2>8. SwitchMove(c, t, u)
    BY <1>1, <1>2, <1>3, <1>10, <2>1, <2>4, <2>5 DEF SwitchMove
  <2>9. ~Critical(t) /\ ~Critical(t)' /\ Counts(t)' /\ pc'[t] # "section"
    <3>1. ~Critical(t)
      BY <1>3, <1>4, <1>6, <1>10 DEF Critical, InSection
    <3>2. cpus_nest'[t] \in {1, 2}
      BY <1>3, <1>4, <2>5
    <3>3. ~Critical(t)'
      BY <2>5, <3>2 DEF Critical, InSection
    <3>4. Counts(t)'
      BY <2>5, <3>2 DEF Counts
    <3> QED
      BY <2>5, <3>1, <3>3, <3>4
  <2> QED
    BY <2>2, <2>6, <2>7, <2>8, <2>9, SwitchStep
<1> QED
  BY <1>7, <1>9, <1>10

(* The end of an interrupt: rt_scheduler_do_irq_switch. *)
LEMMA DoIrqSwitchKeeps ==
  ASSUME ~Wide, SmpInv, NEW c \in Cpu, DoIrqSwitch(c)
  PROVE  SmpInv'
<1> DEFINE t == current[c]
           r == Select(Now, c)
           u == r.to
           due == irq_switch_flag[c] /\ sched_nest[t] = 0
<1>1. /\ stage[c] = "irq" /\ ~cpus_lock /\ Attended(c)
      /\ IF due
         THEN /\ irq_switch_flag' = [irq_switch_flag EXCEPT ![c] = FALSE]
              /\ Become(r.s)
              /\ SwitchTo(c, u, IF u = t THEN "run" ELSE "save")
              /\ cpus_lock' = (u # t)
         ELSE /\ stage' = [stage EXCEPT ![c] = "run"]
              /\ UNCHANGED <<lists, irq_switch_flag, current, saved, to,
                             cpus_lock>>
      /\ UNCHANGED <<critical_lock, cpus_nest, sched_nest, pc>>
  BY DEF DoIrqSwitch, Attended
<1> HIDE DEF r
<1>2. /\ t \in Thread /\ t \notin saved
  BY <1>1, Elsewhere DEF SmpInv
<1>3. /\ cpus_nest[t] = 0 /\ Counts(t) /\ OwesCall(t)
      /\ c \in ipi \/ Suits(c, t) \/ Excused(c, t)
      /\ pc[t] \in Locations
  BY <1>1, <1>2 DEF SmpInv, LockInv, UrgentInv, Urgent, LockType
<1>4. pc[t] \in {"user", "schedule"}
  BY <1>3 DEF Counts, Locations
<1>5. stage \in [Cpu -> Stages] /\ current \in [Cpu -> Thread \union {None}]
      /\ to \in [Cpu -> Thread \union {None}] /\ saved \in SUBSET Thread
      /\ oncpu \in [Thread -> Cpu \union {None}]
      /\ irq_switch_flag \in [Cpu -> BOOLEAN]
  BY DEF SmpInv, PlaceType, FlagType
<1>6. LockType'
  <2>1. cpus_lock' \in BOOLEAN
    BY <1>1 DEF SmpInv, LockType
  <2> QED
    BY <1>1, <2>1 DEF SmpInv, LockType
<1>7. ASSUME due
      PROVE  ListsType' /\ ListsInv' /\ SelectEffect(c, t, u)
  BY <1>1, <1>7, SelectStep DEF SmpInv, r
<1> DEFINE Resumes ==
       /\ ListsType' /\ ListsInv' /\ FlagType' /\ oncpu' = oncpu
       /\ stat' = stat /\ ipi \subseteq ipi' /\ ToldElsewhere(c) /\ IdlesReady'
       /\ stage' = [stage EXCEPT ![c] = "run"] /\ UNCHANGED <<current, saved>>
       /\ cpus_lock' = FALSE
       /\ to'[c] \in {to[c], t} /\ to' \in [Cpu -> Thread \union {None}]
       /\ \A d \in Cpu \ {c} : /\ to'[d] = to[d]
                               /\ irq_switch_flag'[d] = irq_switch_flag[d]
       /\ c \in ipi' \/ Suits(c, t)'
          \/ pc[t] = "schedule" \/ (pc[t] = "user" /\ sched_nest[t] > 0)
<1>8. ASSUME Resumes
      PROVE  SmpInv'
  <2>1. /\ stage'[c] = "run" /\ \A d \in Cpu \ {c} : stage'[d] = stage[d]
        /\ stage' \in [Cpu -> Stages]
    BY <1>5, <1>8 DEF Stages
  <2>2. PlaceType'
    BY <1>5, <1>8, <2>1 DEF PlaceType
  <2>3. PlaceInv'
    <3>1. Stays
      BY <1>1, <1>8, <2>1 DEF Stays
    <3> QED
      BY <1>8, <3>1, StaysInPlace DEF SmpInv
  <2>4. LockInv'
    <3>1. \A x \in Thread : Counts(x)'
      BY <1>1, <1>8 DEF SmpInv, LockInv, Counts
    <3>2. ~Holds(c) /\ ~Holds(c)'
      BY <1>1, <1>3, <1>8, <2>1 DEF Holds, Switching
    <3>3. cpus_lock' = cpus_lock
      BY <1>1, <1>8 DEF SmpInv, LockType
    <3> QED
      BY <1>1, <1>6, <1>8, <2>1, <3>1, <3>2, <3>3, LocksMove DEF SmpInv
  <2>5. CriticalAlone'
    <3>1. \A d \in Cpu : Attended(d) => Attended(d)'
      BY <2>1 DEF Attended
    <3> QED
      BY <1>1, <1>8, <3>1, CriticalStays DEF SmpInv, Critical, InSection
  <2>6. ASSUME NEW d \in Cpu \ {c}
        PROVE  Urgent(d)'
    <3>1. Attended(d) => current[d] \in Thread
      BY Elsewhere DEF SmpInv
    <3>2. \A x : Steady(x)
      BY <1>8 DEF Steady
    <3>3. ipi \ {c} \subseteq ipi'
      BY <1>8
    <3> QED
      BY <1>1, <1>8, <2>1, <3>1, <3>2, <3>3, UrgentElsewhere DEF SmpInv
  <2>7. Urgent(c)'
    <3>1. OwesCall(t)'
      BY <1>1, <1>3, <1>8 DEF OwesCall
    <3>2. c \in ipi' \/ Suits(c, t)' \/ Excused(c, t)'
      BY <1>1, <1>8 DEF Excused
    <3> QED
      BY <1>8, <2>1, <3>1, <3>2 DEF Urgent, Switching
  <2> QED
    BY <1>6, <1>8, <2>2, <2>3, <2>4, <2>5, <2>6, <2>7 DEF SmpInv, UrgentInv
<1>9. CASE ~due
  <2>1. /\ stage' = [stage EXCEPT ![c] = "run"]
        /\ UNCHANGED lists
        /\ UNCHANGED <<irq_switch_flag, current, saved, to, cpus_lock>>
    BY <1>1, <1>9
  <2>2. ListsType' /\ ListsInv' /\ UNCHANGED <<stat, oncpu, ipi>>
    BY <2>1, ListsStay DEF SmpInv
  <2>3. ToldElsewhere(c) /\ IdlesReady'
    BY <2>2, NobodyToTell, IdlesStayReady DEF SmpInv
  <2>4. Suits(c, t) => Suits(c, t)'
    BY <2>1, <2>2 DEF Suits
  <2>5. Excused(c, t) => \/ pc[t] = "schedule"
                         \/ pc[t] = "user" /\ sched_nest[t] > 0
    <3>1. sched_nest[t] \in Nat
      BY <1>2, LevelAssumption DEF SmpInv, LockType
    <3> QED
      BY <1>4, <1>9, <3>1 DEF Excused
  <2>6. cpus_lock' = FALSE
    BY <1>1, <2>1 DEF SmpInv, LockType
  <2>7. Resumes
    BY <1>3, <1>5, <2>1, <2>2, <2>3, <2>4, <2>5, <2>6 DEF FlagType
  <2> QED
    BY <1>8, <2>7
<1>10. CASE due /\ u = t
  <2>1. /\ irq_switch_flag' = [irq_switch_flag EXCEPT ![c] = FALSE]
        /\ SwitchTo(c, t, "run") /\ cpus_lock' = FALSE
    BY <1>1, <1>10
  <2>2. t # None
    BY <1>2, ThreadAssumption
  <2>3. /\ stage' = [stage EXCEPT ![c] = "run"]
        /\ to' = [to EXCEPT ![c] = t] /\ UNCHANGED <<current, saved>>
    BY <2>1, <2>2 DEF SwitchTo
  <2>4. ListsType' /\ ListsInv' /\ SelectEffect(c, t, t)
    BY <1>7, <1>10
  <2>5. /\ stat' = stat /\ oncpu' = oncpu /\ ipi \subseteq ipi'
        /\ stat[t] = "READY" /\ Suits(c, t) /\ ToldElsewhere(c) /\ IdlesReady'
    BY <1>1, <1>2, <2>4, SameThread
  <2>6. Suits(c, t)'
    BY <2>3, <2>5 DEF Suits
  <2>7. FlagType' /\ \A d \in Cpu \ {c} :
                        irq_switch_flag'[d] = irq_switch_flag[d]
    BY <1>5, <2>1 DEF FlagType
  <2>8. /\ to'[c] = t /\ \A d \in Cpu \ {c} : to'[d] = to[d]
        /\ to' \in [Cpu -> Thread \union {None}]
    BY <1>2, <1>5, <2>3
  <2>9. Resumes
    BY <2>1, <2>3, <2>4, <2>5, <2>6, <2>7, <2>8
  <2> QED
    BY <1>8, <2>9
<1>11. CASE due /\ u # t
  <2>1. /\ irq_switch_flag' = [irq_switch_flag EXCEPT ![c] = FALSE]
        /\ SwitchTo(c, u, "save") /\ cpus_lock' = TRUE
    BY <1>1, <1>11
  <2>2. ListsType' /\ ListsInv' /\ SelectEffect(c, t, u)
    BY <1>7, <1>11
  <2>3. u # None
    BY <2>2, ThreadAssumption DEF SelectEffect
  <2>4. /\ stage' = [stage EXCEPT ![c] = "save"]
        /\ to' = [to EXCEPT ![c] = u] /\ UNCHANGED <<current, saved>>
    BY <2>1, <2>3 DEF SwitchTo
  <2>5. FlagType' /\ \A d \in Cpu \ {c} :
                        irq_switch_flag'[d] = irq_switch_flag[d]
    BY <1>5, <2>1 DEF FlagType
  <2>6. SwitchMove(c, t, u)
    BY <1>1, <1>11, <2>1, <2>4, <2>5 DEF SwitchMove
  <2>7. ~Critical(t) /\ Counts(t)
    BY <1>3, <1>11 DEF Critical, InSection
  <2>8. ASSUME NEW x \in Thread, x = t
        PROVE  SmpInv'
    <3>1. ~Critical(x) /\ ~Critical(x)' /\ Counts(x)' /\ pc'[x] # "section"
      BY <1>1, <1>4, <2>4, <2>7, <2>8 DEF Critical, InSection, Counts
    <3>2. SwitchMove(c, x, u) /\ SelectEffect(c, x, u)
      BY <2>2, <2>6, <2>8
    <3> QED
      BY <1>6, <2>2, <2>5, <3>1, <3>2, SwitchStep
  <2> QED
    BY <1>2, <2>8
<1> QED
  BY <1>9, <1>10, <1>11


(* A step of a processor that has the lock over all processors, or takes   *)
(* it to start, and runs no thread: it says itself whether it keeps it.    *)
ProcessorMove(c) ==
    /\ ~Attended(c) /\ (~cpus_lock \/ Holds(c))
    /\ UNCHANGED <<critical_lock, cpus_nest, sched_nest, pc>>
    /\ UNCHANGED <<irq_switch_flag, stat, ipi>>
    /\ \A d \in Cpu \ {c} : /\ stage'[d] = stage[d] /\ to'[d] = to[d]
                            /\ current'[d] = current[d]
    /\ stage'[c] \notin {"save", "irq"}
    /\ cpus_lock' \in BOOLEAN /\ (cpus_lock' <=> Holds(c)')
    /\ \A x \in saved' : x \in saved \/ pc[x] # "section"

LEMMA ProcessorStep ==
  ASSUME SmpInv, NEW c \in Cpu, ProcessorMove(c), ToldElsewhere(c),
         ListsType', ListsInv', PlaceType', PlaceInv', Urgent(c)'
  PROVE  SmpInv'
<1>1. LockType' /\ FlagType'
  BY DEF SmpInv, LockType, FlagType, ProcessorMove
<1>2. LockInv'
  <2>1. ASSUME NEW x \in Thread PROVE Counts(x)'
    <3>1. Counts(x)
      BY DEF SmpInv, LockInv
    <3> QED
      BY <3>1 DEF Counts, ProcessorMove
  <2>2. ASSUME NEW d \in Cpu \ {c}
        PROVE  /\ stage'[d] = stage[d] /\ current'[d] = current[d]
               /\ stage[d] \in {"run", "irq", "save"} =>
                     /\ cpus_nest'[current[d]] = cpus_nest[current[d]]
                     /\ pc'[current[d]] = pc[current[d]]
    BY DEF ProcessorMove
  <2>3. stage'[c] # "irq" /\ stage'[c] # "save"
    BY DEF ProcessorMove
  <2>4. (~cpus_lock \/ Holds(c)) /\ (cpus_lock' <=> Holds(c)')
    BY DEF ProcessorMove
  <2> QED
    BY <1>1, <2>1, <2>2, <2>3, <2>4, LocksMove DEF SmpInv
<1>3. CriticalAlone'
  <2>1. \A x \in Thread : Critical(x)' <=> Critical(x)
    BY DEF ProcessorMove, Critical, InSection
  <2>2. \A d \in Cpu : Attended(d) => Attended(d)' /\ current'[d] = current[d]
    BY DEF ProcessorMove, Attended
  <2>3. critical_lock' = critical_lock
    BY DEF ProcessorMove
  <2> QED
    BY <2>1, <2>2, <2>3, CriticalStays DEF SmpInv
<1>4. ASSUME NEW d \in Cpu \ {c}
      PROVE  Urgent(d)'
  <2>1. Attended(d) => current[d] \in Thread
    BY Elsewhere DEF SmpInv
  <2>2. \A x : Steady(x)
    BY DEF Steady, ProcessorMove
  <2>3. /\ stage'[d] = stage[d] /\ current'[d] = current[d]
        /\ to'[d] = to[d] /\ irq_switch_flag'[d] = irq_switch_flag[d]
        /\ pc' = pc /\ sched_nest' = sched_nest /\ ipi \ {c} \subseteq ipi'
    BY DEF ProcessorMove
  <2> QED
    BY <2>1, <2>2, <2>3, UrgentElsewhere DEF SmpInv
<1> QED
  BY <1>1, <1>2, <1>3, <1>4 DEF SmpInv, UrgentInv

(* The context of the thread that goes is stored. *)
LEMMA SaveKeeps ==
  ASSUME SmpInv, NEW c \in Cpu, Save(c)
  PROVE  SmpInv'
<1>1. /\ stage[c] = "save" /\ saved' = saved \union {current[c]}
      /\ stage' = [stage EXCEPT ![c] = "load"]
      /\ UNCHANGED lists /\ UNCHANGED <<current, to, irq_switch_flag, pc>>
      /\ UNCHANGED <<cpus_lock, critical_lock, cpus_nest, sched_nest>>
  BY DEF Save, locks
<1>2. Switching(c) /\ Holds(c) /\ ~Attended(c) /\ cpus_lock
  BY <1>1 DEF Switching, Holds, Attended, SmpInv, LockInv
<1>3. \A d \in Cpu : Switching(d) => d = c
  BY <1>2, OneHolder DEF SmpInv
<1>4. PlaceInv'
  BY <1>3, SaveKeepsPlaces DEF SmpInv
<1>5. ListsType' /\ ListsInv' /\ UNCHANGED <<stat, oncpu, ipi>>
  BY <1>1, ListsStay DEF SmpInv
<1>6. /\ current[c] \in Thread /\ pc[current[c]] # "section"
      /\ stage \in [Cpu -> Stages]
  BY <1>1 DEF SmpInv, PlaceInv, HasThread, LockInv, PlaceType
<1>7. /\ stage'[c] = "load" /\ stage' \in [Cpu -> Stages]
      /\ \A d \in Cpu \ {c} : stage'[d] = stage[d]
  BY <1>1, <1>6 DEF Stages
<1>8. PlaceType'
  BY <1>1, <1>5, <1>6, <1>7 DEF SmpInv, PlaceType
<1>9. Switching(c)' /\ Holds(c)' /\ ~Attended(c)'
  BY <1>7 DEF Switching, Holds, Attended
<1>10. ProcessorMove(c)
  BY <1>1, <1>2, <1>5, <1>6, <1>7, <1>9 DEF ProcessorMove
<1>11. Urgent(c)'
  <2>1. stat[to[c]] = "READY" /\ (c \in ipi \/ Suits(c, to[c]))
    BY <1>2 DEF SmpInv, UrgentInv, Urgent
  <2>2. Suits(c, to[c]) => Suits(c, to[c])'
    BY <1>1, <1>5 DEF Suits
  <2> QED
    BY <1>1, <1>5, <1>9, <2>1, <2>2 DEF Urgent
<1>12. ToldElsewhere(c)
  BY <1>5, NobodyToTell DEF SmpInv
<1> QED
  BY <1>4, <1>5, <1>8, <1>10, <1>11, <1>12, ProcessorStep

(* The context of the thread that comes is loaded. *)
LEMMA LoadKeeps ==
  ASSUME SmpInv, NEW c \in Cpu, Load(c)
  PROVE  SmpInv'
<1> DEFINE u == to[c]
<1>1. /\ stage[c] = "load"
      /\ current' = [current EXCEPT ![c] = to[c]]
      /\ saved' = saved \ {to[c]}
      /\ stage' = [stage EXCEPT ![c] = "run"]
      /\ to' = [to EXCEPT ![c] = None]
      /\ cpus_lock' = (cpus_lock /\ cpus_nest[to[c]] # 0)
      /\ UNCHANGED lists
      /\ UNCHANGED <<critical_lock, cpus_nest, sched_nest,
                     irq_switch_flag, pc>>
  BY DEF Load
<1>2. Switching(c) /\ Holds(c) /\ ~Attended(c) /\ cpus_lock
  BY <1>1 DEF Switching, Holds, Attended, SmpInv, LockInv
<1>3. ListsType' /\ ListsInv' /\ UNCHANGED <<stat, oncpu, ipi>>
  BY <1>1, ListsStay DEF SmpInv
<1>4. PlaceInv'
  BY <1>1, <1>3, LoadKeepsPlaces DEF SmpInv
<1>5. /\ u \in Thread /\ cpus_nest[u] \in Nat /\ cpus_nest'[u] = cpus_nest[u]
      /\ stage \in [Cpu -> Stages] /\ to \in [Cpu -> Thread \union {None}]
      /\ current \in [Cpu -> Thread \union {None}]
  BY <1>1, <1>2 DEF SmpInv, PlaceInv, HasThread, PlaceType, LockType
<1>6. /\ stage'[c] = "run" /\ current'[c] = u
      /\ stage' \in [Cpu -> Stages]
      /\ current' \in [Cpu -> Thread \union {None}]
      /\ to' \in [Cpu -> Thread \union {None}]
      /\ \A d \in Cpu \ {c} : /\ stage'[d] = stage[d] /\ to'[d] = to[d]
                              /\ current'[d] = current[d]
  BY <1>1, <1>5 DEF Stages
<1>7. PlaceType'
  BY <1>1, <1>3, <1>6 DEF SmpInv, PlaceType
<1>8. Holds(c)' <=> cpus_nest[u] # 0
  BY <1>5, <1>6 DEF Holds, Switching
<1>9. ProcessorMove(c)
  BY <1>1, <1>2, <1>3, <1>6, <1>8 DEF ProcessorMove
<1>10. Urgent(c)'
  <2>1. stat[u] = "READY" /\ (c \in ipi \/ Suits(c, u))
    BY <1>2 DEF SmpInv, UrgentInv, Urgent
  <2>2. ASSUME NEW x, x = u
        PROVE  OwesCall(x)' /\ (c \in ipi' \/ Suits(c, x)')
    BY <1>3, <2>1, <2>2 DEF OwesCall, Suits
  <2> QED
    BY <1>6, <2>2 DEF Urgent, Switching
<1>11. ToldElsewhere(c)
  BY <1>3, NobodyToTell DEF SmpInv
<1> QED
  BY <1>3, <1>4, <1>7, <1>9, <1>10, <1>11, ProcessorStep

(* A processor is started. *)
LEMMA StartKeeps ==
  ASSUME ~Wide, SmpInv, NEW c \in Cpu, Start(c)
  PROVE  SmpInv'
<1> DEFINE u == HeadOf(Now, Highest(Now, c))
<1>1. /\ stage[c] = "start" /\ ~cpus_lock
      /\ Become(RemoveThread([Now EXCEPT !.oncpu[u] = c], u))
      /\ to' = [to EXCEPT ![c] = u]
      /\ stage' = [stage EXCEPT ![c] = "load"]
      /\ cpus_lock' = TRUE
      /\ UNCHANGED <<current, irq_switch_flag, critical_lock, cpus_nest,
                     sched_nest, saved, pc>>
  BY DEF Start
<1>2. PICK v : v = HeadOf(Now, Highest(Now, c))
  OBVIOUS
<1>3. ListsType' /\ ListsInv' /\ StartEffect(c, v)
  BY <1>1, <1>2, StartStep DEF SmpInv
<1>4. /\ v \in Thread /\ stat[v] = "READY" /\ stat' = stat /\ ipi' = ipi
      /\ oncpu' = [oncpu EXCEPT ![v] = c]
      /\ \A w \in Waiting(stat, oncpu) :
            May(w, c) => Priority[v] <= Priority[w]
  BY <1>3 DEF StartEffect, Waiting
<1>5. /\ to' = [to EXCEPT ![c] = v] /\ ~Attended(c)
      /\ \A d \in Cpu : ~Switching(d)
  BY <1>1, <1>2, OneHolder DEF SmpInv, Attended
<1>6. IdlesReady'
  BY <1>4, IdlesStayReady
<1>7. PlaceInv'
  BY <1>1, <1>3, <1>5, <1>6, StartKeepsPlaces DEF SmpInv
<1>8. /\ stage \in [Cpu -> Stages] /\ to \in [Cpu -> Thread \union {None}]
      /\ oncpu \in [Thread -> Cpu \union {None}]
  BY DEF SmpInv, PlaceType
<1>9. /\ stage'[c] = "load" /\ to'[c] = v
      /\ stage' \in [Cpu -> Stages] /\ to' \in [Cpu -> Thread \union {None}]
      /\ oncpu' \in [Thread -> Cpu \union {None}]
      /\ \A d \in Cpu \ {c} : stage'[d] = stage[d] /\ to'[d] = to[d]
  BY <1>1, <1>4, <1>5, <1>8 DEF Stages
<1>10. PlaceType'
  BY <1>1, <1>9 DEF SmpInv, PlaceType
<1>11. Holds(c)' /\ Switching(c)' /\ ~Attended(c)'
  BY <1>9 DEF Holds, Switching, Attended
<1>12. ProcessorMove(c)
  BY <1>1, <1>4, <1>5, <1>9, <1>11 DEF ProcessorMove
<1>13. /\ ToldElsewhere(c)
       /\ Waiting(stat', oncpu') \subseteq Waiting(stat, oncpu)
  BY <1>3, NobodyToTell DEF SmpInv
<1>14. Urgent(c)'
  <2>1. Suits(c, v)'
    BY <1>4, <1>13 DEF Suits, May
  <2> QED
    BY <1>4, <1>9, <1>11, <2>1 DEF Urgent
<1> QED
  BY <1>3, <1>7, <1>10, <1>12, <1>13, <1>14, ProcessorStep

------------------------------------------------------------------------------
(* The invariant.                                                          *)

(* The initial lists hold the threads that are ready. *)
LEMMA InitSmpInv ==
  ASSUME ~Wide, Init
  PROVE  SmpInv
<1> DEFINE T(q, p) == {t \in InitReady : BindCpu[t] = q /\ Priority[t] = p}
<1>1. /\ InitReady \subseteq Thread /\ IsFiniteSet(Thread)
      /\ \A c \in Cpu : Idle[c] \in Thread /\ Idle[c] \in InitReady
      /\ None \notin Cpu /\ None \notin Thread /\ Boot \in Cpu
  BY ThreadAssumption
<1>2. ASSUME NEW q, NEW p
      PROVE  /\ SetToSeq(T(q, p)) \in Seq(Thread) /\ Once(SetToSeq(T(q, p)))
             /\ \A t : Linked(SetToSeq(T(q, p)), t) <=> t \in T(q, p)
  <2>1. T(q, p) \subseteq Thread
    BY <1>1
  <2>2. IsFiniteSet(T(q, p))
    BY <1>1, <2>1, FS_Subset
  <2>3. /\ SetToSeq(T(q, p)) \in Seq(T(q, p)) /\ Once(SetToSeq(T(q, p)))
        /\ \A t : Linked(SetToSeq(T(q, p)), t) <=> t \in T(q, p)
    BY <2>2, SetAsList
  <2> HIDE DEF T
  <2> QED
    BY <2>1, <2>3
<1> DEFINE R0 == [q \in Queue |-> [p \in Level |-> SetToSeq(T(q, p))]]
<1>3. /\ ready = R0 /\ group = [q \in Queue |-> {p \in Level : ready[q][p] # <<>>}]
  BY DEF Init
<1> HIDE DEF T
<1>4. /\ stat = [t \in Thread |-> IF t \in InitReady THEN "READY" ELSE "SUSPEND"]
      /\ oncpu = [t \in Thread |-> None]
      /\ table = [q \in Queue |-> {}] /\ ipi = {}
      /\ current = [c \in Cpu |-> None] /\ to = [c \in Cpu |-> None]
      /\ irq_switch_flag = [c \in Cpu |-> FALSE]
      /\ cpus_lock = FALSE /\ critical_lock = FALSE
      /\ cpus_nest = [t \in Thread |-> 0] /\ sched_nest = [t \in Thread |-> 0]
      /\ saved = Thread /\ stage = [c \in Cpu |-> "start"]
      /\ pc = [t \in Thread |-> "user"]
  BY DEF Init
<1>5. Waiting(stat, oncpu) = InitReady
  BY <1>1, <1>4 DEF Waiting
<1>6. /\ ready \in [Queue -> [Level -> Seq(Thread)]]
      /\ \A q \in Queue, p \in Level : ready[q][p] = SetToSeq(T(q, p))
  BY <1>2, <1>3
<1>7. /\ group \in [Queue -> SUBSET Level]
      /\ \A q \in Queue, p \in Level : p \in group[q] <=> ready[q][p] # <<>>
  BY <1>3
<1>8. ListsInv
  <2>1. ASSUME NEW q \in Queue, NEW p \in Level
        PROVE  /\ Once(ready[q][p])
               /\ p \in group[q] <=> ready[q][p] # <<>>
               /\ \A t \in Thread : Linked(ready[q][p], t) <=>
                                       t \in InitReady /\ AtHome(t, q, p)
    <3>1. ready[q][p] = SetToSeq(T(q, p))
      BY <1>6
    <3>2. /\ Once(SetToSeq(T(q, p)))
          /\ \A t : Linked(SetToSeq(T(q, p)), t) <=> t \in T(q, p)
      BY <1>2
    <3>3. \A t : t \in T(q, p) <=> t \in InitReady /\ AtHome(t, q, p)
      BY DEF AtHome, T
    <3> QED
      BY <1>7, <3>1, <3>2, <3>3
  <2> QED
    BY <1>5, <1>6, <1>7, <2>1 DEF ListsInv, Files
<1>9. ListsType
  <2>1. /\ stat \in [Thread -> {"INIT", "READY", "SUSPEND"}]
        /\ oncpu \in [Thread -> Cpu \union {None}]
        /\ table \in [Queue -> SUBSET Level] /\ ipi \in SUBSET Cpu
    BY <1>4
  <2> QED
    BY <1>6, <1>7, <2>1 DEF ListsType, Now, Lists
<1>10. PlaceType /\ FlagType
  BY <1>4 DEF PlaceType, FlagType, Stages
<1>11. LockType
  <2>1. 0 \in 0..MaxNest
    BY LevelAssumption
  <2> QED
    BY <1>4, <2>1 DEF LockType, Locations
<1>12. PlaceInv
  BY <1>1, <1>4
     DEF PlaceInv, HasThread, HasProcessor, InRegisters, Attended, Switching
<1>13. LockInv
  BY <1>4 DEF LockInv, Counts, Holds, Switching
<1>14. CriticalAlone
  BY <1>4 DEF CriticalAlone, Critical, InSection
<1>15. UrgentInv
  BY <1>4 DEF UrgentInv, Urgent, Switching, Attended
<1> QED
  BY <1>8, <1>9, <1>10, <1>11, <1>12, <1>13, <1>14, <1>15 DEF SmpInv


(* Every step keeps the invariant. *)
LEMMA NextSmpInv ==
  ASSUME ~Wide, SmpInv, [Next]_vars
  PROVE  SmpInv'
<1>1. CASE Next
  <2>1. PICK c \in Cpu :
           \/ Start(c) \/ Save(c) \/ Load(c)
           \/ \E t \in Thread : ThreadStep(c, t)
           \/ Ipi(c) \/ Tick(c) \/ DoIrqSwitch(c)
           \/ \E u \in Thread : Device(c, u)
    BY <1>1 DEF Next
  <2>2. CASE Start(c)
    BY <2>2, StartKeeps
  <2>3. CASE Save(c)
    BY <2>3, SaveKeeps
  <2>4. CASE Load(c)
    BY <2>4, LoadKeeps
  <2>5. CASE \E t \in Thread : ThreadStep(c, t)
    <3>1. PICK t \in Thread : ThreadStep(c, t)
      BY <2>5
    <3>2. CASE Schedule(c, t)
      BY <3>2, ScheduleKeeps
    <3>3. CASE Lock(c, t)
      BY <3>3, LockKeeps
    <3>4. CASE Unlock(c, t)
      BY <3>4, UnlockKeeps
    <3>5. CASE Suspend(c, t)
      BY <3>5, SuspendKeeps
    <3>6. CASE EnterCritical(c, t)
      BY <3>6, EnterCriticalKeeps
    <3>7. CASE ExitCritical(c, t)
      BY <3>7, ExitCriticalKeeps
    <3>8. CASE \E u \in Thread : Resume(c, t, u)
      BY <3>8, ResumeKeeps
    <3> QED
      BY <3>1, <3>2, <3>3, <3>4, <3>5, <3>6, <3>7, <3>8 DEF ThreadStep
  <2>6. CASE Ipi(c)
    BY <2>6, IpiKeeps
  <2>7. CASE Tick(c)
    BY <2>7, TickKeeps
  <2>8. CASE DoIrqSwitch(c)
    BY <2>8, DoIrqSwitchKeeps
  <2>9. CASE \E u \in Thread : Device(c, u)
    BY <2>9, DeviceKeeps
  <2> QED
    BY <2>1, <2>2, <2>3, <2>4, <2>5, <2>6, <2>7, <2>8, <2>9
<1>2. CASE UNCHANGED vars
  <2>1. /\ UNCHANGED <<stat, oncpu, ready, table, group, ipi>>
        /\ UNCHANGED <<current, saved, stage, to>>
        /\ UNCHANGED <<cpus_lock, critical_lock, cpus_nest, sched_nest>>
        /\ UNCHANGED <<irq_switch_flag, pc>>
    BY <1>2 DEF vars
  <2>2. ListsType' /\ ListsInv'
    BY <2>1 DEF SmpInv, ListsType, Now, ListsInv
  <2>3. PlaceType' /\ LockType' /\ FlagType'
    BY <2>1 DEF SmpInv, PlaceType, LockType, FlagType
  <2>4. PlaceInv'
    BY <2>1 DEF SmpInv, PlaceInv, HasThread, HasProcessor, InRegisters,
                Attended, Switching
  <2>5. LockInv'
    BY <2>1 DEF SmpInv, LockInv, Counts, Holds, Switching
  <2>6. CriticalAlone'
    BY <2>1 DEF SmpInv, CriticalAlone, Critical, InSection
  <2>7. UrgentInv'
    BY <2>1 DEF SmpInv, UrgentInv, Urgent, Suits, Excused, OwesCall,
                Attended, Switching
  <2> QED
    BY <2>2, <2>3, <2>4, <2>5, <2>6, <2>7 DEF SmpInv
<1> QED
  BY <1>1, <1>2

(* The invariant holds always. *)
LEMMA SmpInvHolds ==
  ASSUME ~Wide
  PROVE  Spec => []SmpInv
<1>1. Init => SmpInv
  BY InitSmpInv
<1>2. SmpInv /\ [Next]_vars => SmpInv'
  BY NextSmpInv
<1> QED
  BY <1>1, <1>2, PTL DEF Spec

------------------------------------------------------------------------------
(* What the scheduler promises.                                            *)

(* No thread is on two processors, and the context of a thread that a      *)
(* processor switches to is in memory as a whole: rt_hw_context_switch     *)
(* never loads what another processor has not stored yet.                  *)
THEOREM ContextsAlwaysSafe ==
  ASSUME ~Wide
  PROVE  Spec => []ContextsSafe
<1>1. SmpInv => ContextsSafe
  <2> SUFFICES ASSUME SmpInv PROVE ContextsSafe
    OBVIOUS
  <2>1. /\ \A c \in Cpu : HasThread(c) /\ stage[c] \in Stages
                          /\ current[c] \in Thread \union {None}
                          /\ to[c] \in Thread \union {None}
        /\ \A c, d \in Cpu : Holds(c) /\ Holds(d) => c = d
        /\ None \notin Cpu /\ None \notin Thread
    BY ThreadAssumption DEF SmpInv, PlaceInv, LockInv, PlaceType
  <2>2. ASSUME NEW c \in Cpu
        PROVE  /\ Attended(c) \/ Switching(c) \/ stage[c] = "start"
               /\ ~Attended(c) \/ ~Switching(c)
    BY <2>1 DEF Attended, Switching, Stages, HasThread
  <2>3. ASSUME NEW c \in Cpu, NEW d \in Cpu, c # d
        PROVE  /\ current[c] # None => current[c] # current[d]
               /\ to[c] # None => to[c] # to[d] /\ to[c] # current[d]
    <3>1. ~Switching(c) \/ ~Switching(d)
      BY <2>1, <2>3 DEF Holds
    <3>2. HasThread(c) /\ HasThread(d)
      BY <2>1
    <3>3. /\ Attended(c) \/ Switching(c) \/ stage[c] = "start"
          /\ Attended(d) \/ Switching(d) \/ stage[d] = "start"
      BY <2>2
    <3> QED
      BY <2>1, <2>3, <3>1, <3>2, <3>3 DEF HasThread
  <2>4. ASSUME NEW c \in Cpu, stage[c] \in {"load", "save"}
        PROVE  to[c] \in saved
    <3>1. Switching(c) /\ to[c] \in Thread /\ oncpu[to[c]] = c
      BY <2>1, <2>4 DEF Switching, HasThread
    <3>2. ASSUME NEW d \in Cpu PROVE ~InRegisters(d, to[c])
      <4>1. HasThread(d)
        BY <2>1
      <4>2. CASE Attended(d)
        <5>1. ~Switching(d)
          BY <2>2, <4>2
        <5>2. d # c
          BY <3>1, <5>1
        <5> QED
          BY <3>1, <4>1, <4>2, <5>2 DEF HasThread, InRegisters
      <4>3. CASE ~Attended(d)
        BY <2>1, <3>1, <4>1, <4>3
           DEF HasThread, InRegisters, Attended, Switching
      <4> QED
        BY <4>2, <4>3
    <3> QED
      BY <3>1, <3>2 DEF SmpInv, PlaceInv
  <2>5. ASSUME NEW c \in Cpu, stage[c] \in {"run", "irq"}
        PROVE  current[c] \notin saved
    BY <2>5, Elsewhere DEF SmpInv, Attended
  <2> QED
    BY <2>3, <2>4, <2>5 DEF ContextsSafe
<1> QED
  BY <1>1, SmpInvHolds, PTL

(* Every ready thread is linked once, in the queue and at the level where  *)
(* it is looked for, or has the processor that says so; nobody else is     *)
(* linked; the bits show the lists; and the variables have their types.    *)
THEOREM ReadyAlwaysLinked ==
  ASSUME ~Wide
  PROVE  Spec => []ReadyOrRunning
<1>1. SmpInv => ReadyOrRunning
  <2> SUFFICES ASSUME SmpInv PROVE ReadyOrRunning
    OBVIOUS
  <2>1. ASSUME NEW q \in Queue, NEW p \in Level
        PROVE  /\ Once(ready[q][p])
               /\ \A t \in Thread :
                     Linked(ready[q][p], t) <=>
                        /\ stat[t] = "READY" /\ oncpu[t] = None
                        /\ BindCpu[t] = q /\ Priority[t] = p
               /\ p \in group[q] <=> ready[q][p] # <<>>
    BY DEF SmpInv, ListsInv, Files, Waiting, AtHome
  <2>2. ASSUME NEW t \in Thread, oncpu[t] # None
        PROVE  t = IF Switching(oncpu[t]) THEN to[oncpu[t]]
                                          ELSE current[oncpu[t]]
    BY <2>2 DEF SmpInv, PlaceInv, HasProcessor
  <2>3. TypeOK
    <3>1. /\ stat \in [Thread -> {"INIT", "READY", "SUSPEND"}]
          /\ oncpu \in [Thread -> Cpu \union {None}]
          /\ ready \in [Queue -> [Level -> Seq(Thread)]]
          /\ table \in [Queue -> SUBSET Level]
          /\ group \in [Queue -> SUBSET Level]
          /\ ipi \in SUBSET Cpu
      BY NowFields DEF SmpInv, ListsType, Lists
    <3>2. group \in [Queue -> SUBSET Nat]
      BY <3>1, LevelAssumption
    <3> QED
      BY <3>1, <3>2 DEF SmpInv, PlaceType, LockType, FlagType, TypeOK
  <2> QED
    BY <2>1, <2>2, <2>3 DEF ReadyOrRunning
<1> QED
  BY <1>1, SmpInvHolds, PTL

(* The lock over all processors is handed over at a switch and never lost, *)
(* and the lock of the scheduler admits one thread, which keeps its        *)
(* processor.                                                              *)
THEOREM LocksAlwaysExclude ==
  ASSUME ~Wide
  PROVE  Spec => []LocksExclude
<1>1. SmpInv => LocksExclude
  <2> SUFFICES ASSUME SmpInv PROVE LocksExclude
    OBVIOUS
  <2>1. ASSUME NEW c \in Cpu
        PROVE  Holds(c) <=>
                  \/ Switching(c) \/ stage[c] = "wild"
                  \/ stage[c] = "run" /\ cpus_nest[current[c]] > 0
    BY DEF SmpInv, PlaceInv, HasThread, Holds
  <2>2. ASSUME NEW t \in saved
        PROVE  cpus_nest[t] > 0 <=> pc[t] = "enable"
    <3>1. t \in Thread /\ pc[t] \in Locations
      BY DEF SmpInv, PlaceType, LockType
    <3>2. Counts(t)
      BY <3>1 DEF SmpInv, LockInv
    <3> QED
      BY <3>1, <3>2 DEF Counts, Locations
  <2>3. /\ cpus_lock <=> \E c \in Cpu : Holds(c)
        /\ \A c, d \in Cpu : Holds(c) /\ Holds(d) => c = d
    BY DEF SmpInv, LockInv
  <2> HIDE DEF Holds
  <2>4. LockHandedOver
    BY <2>1, <2>2, <2>3 DEF LockHandedOver
  <2> QED
    BY <2>4 DEF SmpInv, LocksExclude
<1> QED
  BY <1>1, SmpInvHolds, PTL

(* On every processor where nothing is pending the most urgent of the      *)
(* threads that may run there runs.                                        *)
THEOREM MostUrgentAlwaysRuns ==
  ASSUME ~Wide
  PROVE  Spec => []MostUrgentRuns
<1>1. SmpInv => MostUrgentRuns
  <2> SUFFICES ASSUME SmpInv, NEW c \in Cpu, Settled(c)
               PROVE  /\ stat[current[c]] = "READY"
                      /\ \A t \in Thread :
                            stat[t] = "READY" /\ oncpu[t] = None
                            /\ BindCpu[t] \in {c, None}
                               => Priority[current[c]] <= Priority[t]
    BY DEF MostUrgentRuns
  <2>1. /\ Attended(c) /\ stage[c] = "run" /\ c \notin ipi
        /\ pc[current[c]] = "user" /\ sched_nest[current[c]] = 0
    BY DEF Settled, Attended
  <2>2. Suits(c, current[c])
    BY <2>1 DEF SmpInv, UrgentInv, Urgent, Excused
  <2> QED
    BY <2>2 DEF Suits, Waiting
<1> QED
  BY <1>1, SmpInvHolds, PTL
==============================================================================
