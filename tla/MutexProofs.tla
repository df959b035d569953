------------------------------ MODULE MutexProofs ------------------------------
(***************************************************************************)
(* Theorems about module Mutex, for every set of threads and mutexes,      *)
(* every priority and every choice of who waits with a timeout, detaches   *)
(* and nests.  The types, and that a timer runs only for a thread that is  *)
(* linked, hold whoever is signalled, as long as nobody steps into the     *)
(* retry at label __again or into a detach (Torn).  A thread that was made *)
(* the owner and signalled retries and waits for itself, and one that was  *)
(* signalled otherwise may be told that it has the mutex; so the rest is   *)
(* about the time before the first signal, which is all of it when         *)
(* MaxKills is 0.                                                          *)
(***************************************************************************)
EXTENDS Mutex, IpcListProofs

(* A call that waits or goes back to __again has room for one more take,   *)
(* a mutex that is owned has saved the priority of a thread, and one that  *)
(* is taken has an owner, whose priority a waiter can look at.             *)
TypeInv ==
    /\ TypeOK
    /\ \A t \in Thread :
          pc[t] \in {"waiting", "again"}
             => depth[t][on[t]] < MaxDepth
    /\ \A m \in Mutex : owner[m] # None => orig[m] < NoPriority
    /\ \A m \in Mutex : value[m] = IF owner[m] = None THEN 1 ELSE 0

(* The initial states satisfy it. *)
LEMMA InitTypeInv == Init => TypeInv
<1> SUFFICES ASSUME Init PROVE TypeInv
  OBVIOUS
<1>1. TypeOK
  BY BaseAssumption, BoundAssumption
     DEF Init, TypeOK, Locations, Errors, NoPriority
<1> QED
  BY <1>1 DEF Init, TypeInv

(* The boost of an owner keeps the priorities those of threads. *)
LEMMA BoostedTypes ==
  ASSUME TypeOK, NEW t \in Thread, NEW m \in Mutex
  PROVE  /\ Boosted(t, owner[m]) \in [Thread -> 0..(NoPriority - 1)]
         /\ Boosted(t, owner[m]) \in [Thread -> Nat]
<1>1. /\ prio \in [Thread -> 0..(NoPriority - 1)]
      /\ prio[t] \in 0..(NoPriority - 1)
  BY DEF TypeOK
<1>2. Boosted(t, owner[m]) \in [Thread -> 0..(NoPriority - 1)]
  BY <1>1 DEF Boosted
<1> QED
  BY <1>2 DEF NoPriority

(* Enqueue and the boost of the owner have the types they should have. *)
LEMMA BlockTypes ==
  ASSUME TypeOK, NEW t \in Thread, NEW m \in Mutex, NEW finite \in BOOLEAN,
         Block(t, m, finite)
  PROVE  /\ prio' \in [Thread -> 0..(NoPriority - 1)]
         /\ list' \in [Mutex -> Seq(Thread)]
         /\ timer' \subseteq Thread
         /\ pc' \in [Thread -> Locations]
<1> DEFINE b == Boosted(t, owner[m])
<1>1. b \in [Thread -> 0..(NoPriority - 1)] /\ b \in [Thread -> Nat]
  BY BoostedTypes
<1>2. list[m] \in Seq(Thread)
  BY DEF TypeOK
<1>3. prio' = b /\ list' = [list EXCEPT ![m] = Enqueue(@, t, Flag, b)]
  BY DEF Block
<1> HIDE DEF b
<1>4. Enqueue(list[m], t, Flag, b) \in Seq(Thread)
  BY <1>1, <1>2, EnqueueElements
<1>5. list' \in [Mutex -> Seq(Thread)]
  BY <1>3, <1>4 DEF TypeOK
<1>6. timer' \subseteq Thread /\ pc' \in [Thread -> Locations]
  BY DEF Block, TypeOK, Locations
<1> QED
  BY <1>1, <1>3, <1>5, <1>6

(* The same for the unlinking of a thread. *)
LEMMA UnlinkTypes ==
  ASSUME TypeOK, NEW w \in Thread, NEW m \in Mutex
  PROVE  [list EXCEPT ![m] = Unlink(@, w)] \in [Mutex -> Seq(Thread)]
<1> DEFINE zero == [t \in Thread |-> 0]
<1>1. zero \in [Thread -> Nat] /\ list[m] \in Seq(Thread)
  BY DEF TypeOK
<1> HIDE DEF zero
<1>2. Unlink(list[m], w) \in Seq(Thread)
  BY <1>1, UnlinkProperties
<1> QED
  BY <1>2 DEF TypeOK

(* A take more, or one less, of a mutex: what becomes of depth. *)
LEMMA DepthCounts ==
  ASSUME TypeOK, NEW t \in Thread, NEW m \in Mutex
  PROVE  /\ depth[t][m] < MaxDepth /\ depth' = [depth EXCEPT ![t][m] = @ + 1]
              => /\ depth' \in [Thread -> [Mutex -> 0..MaxDepth]]
                 /\ \A u \in Thread, k \in Mutex :
                      depth'[u][k] = IF u = t /\ k = m THEN depth[u][k] + 1
                                     ELSE depth[u][k]
         /\ depth[t][m] > 0 /\ depth' = [depth EXCEPT ![t][m] = @ - 1]
              => /\ depth' \in [Thread -> [Mutex -> 0..MaxDepth]]
                 /\ \A u \in Thread, k \in Mutex :
                      depth'[u][k] = IF u = t /\ k = m THEN depth[u][k] - 1
                                     ELSE depth[u][k]
<1>1. /\ depth \in [Thread -> [Mutex -> 0..MaxDepth]]
      /\ depth[t] \in [Mutex -> 0..MaxDepth] /\ depth[t][m] \in 0..MaxDepth
  BY DEF TypeOK
<1>2. ASSUME depth[t][m] < MaxDepth, depth' = [depth EXCEPT ![t][m] = @ + 1]
      PROVE  /\ depth' \in [Thread -> [Mutex -> 0..MaxDepth]]
             /\ \A u \in Thread, k \in Mutex :
                  depth'[u][k] = IF u = t /\ k = m THEN depth[u][k] + 1
                                 ELSE depth[u][k]
  <2>1. depth[t][m] + 1 \in 0..MaxDepth
    BY <1>1, <1>2, BoundAssumption
  <2> QED
    BY <1>1, <1>2, <2>1
<1>3. ASSUME depth[t][m] > 0, depth' = [depth EXCEPT ![t][m] = @ - 1]
      PROVE  /\ depth' \in [Thread -> [Mutex -> 0..MaxDepth]]
             /\ \A u \in Thread, k \in Mutex :
                  depth'[u][k] = IF u = t /\ k = m THEN depth[u][k] - 1
                                 ELSE depth[u][k]
  <2>1. depth[t][m] - 1 \in 0..MaxDepth
    BY <1>1, <1>3, BoundAssumption
  <2> QED
    BY <1>1, <1>3, <2>1
<1> QED
  BY <1>2, <1>3

(* A thread becomes the owner of a mutex and its priority is saved. *)
LEMMA OwnerTypes ==
  ASSUME TypeInv, NEW m \in Mutex, NEW o \in Thread,
         NEW x \in 0..(NoPriority - 1),
         owner' = [owner EXCEPT ![m] = o], orig' = [orig EXCEPT ![m] = x]
  PROVE  /\ owner' \in [Mutex -> Thread \union {None}]
         /\ orig' \in [Mutex -> 0..NoPriority]
         /\ \A k \in Mutex : owner'[k] # None => orig'[k] < NoPriority
<1>1. x \in 0..NoPriority /\ x < NoPriority
  BY DEF NoPriority
<1>2. owner' \in [Mutex -> Thread \union {None}]
  BY DEF TypeInv, TypeOK
<1>3. orig' \in [Mutex -> 0..NoPriority] /\ orig \in [Mutex -> 0..NoPriority]
  BY <1>1 DEF TypeInv, TypeOK
<1>4. ASSUME NEW k \in Mutex, owner'[k] # None PROVE orig'[k] < NoPriority
  <2>1. CASE k = m
    BY <1>1, <1>3, <2>1
  <2>2. CASE k # m
    <3>1. owner'[k] = owner[k] /\ orig'[k] = orig[k]
      BY <1>3, <2>2 DEF TypeInv, TypeOK
    <3> QED
      BY <1>4, <3>1 DEF TypeInv
  <2> QED
    BY <2>1, <2>2
<1> QED
  BY <1>2, <1>3, <1>4

(* A mutex is taken, given back or handed on: it is free exactly when it   *)
(* has no owner.                                                           *)
LEMMA FreeHasNoOwner ==
  ASSUME TypeInv, NEW m \in Mutex, NEW o \in Thread,
         \/ /\ value[m] > 0
            /\ value' = [value EXCEPT ![m] = (@ - 1) % ValueMod]
            /\ owner' = [owner EXCEPT ![m] = o]
         \/ /\ owner[m] # None
            /\ value' = [value EXCEPT ![m] = (@ + 1) % ValueMod]
            /\ owner' = [owner EXCEPT ![m] = None]
         \/ /\ owner[m] # None
            /\ value' = value
            /\ owner' = [owner EXCEPT ![m] = o]
  PROVE  \A k \in Mutex : value'[k] = IF owner'[k] = None THEN 1 ELSE 0
<1>1. /\ o # None /\ DOMAIN value = Mutex /\ DOMAIN owner = Mutex
      /\ \A k \in Mutex : value[k] = IF owner[k] = None THEN 1 ELSE 0
  BY ThreadAssumption DEF TypeInv, TypeOK
<1>2. (1 - 1) % ValueMod = 0 /\ (0 + 1) % ValueMod = 1
  BY BoundAssumption
<1> QED
  BY <1>1, <1>2

(* What a count that wraps may become. *)
LEMMA ModuloRange ==
  ASSUME NEW n \in Nat, n > 0
  PROVE  \A x \in Nat : /\ (x + 1) % n \in 0..(n - 1)
                         /\ (x - 1) % n \in 0..(n - 1)
  OBVIOUS

(* Every step keeps the types: a count stays within its width, and a       *)
(* thread has the priority of a thread.                                    *)
LEMMA NextTypeInv == TypeInv /\ [Next]_vars => TypeInv'
<1> SUFFICES ASSUME TypeInv, [Next]_vars PROVE TypeInv'
  OBVIOUS
<1> USE DEF object, call
<1>t. TypeOK
  BY DEF TypeInv
<1>n. NoPriority \in Nat /\ NoPriority > 0
  BY DEF NoPriority
<1>m. ASSUME NEW m \in Mutex
      PROVE  /\ (value[m] - 1) % ValueMod \in 0..(ValueMod - 1)
             /\ (value[m] + 1) % ValueMod \in 0..(ValueMod - 1)
             /\ (hold[m] - 1) % HoldMod \in 0..(HoldMod - 1)
             /\ (hold[m] + 1) % HoldMod \in 0..(HoldMod - 1)
  <2>1. /\ value[m] \in Nat /\ hold[m] \in Nat
        /\ ValueMod \in Nat /\ ValueMod > 0 /\ HoldMod \in Nat /\ HoldMod > 0
    BY <1>t, BoundAssumption DEF TypeOK
  <2>2. \A x \in Nat : /\ (x + 1) % ValueMod \in 0..(ValueMod - 1)
                        /\ (x - 1) % ValueMod \in 0..(ValueMod - 1)
    BY <2>1, ModuloRange
  <2>3. \A x \in Nat : /\ (x + 1) % HoldMod \in 0..(HoldMod - 1)
                        /\ (x - 1) % HoldMod \in 0..(HoldMod - 1)
    BY <2>1, ModuloRange
  <2> QED
    BY <2>1, <2>2, <2>3
<1>1. ASSUME NEW t \in Thread, NEW m \in Mutex, TakeAgain(t, m)
      PROVE  TypeInv'
  <2>1. depth[t][m] < MaxDepth /\ depth' = [depth EXCEPT ![t][m] = @ + 1]
    BY <1>1 DEF TakeAgain, MayTake
  <2>2. /\ depth' \in [Thread -> [Mutex -> 0..MaxDepth]]
        /\ \A u \in Thread, k \in Mutex : u # t => depth'[u][k] = depth[u][k]
    BY <1>t, <2>1, DepthCounts
  <2>3. TypeOK'
    BY <1>1, <1>t, <1>m, <2>2 DEF TypeOK, TakeAgain, Errors
  <2>4. on \in [Thread -> Mutex]
    BY <1>t DEF TypeOK
  <2> QED
    BY <1>1, <2>2, <2>3, <2>4 DEF TypeInv, TakeAgain, MayTake
<1>2. ASSUME NEW t \in Thread, NEW m \in Mutex, TakeFree(t, m)
      PROVE  TypeInv'
  <2>1. depth[t][m] < MaxDepth /\ depth' = [depth EXCEPT ![t][m] = @ + 1]
    BY <1>2 DEF TakeFree, Acquire, MayTake
  <2>2. /\ depth' \in [Thread -> [Mutex -> 0..MaxDepth]]
        /\ \A u \in Thread, k \in Mutex : u # t => depth'[u][k] = depth[u][k]
    BY <1>t, <2>1, DepthCounts
  <2>3. on \in [Thread -> Mutex] /\ prio[t] \in 0..(NoPriority - 1)
    BY <1>t DEF TypeOK
  <2>4. /\ owner' \in [Mutex -> Thread \union {None}]
        /\ orig' \in [Mutex -> 0..NoPriority]
        /\ \A k \in Mutex : owner'[k] # None => orig'[k] < NoPriority
    BY <1>2, <2>3, OwnerTypes DEF TakeFree, Acquire
  <2>5. TypeOK'
    BY <1>2, <1>t, <1>m, <2>2, <2>4 DEF TypeOK, TakeFree, Acquire, Errors
  <2>6. ASSUME NEW u \in Thread,
               pc'[u] \in {"waiting", "again"}
        PROVE  depth'[u][on'[u]] < MaxDepth
    BY <1>2, <2>2, <2>3, <2>6 DEF TypeInv, TakeFree, MayTake
  <2>7. \A k \in Mutex : value'[k] = IF owner'[k] = None THEN 1 ELSE 0
    BY <1>2, FreeHasNoOwner DEF TakeFree, Acquire
  <2> QED
    BY <2>4, <2>5, <2>6, <2>7 DEF TypeInv
<1>3. ASSUME NEW t \in Thread, NEW m \in Mutex, TakeFail(t, m)
      PROVE  TypeInv'
  BY <1>3 DEF TypeInv, TypeOK, TakeFail, Errors
<1>4. ASSUME NEW t \in Thread, NEW m \in Mutex, NEW finite \in BOOLEAN,
             TakeBlock(t, m, finite)
      PROVE  TypeInv'
  <2>1. /\ prio' \in [Thread -> 0..(NoPriority - 1)]
        /\ list' \in [Mutex -> Seq(Thread)]
        /\ timer' \subseteq Thread
        /\ pc' \in [Thread -> Locations]
    BY <1>4, <1>t, BlockTypes DEF TakeBlock
  <2>2. pc' = [pc EXCEPT ![t] = "waiting"]
    BY <1>4 DEF TakeBlock, Block
  <2> QED
    BY <1>4, <2>1, <2>2 DEF TypeInv, TypeOK, TakeBlock, MayTake, Errors
<1>5. ASSUME NEW t \in Thread, Return(t) PROVE TypeInv'
  <2>1. on[t] \in Mutex /\ depth[t][on[t]] < MaxDepth
    BY <1>5 DEF TypeInv, TypeOK, Return, Waiting
  <2>2. CASE error[t] = "EOK"
    <3>1. depth' = [depth EXCEPT ![t][on[t]] = @ + 1]
      BY <1>5, <2>2 DEF Return
    <3>2. /\ depth' \in [Thread -> [Mutex -> 0..MaxDepth]]
          /\ \A u \in Thread, k \in Mutex :
               u # t => depth'[u][k] = depth[u][k]
      BY <1>t, <2>1, <3>1, DepthCounts
    <3>3. TypeOK'
      BY <1>5, <3>2 DEF TypeInv, TypeOK, Return, Locations
    <3> QED
      BY <1>5, <1>t, <2>2, <3>2, <3>3 DEF TypeInv, Return, TypeOK
  <2>3. CASE error[t] # "EOK"
    BY <1>5, <2>1, <2>3 DEF TypeInv, TypeOK, Return, Locations
  <2> QED
    BY <2>2, <2>3
<1>6. ASSUME NEW t \in Thread, AgainDisturbed(t) PROVE TypeInv'
  BY <1>6 DEF TypeInv, TypeOK, AgainDisturbed, Locations
<1>7. ASSUME NEW t \in Thread, AgainTake(t) PROVE TypeInv'
  <2>1. on[t] \in Mutex /\ depth[t][on[t]] < MaxDepth
    BY <1>7 DEF TypeInv, TypeOK, AgainTake
  <2>2. depth' = [depth EXCEPT ![t][on[t]] = @ + 1]
    BY <1>7 DEF AgainTake, Acquire
  <2>3. /\ depth' \in [Thread -> [Mutex -> 0..MaxDepth]]
        /\ \A u \in Thread, k \in Mutex : u # t => depth'[u][k] = depth[u][k]
    BY <1>t, <2>1, <2>2, DepthCounts
  <2>4. prio[t] \in 0..(NoPriority - 1)
    BY <1>t DEF TypeOK
  <2>5. /\ owner' \in [Mutex -> Thread \union {None}]
        /\ orig' \in [Mutex -> 0..NoPriority]
        /\ \A k \in Mutex : owner'[k] # None => orig'[k] < NoPriority
    BY <1>7, <2>1, <2>4, OwnerTypes DEF AgainTake, Acquire
  <2>6. TypeOK'
    BY <1>7, <1>t, <1>m, <2>1, <2>3, <2>5
       DEF TypeOK, AgainTake, Acquire, Locations
  <2>7. ASSUME NEW u \in Thread,
               pc'[u] \in {"waiting", "again"}
        PROVE  depth'[u][on'[u]] < MaxDepth
    BY <1>7, <1>t, <2>3, <2>7 DEF TypeInv, TypeOK, AgainTake
  <2>8. \A k \in Mutex : value'[k] = IF owner'[k] = None THEN 1 ELSE 0
    BY <1>7, <2>1, FreeHasNoOwner DEF AgainTake, Acquire
  <2> QED
    BY <2>5, <2>6, <2>7, <2>8 DEF TypeInv
<1>8. ASSUME NEW t \in Thread, AgainBlock(t) PROVE TypeInv'
  <2>1. /\ prio' \in [Thread -> 0..(NoPriority - 1)]
        /\ list' \in [Mutex -> Seq(Thread)]
        /\ timer' \subseteq Thread
        /\ pc' \in [Thread -> Locations]
    <3>1. on[t] \in Mutex /\ timed[t] \in BOOLEAN
      BY <1>t DEF TypeOK
    <3> QED
      BY <3>1, <1>8, <1>t, BlockTypes DEF AgainBlock
  <2>2. pc' = [pc EXCEPT ![t] = "waiting"]
    BY <1>8 DEF AgainBlock, Block
  <2> QED
    BY <1>8, <2>1, <2>2 DEF TypeInv, TypeOK, AgainBlock
<1>9. ASSUME NEW t \in Thread, NEW m \in Mutex, Release(t, m)
      PROVE  TypeInv'
  <2>1. /\ owner[m] = t /\ depth[t][m] > 0 /\ t # None
        /\ orig[m] \in 0..(NoPriority - 1)
        /\ depth' = [depth EXCEPT ![t][m] = @ - 1]
        /\ UNCHANGED <<live, error, pc, on, timed, kills>>
    <3>1. /\ owner[m] = t /\ depth[t][m] > 0
          /\ depth' = [depth EXCEPT ![t][m] = @ - 1]
          /\ UNCHANGED <<live, error, pc, on, timed, kills>>
      BY <1>9 DEF Release
    <3>2. t # None
      BY ThreadAssumption
    <3>3. orig[m] \in 0..(NoPriority - 1)
      BY <1>t, <1>n, <3>1, <3>2 DEF TypeInv, TypeOK
    <3> QED
      BY <3>1, <3>2, <3>3
  <2>d. /\ depth' \in [Thread -> [Mutex -> 0..MaxDepth]]
        /\ \A u \in Thread, k \in Mutex : depth'[u][k] <= depth[u][k]
    <3>1. /\ depth' \in [Thread -> [Mutex -> 0..MaxDepth]]
          /\ \A u \in Thread, k \in Mutex :
               depth'[u][k] = IF u = t /\ k = m THEN depth[u][k] - 1
                              ELSE depth[u][k]
      BY <1>t, <2>1, DepthCounts
    <3>2. \A u \in Thread, k \in Mutex : depth[u][k] \in Nat
      BY <1>t DEF TypeOK
    <3> QED
      BY <3>1, <3>2
  <2>f. \A u \in Thread :
           pc[u] \in {"waiting", "again"}
              => depth'[u][on[u]] < MaxDepth
    <3>1. \A u \in Thread : /\ depth[u][on[u]] \in Nat
                             /\ depth'[u][on[u]] \in Nat
                             /\ depth'[u][on[u]] <= depth[u][on[u]]
      BY <1>t, <2>d DEF TypeOK
    <3> QED
      BY <3>1, BoundAssumption DEF TypeInv
  <2>2. CASE ReleaseNested(t, m)
    <3>1. TypeOK'
      BY <2>1, <2>2, <2>d, <1>m, <1>t DEF TypeOK, ReleaseNested
    <3> QED
      BY <2>1, <2>2, <2>f, <3>1 DEF TypeInv, ReleaseNested
  <2>3. CASE ReleaseLast(t, m)
    <3>1. prio' \in [Thread -> 0..(NoPriority - 1)]
      BY <2>1, <2>3 DEF TypeInv, TypeOK, ReleaseLast, Restored
    <3>2. CASE list[m] = <<>>
      <4>1. TypeOK'
        <5>1. Free(m) /\ UNCHANGED <<list, timer>>
          BY <2>3, <3>2 DEF ReleaseLast
        <5>2. NoPriority \in 0..NoPriority /\ 0 \in 0..(HoldMod - 1)
          BY <1>n, BoundAssumption
        <5>3. /\ owner' \in [Mutex -> Thread \union {None}]
              /\ orig' \in [Mutex -> 0..NoPriority]
              /\ hold' \in [Mutex -> 0..(HoldMod - 1)]
              /\ value' \in [Mutex -> 0..(ValueMod - 1)]
          BY <1>t, <1>m, <5>1, <5>2 DEF Free, TypeOK
        <5> QED
          BY <1>t, <2>1, <2>d, <3>1, <5>1, <5>3 DEF TypeOK
      <4> QED
        <5>1. ASSUME NEW k \in Mutex, owner'[k] # None
              PROVE  orig'[k] < NoPriority
          BY <1>t, <1>n, <2>3, <3>2, <5>1
             DEF TypeInv, TypeOK, ReleaseLast, Free
        <5>2. \A k \in Mutex : value'[k] = IF owner'[k] = None THEN 1 ELSE 0
          <6>1. Free(m) /\ owner[m] # None
            BY <2>1, <2>3, <3>2 DEF ReleaseLast
          <6> QED
            BY <6>1, FreeHasNoOwner DEF Free
        <5> QED
          BY <2>1, <2>f, <4>1, <5>1, <5>2 DEF TypeInv
    <3>3. CASE list[m] # <<>>
      <4>1. FirstWaiter(m) \in Thread
        <5>1. list[m] \in Seq(Thread)
          BY <1>t DEF TypeOK
        <5> QED
          BY <5>1, <3>3 DEF FirstWaiter
      <4>2. list' \in [Mutex -> Seq(Thread)] /\ timer' \subseteq Thread
        <5>1. /\ list' = [list EXCEPT ![m] = Unlink(@, FirstWaiter(m))]
              /\ timer' = timer \ {FirstWaiter(m)}
          BY <2>3, <3>3 DEF ReleaseLast, Resume
        <5>2. [list EXCEPT ![m] = Unlink(@, FirstWaiter(m))]
                 \in [Mutex -> Seq(Thread)]
          BY <1>t, <4>1, UnlinkTypes
        <5> QED
          BY <1>t, <5>1, <5>2 DEF TypeOK
      <4>3. prio'[FirstWaiter(m)] \in 0..(NoPriority - 1)
        BY <3>1, <4>1
      <4>4. /\ owner' = [owner EXCEPT ![m] = FirstWaiter(m)]
            /\ orig' = [orig EXCEPT ![m] = prio'[FirstWaiter(m)]]
            /\ UNCHANGED <<value, hold>>
        BY <2>3, <3>3 DEF ReleaseLast
      <4>5. /\ owner' \in [Mutex -> Thread \union {None}]
            /\ orig' \in [Mutex -> 0..NoPriority]
            /\ \A k \in Mutex : owner'[k] # None => orig'[k] < NoPriority
        BY <4>1, <4>3, <4>4, OwnerTypes
      <4>6. TypeOK'
        BY <1>t, <2>1, <2>d, <3>1, <4>2, <4>4, <4>5 DEF TypeOK
      <4>7. \A k \in Mutex : value'[k] = IF owner'[k] = None THEN 1 ELSE 0
        BY <2>1, <4>1, <4>4, FreeHasNoOwner
      <4> QED
        BY <2>1, <2>f, <4>5, <4>6, <4>7 DEF TypeInv
    <3> QED
      BY <3>2, <3>3
  <2> QED
    BY <1>9, <2>2, <2>3 DEF Release
<1>10. ASSUME NEW t \in Thread, NEW m \in Mutex, ReleaseRefused(t, m)
       PROVE  TypeInv'
  BY <1>10 DEF TypeInv, TypeOK, ReleaseRefused, Errors
<1>11. ASSUME NEW t \in Thread, NEW m \in Mutex, DetachBegin(t, m)
       PROVE  TypeInv'
  BY <1>11 DEF TypeInv, TypeOK, DetachBegin, Locations
<1>12. ASSUME NEW t \in Thread, ResumeAllTest(t) PROVE TypeInv'
  BY <1>12 DEF TypeInv, TypeOK, ResumeAllTest, Locations
<1>13. ASSUME NEW t \in Thread, ResumeAllTake(t) PROVE TypeInv'
  <2>1. CASE list[on[t]] = <<>>
    BY <1>13, <2>1 DEF TypeInv, TypeOK, ResumeAllTake, Locations
  <2>2. CASE list[on[t]] # <<>>
    <3>1. Head(list[on[t]]) \in Thread /\ Tail(list[on[t]]) \in Seq(Thread)
      BY <2>2, <1>t DEF TypeOK
    <3> QED
      BY <1>13, <2>2, <3>1
         DEF TypeInv, TypeOK, ResumeAllTake, Locations, Errors
  <2> QED
    BY <2>1, <2>2
<1>14. ASSUME NEW t \in Thread, Unregister(t) PROVE TypeInv'
  BY <1>14 DEF TypeInv, TypeOK, Unregister, Locations
<1>15. ASSUME NEW t \in Thread, Timeout(t) PROVE TypeInv'
  <2>1. list' \in [Mutex -> Seq(Thread)]
    <3>1. on[t] \in Mutex
      BY <1>t DEF TypeOK
    <3> QED
      BY <3>1, <1>15, <1>t, UnlinkTypes DEF Timeout
  <2> QED
    BY <1>15, <2>1 DEF TypeInv, TypeOK, Timeout, Errors
<1>16. ASSUME NEW t \in Thread, Signal(t) PROVE TypeInv'
  <2>1. list' \in [Mutex -> Seq(Thread)]
    <3>1. on[t] \in Mutex
      BY <1>t DEF TypeOK
    <3> QED
      BY <3>1, <1>16, <1>t, UnlinkTypes DEF Signal
  <2>2. error' \in [Thread -> Errors]
    BY <1>16, <1>t DEF Signal, TypeOK, Errors
  <2> QED
    BY <1>16, <2>1, <2>2, BoundAssumption DEF TypeInv, TypeOK, Signal
<1>17. ASSUME UNCHANGED vars PROVE TypeInv'
  BY <1>17 DEF TypeInv, TypeOK, vars
<1> QED
  BY <1>1, <1>2, <1>3, <1>4, <1>5, <1>6, <1>7, <1>8, <1>9, <1>10, <1>11,
     <1>12, <1>13, <1>14, <1>15, <1>16, <1>17
     DEF Next, TakeStep, CallStep, DetachStep

(* They hold in every behaviour of the model. *)
LEMMA AlwaysTypeInv == Spec => []TypeInv
<1> QED
  BY InitTypeInv, NextTypeInv, PTL DEF Spec

(* The types hold, whoever is signalled, until somebody steps into a retry *)
(* or a detach; and a mutex that is taken has an owner, so that until then *)
(* rt_mutex_take never looks at the priority of RT_NULL.                   *)
THEOREM TypesHold ==
  Spec => [](~Torn => TypeOK /\ \A m \in Mutex :
                                   value[m] = 0 => owner[m] # None)
<1>1. TypeInv => (~Torn => TypeOK /\ \A m \in Mutex :
                                        value[m] = 0 => owner[m] # None)
  BY DEF TypeInv
<1> QED
  BY <1>1, AlwaysTypeInv, PTL

------------------------------------------------------------------------------
(* The lists of waiters, whoever is signalled: who is linked on a mutex    *)
(* waits for that one, so a thread is linked on one list at most.          *)
LinkedWait ==
    \A m \in Mutex : \A t \in Thread :
       Linked(list[m], t) => Waiting(t) /\ on[t] = m

(* The inductive invariant of the lists and the timers. *)
WaitInv == TypeInv /\ TimerGuardsWait /\ LinkedWait

(* The initial states satisfy it: nobody waits. *)
LEMMA InitWaitInv == Init => WaitInv
<1> SUFFICES ASSUME Init PROVE WaitInv
  OBVIOUS
<1>1. \A m \in Mutex : list[m] = <<>> /\ Len(list[m]) = 0
  BY DEF Init
<1>2. \A m \in Mutex : Once(list[m]) /\ \A t : ~Linked(list[m], t)
  BY <1>1 DEF Once, Linked
<1>3. timer = {}
  BY DEF Init
<1> QED
  BY <1>2, <1>3, InitTypeInv DEF WaitInv, TimerGuardsWait, LinkedWait

(* A step that links nobody, lets those stand that it leaves linked, and   *)
(* stops the timers of those it unlinks.                                   *)
LEMMA FewerWait ==
  ASSUME WaitInv, TypeInv',
         \A k \in Mutex : Once(list'[k]),
         \A k \in Mutex, u \in Thread : Linked(list'[k], u) =>
            Linked(list[k], u) /\ pc'[u] = pc[u] /\ on'[u] = on[u],
         \A u \in timer' :
            u \in timer /\ \A k \in Mutex : Linked(list[k], u)
                                              => Linked(list'[k], u)
  PROVE  WaitInv'
<1>1. on \in [Thread -> Mutex] /\ timer \subseteq Thread
  BY DEF WaitInv, TypeInv, TypeOK
<1>2. LinkedWait'
  BY DEF WaitInv, LinkedWait, Waiting
<1>3. ASSUME NEW u \in timer'
      PROVE  Suspended(u)'
  <2>1. u \in Thread /\ Waiting(u) /\ Linked(list[on[u]], u)
    BY <1>1, <1>3 DEF WaitInv, TimerGuardsWait, Suspended
  <2>2. on[u] \in Mutex /\ Linked(list'[on[u]], u)
    BY <1>1, <1>3, <2>1
  <2>3. pc'[u] = pc[u] /\ on'[u] = on[u]
    BY <2>1, <2>2
  <2> QED
    BY <2>1, <2>2, <2>3 DEF Suspended, Waiting
<1> QED
  BY <1>2, <1>3 DEF WaitInv, TimerGuardsWait

(* A step that leaves the lists and the timers alone, by a thread that is  *)
(* on no list.                                                             *)
LEMMA SameWait ==
  ASSUME WaitInv, TypeInv', list' = list, timer' = timer,
         \A k \in Mutex, u \in Thread : Linked(list[k], u) =>
            pc'[u] = pc[u] /\ on'[u] = on[u]
  PROVE  WaitInv'
<1>1. \A k \in Mutex : Once(list'[k])
  BY DEF WaitInv, TimerGuardsWait
<1> QED
  BY <1>1, FewerWait

(* A waiter is taken off the list of its mutex and its timer is stopped.   *)
LEMMA UnlinkWait ==
  ASSUME WaitInv, TypeInv', NEW m \in Mutex, NEW w \in Thread, on[w] = m,
         list' = [list EXCEPT ![m] = Unlink(@, w)], timer' = timer \ {w},
         \A u \in Thread : u # w => pc'[u] = pc[u] /\ on'[u] = on[u]
  PROVE  WaitInv'
<1> DEFINE zero == [t \in Thread |-> 0]
<1>1. /\ zero \in [Thread -> Nat]
      /\ \A k \in Mutex : list[k] \in Seq(Thread) /\ Once(list[k])
      /\ list \in [Mutex -> Seq(Thread)]
      /\ timer \subseteq Thread
  BY DEF WaitInv, TypeInv, TypeOK, TimerGuardsWait
<1> HIDE DEF zero
<1>2. /\ Once(Unlink(list[m], w))
      /\ \A u : Linked(Unlink(list[m], w), u) <=> (Linked(list[m], u) /\ u # w)
  BY <1>1, UnlinkProperties
<1>3. \A k \in Mutex :
         list'[k] = IF k = m THEN Unlink(list[m], w) ELSE list[k]
  BY <1>1
<1>4. \A k \in Mutex : Once(list'[k])
  BY <1>1, <1>2, <1>3
<1>5. \A k \in Mutex, u \in Thread :
         u # w => (Linked(list'[k], u) <=> Linked(list[k], u))
  BY <1>2, <1>3
<1>6. \A k \in Mutex : ~Linked(list'[k], w)
  BY <1>2, <1>3 DEF WaitInv, LinkedWait
<1> QED
  BY <1>1, <1>4, <1>5, <1>6, FewerWait

(* The first waiter is taken off the list, as rt_ipc_list_resume_all does. *)
LEMMA TailWait ==
  ASSUME WaitInv, TypeInv', NEW m \in Mutex, list[m] # <<>>,
         list' = [list EXCEPT ![m] = Tail(@)],
         timer' = timer \ {Head(list[m])},
         \A k \in Mutex, u \in Thread : Linked(list[k], u) =>
            pc'[u] = pc[u] /\ on'[u] = on[u]
  PROVE  WaitInv'
<1> DEFINE zero == [t \in Thread |-> 0]
           w == Head(list[m])
<1>1. /\ zero \in [Thread -> Nat]
      /\ \A k \in Mutex : list[k] \in Seq(Thread) /\ Once(list[k])
      /\ list \in [Mutex -> Seq(Thread)]
      /\ timer \subseteq Thread
  BY DEF WaitInv, TypeInv, TypeOK, TimerGuardsWait
<1> HIDE DEF zero
<1>2. /\ w \in Thread /\ Linked(list[m], w) /\ Once(Tail(list[m]))
      /\ \A u : Linked(Tail(list[m]), u) <=> (Linked(list[m], u) /\ u # w)
  BY <1>1, TailProperties
<1>3. \A k \in Mutex :
         list'[k] = IF k = m THEN Tail(list[m]) ELSE list[k]
  BY <1>1
<1> HIDE DEF w
<1>4. \A k \in Mutex : Once(list'[k])
  BY <1>1, <1>2, <1>3
<1>5. \A k \in Mutex, u \in Thread :
         /\ Linked(list'[k], u) => Linked(list[k], u)
         /\ u # w /\ Linked(list[k], u) => Linked(list'[k], u)
  BY <1>2, <1>3
<1>6. timer' = timer \ {w}
  BY DEF w
<1> QED
  BY <1>1, <1>4, <1>5, <1>6, FewerWait

(* A thread that is on no list is suspended on the list of a mutex.        *)
LEMMA BlockWait ==
  ASSUME WaitInv, TypeInv', NEW t \in Thread, NEW m \in Mutex,
         NEW finite \in BOOLEAN, pc[t] # "waiting", Block(t, m, finite),
         on'[t] = m, \A u \in Thread : u # t => on'[u] = on[u]
  PROVE  WaitInv'
<1> DEFINE b == Boosted(t, owner[m])
           e == Enqueue(list[m], t, Flag, b)
<1>1. /\ TypeOK
      /\ \A k \in Mutex : list[k] \in Seq(Thread) /\ Once(list[k])
      /\ list \in [Mutex -> Seq(Thread)] /\ pc \in [Thread -> Locations]
      /\ on \in [Thread -> Mutex] /\ timer \subseteq Thread
  BY DEF WaitInv, TypeInv, TypeOK, TimerGuardsWait
<1>2. b \in [Thread -> Nat]
  BY <1>1, BoostedTypes
<1>3. /\ list' = [list EXCEPT ![m] = e]
      /\ pc' = [pc EXCEPT ![t] = "waiting"]
      /\ timer' \subseteq timer \union {t}
  BY DEF Block
<1>4. \A k \in Mutex : ~Linked(list[k], t)
  BY DEF WaitInv, LinkedWait, Waiting
<1> HIDE DEF b
<1>5. /\ \A u : Linked(e, u) <=> (Linked(list[m], u) \/ u = t)
      /\ Once(e)
  BY <1>1, <1>2, <1>4, EnqueueLinked
<1> HIDE DEF e
<1>6. \A k \in Mutex : list'[k] = IF k = m THEN e ELSE list[k]
  BY <1>1, <1>3
<1>7. \A k \in Mutex : Once(list'[k])
  BY <1>1, <1>5, <1>6
<1>8. LinkedWait'
  <2> SUFFICES ASSUME NEW k \in Mutex, NEW u \in Thread, Linked(list'[k], u)
               PROVE  pc'[u] = "waiting" /\ on'[u] = k
    BY DEF LinkedWait, Waiting
  <2>1. CASE u = t
    BY <1>1, <1>3, <1>4, <1>6, <2>1
  <2>2. CASE u # t
    <3>1. Linked(list[k], u)
      BY <1>5, <1>6, <2>2
    <3> QED
      BY <1>1, <1>3, <2>2, <3>1 DEF WaitInv, LinkedWait, Waiting
  <2> QED
    BY <2>1, <2>2
<1>9. ASSUME NEW u \in timer' PROVE Suspended(u)'
  <2>1. CASE u = t
    BY <1>1, <1>3, <1>5, <1>6, <2>1 DEF Suspended, Waiting
  <2>2. CASE u # t
    <3>1. u \in Thread /\ pc[u] = "waiting" /\ Linked(list[on[u]], u)
      BY <1>1, <1>3, <1>9, <2>2
         DEF WaitInv, TimerGuardsWait, Suspended, Waiting
    <3>2. on[u] \in Mutex /\ Linked(list'[on[u]], u)
      BY <1>1, <1>5, <1>6, <3>1
    <3> QED
      BY <1>1, <1>3, <2>2, <3>1, <3>2 DEF Suspended, Waiting
  <2> QED
    BY <2>1, <2>2
<1> QED
  BY <1>7, <1>8, <1>9 DEF WaitInv, TimerGuardsWait

(* Every step keeps it, a signal and what follows it included.             *)
LEMMA NextWaitInv == WaitInv /\ [Next]_vars => WaitInv'
<1> SUFFICES ASSUME WaitInv, [Next]_vars PROVE WaitInv'
  OBVIOUS
<1> USE DEF object, call
<1>t. /\ TypeInv'
      /\ pc \in [Thread -> Locations] /\ on \in [Thread -> Mutex]
      /\ timed \in [Thread -> BOOLEAN] /\ timer \subseteq Thread
      /\ \A k \in Mutex : list[k] \in Seq(Thread)
      /\ \A k \in Mutex, u \in Thread :
            Linked(list[k], u) => pc[u] = "waiting" /\ on[u] = k
  BY NextTypeInv DEF WaitInv, TypeInv, TypeOK, LinkedWait, Waiting
<1>s. ASSUME NEW t \in Thread, pc[t] # "waiting", list' = list, timer' = timer,
             \A u \in Thread : u # t => pc'[u] = pc[u] /\ on'[u] = on[u]
      PROVE  WaitInv'
  BY <1>t, <1>s, SameWait
<1>1. ASSUME NEW t \in Thread, NEW m \in Mutex,
             \/ TakeAgain(t, m) \/ TakeFree(t, m) \/ TakeFail(t, m)
             \/ ReleaseRefused(t, m) \/ DetachBegin(t, m)
      PROVE  WaitInv'
  <2>1. /\ pc[t] # "waiting" /\ list' = list /\ timer' = timer
        /\ \A u \in Thread : u # t => pc'[u] = pc[u] /\ on'[u] = on[u]
    BY <1>1, <1>t DEF TakeAgain, TakeFree, TakeFail, MayTake, ReleaseRefused,
                      DetachBegin
  <2> QED
    BY <1>s, <2>1
<1>2. ASSUME NEW t \in Thread, NEW m \in Mutex, NEW finite \in BOOLEAN,
             TakeBlock(t, m, finite)
      PROVE  WaitInv'
  <2>1. /\ pc[t] # "waiting" /\ Block(t, m, finite) /\ on'[t] = m
        /\ \A u \in Thread : u # t => on'[u] = on[u]
    BY <1>2, <1>t DEF TakeBlock, MayTake
  <2> QED
    BY <1>t, <2>1, BlockWait
<1>3. ASSUME NEW t \in Thread, Return(t) PROVE WaitInv'
  <2>1. /\ list' = list /\ timer' = timer
        /\ \A u \in Thread : u # t => pc'[u] = pc[u] /\ on'[u] = on[u]
    BY <1>3, <1>t DEF Return
  <2>2. \A k \in Mutex : ~Linked(list[k], t)
    BY <1>3, <1>t DEF Return, Suspended
  <2> QED
    BY <1>t, <2>1, <2>2, SameWait
<1>4. ASSUME NEW t \in Thread,
             \/ AgainDisturbed(t) \/ AgainTake(t)
             \/ ResumeAllTest(t) \/ Unregister(t)
      PROVE  WaitInv'
  <2>1. /\ pc[t] # "waiting" /\ list' = list /\ timer' = timer
        /\ \A u \in Thread : u # t => pc'[u] = pc[u] /\ on'[u] = on[u]
    BY <1>4, <1>t DEF AgainDisturbed, AgainTake, ResumeAllTest, Unregister
  <2> QED
    BY <1>s, <2>1
<1>5. ASSUME NEW t \in Thread, AgainBlock(t) PROVE WaitInv'
  <2>1. /\ pc[t] # "waiting" /\ Block(t, on[t], timed[t]) /\ on' = on
        /\ on[t] \in Mutex /\ timed[t] \in BOOLEAN
    BY <1>5, <1>t DEF AgainBlock
  <2> QED
    BY <1>t, <2>1, BlockWait
<1>6. ASSUME NEW t \in Thread, NEW m \in Mutex, Release(t, m)
      PROVE  WaitInv'
  <2>1. pc[t] # "waiting" /\ pc' = pc /\ on' = on
    BY <1>6 DEF Release
  <2>2. CASE list' = list /\ timer' = timer
    BY <1>s, <2>1, <2>2
  <2>3. CASE ReleaseLast(t, m) /\ list[m] # <<>>
    <3>1. /\ list' = [list EXCEPT ![m] = Unlink(@, FirstWaiter(m))]
          /\ timer' = timer \ {FirstWaiter(m)}
      BY <2>3 DEF ReleaseLast, Resume
    <3>2. FirstWaiter(m) \in Thread /\ Linked(list[m], FirstWaiter(m))
      BY <1>t, <2>3, EmptySeq DEF FirstWaiter, Linked
    <3>3. on[FirstWaiter(m)] = m
      BY <1>t, <3>2
    <3> QED
      BY <1>t, <2>1, <3>1, <3>2, <3>3, UnlinkWait
  <2> QED
    BY <1>6, <2>2, <2>3 DEF Release, ReleaseNested, ReleaseLast
<1>7. ASSUME NEW t \in Thread, ResumeAllTake(t) PROVE WaitInv'
  <2>1. /\ on[t] \in Mutex /\ pc[t] # "waiting" /\ on' = on
        /\ \A u \in Thread : u # t => pc'[u] = pc[u]
    BY <1>7, <1>t DEF ResumeAllTake
  <2>2. CASE list[on[t]] = <<>>
    <3>1. list' = list /\ timer' = timer
      BY <1>7, <2>2 DEF ResumeAllTake
    <3> QED
      BY <1>s, <2>1, <3>1
  <2>3. CASE list[on[t]] # <<>>
    <3>1. /\ list' = [list EXCEPT ![on[t]] = Tail(@)]
          /\ timer' = timer \ {Head(list[on[t]])}
      BY <1>7, <2>3 DEF ResumeAllTake
    <3>2. \A k \in Mutex, u \in Thread : Linked(list[k], u) =>
             pc'[u] = pc[u] /\ on'[u] = on[u]
      BY <1>t, <2>1
    <3> QED
      BY <1>t, <2>1, <2>3, <3>1, <3>2, TailWait
  <2> QED
    BY <2>2, <2>3
<1>8. ASSUME NEW t \in Thread, Timeout(t) \/ Signal(t) PROVE WaitInv'
  <2>1. /\ on[t] \in Mutex /\ pc' = pc /\ on' = on
        /\ list' = [list EXCEPT ![on[t]] = Unlink(@, t)]
        /\ timer' = timer \ {t}
    BY <1>8, <1>t DEF Timeout, Signal
  <2> QED
    BY <1>t, <2>1, UnlinkWait
<1>9. CASE UNCHANGED vars
  <2>1. list' = list /\ timer' = timer /\ pc' = pc /\ on' = on
    BY <1>9 DEF vars
  <2> QED
    BY <1>t, <2>1, SameWait
<1> QED
  BY <1>1, <1>2, <1>3, <1>4, <1>5, <1>6, <1>7, <1>8, <1>9
     DEF Next, TakeStep, CallStep, DetachStep

------------------------------------------------------------------------------
(* Nobody is at label __again, and who is linked on a mutex waits for it,  *)
(* does not own it, and has not been told otherwise.                       *)
Undisturbed ==
    /\ \A t \in Thread :
          /\ pc[t] # "again"
          /\ error[t] # "EINTR"
    /\ \A m \in Mutex : \A t \in Thread :
          Linked(list[m], t) =>
             Waiting(t) /\ on[t] = m /\ owner[m] # t /\ error[t] = "EOK"

(* Only the owner was told that it has the mutex, a thread that waits was  *)
(* not, and one that was resumed will be told so exactly when it has been  *)
(* made the owner.                                                         *)
OwnerIsTold ==
    /\ \A m \in Mutex : \A t \in Thread : depth[t][m] > 0 => owner[m] = t
    /\ \A t \in Thread : Waiting(t) =>
          /\ depth[t][on[t]] = 0
          /\ ~Linked(list[on[t]], t)
                => (error[t] = "EOK" <=> owner[on[t]] = t)
    /\ \A m \in Mutex : owner[m] # None => hold[m] > 0

(* The inductive invariant of who holds a mutex. *)
HoldInv ==
    /\ TypeInv
    /\ TimerGuardsWait
    /\ HoldMatchesOwner
    /\ NoIdleMutex
    /\ Undisturbed
    /\ OwnerIsTold

(* It contains the invariants of the runs. *)
LEMMA HoldInvAgrees == HoldInv => HoldersAgree /\ NoIdleMutex
<1> SUFFICES ASSUME HoldInv PROVE HoldersAgree /\ NoIdleMutex
  OBVIOUS
<1>1. MutualExclusion
  <2> SUFFICES ASSUME NEW m \in Mutex, NEW t \in Thread, NEW u \in Thread,
                      depth[t][m] > 0, depth[u][m] > 0
               PROVE  t = u
    BY DEF MutualExclusion
  <2>1. owner[m] = t /\ owner[m] = u
    BY DEF HoldInv, OwnerIsTold
  <2> QED
    BY <2>1
<1>2. NoSelfWait
  <2> SUFFICES ASSUME NEW m \in Mutex, Linked(list[m], owner[m])
               PROVE  FALSE
    BY DEF NoSelfWait
  <2>1. list[m] \in Seq(Thread)
    BY DEF HoldInv, TypeInv, TypeOK
  <2>2. owner[m] \in Thread
    BY <2>1, ElementOfSeq DEF Linked
  <2> QED
    BY <2>2 DEF HoldInv, Undisturbed
<1> QED
  BY <1>1, <1>2 DEF HoldInv, TypeInv, HoldersAgree

(* The initial states satisfy it. *)
LEMMA InitHoldInv == Init => HoldInv
<1> SUFFICES ASSUME Init PROVE HoldInv
  OBVIOUS
<1>1. \A m \in Mutex : list[m] = <<>> /\ Len(list[m]) = 0
  BY DEF Init
<1>2. \A m \in Mutex : Once(list[m]) /\ \A t : ~Linked(list[m], t)
  BY <1>1 DEF Once, Linked
<1>3. TypeInv
  BY InitTypeInv
<1>4. TimerGuardsWait /\ HoldMatchesOwner /\ NoIdleMutex
  BY <1>1, <1>2 DEF Init, TimerGuardsWait, HoldMatchesOwner, NoIdleMutex
<1>5. Undisturbed
  BY <1>2 DEF Init, Undisturbed
<1>6. OwnerIsTold
  BY DEF Init, OwnerIsTold, Waiting
<1> QED
  BY <1>3, <1>4, <1>5, <1>6 DEF HoldInv

------------------------------------------------------------------------------
(* The counts of a mutex are far from their width. *)
LEMMA CountsDoNotWrap ==
  ASSUME HoldInv, NEW m \in Mutex
  PROVE  /\ hold[m] \in Nat /\ hold[m] <= MaxDepth
         /\ hold[m] < MaxDepth => (hold[m] + 1) % HoldMod = hold[m] + 1
         /\ hold[m] > 0 => (hold[m] - 1) % HoldMod = hold[m] - 1
         /\ value[m] \in {0, 1}
         /\ (1 - 1) % ValueMod = 0 /\ (0 + 1) % ValueMod = 1
<1>1. /\ hold[m] \in 0..(HoldMod - 1) /\ value[m] \in 0..(ValueMod - 1)
      /\ owner[m] \in Thread \union {None}
      /\ \A t \in Thread : depth[t][m] \in 0..MaxDepth
  BY DEF HoldInv, TypeInv, TypeOK
<1>2. \A x \in Nat, y \in Nat : x < y => x % y = x
  OBVIOUS
<1>3. CASE owner[m] = None
  BY <1>1, <1>2, <1>3, BoundAssumption DEF HoldInv, HoldMatchesOwner
<1>4. CASE owner[m] # None
  <2>1. value[m] = 0
        /\ hold[m] = depth[owner[m]][m]
                     + IF Pending(owner[m], m) THEN 1 ELSE 0
    BY <1>4 DEF HoldInv, HoldMatchesOwner
  <2>2. Pending(owner[m], m) => depth[owner[m]][m] = 0
    BY <1>1, <1>4 DEF HoldInv, OwnerIsTold, Pending
  <2>3. hold[m] <= MaxDepth
    BY <1>1, <1>4, <2>1, <2>2, BoundAssumption
  <2> QED
    BY <1>1, <1>2, <2>1, <2>3, BoundAssumption
<1> QED
  BY <1>3, <1>4

(* A thread that is idle is on no list and has no mutex handed over to it. *)
LEMMA IdleThread ==
  ASSUME HoldInv, NEW t \in Thread, pc[t] # "waiting"
  PROVE  /\ \A m \in Mutex : ~Linked(list[m], t)
         /\ \A m : ~Pending(t, m)
         /\ \A m \in Mutex : owner[m] = t => hold[m] = depth[t][m]
<1>1. \A m : ~Pending(t, m)
  BY DEF Pending, Waiting
<1>2. ASSUME NEW m \in Mutex, owner[m] = t PROVE hold[m] = depth[t][m]
  <2>1. owner[m] # None
    BY <1>2, ThreadAssumption
  <2>2. hold[m] = depth[t][m] + IF Pending(t, m) THEN 1 ELSE 0
    BY <1>2, <2>1 DEF HoldInv, HoldMatchesOwner
  <2>3. depth[t][m] \in Nat
    BY DEF HoldInv, TypeInv, TypeOK
  <2> QED
    BY <1>1, <2>2, <2>3
<1> QED
  BY <1>1, <1>2 DEF HoldInv, Undisturbed, Waiting

------------------------------------------------------------------------------
(* The types, thread by thread and mutex by mutex. *)
LEMMA TypesAt ==
  ASSUME TypeOK
  PROVE  /\ \A u \in Thread, k \in Mutex :
              depth[u][k] \in Nat /\ depth[u][k] <= MaxDepth
         /\ \A u \in Thread : on[u] \in Mutex
         /\ \A k \in Mutex : owner[k] # None => owner[k] \in Thread
         /\ \A k \in Mutex : hold[k] \in Nat /\ value[k] \in Nat
         /\ \A k \in Mutex : list[k] \in Seq(Thread)
<1>1. \A u \in Thread, k \in Mutex : depth[u][k] \in 0..MaxDepth
  BY DEF TypeOK
<1>2. \A k \in Mutex : hold[k] \in Nat /\ value[k] \in Nat
  BY DEF TypeOK
<1> QED
  BY <1>1, <1>2, BoundAssumption DEF TypeOK

(* A step that changes nothing but where a thread stands that neither      *)
(* waits before it nor after it, and the error of that thread.             *)
LEMMA QuietStep ==
  ASSUME HoldInv, TypeInv', NEW t \in Thread,
         pc[t] # "waiting",
         pc'[t] \notin {"waiting", "again"},
         error'[t] # "EINTR",
         \A u \in Thread : u # t => /\ pc'[u] = pc[u] /\ on'[u] = on[u]
                                    /\ error'[u] = error[u],
         value' = value, owner' = owner, hold' = hold, list' = list,
         timer' = timer, depth' = depth
  PROVE  HoldInv'
<1>1. \A k \in Mutex : ~Linked(list[k], t)
  BY IdleThread
<1>2. \A u \in Thread : Waiting(u)' <=> Waiting(u)
  BY DEF Waiting
<1>3. TypeOK
  BY DEF HoldInv, TypeInv
<1>4. /\ \A u \in Thread : on[u] \in Mutex
      /\ \A k \in Mutex : owner[k] # None => owner[k] \in Thread
      /\ timer \subseteq Thread
  BY <1>3, TypesAt DEF TypeOK
<1>5. \A u \in Thread : Suspended(u)' <=> Suspended(u)
  BY <1>2 DEF Suspended, Waiting
<1>6. \A u \in Thread, k \in Mutex : Pending(u, k)' <=> Pending(u, k)
  BY <1>2, <1>5 DEF Pending, Waiting
<1>7. TimerGuardsWait'
  BY <1>4, <1>5 DEF HoldInv, TimerGuardsWait
<1>8. HoldMatchesOwner' /\ NoIdleMutex'
  BY <1>4, <1>6 DEF HoldInv, HoldMatchesOwner, NoIdleMutex
<1>9. Undisturbed'
  BY <1>1, <1>2 DEF HoldInv, Undisturbed
<1>10. OwnerIsTold'
  BY <1>2, <1>4 DEF HoldInv, OwnerIsTold, Waiting
<1> QED
  BY <1>7, <1>8, <1>9, <1>10 DEF HoldInv

(* A step of the owner that changes how often it has the mutex.            *)
LEMMA CountingStep ==
  ASSUME HoldInv, TypeInv', NEW t \in Thread, NEW m \in Mutex,
         pc[t] = "idle", owner[m] = t, error'[t] # "EINTR",
         \A u \in Thread : u # t => error'[u] = error[u],
         value' = value, owner' = owner, list' = list,
         timer' = timer, pc' = pc, on' = on,
         NEW n \in Nat, n > 0,
         \A k \in Mutex : hold'[k] = IF k = m THEN n ELSE hold[k],
         \A u \in Thread, k \in Mutex :
            depth'[u][k] = IF u = t /\ k = m THEN n ELSE depth[u][k]
  PROVE  HoldInv'
<1>1. t # None /\ \A k \in Mutex : ~Linked(list[k], t) /\ ~Pending(t, k)
  BY IdleThread, ThreadAssumption
<1>2. TypeOK
  BY DEF HoldInv, TypeInv
<1>3. /\ \A u \in Thread, k \in Mutex : depth[u][k] \in Nat
      /\ \A u \in Thread : on[u] \in Mutex
      /\ \A k \in Mutex : owner[k] # None => owner[k] \in Thread
  BY <1>2, TypesAt
<1>4. \A k \in Mutex, u \in Thread : Pending(u, k)' <=> Pending(u, k)
  BY DEF Pending, Suspended, Waiting
<1>5. TimerGuardsWait' /\ NoIdleMutex'
  BY DEF HoldInv, TimerGuardsWait, Suspended, Waiting, NoIdleMutex
<1>6. HoldMatchesOwner'
  <2> SUFFICES ASSUME NEW k \in Mutex, owner[k] # None
               PROVE  hold'[k] = depth'[owner[k]][k]
                                 + IF Pending(owner[k], k)' THEN 1 ELSE 0
    BY <1>1 DEF HoldInv, HoldMatchesOwner
  <2>1. /\ owner[k] \in Thread
        /\ hold[k] = depth[owner[k]][k]
                     + IF Pending(owner[k], k) THEN 1 ELSE 0
    BY <1>3 DEF HoldInv, HoldMatchesOwner
  <2>2. Pending(owner[k], k)' <=> Pending(owner[k], k)
    BY <1>4, <2>1
  <2> QED
    BY <1>1, <1>3, <2>1, <2>2
<1>7. Undisturbed'
  BY <1>1 DEF HoldInv, Undisturbed, Waiting
<1>8. OwnerIsTold'
  <2>1. \A k \in Mutex : \A u \in Thread : depth'[u][k] > 0 => owner[k] = u
    BY <1>1, <1>3 DEF HoldInv, OwnerIsTold
  <2>2. \A u \in Thread : pc[u] = "waiting" =>
           /\ depth'[u][on[u]] = 0
           /\ ~Linked(list[on[u]], u)
                 => (error'[u] = "EOK" <=> owner[on[u]] = u)
    BY <1>1, <1>3 DEF HoldInv, OwnerIsTold, Waiting
  <2>3. \A k \in Mutex : owner[k] # None => hold'[k] > 0
    BY DEF HoldInv, OwnerIsTold
  <2> QED
    BY <2>1, <2>2, <2>3 DEF OwnerIsTold, Waiting
<1> QED
  BY <1>5, <1>6, <1>7, <1>8 DEF HoldInv

(* rt_mutex_take by the owner keeps HoldInv. *)
LEMMA TakeAgainHolds ==
  ASSUME HoldInv, TypeInv', NEW t \in Thread, NEW m \in Mutex,
         TakeAgain(t, m)
  PROVE  HoldInv'
<1>1. TypeOK
  BY DEF HoldInv, TypeInv
<1>2. /\ pc[t] = "idle" /\ owner[m] = t
      /\ depth[t][m] < MaxDepth /\ depth' = [depth EXCEPT ![t][m] = @ + 1]
  BY DEF TakeAgain, MayTake
<1>3. /\ value' = value /\ owner' = owner /\ list' = list
      /\ timer' = timer /\ pc' = pc /\ on' = on
  BY DEF TakeAgain, call
<1>4. \A u \in Thread : error'[u] = IF u = t THEN "EOK" ELSE error[u]
  BY <1>1 DEF TakeAgain, TypeOK
<1>5. hold[m] = depth[t][m]
  BY <1>2, IdleThread
<1>6. \A k \in Mutex : hold'[k] = IF k = m THEN hold[m] + 1 ELSE hold[k]
  BY <1>1, <1>2, <1>5, CountsDoNotWrap DEF TypeOK, TakeAgain
<1>7. \A u \in Thread, k \in Mutex :
         depth'[u][k] = IF u = t /\ k = m THEN hold[m] + 1 ELSE depth[u][k]
  BY <1>1, <1>2, <1>5, DepthCounts
<1>8. hold[m] + 1 \in Nat /\ hold[m] + 1 > 0
  BY <1>1, TypesAt
<1> QED
  BY <1>2, <1>3, <1>4, <1>6, <1>7, <1>8, CountingStep

(* So does a release that leaves it the owner. *)
LEMMA ReleaseNestedHolds ==
  ASSUME HoldInv, TypeInv', NEW t \in Thread, NEW m \in Mutex,
         Release(t, m), ReleaseNested(t, m)
  PROVE  HoldInv'
<1>1. TypeOK
  BY DEF HoldInv, TypeInv
<1>2. /\ pc[t] = "idle" /\ owner[m] = t /\ hold[m] # 1
      /\ depth[t][m] > 0 /\ depth' = [depth EXCEPT ![t][m] = @ - 1]
  BY DEF Release, ReleaseNested
<1>3. /\ value' = value /\ owner' = owner /\ list' = list
      /\ timer' = timer /\ pc' = pc /\ on' = on /\ error' = error
  BY DEF Release, ReleaseNested, call
<1>4. hold[m] = depth[t][m]
  BY <1>2, IdleThread
<1>5. hold[m] - 1 \in Nat /\ hold[m] - 1 > 0
  BY <1>1, <1>2, <1>4, TypesAt
<1>6. \A k \in Mutex : hold'[k] = IF k = m THEN hold[m] - 1 ELSE hold[k]
  BY <1>1, <1>2, <1>4, CountsDoNotWrap DEF TypeOK, ReleaseNested
<1>7. \A u \in Thread, k \in Mutex :
         depth'[u][k] = IF u = t /\ k = m THEN hold[m] - 1 ELSE depth[u][k]
  BY <1>1, <1>2, <1>4, DepthCounts
<1>8. error[t] # "EINTR"
  BY DEF HoldInv, Undisturbed
<1> QED
  BY <1>2, <1>3, <1>5, <1>6, <1>7, <1>8, CountingStep

(* What changes no mutex keeps it. *)
LEMMA QuietHolds ==
  ASSUME HoldInv, TypeInv', NEW t \in Thread, NEW m \in Mutex,
         \/ TakeFail(t, m) \/ ReleaseRefused(t, m) \/ DetachBegin(t, m)
         \/ ResumeAllTest(t) \/ Unregister(t)
  PROVE  HoldInv'
<1>1. TypeOK
  BY DEF HoldInv, TypeInv
<1>2. error[t] # "EINTR"
  BY DEF HoldInv, Undisturbed
<1>3. CASE TakeFail(t, m) \/ ReleaseRefused(t, m)
  BY <1>1, <1>3, QuietStep
     DEF TakeFail, ReleaseRefused, MayTake, object, call, TypeOK
<1>4. CASE DetachBegin(t, m)
  BY <1>1, <1>2, <1>4, QuietStep DEF DetachBegin, object, TypeOK
<1>5. CASE ResumeAllTest(t) \/ Unregister(t)
  BY <1>1, <1>2, <1>5, QuietStep
     DEF ResumeAllTest, Unregister, object, TypeOK
<1> QED
  BY <1>3, <1>4, <1>5

(* A thread gets a mutex that nobody has. *)
LEMMA TakeFreeHolds ==
  ASSUME HoldInv, TypeInv', NEW t \in Thread, NEW m \in Mutex,
         TakeFree(t, m)
  PROVE  HoldInv'
<1>1. TypeOK
  BY DEF HoldInv, TypeInv
<1>2. /\ pc[t] = "idle" /\ value[m] > 0 /\ t # None
      /\ depth[t][m] < MaxDepth /\ depth' = [depth EXCEPT ![t][m] = @ + 1]
  BY ThreadAssumption DEF TakeFree, Acquire, MayTake
<1>3. list' = list /\ timer' = timer /\ pc' = pc /\ on' = on
  BY DEF TakeFree, call
<1>4. \A u \in Thread : error'[u] = IF u = t THEN "EOK" ELSE error[u]
  BY <1>1 DEF TakeFree, TypeOK
<1>5. /\ \A u \in Thread, k \in Mutex : depth[u][k] \in Nat
      /\ \A u \in Thread : on[u] \in Mutex
      /\ \A k \in Mutex : owner[k] # None => owner[k] \in Thread
  BY <1>1, TypesAt
<1>6. owner[m] = None /\ value[m] = 1 /\ hold[m] = 0 /\ list[m] = <<>>
  BY <1>2 DEF HoldInv, HoldMatchesOwner, NoIdleMutex
<1>7. \A u \in Thread : ~(depth[u][m] > 0) /\ depth[u][m] = 0
  <2>1. \A u \in Thread : u # None
    BY ThreadAssumption
  <2>2. \A u \in Thread : ~(depth[u][m] > 0)
    BY <1>6, <2>1 DEF HoldInv, OwnerIsTold
  <2> QED
    BY <1>5, <2>2
<1>8. \A k \in Mutex : /\ owner'[k] = IF k = m THEN t ELSE owner[k]
                       /\ value'[k] = IF k = m THEN 0 ELSE value[k]
                       /\ hold'[k] = IF k = m THEN 1 ELSE hold[k]
  <2>1. (value[m] - 1) % ValueMod = 0 /\ (hold[m] + 1) % HoldMod = 1
    BY <1>6, CountsDoNotWrap, BoundAssumption
  <2> QED
    BY <1>1, <2>1 DEF TakeFree, Acquire, TypeOK
<1>9. \A u \in Thread, k \in Mutex :
         depth'[u][k] = IF u = t /\ k = m THEN 1 ELSE depth[u][k]
  <2>1. depth[t][m] + 1 = 1
    BY <1>7
  <2>2. \A u \in Thread, k \in Mutex :
           depth'[u][k] = IF u = t /\ k = m THEN depth[u][k] + 1
                          ELSE depth[u][k]
    BY <1>1, <1>2, DepthCounts
  <2> QED
    BY <2>1, <2>2
<1>10. \A k \in Mutex : ~Linked(list[k], t)
  BY <1>2, IdleThread
<1>11. ASSUME NEW u \in Thread, NEW k \in Mutex
       PROVE  Pending(u, k)' <=> Pending(u, k)
  <2>1. CASE k = m
    BY <1>2, <1>3, <1>6, <1>8, <2>1, ThreadAssumption DEF Pending, Waiting
  <2>2. CASE k # m
    BY <1>3, <1>8, <2>2 DEF Pending, Suspended, Waiting
  <2> QED
    BY <2>1, <2>2
<1>12. TimerGuardsWait' /\ NoIdleMutex'
  BY <1>3, <1>8 DEF HoldInv, TimerGuardsWait, Suspended, Waiting, NoIdleMutex
<1>13. HoldMatchesOwner'
  <2>1. ~Pending(t, m)
    BY <1>2 DEF Pending, Waiting
  <2> SUFFICES ASSUME NEW k \in Mutex, k # m, owner[k] # None
               PROVE  hold'[k] = depth'[owner[k]][k]
                                 + IF Pending(owner[k], k)' THEN 1 ELSE 0
    BY <1>2, <1>8, <1>9, <1>11, <2>1 DEF HoldInv, HoldMatchesOwner
  <2>2. /\ owner[k] \in Thread
        /\ hold[k] = depth[owner[k]][k]
                     + IF Pending(owner[k], k) THEN 1 ELSE 0
    BY <1>5 DEF HoldInv, HoldMatchesOwner
  <2>3. Pending(owner[k], k)' <=> Pending(owner[k], k)
    BY <1>8, <1>11, <2>2
  <2> QED
    BY <1>8, <1>9, <2>2, <2>3
<1>14. Undisturbed'
  <2>1. \A u \in Thread : ~Linked(list[m], u)
    BY <1>6 DEF Linked
  <2> QED
    BY <1>3, <1>4, <1>8, <1>10, <2>1 DEF HoldInv, Undisturbed, Waiting
<1>15. OwnerIsTold'
  <2>1. \A k \in Mutex : \A u \in Thread : depth'[u][k] > 0 => owner'[k] = u
    BY <1>7, <1>8, <1>9 DEF HoldInv, OwnerIsTold
  <2>2. \A u \in Thread : pc[u] = "waiting" =>
           /\ depth'[u][on[u]] = 0
           /\ ~Linked(list[on[u]], u)
                 => (error'[u] = "EOK" <=> owner'[on[u]] = u)
    BY <1>2, <1>4, <1>5, <1>6, <1>8, <1>9, ThreadAssumption
       DEF HoldInv, OwnerIsTold, Waiting
  <2>3. \A k \in Mutex : owner'[k] # None => hold'[k] > 0
    BY <1>8 DEF HoldInv, OwnerIsTold
  <2> QED
    BY <1>3, <2>1, <2>2, <2>3 DEF OwnerIsTold, Waiting
<1> QED
  BY <1>12, <1>13, <1>14, <1>15 DEF HoldInv

(* A thread that was resumed finds in its error whether it is the owner. *)
LEMMA ReturnHolds ==
  ASSUME HoldInv, TypeInv', NEW t \in Thread, Return(t)
  PROVE  HoldInv'
<1> DEFINE m == on[t]
<1>1. TypeOK
  BY DEF HoldInv, TypeInv
<1>2. /\ pc[t] = "waiting" /\ t # None /\ m \in Mutex
      /\ ~Linked(list[m], t) /\ error[t] # "EINTR"
      /\ depth[t][m] = 0 /\ (error[t] = "EOK" <=> owner[m] = t)
  <2>1. pc[t] = "waiting" /\ ~Linked(list[m], t) /\ m \in Mutex
    BY <1>1 DEF Return, Suspended, Waiting, TypeOK
  <2> QED
    BY <2>1, ThreadAssumption DEF HoldInv, OwnerIsTold, Undisturbed, Waiting
<1>3. /\ \A u \in Thread, k \in Mutex : depth[u][k] \in Nat
      /\ \A u \in Thread : on[u] \in Mutex
      /\ \A k \in Mutex : owner[k] # None => owner[k] \in Thread
  BY <1>1, TypesAt
<1>4. /\ list' = list /\ timer' = timer /\ on' = on /\ error' = error
      /\ value' = value /\ owner' = owner /\ hold' = hold
  BY DEF Return, object
<1>5. \A u \in Thread : pc'[u] = IF u = t THEN "idle" ELSE pc[u]
  BY <1>1, <1>2 DEF Return, TypeOK
<1>6. \A u \in Thread, k \in Mutex :
         depth'[u][k] = IF u = t /\ k = m /\ owner[m] = t THEN 1
                        ELSE depth[u][k]
  <2>1. CASE error[t] = "EOK"
    <3>1. depth' = [depth EXCEPT ![t][m] = @ + 1]
      BY <2>1 DEF Return
    <3>2. depth[t][m] < MaxDepth
      BY <1>2, BoundAssumption
    <3> QED
      <4>1. depth[t][m] + 1 = 1
        BY <1>2
      <4>2. \A u \in Thread, k \in Mutex :
               depth'[u][k] = IF u = t /\ k = m THEN depth[u][k] + 1
                              ELSE depth[u][k]
        BY <1>1, <1>2, <3>1, <3>2, DepthCounts
      <4> QED
        BY <1>2, <2>1, <4>1, <4>2
  <2>2. CASE error[t] # "EOK"
    BY <1>2, <2>2 DEF Return
  <2> QED
    BY <2>1, <2>2
<1> HIDE DEF m
<1>7. \A k \in Mutex : ~Linked(list[k], t)
  BY <1>2 DEF HoldInv, Undisturbed, m
<1>8. ASSUME NEW u \in Thread, NEW k \in Mutex
      PROVE  Pending(u, k)' <=> Pending(u, k) /\ u # t
  BY <1>2, <1>4, <1>5 DEF Pending, Suspended, Waiting
<1>9. \A k \in Mutex : Pending(t, k) <=> k = m /\ owner[m] = t
  BY <1>2 DEF Pending, Suspended, Waiting, m
<1>10. TimerGuardsWait' /\ NoIdleMutex'
  <2>1. \A u \in timer : u # t /\ u \in Thread
    BY <1>1, <1>7, <1>3 DEF HoldInv, TimerGuardsWait, Suspended, TypeOK
  <2> QED
    BY <1>4, <1>5, <2>1
       DEF HoldInv, TimerGuardsWait, Suspended, Waiting, NoIdleMutex
<1>11. HoldMatchesOwner'
  <2> SUFFICES ASSUME NEW k \in Mutex, owner[k] # None
               PROVE  hold[k] = depth'[owner[k]][k]
                                + IF Pending(owner[k], k)' THEN 1 ELSE 0
    BY <1>4 DEF HoldInv, HoldMatchesOwner
  <2>1. /\ owner[k] \in Thread
        /\ hold[k] = depth[owner[k]][k]
                     + IF Pending(owner[k], k) THEN 1 ELSE 0
    BY <1>3 DEF HoldInv, HoldMatchesOwner
  <2>2. Pending(owner[k], k)' <=> Pending(owner[k], k) /\ owner[k] # t
    BY <1>4, <1>8, <2>1
  <2> QED
    BY <1>2, <1>3, <1>6, <1>9, <2>1, <2>2
<1>12. Undisturbed'
  BY <1>4, <1>5, <1>7 DEF HoldInv, Undisturbed, Waiting
<1>13. OwnerIsTold'
  <2>1. \A k \in Mutex : \A u \in Thread : depth'[u][k] > 0 => owner[k] = u
    BY <1>6 DEF HoldInv, OwnerIsTold
  <2>2. \A u \in Thread : pc'[u] = "waiting" =>
           /\ depth'[u][on[u]] = 0
           /\ ~Linked(list[on[u]], u)
                 => (error[u] = "EOK" <=> owner[on[u]] = u)
    BY <1>3, <1>5, <1>6 DEF HoldInv, OwnerIsTold, Waiting
  <2> QED
    BY <1>4, <2>1, <2>2 DEF HoldInv, OwnerIsTold, Waiting
<1> QED
  BY <1>10, <1>11, <1>12, <1>13 DEF HoldInv

(* A thread that waits is taken out of its list and told it failed. *)
LEMMA WokenStep ==
  ASSUME HoldInv, TypeInv', NEW w \in Thread, NEW m \in Mutex,
         Linked(list[m], w), Once(list'[m]),
         \A u : Linked(list'[m], u) <=> Linked(list[m], u) /\ u # w,
         \A k \in Mutex : k # m => list'[k] = list[k],
         error'[w] \in {"ETIMEOUT", "ERROR"},
         \A u \in Thread : u # w => error'[u] = error[u],
         timer' = timer \ {w},
         \A u \in Thread : /\ pc[u] = "waiting" <=> pc'[u] = "waiting"
                           /\ pc'[u] # "again",
         value' = value, owner' = owner, hold' = hold, on' = on,
         depth' = depth
  PROVE  HoldInv'
<1>1. TypeOK
  BY DEF HoldInv, TypeInv
<1>2. /\ \A u \in Thread : on[u] \in Mutex
      /\ \A k \in Mutex : owner[k] # None => owner[k] \in Thread
      /\ timer \subseteq Thread
  BY <1>1, TypesAt DEF TypeOK
<1>3. pc[w] = "waiting" /\ on[w] = m /\ owner[m] # w
  BY DEF HoldInv, Undisturbed, Waiting
<1>4. \A k \in Mutex, u \in Thread :
         Linked(list'[k], u) <=> Linked(list[k], u) /\ u # w
  BY <1>3 DEF HoldInv, Undisturbed
<1>5. ASSUME NEW u \in Thread
      PROVE  /\ Waiting(u)' <=> Waiting(u)
             /\ Suspended(u)' <=> Suspended(u) /\ u # w
  BY <1>2, <1>4 DEF Waiting, Suspended
<1>6. ASSUME NEW u \in Thread, NEW k \in Mutex
      PROVE  Pending(u, k)' <=> Pending(u, k)
  BY <1>3, <1>5 DEF Pending
<1>7. TimerGuardsWait'
  <2>1. \A u \in timer' : Suspended(u)'
    BY <1>2, <1>5 DEF HoldInv, TimerGuardsWait
  <2>2. \A k \in Mutex : Once(list'[k])
    BY DEF HoldInv, TimerGuardsWait
  <2> QED
    BY <2>1, <2>2 DEF TimerGuardsWait
<1>8. HoldMatchesOwner'
  BY <1>2, <1>6 DEF HoldInv, HoldMatchesOwner
<1>9. NoIdleMutex'
  <2>1. list[m] # <<>>
    BY DEF Linked
  <2> QED
    BY <2>1 DEF HoldInv, NoIdleMutex
<1>10. Undisturbed'
  BY <1>4, <1>5 DEF HoldInv, Undisturbed
<1>11. OwnerIsTold'
  BY <1>2, <1>3, <1>4, <1>5 DEF HoldInv, OwnerIsTold
<1> QED
  BY <1>7, <1>8, <1>9, <1>10, <1>11 DEF HoldInv

(* rt_thread_timeout and rt_ipc_list_resume_all. *)
LEMMA TimeoutHolds ==
  ASSUME HoldInv, TypeInv', NEW t \in Thread, Timeout(t)
  PROVE  HoldInv'
<1> DEFINE m == on[t]
           zero == [u \in Thread |-> 0]
<1>1. TypeOK
  BY DEF HoldInv, TypeInv
<1>2. m \in Mutex /\ list[m] \in Seq(Thread) /\ zero \in [Thread -> Nat]
  BY <1>1 DEF TypeOK
<1>3. Linked(list[m], t) /\ Once(list[m])
  BY <1>2 DEF Timeout, HoldInv, TimerGuardsWait, Suspended
<1>4. /\ list' = [list EXCEPT ![m] = Unlink(@, t)] /\ timer' = timer \ {t}
      /\ value' = value /\ owner' = owner /\ hold' = hold /\ on' = on
      /\ depth' = depth /\ pc' = pc
  BY DEF Timeout, call
<1>5. \A u \in Thread : error'[u] = IF u = t THEN "ETIMEOUT" ELSE error[u]
  BY <1>1 DEF Timeout, TypeOK
<1>6. \A k \in Mutex : list'[k] = IF k = m THEN Unlink(list[m], t) ELSE list[k]
  BY <1>1, <1>4 DEF TypeOK
<1>7. \A u \in Thread : pc[u] # "again"
  BY DEF HoldInv, Undisturbed
<1> HIDE DEF m, zero
<1>8. /\ Once(Unlink(list[m], t))
      /\ \A u : Linked(Unlink(list[m], t), u) <=> (Linked(list[m], u) /\ u # t)
  BY <1>2, <1>3, UnlinkProperties
<1> QED
  BY <1>2, <1>3, <1>4, <1>5, <1>6, <1>7, <1>8, WokenStep

(* The detach takes the first waiter, or finds that there is none left.    *)
LEMMA ResumeAllHolds ==
  ASSUME HoldInv, TypeInv', NEW t \in Thread, ResumeAllTake(t)
  PROVE  HoldInv'
<1> DEFINE m == on[t]
           w == Head(list[m])
           zero == [u \in Thread |-> 0]
<1>1. TypeOK
  BY DEF HoldInv, TypeInv
<1>2. /\ m \in Mutex /\ list[m] \in Seq(Thread) /\ zero \in [Thread -> Nat]
      /\ pc[t] = "resume_one" /\ error[t] # "EINTR"
  BY <1>1 DEF TypeOK, ResumeAllTake, HoldInv, Undisturbed
<1>3. CASE list[m] = <<>>
  BY <1>1, <1>2, <1>3, QuietStep DEF ResumeAllTake, TypeOK
<1>4. CASE list[m] # <<>>
  <2>1. /\ list' = [list EXCEPT ![m] = Tail(@)] /\ timer' = timer \ {w}
        /\ error' = [error EXCEPT ![w] = "ERROR"]
        /\ value' = value /\ owner' = owner /\ hold' = hold /\ on' = on
        /\ depth' = depth /\ pc' = [pc EXCEPT ![t] = "resume_all"]
    BY <1>4 DEF ResumeAllTake
  <2>2. \A k \in Mutex : list'[k] = IF k = m THEN Tail(list[m]) ELSE list[k]
    BY <1>1, <2>1 DEF TypeOK
  <2>3. \A u \in Thread : error'[u] = IF u = w THEN "ERROR" ELSE error[u]
    BY <1>1, <2>1 DEF TypeOK
  <2>4. \A u \in Thread : pc'[u] = IF u = t THEN "resume_all" ELSE pc[u]
    BY <1>1, <2>1 DEF TypeOK
  <2>5. \A u \in Thread : pc[u] # "again"
    BY DEF HoldInv, Undisturbed
  <2> HIDE DEF m, zero
  <2>6. Once(list[m])
    BY <1>2 DEF HoldInv, TimerGuardsWait
  <2>7. /\ w \in Thread /\ Linked(list[m], w) /\ Once(Tail(list[m]))
        /\ \A u : Linked(Tail(list[m]), u) <=> (Linked(list[m], u) /\ u # w)
    BY <1>2, <1>4, <2>6, TailProperties
  <2> HIDE DEF w
  <2> QED
    BY <1>2, <2>1, <2>2, <2>3, <2>4, <2>5, <2>7, WokenStep
<1> QED
  BY <1>3, <1>4

(* A thread suspends itself on the list of a mutex another one has. *)
LEMMA TakeBlockHolds ==
  ASSUME HoldInv, TypeInv', NEW t \in Thread, NEW m \in Mutex,
         NEW finite \in BOOLEAN, TakeBlock(t, m, finite)
  PROVE  HoldInv'
<1> DEFINE b == Boosted(t, owner[m])
           e == Enqueue(list[m], t, Flag, b)
<1>1. TypeOK
  BY DEF HoldInv, TypeInv
<1>2. /\ pc[t] = "idle" /\ owner[m] # t /\ value[m] = 0
      /\ value' = value /\ owner' = owner /\ hold' = hold /\ depth' = depth
  BY DEF TakeBlock, MayTake
<1>3. /\ list' = [list EXCEPT ![m] = Enqueue(@, t, Flag, b)]
      /\ timer' = IF finite THEN timer \union {t} ELSE timer \ {t}
      /\ pc' = [pc EXCEPT ![t] = "waiting"]
      /\ on' = [on EXCEPT ![t] = m]
      /\ error' = [error EXCEPT ![t] = "EOK"]
  BY DEF TakeBlock, Block
<1>4. list[m] \in Seq(Thread) /\ b \in [Thread -> Nat]
  BY <1>1, BoostedTypes DEF TypeOK
<1> HIDE DEF b
<1>5. \A k \in Mutex : list'[k] = IF k = m THEN e ELSE list[k]
  BY <1>1, <1>3 DEF TypeOK
<1>6. \A u \in Thread : /\ pc'[u] = IF u = t THEN "waiting" ELSE pc[u]
                        /\ on'[u] = IF u = t THEN m ELSE on[u]
                        /\ error'[u] = IF u = t THEN "EOK" ELSE error[u]
  BY <1>1, <1>3 DEF TypeOK
<1>7. \A k \in Mutex : ~Linked(list[k], t) /\ ~Pending(t, k)
  BY <1>2, IdleThread
<1>8. /\ \A u : Linked(e, u) <=> (Linked(list[m], u) \/ u = t)
      /\ Once(list[m]) /\ ~Linked(list[m], t) => Once(e)
  BY <1>4, EnqueueLinked
<1> HIDE DEF e
<1>9. /\ \A u \in Thread, k \in Mutex : depth[u][k] \in Nat
      /\ \A u \in Thread : on[u] \in Mutex
      /\ \A k \in Mutex : owner[k] # None => owner[k] \in Thread
      /\ timer \subseteq Thread
  BY <1>1, TypesAt DEF TypeOK
<1>10. \A k \in Mutex, u \in Thread :
          Linked(list'[k], u) <=> Linked(list[k], u) \/ (u = t /\ k = m)
  BY <1>5, <1>7, <1>8
<1>11. ASSUME NEW u \in Thread
       PROVE  /\ Waiting(u)' <=> Waiting(u) \/ u = t
              /\ Suspended(u)' <=> Suspended(u) \/ u = t
  BY <1>2, <1>6, <1>9, <1>10 DEF Waiting, Suspended
<1>12. ASSUME NEW u \in Thread, NEW k \in Mutex
       PROVE  Pending(u, k)' <=> Pending(u, k)
  <2>1. CASE u = t
    BY <1>7, <1>11, <2>1 DEF Pending
  <2>2. CASE u # t
    BY <1>2, <1>6, <1>11, <2>2 DEF Pending
  <2> QED
    BY <2>1, <2>2
<1>13. TimerGuardsWait'
  <2>1. \A u \in timer' : Suspended(u)'
    BY <1>3, <1>9, <1>11 DEF HoldInv, TimerGuardsWait
  <2>2. \A k \in Mutex : Once(list'[k])
    BY <1>5, <1>7, <1>8 DEF HoldInv, TimerGuardsWait
  <2> QED
    BY <2>1, <2>2 DEF TimerGuardsWait
<1>14. HoldMatchesOwner' /\ NoIdleMutex'
  <2>1. NoIdleMutex'
    BY <1>2, <1>5 DEF HoldInv, NoIdleMutex
  <2>2. ASSUME NEW k \in Mutex, owner[k] # None
        PROVE  hold'[k] = depth'[owner[k]][k]
                          + IF Pending(owner[k], k)' THEN 1 ELSE 0
    <3>1. /\ owner[k] \in Thread
          /\ hold[k] = depth[owner[k]][k]
                       + IF Pending(owner[k], k) THEN 1 ELSE 0
      BY <1>9, <2>2 DEF HoldInv, HoldMatchesOwner
    <3>2. Pending(owner[k], k)' <=> Pending(owner[k], k)
      BY <1>2, <1>12, <3>1
    <3> QED
      BY <1>2, <3>1, <3>2
  <2> QED
    BY <1>2, <2>1, <2>2 DEF HoldInv, HoldMatchesOwner
<1>15. Undisturbed'
  <2>1. \A u \in Thread :
           /\ pc'[u] # "again"
           /\ error'[u] # "EINTR"
    BY <1>6 DEF HoldInv, Undisturbed
  <2>2. ASSUME NEW k \in Mutex, NEW u \in Thread, Linked(list'[k], u)
        PROVE  Waiting(u)' /\ on'[u] = k /\ owner[k] # u /\ error'[u] = "EOK"
    <3>1. CASE u = t
      BY <1>2, <1>6, <1>7, <1>10, <1>11, <2>2, <3>1
    <3>2. CASE u # t
      BY <1>6, <1>10, <1>11, <2>2, <3>2 DEF HoldInv, Undisturbed
    <3> QED
      BY <3>1, <3>2
  <2> QED
    BY <1>2, <2>1, <2>2 DEF Undisturbed
<1>16. OwnerIsTold'
  <2>1. depth[t][m] = 0
    <3>1. ~(depth[t][m] > 0)
      BY <1>2 DEF HoldInv, OwnerIsTold
    <3> QED
      BY <1>9, <3>1
  <2>2. \A u \in Thread : Waiting(u)' =>
           /\ depth[u][on'[u]] = 0
           /\ ~Linked(list'[on'[u]], u)
                 => (error'[u] = "EOK" <=> owner[on'[u]] = u)
    BY <1>6, <1>9, <1>10, <1>11, <2>1 DEF HoldInv, OwnerIsTold
  <2> QED
    BY <1>2, <2>2 DEF HoldInv, OwnerIsTold
<1> QED
  BY <1>13, <1>14, <1>15, <1>16 DEF HoldInv

(* The owner gives up a mutex nobody waits for. *)
LEMMA ReleaseFreeHolds ==
  ASSUME HoldInv, TypeInv', NEW t \in Thread, NEW m \in Mutex,
         Release(t, m), ReleaseLast(t, m), list[m] = <<>>
  PROVE  HoldInv'
<1>1. TypeOK
  BY DEF HoldInv, TypeInv
<1>2. /\ pc[t] = "idle" /\ owner[m] = t /\ hold[m] = 1 /\ t # None
      /\ depth[t][m] > 0 /\ depth' = [depth EXCEPT ![t][m] = @ - 1]
  BY ThreadAssumption DEF Release, ReleaseLast
<1>3. /\ list' = list /\ timer' = timer /\ pc' = pc /\ on' = on
      /\ error' = error
  BY DEF Release, ReleaseLast, call
<1>4. /\ \A u \in Thread, k \in Mutex : depth[u][k] \in Nat
      /\ \A u \in Thread : on[u] \in Mutex
      /\ \A k \in Mutex : owner[k] # None => owner[k] \in Thread
  BY <1>1, TypesAt
<1>5. depth[t][m] = 1 /\ \A k \in Mutex : ~Linked(list[k], t) /\ ~Pending(t, k)
  BY <1>2, IdleThread
<1>6. \A k \in Mutex : /\ owner'[k] = IF k = m THEN None ELSE owner[k]
                       /\ value'[k] = IF k = m THEN 1 ELSE value[k]
                       /\ hold'[k] = IF k = m THEN 0 ELSE hold[k]
  <2>1. value[m] = 0 /\ (0 + 1) % ValueMod = 1
    BY <1>2, CountsDoNotWrap DEF HoldInv, HoldMatchesOwner
  <2> QED
    BY <1>1, <2>1 DEF ReleaseLast, Free, TypeOK
<1>7. \A u \in Thread, k \in Mutex :
         depth'[u][k] = IF u = t /\ k = m THEN 0 ELSE depth[u][k]
  <2>1. depth[t][m] - 1 = 0
    BY <1>5
  <2>2. \A u \in Thread, k \in Mutex :
           depth'[u][k] = IF u = t /\ k = m THEN depth[u][k] - 1
                          ELSE depth[u][k]
    BY <1>1, <1>2, DepthCounts
  <2> QED
    BY <2>1, <2>2
<1>8. ASSUME NEW u \in Thread, NEW k \in Mutex, k # m
      PROVE  Pending(u, k)' <=> Pending(u, k)
  BY <1>3, <1>6, <1>8 DEF Pending, Suspended, Waiting
<1>9. TimerGuardsWait' /\ NoIdleMutex'
  BY <1>3, <1>6 DEF HoldInv, TimerGuardsWait, Suspended, Waiting, NoIdleMutex
<1>10. HoldMatchesOwner'
  <2> SUFFICES ASSUME NEW k \in Mutex, k # m, owner[k] # None
               PROVE  hold'[k] = depth'[owner[k]][k]
                                 + IF Pending(owner[k], k)' THEN 1 ELSE 0
    BY <1>6 DEF HoldInv, HoldMatchesOwner
  <2>1. /\ owner[k] \in Thread
        /\ hold[k] = depth[owner[k]][k]
                     + IF Pending(owner[k], k) THEN 1 ELSE 0
    BY <1>4 DEF HoldInv, HoldMatchesOwner
  <2>2. Pending(owner[k], k)' <=> Pending(owner[k], k)
    BY <1>6, <1>8, <2>1
  <2> QED
    BY <1>6, <1>7, <2>1, <2>2
<1>11. Undisturbed'
  <2>1. \A u \in Thread : ~Linked(list[m], u)
    BY DEF Linked
  <2> QED
    BY <1>3, <1>6, <2>1 DEF HoldInv, Undisturbed, Waiting
<1>12. OwnerIsTold'
  <2>1. \A k \in Mutex : \A u \in Thread : depth'[u][k] > 0 => owner'[k] = u
    BY <1>2, <1>6, <1>7 DEF HoldInv, OwnerIsTold
  <2>2. \A u \in Thread : pc[u] = "waiting" =>
           /\ depth'[u][on[u]] = 0
           /\ ~Linked(list[on[u]], u)
                 => (error[u] = "EOK" <=> owner'[on[u]] = u)
    BY <1>2, <1>4, <1>6, <1>7, ThreadAssumption
       DEF HoldInv, OwnerIsTold, Waiting
  <2>3. \A k \in Mutex : owner'[k] # None => hold'[k] > 0
    BY <1>6 DEF HoldInv, OwnerIsTold
  <2> QED
    BY <1>3, <2>1, <2>2, <2>3 DEF OwnerIsTold, Waiting
<1> QED
  BY <1>9, <1>10, <1>11, <1>12 DEF HoldInv

(* The owner passes a mutex on to the first thread that waits for it. *)
LEMMA ReleaseHandsOverHolds ==
  ASSUME HoldInv, TypeInv', NEW t \in Thread, NEW m \in Mutex,
         Release(t, m), ReleaseLast(t, m), list[m] # <<>>
  PROVE  HoldInv'
<1> DEFINE zero == [u \in Thread |-> 0]
<1>1. TypeOK
  BY DEF HoldInv, TypeInv
<1>w. PICK w \in Thread : w = FirstWaiter(m)
  <2>1. list[m] \in Seq(Thread)
    BY <1>1 DEF TypeOK
  <2> QED
    BY <2>1 DEF FirstWaiter
<1>2. /\ pc[t] = "idle" /\ owner[m] = t /\ hold[m] = 1 /\ t # None
      /\ depth[t][m] > 0 /\ depth' = [depth EXCEPT ![t][m] = @ - 1]
  BY ThreadAssumption DEF Release, ReleaseLast
<1>3. /\ pc' = pc /\ on' = on /\ error' = error
      /\ value' = value /\ hold' = hold
      /\ timer' = timer \ {w} /\ list' = [list EXCEPT ![m] = Unlink(@, w)]
      /\ owner' = [owner EXCEPT ![m] = w]
  BY <1>w DEF Release, ReleaseLast, Resume, call
<1>4. /\ \A u \in Thread, k \in Mutex : depth[u][k] \in Nat
      /\ \A u \in Thread : on[u] \in Mutex
      /\ \A k \in Mutex : owner[k] # None => owner[k] \in Thread
      /\ timer \subseteq Thread
  BY <1>1, TypesAt DEF TypeOK
<1>5. depth[t][m] = 1 /\ \A k \in Mutex : ~Linked(list[k], t) /\ ~Pending(t, k)
  BY <1>2, IdleThread
<1>6. list[m] \in Seq(Thread) /\ zero \in [Thread -> Nat] /\ Once(list[m])
  BY <1>1 DEF TypeOK, HoldInv, TimerGuardsWait
<1> HIDE DEF zero
<1>7. /\ w \in Thread /\ Linked(list[m], w)
      /\ Once(Unlink(list[m], w))
      /\ \A u : Linked(Unlink(list[m], w), u) <=> (Linked(list[m], u) /\ u # w)
  <2>1. w \in Thread /\ Linked(list[m], w)
    BY <1>w, <1>6, TailProperties DEF FirstWaiter
  <2> QED
    BY <1>6, <2>1, UnlinkProperties
<1>8. /\ pc[w] = "waiting" /\ on[w] = m /\ w # t /\ error[w] = "EOK"
      /\ depth[w][m] = 0 /\ w # None
  BY <1>2, <1>7, ThreadAssumption
     DEF HoldInv, Undisturbed, OwnerIsTold, Waiting
<1>9. \A k \in Mutex : /\ owner'[k] = IF k = m THEN w ELSE owner[k]
                       /\ list'[k] = IF k = m THEN Unlink(list[m], w)
                                     ELSE list[k]
  BY <1>1, <1>3 DEF TypeOK
<1>10. \A k \in Mutex, u \in Thread :
          Linked(list'[k], u) <=> Linked(list[k], u) /\ u # w
  BY <1>7, <1>8, <1>9 DEF HoldInv, Undisturbed
<1>11. \A u \in Thread, k \in Mutex :
          depth'[u][k] = IF u = t /\ k = m THEN 0 ELSE depth[u][k]
  <2>1. depth[t][m] - 1 = 0
    BY <1>5
  <2>2. \A u \in Thread, k \in Mutex :
           depth'[u][k] = IF u = t /\ k = m THEN depth[u][k] - 1
                          ELSE depth[u][k]
    BY <1>1, <1>2, DepthCounts
  <2> QED
    BY <2>1, <2>2
<1>12. ASSUME NEW u \in Thread
       PROVE  /\ Waiting(u)' <=> Waiting(u)
              /\ Suspended(u)' <=> Suspended(u) /\ u # w
  BY <1>3, <1>4, <1>10 DEF Waiting, Suspended
<1>13. ASSUME NEW u \in Thread, NEW k \in Mutex, k # m
       PROVE  Pending(u, k)' <=> Pending(u, k)
  BY <1>3, <1>8, <1>9, <1>12, <1>13 DEF Pending
<1>14. Pending(w, m)'
  <2>1. Waiting(w)'
    BY <1>3, <1>8 DEF Waiting
  <2>2. ~Suspended(w)'
    BY <1>7, <1>12
  <2> QED
    BY <1>3, <1>8, <1>9, <2>1, <2>2 DEF Pending
<1>15. TimerGuardsWait'
  <2>1. \A u \in timer' : Suspended(u)'
    BY <1>3, <1>4, <1>12 DEF HoldInv, TimerGuardsWait
  <2>2. \A k \in Mutex : Once(list'[k])
    BY <1>7, <1>9 DEF HoldInv, TimerGuardsWait
  <2> QED
    BY <2>1, <2>2 DEF TimerGuardsWait
<1>16. HoldMatchesOwner'
  <2>1. value[m] = 0 /\ \A k \in Mutex : owner[k] # None => value[k] = 0
    BY <1>2 DEF HoldInv, HoldMatchesOwner
  <2>2. hold'[m] = depth'[w][m] + IF Pending(w, m)' THEN 1 ELSE 0
    BY <1>2, <1>3, <1>7, <1>8, <1>11, <1>14
  <2>3. ASSUME NEW k \in Mutex, k # m, owner[k] # None
        PROVE  hold'[k] = depth'[owner[k]][k]
                          + IF Pending(owner[k], k)' THEN 1 ELSE 0
    <3>1. /\ owner[k] \in Thread
          /\ hold[k] = depth[owner[k]][k]
                       + IF Pending(owner[k], k) THEN 1 ELSE 0
      BY <1>4, <2>3 DEF HoldInv, HoldMatchesOwner
    <3>2. Pending(owner[k], k)' <=> Pending(owner[k], k)
      BY <1>9, <1>13, <2>3, <3>1
    <3> QED
      BY <1>3, <1>11, <2>3, <3>1, <3>2
  <2> QED
    <3>1. \A k \in Mutex : k # m =>
             IF owner[k] = None THEN value[k] = 1 /\ hold[k] = 0
             ELSE /\ value[k] = 0
                  /\ hold'[k] = depth'[owner[k]][k]
                                + IF Pending(owner[k], k)' THEN 1 ELSE 0
      BY <2>1, <2>3 DEF HoldInv, HoldMatchesOwner
    <3>2. ASSUME NEW k \in Mutex
          PROVE  IF owner'[k] = None THEN value'[k] = 1 /\ hold'[k] = 0
                 ELSE /\ value'[k] = 0
                      /\ hold'[k] = depth'[owner'[k]][k]
                                    + IF Pending(owner[k], k)' THEN 1 ELSE 0
      <4>1. CASE k = m
        BY <1>3, <1>8, <1>9, <2>1, <2>2, <4>1
      <4>2. CASE k # m
        <5>1. owner'[k] = owner[k]
          BY <1>9, <4>2
        <5> QED
          BY <1>3, <3>1, <4>2, <5>1
      <4> QED
        BY <4>1, <4>2
    <3> QED
      BY <3>2 DEF HoldMatchesOwner
<1>17. NoIdleMutex'
  <2>1. value[m] = 0
    BY <1>2 DEF HoldInv, HoldMatchesOwner
  <2> QED
    BY <1>3, <1>9, <2>1 DEF HoldInv, NoIdleMutex
<1>18. Undisturbed'
  <2>1. \A k \in Mutex, u \in Thread :
           Linked(list'[k], u) => /\ Waiting(u) /\ on[u] = k /\ error[u] = "EOK"
                                  /\ owner'[k] # u
    BY <1>9, <1>10 DEF HoldInv, Undisturbed
  <2>2. \A u \in Thread :
           /\ pc[u] # "again"
           /\ error[u] # "EINTR"
    BY DEF HoldInv, Undisturbed
  <2> QED
    BY <1>3, <1>12, <2>1, <2>2 DEF Undisturbed
<1>19. OwnerIsTold'
  <2>1. \A k \in Mutex : \A u \in Thread : depth'[u][k] > 0 => owner'[k] = u
    BY <1>2, <1>9, <1>11 DEF HoldInv, OwnerIsTold
  <2>2. \A u \in Thread : Waiting(u) =>
           /\ depth'[u][on[u]] = 0
           /\ ~Linked(list'[on[u]], u)
                 => (error[u] = "EOK" <=> owner'[on[u]] = u)
    <3> SUFFICES ASSUME NEW u \in Thread, Waiting(u)
                 PROVE  /\ depth'[u][on[u]] = 0
                        /\ ~Linked(list'[on[u]], u)
                              => (error[u] = "EOK" <=> owner'[on[u]] = u)
      OBVIOUS
    <3>1. u # t /\ on[u] \in Mutex /\ depth[u][on[u]] = 0
      BY <1>2, <1>4 DEF HoldInv, OwnerIsTold, Waiting
    <3>2. CASE u = w
      BY <1>8, <1>9, <1>11, <3>1, <3>2
    <3>3. CASE u # w
      BY <1>2, <1>9, <1>10, <1>11, <3>1, <3>3 DEF HoldInv, OwnerIsTold
    <3> QED
      BY <3>2, <3>3
  <2>3. \A k \in Mutex : owner'[k] # None => hold'[k] > 0
    BY <1>2, <1>3, <1>9 DEF HoldInv, OwnerIsTold
  <2> QED
    BY <1>3, <1>12, <2>1, <2>2, <2>3 DEF OwnerIsTold
<1> QED
  BY <1>15, <1>16, <1>17, <1>18, <1>19 DEF HoldInv

------------------------------------------------------------------------------
(* Nobody is at label __again, and a step that is no signal keeps it so. *)
LEMMA NextHoldInv ==
  (kills = 0 => HoldInv) /\ TypeInv /\ [Next]_vars => (kills' = 0 => HoldInv')
<1> SUFFICES ASSUME kills = 0 => HoldInv, TypeInv, [Next]_vars, kills' = 0
             PROVE  HoldInv'
  OBVIOUS
<1>1. TypeInv'
  BY NextTypeInv
<1>2. CASE UNCHANGED vars
  <2>1. HoldInv
    BY <1>2 DEF vars
  <2> QED
    BY <1>1, <1>2, <2>1
       DEF vars, HoldInv, TimerGuardsWait, HoldMatchesOwner, NoIdleMutex,
           Undisturbed, OwnerIsTold, Pending, Suspended, Waiting
<1>3. CASE \E t \in Thread : Signal(t)
  <2>1. kills \in Nat /\ kills' = kills + 1
    BY <1>3, BoundAssumption DEF Signal, TypeInv, TypeOK
  <2> QED
    BY <2>1
<1>4. ASSUME NEW t \in Thread, CallStep(t) \/ DetachStep(t) \/ Timeout(t)
      PROVE  HoldInv'
  <2>1. HoldInv
    BY <1>4 DEF CallStep, DetachStep, Return, AgainDisturbed, AgainTake,
                AgainBlock, ResumeAllTest, ResumeAllTake, Unregister, Timeout
  <2>2. ~(AgainDisturbed(t) \/ AgainTake(t) \/ AgainBlock(t))
    BY <2>1 DEF HoldInv, Undisturbed, AgainDisturbed, AgainTake, AgainBlock
  <2>3. on[t] \in Mutex
    BY DEF TypeInv, TypeOK
  <2> QED
    BY <1>1, <1>4, <2>1, <2>2, <2>3, ReturnHolds, QuietHolds, ResumeAllHolds,
       TimeoutHolds DEF CallStep, DetachStep
<1>5. ASSUME NEW t \in Thread, NEW m \in Mutex,
             TakeStep(t, m) \/ Release(t, m) \/ ReleaseRefused(t, m)
             \/ DetachBegin(t, m)
      PROVE  HoldInv'
  <2>1. HoldInv
    BY <1>5 DEF TakeStep, TakeAgain, TakeFree, TakeFail, TakeBlock, Release,
                ReleaseRefused, DetachBegin
  <2>2. CASE TakeStep(t, m)
    BY <1>1, <2>1, <2>2, TakeAgainHolds, TakeFreeHolds, QuietHolds,
       TakeBlockHolds DEF TakeStep
  <2>3. CASE Release(t, m)
    BY <1>1, <2>1, <2>3, ReleaseNestedHolds, ReleaseFreeHolds,
       ReleaseHandsOverHolds DEF Release
  <2>4. CASE ReleaseRefused(t, m) \/ DetachBegin(t, m)
    BY <1>1, <2>1, <2>4, QuietHolds
  <2> QED
    BY <1>5, <2>2, <2>3, <2>4
<1> QED
  BY <1>2, <1>3, <1>4, <1>5 DEF Next

(* Before the first signal the mutexes, their holders and their waiters    *)
(* agree and nobody waits for a free mutex: rt_mutex_take and              *)
(* rt_mutex_release keep the counts, whatever times out or is detached.    *)
THEOREM HoldersAgreeUntilSignal ==
  Spec => [](kills = 0 => HoldersAgree /\ NoIdleMutex)
<1> DEFINE IInv == TypeInv /\ (kills = 0 => HoldInv)
<1>1. Init => IInv
  BY InitTypeInv, InitHoldInv
<1>2. IInv /\ [Next]_vars => IInv'
  BY NextTypeInv, NextHoldInv
<1>3. IInv => (kills = 0 => HoldersAgree /\ NoIdleMutex)
  BY HoldInvAgrees
<1> QED
  BY <1>1, <1>2, <1>3, PTL DEF Spec

(* With no signals at all, that is the whole run. *)
THEOREM HoldersAlwaysAgree ==
  ASSUME MaxKills = 0
  PROVE  Spec => [](HoldersAgree /\ NoIdleMutex)
<1>1. TypeInv => kills = 0
  BY DEF TypeInv, TypeOK
<1> QED
  BY <1>1, AlwaysTypeInv, HoldersAgreeUntilSignal, PTL

(* A step before the first signal is a step of the recursive lock.         *)
LEMMA StepIsLockStep ==
  ASSUME TypeInv, kills = 0 => HoldInv, [Next]_vars, kills = 0
  PROVE  [Lock!Next]_depth
<1>1. HoldInv /\ TypeOK
  BY DEF TypeInv
<1>2. \A u \in Thread, k \in Mutex :
         depth[u][k] \in Nat /\ (owner[k] # u => depth[u][k] = 0)
  <2>1. \A u \in Thread, k \in Mutex : depth[u][k] \in Nat
    BY <1>1, TypesAt
  <2>2. \A u \in Thread, k \in Mutex : owner[k] # u => ~(depth[u][k] > 0)
    BY <1>1 DEF HoldInv, OwnerIsTold
  <2> QED
    BY <2>1, <2>2
<1>3. ASSUME NEW t \in Thread, NEW m \in Mutex,
             depth' = [depth EXCEPT ![t][m] = @ + 1],
             owner[m] = t \/ owner[m] = None
      PROVE  Lock!Next
  <2>1. \A u \in Thread \ {t} : depth[u][m] = 0
    BY <1>2, <1>3, ThreadAssumption
  <2> QED
    BY <1>3, <2>1 DEF Lock!Next, Lock!Take
<1>4. CASE UNCHANGED vars
  BY <1>4 DEF vars
<1>5. ASSUME NEW t \in Thread, NEW m \in Mutex, TakeStep(t, m)
      PROVE  [Lock!Next]_depth
  <2>1. TakeFree(t, m) => owner[m] = None
    BY <1>1 DEF HoldInv, HoldMatchesOwner, TakeFree
  <2> QED
    BY <1>3, <1>5, <2>1
       DEF TakeStep, TakeAgain, TakeFree, Acquire, TakeFail, TakeBlock
<1>6. ASSUME NEW t \in Thread, NEW m \in Mutex, Release(t, m)
      PROVE  Lock!Next
  BY <1>6 DEF Release, Lock!Next, Lock!Release
<1>7. ASSUME NEW t \in Thread, Return(t) PROVE [Lock!Next]_depth
  <2>1. on[t] \in Mutex
    BY <1>1, TypesAt
  <2>2. error[t] = "EOK" => owner[on[t]] = t
    BY <1>1, <1>7, <2>1 DEF HoldInv, OwnerIsTold, Return, Suspended
  <2> QED
    BY <1>3, <1>7, <2>1, <2>2 DEF Return
<1>8. ASSUME NEW t \in Thread
      PROVE  ~(AgainDisturbed(t) \/ AgainTake(t) \/ AgainBlock(t))
  BY <1>1 DEF HoldInv, Undisturbed, AgainDisturbed, AgainTake, AgainBlock
<1>9. ASSUME NEW t \in Thread, NEW m \in Mutex,
             ReleaseRefused(t, m) \/ DetachBegin(t, m)
      PROVE  depth' = depth
  BY <1>9 DEF ReleaseRefused, DetachBegin
<1>10. ASSUME NEW t \in Thread, DetachStep(t) \/ Timeout(t) \/ Signal(t)
       PROVE  depth' = depth
  BY <1>10 DEF DetachStep, ResumeAllTest, ResumeAllTake, Unregister, Timeout,
               Signal
<1> QED
  BY <1>4, <1>5, <1>6, <1>7, <1>8, <1>9, <1>10 DEF Next, CallStep

(* Without signals, what rt_mutex_take and rt_mutex_release tell their     *)
(* callers is a recursive lock, with the wait list, the hand-over, the     *)
(* timers and the detach hidden.                                           *)
THEOREM MutexImplementsLock ==
  ASSUME MaxKills = 0
  PROVE  Spec => ImplementsLock
<1> DEFINE IInv == TypeInv /\ (kills = 0 => HoldInv)
<1>1. Init => IInv
  BY InitTypeInv, InitHoldInv
<1>2. IInv /\ [Next]_vars => IInv'
  BY NextTypeInv, NextHoldInv
<1>3. Init => Lock!Init
  BY DEF Init, Lock!Init
<1>4. IInv /\ [Next]_vars => [Lock!Next]_depth
  <2>1. TypeInv => kills = 0
    BY DEF TypeInv, TypeOK
  <2> QED
    BY <2>1, StepIsLockStep
<1> QED
  BY <1>1, <1>2, <1>3, <1>4, PTL DEF Spec, ImplementsLock, Lock!Spec

------------------------------------------------------------------------------
(* An owner only gains urgency from who waits. *)
LEMMA BoostOnlyRaises ==
  ASSUME TypeOK, NEW t \in Thread, NEW m \in Mutex, NEW u \in Thread
  PROVE  ~(Boosted(t, owner[m])[u] > prio[u])
<1>1. prio[t] \in Nat /\ prio[u] \in Nat
  BY DEF TypeOK
<1>2. Boosted(t, owner[m])[u] = prio[u]
      \/ (Boosted(t, owner[m])[u] = prio[t] /\ prio[t] < prio[u])
  BY DEF Boosted, TypeOK
<1> QED
  BY <1>1, <1>2

(* A step that lowers the priority of a thread is the release by which it  *)
(* gives a mutex up.                                                       *)
LEMMA StepLowersOwn ==
  ASSUME TypeInv, kills = 0 => HoldInv, [Next]_vars, kills = 0,
         NEW t \in Thread, prio'[t] > prio[t]
  PROVE  \E m \in Mutex : owner[m] = t /\ owner'[m] # t
<1>1. HoldInv /\ TypeOK /\ prio[t] \in Nat
  BY DEF TypeInv, TypeOK
<1>2. prio' # prio
  BY <1>1
<1>3. ASSUME NEW u \in Thread, NEW m \in Mutex, NEW finite \in BOOLEAN,
             TakeBlock(u, m, finite)
      PROVE  FALSE
  <2>1. prio' = Boosted(u, owner[m])
    BY <1>3 DEF TakeBlock, Block
  <2> QED
    BY <1>1, <2>1, BoostOnlyRaises
<1>4. ASSUME NEW u \in Thread, AgainBlock(u) PROVE FALSE
  BY <1>1, <1>4 DEF HoldInv, Undisturbed, AgainBlock
<1>5. PICK u \in Thread, m \in Mutex : Release(u, m)
  BY <1>2, <1>3, <1>4
     DEF Next, vars, TakeStep, TakeAgain, TakeFree, TakeFail, CallStep, Return,
         AgainDisturbed, AgainTake, ReleaseRefused, DetachBegin, DetachStep,
         ResumeAllTest, ResumeAllTake, Unregister, Timeout, Signal
<1>6. ReleaseLast(u, m) /\ owner[m] = u /\ pc[u] = "idle"
  BY <1>2, <1>5 DEF Release, ReleaseNested
<1>7. t = u
  <2>1. prio' = [prio EXCEPT ![u] = orig[m]]
    BY <1>6 DEF ReleaseLast, Restored
  <2> QED
    BY <1>1, <2>1 DEF TypeOK
<1>8. owner'[m] # u
  <2>1. \A k \in Mutex : ~Linked(list[k], u)
    BY <1>1, <1>6, IdleThread
  <2>2. list[m] \in Seq(Thread)
    BY <1>1, TypesAt
  <2>3. CASE list[m] = <<>>
    BY <1>1, <1>6, <2>3, ThreadAssumption DEF ReleaseLast, Free, TypeOK
  <2>4. CASE list[m] # <<>>
    <3>1. Linked(list[m], FirstWaiter(m))
      BY <2>2, <2>4 DEF Linked, FirstWaiter
    <3>2. owner' = [owner EXCEPT ![m] = FirstWaiter(m)]
      BY <1>6, <2>4 DEF ReleaseLast
    <3> QED
      BY <1>1, <2>1, <3>1, <3>2 DEF TypeOK
  <2> QED
    BY <2>3, <2>4
<1> QED
  BY <1>6, <1>7, <1>8

(* Without signals no waiter, timer or detach takes away an urgency that   *)
(* a thread has or was lent: it goes when the thread gives a mutex up.     *)
THEOREM OnlyReleaseLowers ==
  ASSUME MaxKills = 0
  PROVE  Spec => OnlyOwnReleaseLowers
<1> DEFINE IInv == TypeInv /\ (kills = 0 => HoldInv)
<1>1. Init => IInv
  BY InitTypeInv, InitHoldInv
<1>2. IInv /\ [Next]_vars => IInv'
  BY NextTypeInv, NextHoldInv
<1>3. IInv /\ [Next]_vars
        => [\A t \in Thread :
              prio'[t] > prio[t] =>
                \E m \in Mutex : owner[m] = t /\ owner'[m] # t]_vars
  <2>1. TypeInv => kills = 0
    BY DEF TypeInv, TypeOK
  <2> QED
    BY <2>1, StepLowersOwn
<1> QED
  BY <1>1, <1>2, <1>3, PTL DEF Spec, OnlyOwnReleaseLowers

------------------------------------------------------------------------------
(* Priority inheritance, when the callers do not nest and the lists are    *)
(* kept by priority.  A thread has one mutex at most, and while it is      *)
(* inside rt_mutex_take that is the one it was resumed for.                *)
OneEach ==
    /\ \A m, k \in Mutex : owner[m] # None /\ owner[m] = owner[k] => m = k
    /\ \A t \in Thread : Waiting(t) =>
          \A m \in Mutex : owner[m] = t => m = on[t]

(* A mutex has saved the priority its owner has of its own, and the owner  *)
(* runs at that or at a more urgent one.                                   *)
OwnPrioritySaved ==
    \A m \in Mutex : \A t \in Thread :
       owner[m] = t => orig[m] = Base[t] /\ prio[t] <= Base[t]

(* The inductive invariant of the inheritance, beside HoldInv. *)
InheritInv ==
    /\ OneEach
    /\ OwnPrioritySaved
    /\ NoInversion
    /\ PriorityRestored
    /\ MostUrgentFirst

(* The initial states satisfy it. *)
LEMMA InitInheritInv == Init => InheritInv
<1> SUFFICES ASSUME Init PROVE InheritInv
  OBVIOUS
<1>1. /\ \A m \in Mutex : /\ list[m] = <<>> /\ Len(list[m]) = 0
                           /\ owner[m] = None
      /\ \A t \in Thread : t # None
      /\ prio = Base
  BY ThreadAssumption DEF Init
<1>2. OneEach /\ OwnPrioritySaved /\ NoInversion /\ PriorityRestored
  BY <1>1 DEF OneEach, OwnPrioritySaved, NoInversion, PriorityRestored, Linked
<1>3. MostUrgentFirst
  BY <1>1 DEF MostUrgentFirst, Sorted
<1> QED
  BY <1>2, <1>3 DEF InheritInv

(* Who waits for a mutex has none. *)
LEMMA WaiterOwnsNothing ==
  ASSUME HoldInv, OneEach, NEW w \in Thread, NEW m \in Mutex,
         Linked(list[m], w), NEW k \in Mutex
  PROVE  owner[k] # w
BY DEF HoldInv, Undisturbed, OneEach

(* The priority a thread has of its own is a number. *)
LEMMA BaseNumbers == \A u \in Thread : Base[u] \in Nat
BY BaseAssumption

(* A priority, current or saved, is a number. *)
LEMMA PrioritiesAreNumbers ==
  ASSUME TypeOK
  PROVE  prio \in [Thread -> Nat] /\ \A m \in Mutex : orig[m] \in Nat
<1>1. 0..(NoPriority - 1) \subseteq Nat /\ 0..NoPriority \subseteq Nat
  BY DEF NoPriority
<1>2. /\ prio \in [Thread -> 0..(NoPriority - 1)]
      /\ orig \in [Mutex -> 0..NoPriority]
  BY DEF TypeOK
<1> QED
  BY <1>1, <1>2

(* Neither has a thread that may take one, if takes do not nest. *)
LEMMA TakerOwnsNothing ==
  ASSUME Nesting = {}, HoldInv, NEW t \in Thread, NEW m \in Mutex,
         MayTake(t, m), owner[m] # t, NEW k \in Mutex
  PROVE  owner[k] # t
<1>1. depth[t][k] \in Nat
  BY TypesAt DEF HoldInv, TypeInv
<1>2. k # m => ~(depth[t][k] > 0)
  BY DEF MayTake
<1>3. owner[k] = t => hold[k] = depth[t][k] /\ hold[k] > 0
  BY IdleThread, ThreadAssumption DEF MayTake, HoldInv, OwnerIsTold
<1> QED
  BY <1>1, <1>2, <1>3

(* A list stays in order when the priorities of its members do not change. *)
LEMMA SortedFrame ==
  ASSUME NEW s, NEW p, NEW q, \A u : Linked(s, u) => p[u] = q[u],
         Sorted(s, p)
  PROVE  Sorted(s, q)
<1> SUFFICES ASSUME NEW i \in 1..Len(s), NEW j \in 1..Len(s), i < j
             PROVE  q[s[i]] <= q[s[j]]
  BY DEF Sorted
<1>1. Linked(s, s[i]) /\ Linked(s, s[j])
  BY DEF Linked
<1>2. p[s[i]] <= p[s[j]]
  BY DEF Sorted
<1> QED
  BY <1>1, <1>2

(* A step that changes no owner and no priority, and at most takes threads *)
(* out of lists, keeps the inheritance.                                    *)
LEMMA PassiveStep ==
  ASSUME InheritInv, kills = 0,
         owner' = owner, orig' = orig, prio' = prio,
         \A t \in Thread : Waiting(t)' => Waiting(t) /\ on'[t] = on[t],
         \A m \in Mutex, t \in Thread :
            Linked(list'[m], t) => Linked(list[m], t),
         \A m \in Mutex : Sorted(list[m], prio) => Sorted(list'[m], prio)
  PROVE  InheritInv'
<1>1. OneEach'
  BY DEF InheritInv, OneEach
<1>2. OwnPrioritySaved' /\ PriorityRestored'
  BY DEF InheritInv, OwnPrioritySaved, PriorityRestored
<1>3. NoInversion'
  BY DEF InheritInv, NoInversion
<1>4. MostUrgentFirst'
  BY DEF InheritInv, MostUrgentFirst
<1> QED
  BY <1>1, <1>2, <1>3, <1>4 DEF InheritInv

(* A thread that gets a free mutex saves its own priority. *)
LEMMA TakeFreeInherits ==
  ASSUME Nesting = {}, HoldInv, InheritInv, kills = 0,
         NEW t \in Thread, NEW m \in Mutex, TakeFree(t, m)
  PROVE  InheritInv'
<1>1. TypeOK
  BY DEF HoldInv, TypeInv
<1>2. /\ pc[t] = "idle" /\ value[m] > 0 /\ owner[m] # t /\ t # None
      /\ list' = list /\ prio' = prio /\ pc' = pc /\ on' = on
  BY ThreadAssumption DEF TakeFree, MayTake, call
<1>3. /\ \A k \in Mutex : owner[k] # t
      /\ \A k \in Mutex : ~Linked(list[k], t)
  BY <1>2, TakerOwnsNothing, IdleThread DEF TakeFree
<1>4. prio[t] = Base[t]
  BY <1>3 DEF InheritInv, PriorityRestored
<1>5. \A k \in Mutex : /\ owner'[k] = IF k = m THEN t ELSE owner[k]
                       /\ orig'[k] = IF k = m THEN Base[t] ELSE orig[k]
  BY <1>1, <1>4 DEF TakeFree, Acquire, TypeOK
<1>6. list[m] = <<>> /\ owner[m] = None
  BY <1>2 DEF HoldInv, NoIdleMutex, HoldMatchesOwner
<1>7. OneEach'
  BY <1>2, <1>3, <1>5 DEF InheritInv, OneEach, Waiting
<1>8. OwnPrioritySaved'
  <2>1. prio[t] <= Base[t]
    BY <1>1, <1>4 DEF TypeOK
  <2> QED
    BY <1>2, <1>5, <2>1 DEF InheritInv, OwnPrioritySaved
<1>9. PriorityRestored'
  BY <1>2, <1>5, <1>6, ThreadAssumption DEF InheritInv, PriorityRestored
<1>10. NoInversion'
  <2>1. \A u : ~Linked(list[m], u)
    BY <1>6 DEF Linked
  <2> QED
    BY <1>2, <1>5, <2>1 DEF InheritInv, NoInversion
<1>11. MostUrgentFirst'
  BY <1>2 DEF InheritInv, MostUrgentFirst
<1> QED
  BY <1>7, <1>8, <1>9, <1>10, <1>11 DEF InheritInv

(* A thread that has to wait lends its priority to the owner, which stands *)
(* on no list, and takes its own place among the waiters.                  *)
LEMMA TakeBlockInherits ==
  ASSUME Nesting = {}, Flag = PRIO, HoldInv, InheritInv, kills = 0,
         NEW t \in Thread, NEW m \in Mutex, NEW finite \in BOOLEAN,
         TakeBlock(t, m, finite)
  PROVE  InheritInv'
<1>1. TypeOK
  BY DEF HoldInv, TypeInv
<1>2. /\ pc[t] = "idle" /\ value[m] = 0 /\ owner[m] # t /\ MayTake(t, m)
      /\ owner' = owner /\ orig' = orig
  BY DEF TakeBlock, MayTake
<1>3. \A k \in Mutex : owner[k] # t /\ ~Linked(list[k], t)
  BY <1>2, TakerOwnsNothing, IdleThread
<1>4. PICK o \in Thread : o = owner[m]
  BY <1>1, <1>2, TypesAt DEF HoldInv, HoldMatchesOwner
<1>5. PICK b \in [Thread -> Nat] : b = Boosted(t, owner[m])
  BY <1>1, BoostedTypes
<1>6. /\ prio' = b
      /\ list' = [list EXCEPT ![m] = Enqueue(@, t, PRIO, b)]
      /\ pc' = [pc EXCEPT ![t] = "waiting"] /\ on' = [on EXCEPT ![t] = m]
  BY <1>5 DEF TakeBlock, Block
<1>7. /\ \A u \in Thread : prio[u] \in Nat /\ b[u] \in Nat
      /\ list[m] \in Seq(Thread)
  BY <1>1 DEF TypeOK
<1>8. /\ \A u \in Thread : u # o => b[u] = prio[u]
      /\ b[o] <= prio[o] /\ b[o] <= prio[t] /\ b[t] = prio[t] /\ o # t
  <2>1. o # None /\ o # t
    BY <1>2, <1>4, ThreadAssumption
  <2>2. CASE prio[t] < prio[o]
    <3>1. b = [prio EXCEPT ![o] = prio[t]]
      BY <1>4, <1>5, <2>1, <2>2 DEF Boosted
    <3> QED
      BY <1>1, <1>7, <2>1, <2>2, <3>1 DEF TypeOK
  <2>3. CASE ~(prio[t] < prio[o])
    <3>1. b = prio
      BY <1>4, <1>5, <2>1, <2>3 DEF Boosted
    <3> QED
      BY <1>7, <2>1, <2>3, <3>1
  <2> QED
    BY <2>2, <2>3
<1>9. \A u \in Thread : /\ pc'[u] = IF u = t THEN "waiting" ELSE pc[u]
                        /\ on'[u] = IF u = t THEN m ELSE on[u]
  BY <1>1, <1>6 DEF TypeOK
<1>10. PICK e \in Seq(Thread) : e = Enqueue(list[m], t, PRIO, b)
  BY <1>7, EnqueueElements
<1>11. \A k \in Mutex : list'[k] = IF k = m THEN e ELSE list[k]
  BY <1>1, <1>6, <1>10 DEF TypeOK
<1>12. \A u : Linked(e, u) <=> (Linked(list[m], u) \/ u = t)
  BY <1>7, <1>10, EnqueueLinked
<1>13. \A k \in Mutex, u \in Thread :
          Linked(list[k], u) => u # o /\ b[u] = prio[u]
  BY <1>4, <1>8, WaiterOwnsNothing DEF InheritInv
<1>14. OneEach'
  BY <1>2, <1>3, <1>9 DEF InheritInv, OneEach, Waiting
<1>15. OwnPrioritySaved'
  <2> SUFFICES ASSUME NEW k \in Mutex, NEW u \in Thread, owner[k] = u
               PROVE  orig[k] = Base[u] /\ b[u] <= Base[u]
    BY <1>2, <1>6 DEF OwnPrioritySaved
  <2>1. orig[k] = Base[u] /\ prio[u] <= Base[u]
    BY DEF InheritInv, OwnPrioritySaved
  <2>2. b[u] <= prio[u]
    BY <1>7, <1>8
  <2>3. Base[u] \in Nat
    BY BaseNumbers
  <2> QED
    BY <1>7, <2>1, <2>2, <2>3
<1>16. PriorityRestored'
  BY <1>2, <1>4, <1>6, <1>8 DEF InheritInv, PriorityRestored
<1>17. NoInversion'
  <2> SUFFICES ASSUME NEW k \in Mutex, NEW w \in Thread,
                      Linked(list'[k], w), owner[k] # None
               PROVE  b[owner[k]] <= b[w]
    BY <1>2, <1>6 DEF NoInversion
  <2>1. owner[k] \in Thread
    BY <1>1, TypesAt
  <2>2. CASE Linked(list[k], w)
    <3>1. prio[owner[k]] <= prio[w] /\ b[w] = prio[w]
      BY <1>13, <2>2 DEF InheritInv, NoInversion
    <3>2. b[owner[k]] <= prio[owner[k]]
      BY <1>7, <1>8, <2>1
    <3> QED
      BY <1>7, <2>1, <3>1, <3>2
  <2>3. CASE ~Linked(list[k], w)
    <3>1. k = m /\ w = t
      BY <1>11, <1>12, <2>3
    <3> QED
      BY <1>4, <1>8, <3>1
  <2> QED
    BY <2>2, <2>3
<1>18. MostUrgentFirst'
  <2>1. \A k \in Mutex : Sorted(list[k], b)
    <3> TAKE k \in Mutex
    <3>1. Sorted(list[k], prio)
      BY DEF InheritInv, MostUrgentFirst
    <3>2. \A u : Linked(list[k], u) => prio[u] = b[u]
      BY <1>1, <1>13, TypesAt, ElementOfSeq DEF Linked
    <3> QED
      BY <3>1, <3>2, SortedFrame
  <2>2. Sorted(e, b)
    BY <1>7, <1>10, <2>1, EnqueueSorted
  <2> QED
    BY <1>6, <1>11, <2>1, <2>2 DEF MostUrgentFirst
<1> QED
  BY <1>14, <1>15, <1>16, <1>17, <1>18 DEF InheritInv

(* The release for good takes back what the owner was lent, and makes the  *)
(* most urgent of the waiters the owner.                                   *)
LEMMA ReleaseInherits ==
  ASSUME Flag = PRIO, HoldInv, InheritInv, kills = 0,
         NEW t \in Thread, NEW m \in Mutex, Release(t, m), ReleaseLast(t, m)
  PROVE  InheritInv'
<1>1. TypeOK
  BY DEF HoldInv, TypeInv
<1>2. /\ pc[t] = "idle" /\ owner[m] = t /\ t # None
      /\ pc' = pc /\ on' = on
  BY ThreadAssumption DEF Release, ReleaseLast, call
<1>3. /\ \A k \in Mutex : ~Linked(list[k], t)
      /\ \A k \in Mutex : owner[k] = t <=> k = m
  BY <1>2, IdleThread DEF InheritInv, OneEach
<1>4. \A u \in Thread : prio'[u] = IF u = t THEN Base[t] ELSE prio[u]
  <2>1. orig[m] = Base[t]
    BY <1>2 DEF InheritInv, OwnPrioritySaved
  <2> QED
    BY <1>1, <2>1 DEF ReleaseLast, Restored, TypeOK
<1>5. \A k \in Mutex : Sorted(list[k], prio) /\ Sorted(list[k], prio')
  <2> TAKE k \in Mutex
  <2>1. Sorted(list[k], prio)
    BY DEF InheritInv, MostUrgentFirst
  <2>2. \A u : Linked(list[k], u) => prio[u] = prio'[u]
    BY <1>1, <1>3, <1>4, TypesAt, ElementOfSeq DEF Linked
  <2> QED
    BY <2>1, <2>2, SortedFrame
<1>6. CASE list[m] = <<>>
  <2>1. /\ list' = list
        /\ \A k \in Mutex :
              /\ owner'[k] = IF k = m THEN None ELSE owner[k]
              /\ orig'[k] = IF k = m THEN NoPriority ELSE orig[k]
    BY <1>1, <1>6 DEF ReleaseLast, Free, TypeOK
  <2>2. OneEach'
    BY <1>2, <2>1, ThreadAssumption DEF InheritInv, OneEach, Waiting
  <2>3. OwnPrioritySaved'
    BY <1>3, <1>4, <2>1, ThreadAssumption DEF InheritInv, OwnPrioritySaved
  <2>4. PriorityRestored'
    BY <1>2, <1>4, <2>1 DEF InheritInv, PriorityRestored
  <2>5. NoInversion'
    <3> SUFFICES ASSUME NEW k \in Mutex, NEW w \in Thread,
                        Linked(list[k], w), owner'[k] # None
                 PROVE  prio'[owner'[k]] <= prio'[w]
      BY <2>1 DEF NoInversion
    <3>1. /\ k # m /\ owner'[k] = owner[k] /\ owner[k] # t
          /\ owner[k] \in Thread
      BY <1>1, <1>3, <2>1, TypesAt
    <3>2. w # t
      BY <1>3
    <3> QED
      BY <1>4, <3>1, <3>2 DEF InheritInv, NoInversion
  <2>6. MostUrgentFirst'
    BY <1>5, <2>1 DEF MostUrgentFirst
  <2> QED
    BY <2>2, <2>3, <2>4, <2>5, <2>6 DEF InheritInv
<1>7. CASE list[m] # <<>>
  <2>0. list[m] \in Seq(Thread) /\ Once(list[m])
    BY <1>1 DEF TypeOK, HoldInv, TimerGuardsWait
  <2>1. PICK w \in Thread : w = FirstWaiter(m)
    BY <1>7, <2>0 DEF FirstWaiter
  <2>2. /\ Linked(list[m], w)
        /\ \A u : Linked(list[m], u) => prio[w] <= prio[u]
    <3>1. Len(list[m]) > 0 /\ w = list[m][1]
      BY <1>7, <2>0, <2>1 DEF FirstWaiter
    <3>2. \A i \in 1..Len(list[m]) : prio[list[m][1]] <= prio[list[m][i]]
      <4>1. \A i \in 1..Len(list[m]) : list[m][i] \in Thread
        BY <2>0
      <4>2. prio[list[m][1]] \in Nat
        BY <1>1, <2>1, <3>1 DEF TypeOK
      <4>3. Len(list[m]) \in Nat
        BY <2>0
      <4> QED
        BY <1>5, <3>1, <4>2, <4>3 DEF Sorted
    <3> QED
      BY <2>0, <3>1, <3>2 DEF Linked
  <2>3. /\ on[w] = m /\ Waiting(w) /\ w # t /\ w # None
        /\ \A k \in Mutex : owner[k] # w
    BY <1>3, <2>2, WaiterOwnsNothing, ThreadAssumption
       DEF HoldInv, Undisturbed, InheritInv
  <2>4. prio[w] = Base[w] /\ prio'[w] = Base[w]
    BY <1>4, <2>3 DEF InheritInv, PriorityRestored
  <2>5. \A k \in Mutex :
           /\ owner'[k] = IF k = m THEN w ELSE owner[k]
           /\ orig'[k] = IF k = m THEN Base[w] ELSE orig[k]
           /\ list'[k] = IF k = m THEN Unlink(list[m], w) ELSE list[k]
    BY <1>1, <1>7, <2>1, <2>4 DEF ReleaseLast, Resume, TypeOK
  <2>6. /\ \A u : Linked(Unlink(list[m], w), u) <=> Linked(list[m], u) /\ u # w
        /\ Sorted(Unlink(list[m], w), prio')
    <3>1. PICK p \in [Thread -> Nat] : p = prio'
      <4>1. prio' \in [Thread -> Nat]
        <5>1. prio' = [prio EXCEPT ![t] = orig[m]]
          BY DEF ReleaseLast, Restored
        <5>2. prio \in [Thread -> Nat] /\ orig[m] \in Nat
          BY <1>1, PrioritiesAreNumbers
        <5> QED
          BY <5>1, <5>2
      <4> QED
        BY <4>1
    <3> QED
      BY <1>5, <2>0, <3>1, UnlinkProperties
  <2>7. OneEach'
    BY <1>2, <2>3, <2>5 DEF InheritInv, OneEach, Waiting
  <2>8. OwnPrioritySaved'
    <3>1. prio'[w] <= Base[w]
      BY <2>4, BaseAssumption
    <3> QED
      BY <1>3, <1>4, <2>5, <3>1 DEF InheritInv, OwnPrioritySaved
  <2>9. PriorityRestored'
    BY <1>2, <1>4, <2>5 DEF InheritInv, PriorityRestored
  <2>10. NoInversion'
    <3> SUFFICES ASSUME NEW k \in Mutex, NEW u \in Thread,
                        Linked(list'[k], u), owner'[k] # None
                 PROVE  prio'[owner'[k]] <= prio'[u]
      BY DEF NoInversion
    <3>1. CASE k = m
      <4>1. Linked(list[m], u) /\ u # t /\ owner'[k] = w
        BY <1>3, <2>5, <2>6, <3>1
      <4> QED
        BY <1>4, <2>2, <2>3, <4>1
    <3>2. CASE k # m
      <4>1. /\ Linked(list[k], u) /\ u # t /\ owner'[k] = owner[k]
            /\ owner[k] # t /\ owner[k] \in Thread
        BY <1>1, <1>3, <2>5, <3>2, TypesAt
      <4> QED
        BY <1>4, <4>1 DEF InheritInv, NoInversion
    <3> QED
      BY <3>1, <3>2
  <2>11. MostUrgentFirst'
    BY <1>5, <2>5, <2>6 DEF MostUrgentFirst
  <2> QED
    BY <2>7, <2>8, <2>9, <2>10, <2>11 DEF InheritInv
<1> QED
  BY <1>6, <1>7

(* What only wakes waiters, or only changes counts, is passive. *)
LEMMA WakingInherits ==
  ASSUME HoldInv, InheritInv, kills = 0,
         NEW t \in Thread, Timeout(t) \/ ResumeAllTake(t)
  PROVE  InheritInv'
<1>1. TypeOK
  BY DEF HoldInv, TypeInv
<1>2. PICK m \in Mutex : m = on[t]
  BY <1>1, TypesAt
<1>3. /\ list[m] \in Seq(Thread) /\ Once(list[m])
      /\ prio \in [Thread -> Nat]
  BY <1>1, PrioritiesAreNumbers DEF TypeOK, HoldInv, TimerGuardsWait
<1>4. PICK s : /\ \A k \in Mutex : list'[k] = IF k = m THEN s ELSE list[k]
               /\ s = Unlink(list[m], t) \/ s = list[m]
                  \/ (list[m] # <<>> /\ s = Tail(list[m]))
  <2>1. CASE Timeout(t)
    BY <1>1, <1>2, <2>1 DEF Timeout, TypeOK
  <2>2. CASE ResumeAllTake(t)
    BY <1>1, <1>2, <2>2 DEF ResumeAllTake, TypeOK
  <2> QED
    BY <2>1, <2>2
<1>5. /\ \A u : Linked(s, u) => Linked(list[m], u)
      /\ Sorted(list[m], prio) => Sorted(s, prio)
  <2>1. CASE s = Unlink(list[m], t)
    BY <1>3, <2>1, UnlinkProperties
  <2>2. CASE list[m] # <<>> /\ s = Tail(list[m])
    BY <1>3, <2>2, TailProperties
  <2> QED
    BY <1>4, <2>1, <2>2
<1>6. /\ owner' = owner /\ orig' = orig /\ prio' = prio
      /\ \A u \in Thread : Waiting(u)' => Waiting(u) /\ on'[u] = on[u]
  BY <1>1 DEF Timeout, ResumeAllTake, Waiting, call, TypeOK
<1> QED
  BY <1>4, <1>5, <1>6, PassiveStep

(* So is what changes no list. *)
LEMMA CountingInherits ==
  ASSUME HoldInv, InheritInv, kills = 0,
         NEW t \in Thread, NEW m \in Mutex,
         \/ TakeAgain(t, m) \/ TakeFail(t, m)
         \/ Release(t, m) /\ ReleaseNested(t, m)
         \/ ReleaseRefused(t, m) \/ DetachBegin(t, m) \/ Return(t)
         \/ ResumeAllTest(t) \/ Unregister(t)
  PROVE  InheritInv'
<1>1. TypeOK
  BY DEF HoldInv, TypeInv
<1>2. owner' = owner /\ orig' = orig /\ prio' = prio /\ list' = list
  BY DEF TakeAgain, TakeFail, Release, ReleaseNested, ReleaseRefused,
         DetachBegin, Return, ResumeAllTest, Unregister, object
<1>3. \A u \in Thread : Waiting(u)' => Waiting(u) /\ on'[u] = on[u]
  <2>1. CASE pc' = pc /\ on' = on
    BY <2>1 DEF Waiting
  <2>2. CASE DetachBegin(t, m)
    BY <1>1, <2>2 DEF DetachBegin, Waiting, TypeOK
  <2>3. CASE Return(t)
    BY <1>1, <2>3 DEF Return, Waiting, TypeOK
  <2>4. CASE ResumeAllTest(t) \/ Unregister(t)
    BY <1>1, <2>4 DEF ResumeAllTest, Unregister, Waiting, TypeOK
  <2> QED
    BY <2>1, <2>2, <2>3, <2>4
       DEF TakeAgain, TakeFail, Release, ReleaseRefused, call
<1> QED
  BY <1>2, <1>3, PassiveStep

(* Every step before the first signal keeps the inheritance. *)
LEMMA NextInheritInv ==
  ASSUME Nesting = {}, Flag = PRIO, HoldInv, InheritInv, kills = 0,
         [Next]_vars, kills' = 0
  PROVE  InheritInv'
<1>1. CASE UNCHANGED vars
  BY <1>1 DEF vars, InheritInv, OneEach, OwnPrioritySaved, NoInversion,
              PriorityRestored, MostUrgentFirst, Waiting
<1>2. ASSUME NEW t \in Thread
      PROVE  ~(AgainDisturbed(t) \/ AgainTake(t) \/ AgainBlock(t))
  BY DEF HoldInv, Undisturbed, AgainDisturbed, AgainTake, AgainBlock
<1>3. ASSUME NEW t \in Thread, Signal(t) PROVE FALSE
  <2>1. kills' = kills + 1
    BY <1>3 DEF Signal
  <2> QED
    BY <2>1
<1>4. ASSUME NEW t \in Thread, NEW m \in Mutex,
             \/ TakeStep(t, m) \/ Release(t, m) \/ ReleaseRefused(t, m)
             \/ DetachBegin(t, m) \/ CallStep(t) \/ DetachStep(t) \/ Timeout(t)
      PROVE  InheritInv'
  <2>1. CASE TakeFree(t, m)
    BY <2>1, TakeFreeInherits
  <2>2. CASE \E finite \in BOOLEAN : TakeBlock(t, m, finite)
    BY <2>2, TakeBlockInherits
  <2>3. CASE Release(t, m) /\ ReleaseLast(t, m)
    BY <2>3, ReleaseInherits
  <2>4. CASE Timeout(t) \/ ResumeAllTake(t)
    BY <2>4, WakingInherits
  <2>5. CASE \/ TakeAgain(t, m) \/ TakeFail(t, m)
             \/ Release(t, m) /\ ReleaseNested(t, m)
             \/ ReleaseRefused(t, m) \/ DetachBegin(t, m) \/ Return(t)
             \/ ResumeAllTest(t) \/ Unregister(t)
    BY <2>5, CountingInherits
  <2> QED
    BY <1>2, <1>4, <2>1, <2>2, <2>3, <2>4, <2>5
       DEF TakeStep, Release, CallStep, DetachStep
<1>5. ASSUME NEW t \in Thread,
             CallStep(t) \/ DetachStep(t) \/ Timeout(t)
      PROVE  InheritInv'
  <2>1. on[t] \in Mutex
    BY TypesAt DEF HoldInv, TypeInv
  <2> QED
    BY <1>4, <1>5, <2>1
<1> QED
  BY <1>1, <1>3, <1>4, <1>5 DEF Next

(* The inductive invariant of the inheritance: what holds of the holders   *)
(* and of the priorities holds until a signal.                             *)
UntilSignal == TypeInv /\ (kills = 0 /\ Flag = PRIO => HoldInv /\ InheritInv)

(* No step undoes a signal, so every step keeps it. *)
LEMMA NextUntilSignal ==
  ASSUME Nesting = {}, UntilSignal, [Next]_vars
  PROVE  UntilSignal'
<1>1. kills' = 0 => kills = 0
  <2>1. kills \in Nat
    BY BoundAssumption DEF UntilSignal, TypeInv, TypeOK
  <2>2. kills' = kills \/ kills' = kills + 1
    BY DEF Next, vars, TakeStep, TakeAgain, TakeFree, TakeFail, TakeBlock,
           CallStep, Return, AgainDisturbed, AgainTake, AgainBlock, Release,
           ReleaseRefused, DetachBegin, DetachStep, ResumeAllTest,
           ResumeAllTake, Unregister, Timeout, Signal
  <2> QED
    BY <2>1, <2>2
<1> QED
  BY <1>1, NextTypeInv, NextHoldInv, NextInheritInv DEF UntilSignal

(* It holds in every behaviour in which nobody takes a mutex while it      *)
(* holds another.                                                          *)
LEMMA AlwaysUntilSignal ==
  ASSUME Nesting = {}
  PROVE  Spec => []UntilSignal
<1>1. Init => UntilSignal
  BY InitTypeInv, InitHoldInv, InitInheritInv DEF UntilSignal
<1>2. UntilSignal /\ [Next]_vars => UntilSignal'
  BY NextUntilSignal
<1> QED
  BY <1>1, <1>2, PTL DEF Spec

(* Priority inheritance: before the first signal, and when nobody takes a  *)
(* mutex while it holds another, no owner is less urgent than a thread it  *)
(* keeps waiting.                                                          *)
THEOREM OwnersInherit ==
  ASSUME Nesting = {}, Flag = PRIO
  PROVE  Spec => []NoInversion
<1>1. UntilSignal => NoInversion
  BY DEF UntilSignal, InheritInv, NoInversion
<1> QED
  BY <1>1, AlwaysUntilSignal, PTL

(* What a thread inherits it gives back: before the first signal, and      *)
(* without nesting, a thread that owns no mutex runs at the priority it    *)
(* has of its own.                                                         *)
THEOREM PrioritiesAreRestored ==
  ASSUME Nesting = {}, Flag = PRIO
  PROVE  Spec => []PriorityRestored
<1>1. UntilSignal => PriorityRestored
  BY DEF UntilSignal, InheritInv, PriorityRestored
<1> QED
  BY <1>1, AlwaysUntilSignal, PTL

(* Whoever is signalled and whatever the nesting: until somebody steps     *)
(* into a retry or a detach, a timer runs only for a thread that waits and *)
(* is linked, and nobody is linked twice.                                  *)
THEOREM TimersGuardWaits == Spec => [](~Torn => TimerGuardsWait)
<1>1. WaitInv => (~Torn => TimerGuardsWait)
  BY DEF WaitInv
<1> QED
  BY <1>1, InitWaitInv, NextWaitInv, PTL DEF Spec

(* Until then the lists of waiters keep their timers through signals and   *)
(* retries, timeouts and a detach and, without nesting, the order of       *)
(* RT_IPC_FLAG_PRIO until the first signal.                                *)
THEOREM WaitListsStayInOrder ==
  ASSUME Nesting = {}
  PROVE  Spec => []WaitListsInOrder
<1>1. UntilSignal => MostUrgentFirst
  BY DEF UntilSignal, InheritInv, MostUrgentFirst
<1>2. MostUrgentFirst /\ (~Torn => TimerGuardsWait) => WaitListsInOrder
  BY DEF WaitListsInOrder
<1> QED
  BY <1>1, <1>2, AlwaysUntilSignal, TimersGuardWaits, PTL
==============================================================================
