---------------------------- MODULE SchedulerProofs ----------------------------
(***************************************************************************)
(* Theorems about the scheduler of one processor (module Scheduler), for   *)
(* any threads, priorities and time slices.                                *)
(***************************************************************************)
EXTENDS Scheduler, IpcListProofs

------------------------------------------------------------------------------
(* The records that the functions of the scheduler work on.                *)
States == [stat : [Thread -> {"INIT", "READY", "SUSPEND", "CLOSE"}],
           prio : [Thread -> Level], ready : [Level -> Seq(Thread)],
           group : SUBSET Level, current : Thread, waits : SUBSET Thread,
           defunct : Seq(Thread)]

(* The ready lists and the bits of the group file the threads of W, each   *)
(* one once and at its level.                                              *)
Listed(s, W) ==
    \A p \in Level :
       /\ Once(s.ready[p])
       /\ p \in s.group <=> s.ready[p] # <<>>
       /\ \A t \in Thread : Linked(s.ready[p], t) <=> t \in W /\ s.prio[t] = p

(* The threads that wait for the processor; those of rm are being deleted. *)
Filed(s, rm) ==
    {t \in Thread : s.stat[t] = "READY" /\ t # s.current /\ t \notin rm}

Good(s, rm) ==
    /\ s \in States
    /\ Listed(s, Filed(s, rm))
    /\ \A t \in s.waits : s.stat[t] = "SUSPEND"
    /\ Once(s.defunct)
    /\ \A t \in Thread : Linked(s.defunct, t) => s.stat[t] = "CLOSE"
    /\ s.stat[Idle] = "READY"
    /\ Idle \notin rm /\ s.current \notin rm

(* What rt_schedule leaves behind while the scheduler is not locked.       *)
Settled(s) ==
    /\ s.stat[s.current] = "READY"
    /\ \A p \in s.group : s.prio[s.current] <= p

ListsInv == Good(Now, Removed)

CountsInv ==
    /\ lock_nest \in 0..MaxNest
    /\ remaining_tick \in [Thread -> Nat]
    /\ \A t \in Thread : remaining_tick[t] \in 1..InitTick[t]
    /\ stale \in BOOLEAN
    /\ stat[current] # "READY" => pc[current] = "schedule" /\ lock_nest = 0

(* What waits may be woken at any moment, what is freed never.             *)
WakeInv ==
    /\ waits \subseteq Sleepers \union Waiters
    /\ timer \subseteq Sleepers
    /\ \A t \in timer : stat[t] = "SUSPEND"
    /\ freed \subseteq Thread
    /\ \A t \in freed : stat[t] = "CLOSE" /\ t # current /\ ~Linked(defunct, t)

(* What the location of c says of the thread t that its call works on.     *)
Asleep(t) == stat[t] = "SUSPEND" /\ t \notin waits \union timer
Dead(t) == stat[t] = "CLOSE" /\ t # current /\ ~Linked(defunct, t)

Claims(c, t) ==
    /\ t \in Thread /\ t # c
    /\ pc[c] \in Locations \ {"user", "schedule"}
    /\ pc[c] = "resume" =>
         Asleep(t) \/ (stat[t] = "READY" /\ t \notin Sleepers \union Waiters)
    /\ pc[c] \in {"unlink", "insert"} => Asleep(t)
    /\ pc[c] \in {"detach", "close"} =>
         stat[t] # "CLOSE" /\ t # Idle /\ t \notin waits \union timer
    /\ pc[c] = "bury" => Dead(t) /\ t \notin freed
    /\ pc[c] = "free" => Dead(t) /\ c = Idle

ClaimsInv ==
    /\ pc \in [Thread -> Locations]
    /\ on \in [Thread -> Thread \union {None}]
    /\ pc[Idle] \in {"user", "free"}
    /\ \A c \in Thread : /\ on[c] = None => pc[c] \in {"user", "schedule"}
                         /\ on[c] # None => Claims(c, on[c])
    /\ \A c, d \in Thread : on[c] = on[d] /\ on[c] # None => c = d

SchedInv ==
    /\ ListsInv /\ CountsInv /\ WakeInv /\ ClaimsInv /\ MostUrgentRuns

(* Timers and IPC objects are not racing with rt_thread_delete and         *)
(* rt_thread_resume for the same thread: the functions work in several     *)
(* sections and look at the state of the thread in the first one only.     *)
NoRace ==
    /\ Victims \intersect Sleepers = {}
    /\ Nudged \intersect (Sleepers \union Waiters) = {}
------------------------------------------------------------------------------
(* The lists.                                                              *)

(* On a list where nobody is twice, a thread occurs once or not at all.    *)
LEMMA OccursOnce ==
  ASSUME NEW T, NEW list \in Seq(T), NEW t, Once(list)
  PROVE  Occurs(list, t) = IF Linked(list, t) THEN 1 ELSE 0
<1> DEFINE I == {i \in 1..Len(list) : list[i] = t}
<1>1. CASE Linked(list, t)
  <2>1. PICK i \in 1..Len(list) : list[i] = t
    BY <1>1 DEF Linked
  <2>2. I = {i}
    BY <2>1 DEF Once
  <2> QED
    BY <1>1, <2>2, FS_Singleton DEF Occurs
<1>2. CASE ~Linked(list, t)
  <2>1. I = {}
    BY <1>2 DEF Linked
  <2> QED
    BY <1>2, <2>1, FS_EmptySet DEF Occurs
<1> QED
  BY <1>1, <1>2

(* Linking at the end. *)
LEMMA AppendLinked ==
  ASSUME NEW T, NEW list \in Seq(T), NEW t \in T
  PROVE  /\ Append(list, t) \in Seq(T) /\ Append(list, t) # <<>>
         /\ \A u : Linked(Append(list, t), u) <=> (Linked(list, u) \/ u = t)
         /\ Once(list) /\ ~Linked(list, t) => Once(Append(list, t))
<1>0. Len(list) \in Nat
  BY LenProperties
<1>1. /\ Append(list, t) \in Seq(T) /\ Len(Append(list, t)) = Len(list) + 1
      /\ \A i \in 1..(Len(list) + 1) :
            Append(list, t)[i] = IF i <= Len(list) THEN list[i] ELSE t
  BY <1>0, AppendProperties
<1> DEFINE e == Append(list, t)
<1> HIDE DEF e
<1>2. /\ e \in Seq(T) /\ Len(e) = Len(list) + 1
      /\ \A i \in 1..Len(list) : e[i] = list[i]
      /\ e[Len(list) + 1] = t
      /\ \A i \in 1..Len(e) : i \in 1..Len(list) \/ i = Len(list) + 1
  BY <1>0, <1>1 DEF e
<1>3. e # <<>>
  BY <1>0, <1>2
<1>4. \A u : Linked(e, u) <=> (Linked(list, u) \/ u = t)
  BY <1>0, <1>2 DEF Linked
<1>5. ASSUME Once(list), ~Linked(list, t)
      PROVE  Once(e)
  BY <1>0, <1>2, <1>5 DEF Linked, Once
<1> QED
  BY <1>2, <1>3, <1>4, <1>5 DEF e

(* A list without threads is the empty one. *)
LEMMA EmptyLinked ==
  ASSUME NEW T, NEW list \in Seq(T)
  PROVE  /\ list = <<>> <=> \A t \in T : ~Linked(list, t)
         /\ list # <<>> => Head(list) \in T /\ Linked(list, Head(list))
<1>1. \A i \in 1..Len(list) : list[i] \in T
  BY ElementOfSeq
<1>2. list = <<>> => \A t \in T : ~Linked(list, t)
  BY DEF Linked
<1>3. ASSUME list # <<>>
      PROVE  Head(list) \in T /\ Linked(list, Head(list))
  <2>1. Len(list) \in Nat \ {0} /\ Head(list) = list[1]
    BY <1>3, EmptySeq
  <2> QED
    BY <1>1, <2>1 DEF Linked
<1> QED
  BY <1>2, <1>3

(* rt_list_remove. *)
LEMMA UnlinkLinked ==
  ASSUME NEW T, NEW list \in Seq(T), NEW t \in T
  PROVE  /\ Unlink(list, t) \in Seq(T)
         /\ ~Linked(list, t) => Unlink(list, t) = list
         /\ Once(list) => /\ Once(Unlink(list, t))
                          /\ \A u : Linked(Unlink(list, t), u)
                                      <=> (Linked(list, u) /\ u # t)
<1>1. [x \in T |-> 0] \in [T -> Nat]
  OBVIOUS
<1>2. ~Linked(list, t) => Unlink(list, t) = list
  BY DEF Unlink
<1> QED
  BY <1>1, <1>2, UnlinkProperties

------------------------------------------------------------------------------
(* What the functions do to the record of the lists.                       *)

(* A record with the fields of another in what Listed speaks of.           *)
LEMMA ListedSame ==
  ASSUME NEW s, NEW r, NEW W, Listed(s, W),
         r.prio = s.prio, r.ready = s.ready, r.group = s.group
  PROVE  Listed(r, W)
BY DEF Listed

(* A thread that is on a ready list is at the level of the list.           *)
LEMMA ListedLevel ==
  ASSUME NEW s \in States, NEW W, Listed(s, W), NEW t \in Thread
  PROVE  /\ s.prio[t] \in Level
         /\ \A p \in Level : s.ready[p] \in Seq(Thread)
         /\ t \in W => s.prio[t] \in s.group
<1>1. s.prio[t] \in Level /\ \A p \in Level : s.ready[p] \in Seq(Thread)
  BY DEF States
<1>2. ASSUME t \in W
      PROVE  s.prio[t] \in s.group
  BY <1>1, <1>2, EmptyLinked DEF Listed
<1> QED
  BY <1>1, <1>2

(* rt_list_remove of the node of a thread.                                 *)
LEMMA ListRemoveFields ==
  ASSUME NEW s \in States, NEW t \in Thread
  PROVE  /\ ListRemove(s, t) \in States
         /\ ListRemove(s, t).stat = s.stat
         /\ ListRemove(s, t).prio = s.prio
         /\ ListRemove(s, t).group = s.group
         /\ ListRemove(s, t).current = s.current
         /\ ListRemove(s, t).waits = s.waits \ {t}
         /\ ListRemove(s, t).defunct = Unlink(s.defunct, t)
         /\ \A p \in Level : ListRemove(s, t).ready[p] = Unlink(s.ready[p], t)
<1>1. /\ s.defunct \in Seq(Thread)
      /\ \A p \in Level : s.ready[p] \in Seq(Thread)
  BY DEF States
<1>2. /\ Unlink(s.defunct, t) \in Seq(Thread)
      /\ \A p \in Level : Unlink(s.ready[p], t) \in Seq(Thread)
  BY <1>1, UnlinkLinked
<1> QED
  BY <1>1, <1>2 DEF ListRemove, States

(* The removal of a thread that is not ready leaves the ready lists alone. *)
LEMMA ListRemoveOther ==
  ASSUME NEW s \in States, NEW t \in Thread, NEW W, Listed(s, W), t \notin W
  PROVE  /\ Listed(ListRemove(s, t), W)
         /\ ListRemove(s, t).ready = s.ready
<1>1. \A p \in Level : s.ready[p] \in Seq(Thread) /\ ~Linked(s.ready[p], t)
  BY DEF States, Listed
<1>2. \A p \in Level : ListRemove(s, t).ready[p] = s.ready[p]
  BY <1>1, ListRemoveFields, UnlinkLinked
<1>3. ListRemove(s, t).ready = s.ready
  <2>1. /\ ListRemove(s, t).ready \in [Level -> Seq(Thread)]
        /\ s.ready \in [Level -> Seq(Thread)]
    BY ListRemoveFields DEF States
  <2> QED
    BY <1>2, <2>1
<1> QED
  BY <1>3, ListRemoveFields, ListedSame

(* rt_schedule_insert_thread. *)
LEMMA InsertFields ==
  ASSUME NEW s \in States, NEW t \in Thread
  PROVE  /\ InsertThread(s, t) \in States
         /\ InsertThread(s, t).stat = [s.stat EXCEPT ![t] = "READY"]
         /\ InsertThread(s, t).prio = s.prio
         /\ InsertThread(s, t).current = s.current
         /\ InsertThread(s, t).waits = s.waits
         /\ InsertThread(s, t).defunct = s.defunct
         /\ t = s.current => /\ InsertThread(s, t).ready = s.ready
                             /\ InsertThread(s, t).group = s.group
         /\ t # s.current =>
              /\ InsertThread(s, t).group = s.group \union {s.prio[t]}
              /\ \A p \in Level : InsertThread(s, t).ready[p] =
                    IF p = s.prio[t] THEN Append(s.ready[p], t)
                    ELSE s.ready[p]
<1>1. s.prio[t] \in Level /\ \A p \in Level : s.ready[p] \in Seq(Thread)
  BY DEF States
<1>2. \A p \in Level : Append(s.ready[p], t) \in Seq(Thread)
  BY <1>1, AppendLinked
<1>3. CASE t = s.current
  BY <1>3 DEF InsertThread, States
<1>4. CASE t # s.current
  BY <1>1, <1>2, <1>4 DEF InsertThread, States
<1> QED
  BY <1>3, <1>4

(* A thread that is inserted is on the lists afterwards, unless it runs.   *)
LEMMA InsertListed ==
  ASSUME NEW s \in States, NEW t \in Thread, NEW W, Listed(s, W), t \notin W
  PROVE  /\ t = s.current => Listed(InsertThread(s, t), W)
         /\ t # s.current => Listed(InsertThread(s, t), W \union {t})
<1> DEFINE r == InsertThread(s, t)
<1>1. CASE t = s.current
  <2>1. r.prio = s.prio /\ r.ready = s.ready /\ r.group = s.group
    BY <1>1, InsertFields
  <2> HIDE DEF r
  <2>2. Listed(r, W)
    BY <2>1, ListedSame
  <2> QED
    BY <1>1, <2>2 DEF r
<1>2. CASE t # s.current
  <2>1. /\ r.prio = s.prio /\ r.group = s.group \union {s.prio[t]}
        /\ \A p \in Level : r.ready[p] = IF p = s.prio[t]
                                         THEN Append(s.ready[p], t)
                                         ELSE s.ready[p]
    BY <1>2, InsertFields
  <2>2. s.prio[t] \in Level /\ \A p \in Level : s.ready[p] \in Seq(Thread)
    BY DEF States
  <2> HIDE DEF r
  <2> SUFFICES ASSUME NEW p \in Level
               PROVE  /\ Once(r.ready[p])
                      /\ p \in r.group <=> r.ready[p] # <<>>
                      /\ \A u \in Thread : Linked(r.ready[p], u)
                            <=> u \in W \union {t} /\ r.prio[u] = p
    BY <1>2 DEF Listed, r
  <2>3. /\ Once(s.ready[p])
        /\ p \in s.group <=> s.ready[p] # <<>>
        /\ \A u \in Thread : Linked(s.ready[p], u) <=> u \in W /\ s.prio[u] = p
    BY DEF Listed
  <2>4. CASE p = s.prio[t]
    <3>1. r.ready[p] = Append(s.ready[p], t) /\ ~Linked(s.ready[p], t)
      BY <2>1, <2>3, <2>4
    <3>2. /\ Once(r.ready[p]) /\ r.ready[p] # <<>>
          /\ \A u : Linked(r.ready[p], u) <=> (Linked(s.ready[p], u) \/ u = t)
      BY <2>2, <2>3, <3>1, AppendLinked
    <3> QED
      BY <2>1, <2>3, <2>4, <3>2
  <2>5. CASE p # s.prio[t]
    BY <2>1, <2>3, <2>5
  <2> QED
    BY <2>4, <2>5
<1> QED
  BY <1>1, <1>2

(* rt_schedule_remove_thread. *)
LEMMA RemoveFields ==
  ASSUME NEW s \in States, NEW t \in Thread
  PROVE  /\ RemoveThread(s, t) \in States
         /\ RemoveThread(s, t).stat = s.stat
         /\ RemoveThread(s, t).prio = s.prio
         /\ RemoveThread(s, t).current = s.current
         /\ RemoveThread(s, t).waits = s.waits \ {t}
         /\ RemoveThread(s, t).defunct = Unlink(s.defunct, t)
         /\ \A p \in Level :
               /\ RemoveThread(s, t).ready[p] = Unlink(s.ready[p], t)
               /\ p \in RemoveThread(s, t).group
                    <=> /\ p \in s.group
                        /\ p = s.prio[t] => Unlink(s.ready[p], t) # <<>>
<1>1. s.prio[t] \in Level
  BY DEF States
<1> DEFINE r == ListRemove(s, t)
<1>2. /\ r \in States /\ r.stat = s.stat /\ r.prio = s.prio
      /\ r.group = s.group /\ r.current = s.current
      /\ r.waits = s.waits \ {t} /\ r.defunct = Unlink(s.defunct, t)
      /\ \A p \in Level : r.ready[p] = Unlink(s.ready[p], t)
  BY ListRemoveFields
<1>3. RemoveThread(s, t) = IF r.ready[s.prio[t]] = <<>>
                           THEN [r EXCEPT !.group = @ \ {s.prio[t]}] ELSE r
  BY DEF RemoveThread
<1> HIDE DEF r
<1>4. CASE r.ready[s.prio[t]] = <<>>
  <2> DEFINE q == [r EXCEPT !.group = @ \ {s.prio[t]}]
  <2>1. RemoveThread(s, t) = q
    BY <1>3, <1>4
  <2>2. /\ q.stat = r.stat /\ q.prio = r.prio /\ q.ready = r.ready
        /\ q.current = r.current /\ q.waits = r.waits
        /\ q.defunct = r.defunct /\ q.group = r.group \ {s.prio[t]}
    BY <1>2 DEF States
  <2>3. q \in States
    BY <1>2 DEF States
  <2> HIDE DEF q
  <2> QED
    BY <1>1, <1>2, <1>4, <2>1, <2>2, <2>3
<1>5. CASE r.ready[s.prio[t]] # <<>>
  BY <1>1, <1>2, <1>3, <1>5
<1> QED
  BY <1>4, <1>5

(* A thread that is removed is on no list, and the others stay filed.      *)
LEMMA RemoveListed ==
  ASSUME NEW s \in States, NEW t \in Thread, NEW W, Listed(s, W)
  PROVE  Listed(RemoveThread(s, t), W \ {t})
<1> DEFINE r == RemoveThread(s, t)
<1>1. /\ r.prio = s.prio
      /\ \A p \in Level :
            /\ r.ready[p] = Unlink(s.ready[p], t)
            /\ p \in r.group
                 <=> /\ p \in s.group
                     /\ p = s.prio[t] => Unlink(s.ready[p], t) # <<>>
  BY RemoveFields
<1>2. \A p \in Level : s.ready[p] \in Seq(Thread)
  BY DEF States
<1> HIDE DEF r
<1> SUFFICES ASSUME NEW p \in Level
             PROVE  /\ Once(r.ready[p])
                    /\ p \in r.group <=> r.ready[p] # <<>>
                    /\ \A u \in Thread : Linked(r.ready[p], u)
                          <=> u \in W \ {t} /\ r.prio[u] = p
  BY DEF Listed, r
<1>3. /\ Once(s.ready[p])
      /\ p \in s.group <=> s.ready[p] # <<>>
      /\ \A u \in Thread : Linked(s.ready[p], u) <=> u \in W /\ s.prio[u] = p
  BY DEF Listed
<1>4. /\ Once(r.ready[p])
      /\ \A u : Linked(r.ready[p], u) <=> (Linked(s.ready[p], u) /\ u # t)
      /\ ~Linked(s.ready[p], t) => r.ready[p] = s.ready[p]
  BY <1>1, <1>2, <1>3, UnlinkLinked
<1>5. p \in r.group <=> r.ready[p] # <<>>
  <2>1. CASE p = s.prio[t]
    <3>1. s.ready[p] = <<>> => Unlink(s.ready[p], t) = <<>>
      BY <1>2, EmptyLinked, UnlinkLinked
    <3> QED
      BY <1>1, <1>3, <2>1, <3>1
  <2>2. CASE p # s.prio[t]
    BY <1>1, <1>3, <1>4, <2>2
  <2> QED
    BY <2>1, <2>2
<1> QED
  BY <1>1, <1>3, <1>4, <1>5

------------------------------------------------------------------------------
(* The functions keep the lists good.                                      *)

(* r is s after the threads of M were made ready; the processor changes    *)
(* hands only while the scheduler is not locked.                           *)
Wakes(s, r, M) ==
    /\ \A t \in Thread : r.stat[t] = IF t \in M THEN "READY" ELSE s.stat[t]
    /\ r.prio = s.prio /\ r.waits = s.waits \ M /\ r.defunct = s.defunct
    /\ r.current # s.current => lock_nest = 0 /\ r.stat[r.current] = "READY"

(* Making some threads ready and then some more. *)
LEMMA WakesTwice ==
  ASSUME NEW s \in States, NEW r \in States, NEW q \in States,
         NEW M, NEW N, Wakes(s, r, M), Wakes(r, q, N)
  PROVE  Wakes(s, q, M \union N)
<1>1. r.current \in Thread
  BY DEF States
<1> QED
  BY <1>1 DEF Wakes

(* _get_highest_priority_thread finds the most urgent level with a thread  *)
(* and a thread that waits at it.                                          *)
LEMMA HighestFirst ==
  ASSUME NEW s, NEW rm, Good(s, rm), s.group # {}
  PROVE  /\ Highest(s) \in s.group
         /\ \A p \in s.group : Highest(s) <= p
         /\ Head(s.ready[Highest(s)]) \in Filed(s, rm)
         /\ s.prio[Head(s.ready[Highest(s)])] = Highest(s)
<1>0. s \in States /\ Listed(s, Filed(s, rm))
  BY DEF Good
<1>1. s.group \in SUBSET Nat /\ s.group \subseteq Level
  BY <1>0, LevelAssumption DEF States
<1>2. \E p \in s.group : \A x \in s.group : p <= x
  BY <1>1, SmallestNat
<1>3. Highest(s) \in s.group /\ \A p \in s.group : Highest(s) <= p
  BY <1>2 DEF Highest
<1> DEFINE p == Highest(s)
<1> HIDE DEF p
<1>4. p \in Level /\ s.ready[p] # <<>> /\ s.ready[p] \in Seq(Thread)
  BY <1>0, <1>1, <1>3 DEF Listed, States, p
<1>5. Head(s.ready[p]) \in Thread /\ Linked(s.ready[p], Head(s.ready[p]))
  BY <1>4, EmptyLinked
<1>6. Head(s.ready[p]) \in Filed(s, rm) /\ s.prio[Head(s.ready[p])] = p
  BY <1>0, <1>4, <1>5 DEF Listed
<1> QED
  BY <1>3, <1>6 DEF p

(* When no thread waits, the idle thread runs.                             *)
LEMMA NobodyWaits ==
  ASSUME NEW s, NEW rm, Good(s, rm), s.group = {}
  PROVE  s.current = Idle /\ s.stat[s.current] = "READY"
<1>1. s \in States /\ Listed(s, Filed(s, rm)) /\ Idle \in Thread
  BY ThreadAssumption DEF Good
<1>2. Idle \notin Filed(s, rm)
  BY <1>1, ListedLevel
<1> QED
  BY <1>1, <1>2 DEF Good, Filed

(* The switch to another thread. *)
LEMMA SwitchedGood ==
  ASSUME NEW s, NEW rm, Good(s, rm), NEW first \in Filed(s, rm),
         \A p \in s.group : s.prio[first] <= p,
         s.stat[s.current] = "READY" => s.prio[first] <= s.prio[s.current]
  PROVE  LET r == Switched(s, first) IN
         /\ Good(r, rm) /\ Settled(r)
         /\ r.stat = s.stat /\ r.prio = s.prio /\ r.waits = s.waits
         /\ r.defunct = s.defunct
<1> DEFINE W == Filed(s, rm)
           from == s.current
           m == [s EXCEPT !.current = first]
           i == IF s.stat[from] = "READY" THEN InsertThread(m, from) ELSE m
           V == IF s.stat[from] = "READY" THEN W \union {from} ELSE W
           r == Switched(s, first)
<1>1. /\ s \in States /\ Listed(s, W) /\ from \notin rm
      /\ \A t \in s.waits : s.stat[t] = "SUSPEND"
      /\ Once(s.defunct) /\ s.stat[Idle] = "READY" /\ Idle \notin rm
      /\ \A t \in Thread : Linked(s.defunct, t) => s.stat[t] = "CLOSE"
  BY DEF Good
<1>2. /\ from \in Thread /\ first \in Thread /\ s.stat[first] = "READY"
      /\ first # from /\ first \notin rm /\ from \notin W /\ first \in W
      /\ s.stat \in [Thread -> {"INIT", "READY", "SUSPEND", "CLOSE"}]
      /\ s.defunct \in Seq(Thread) /\ s.prio \in [Thread -> Level]
  BY <1>1 DEF Filed, States
<1>3. /\ m \in States /\ m.stat = s.stat /\ m.prio = s.prio
      /\ m.ready = s.ready /\ m.group = s.group /\ m.current = first
      /\ m.waits = s.waits /\ m.defunct = s.defunct
  BY <1>1, <1>2 DEF States
<1>4. r = RemoveThread(i, first)
  BY DEF Switched
<1> HIDE DEF m, r, W
<1>5. Listed(m, W)
  BY <1>1, <1>3, ListedSame
<1>6. /\ i \in States /\ Listed(i, V) /\ i.stat = s.stat /\ i.prio = s.prio
      /\ i.current = first /\ i.waits = s.waits /\ i.defunct = s.defunct
      /\ \A p \in i.group :
            p \in s.group \/ (s.stat[from] = "READY" /\ p = s.prio[from])
  <2>1. CASE s.stat[from] = "READY"
    <3>1. i = InsertThread(m, from) /\ V = W \union {from}
      BY <2>1
    <3>2. /\ i \in States /\ i.stat = [m.stat EXCEPT ![from] = "READY"]
          /\ i.prio = m.prio /\ i.current = m.current /\ i.waits = m.waits
          /\ i.defunct = m.defunct /\ i.group = m.group \union {m.prio[from]}
      BY <1>2, <1>3, <3>1, InsertFields
    <3>3. Listed(i, V)
      BY <1>2, <1>3, <1>5, <3>1, InsertListed
    <3>4. i.stat = s.stat
      BY <1>2, <1>3, <2>1, <3>2
    <3> QED
      BY <1>3, <2>1, <3>2, <3>3, <3>4
  <2>2. CASE s.stat[from] # "READY"
    BY <1>3, <1>5, <2>2
  <2> QED
    BY <2>1, <2>2
<1>7. V \ {first} = {t \in Thread : s.stat[t] = "READY" /\ t # first
                                     /\ t \notin rm}
  BY <1>1, <1>2 DEF W, Filed
<1> HIDE DEF i, V
<1>8. /\ r \in States /\ Listed(r, V \ {first}) /\ r.stat = s.stat
      /\ r.prio = s.prio /\ r.current = first
      /\ r.waits = s.waits \ {first}
      /\ r.defunct = Unlink(s.defunct, first)
      /\ \A p \in Level : p \in r.group => p \in i.group
  BY <1>2, <1>4, <1>6, RemoveFields, RemoveListed
<1>9. r.waits = s.waits /\ r.defunct = s.defunct
  <2>1. first \notin s.waits /\ ~Linked(s.defunct, first)
    BY <1>1, <1>2
  <2>2. Unlink(s.defunct, first) = s.defunct
    BY <1>2, <2>1, UnlinkLinked
  <2> QED
    BY <1>8, <2>1, <2>2
<1>10. Filed(r, rm) = V \ {first}
  BY <1>7, <1>8 DEF Filed
<1>11. Good(r, rm)
  BY <1>1, <1>2, <1>8, <1>9, <1>10 DEF Good
<1>12. Settled(r)
  <2>1. r.group \subseteq Level
    BY <1>8 DEF States
  <2> QED
    BY <1>2, <1>6, <1>8, <2>1 DEF Settled
<1> QED
  BY <1>8, <1>9, <1>11, <1>12 DEF r

(* rt_schedule. *)
LEMMA ScheduleGood ==
  ASSUME NEW s, NEW rm, Good(s, rm)
  PROVE  /\ Good(Schedule(s), rm)
         /\ Wakes(s, Schedule(s), {})
         /\ lock_nest = 0 => Settled(Schedule(s))
         /\ lock_nest # 0 => Schedule(s) = s
<1>0. s \in States /\ s.current \in Thread
  BY DEF Good, States
<1>1. CASE lock_nest # 0
  <2>1. Schedule(s) = s
    BY <1>1 DEF Schedule
  <2>2. Wakes(s, s, {})
    BY DEF Wakes
  <2> QED
    BY <1>1, <2>1, <2>2
<1>2. CASE lock_nest = 0 /\ s.group = {}
  <2>1. Schedule(s) = s
    BY <1>2 DEF Schedule
  <2>2. Wakes(s, s, {})
    BY DEF Wakes
  <2>3. Settled(s)
    BY <1>2, NobodyWaits DEF Settled
  <2> QED
    BY <1>2, <2>1, <2>2, <2>3
<1>3. CASE lock_nest = 0 /\ s.group # {}
  <2> DEFINE from == s.current
             first == Head(s.ready[Highest(s)])
             keep == s.stat[from] = "READY" /\ s.prio[from] < Highest(s)
             r == Schedule(s)
  <2>1. /\ Highest(s) \in s.group /\ \A p \in s.group : Highest(s) <= p
        /\ first \in Filed(s, rm) /\ s.prio[first] = Highest(s)
    BY <1>3, HighestFirst
  <2>2. first # from
    BY <2>1 DEF Filed
  <2>3. r = IF keep THEN RemoveThread(s, from) ELSE Switched(s, first)
    BY <1>3, <2>2 DEF Schedule
  <2>4. /\ s.prio[from] \in Nat /\ Highest(s) \in Nat
        /\ \A p \in s.group : p \in Nat
    BY <1>0, <2>1, LevelAssumption DEF States
  <2> HIDE DEF from, first, r
  <2>5. CASE keep
    <3>1. /\ Listed(s, Filed(s, rm)) /\ from \notin Filed(s, rm)
          /\ \A t \in s.waits : s.stat[t] = "SUSPEND"
          /\ \A t \in Thread : Linked(s.defunct, t) => s.stat[t] = "CLOSE"
          /\ s.defunct \in Seq(Thread)
      BY <1>0 DEF Good, Filed, from, States
    <3>2. /\ r \in States /\ r.stat = s.stat /\ r.prio = s.prio
          /\ r.current = from /\ r.waits = s.waits \ {from}
          /\ r.defunct = Unlink(s.defunct, from)
          /\ \A p \in Level : p \in r.group => p \in s.group
          /\ Listed(r, Filed(s, rm) \ {from})
      BY <1>0, <2>3, <2>5, <3>1, RemoveFields, RemoveListed DEF from
    <3>3. r.waits = s.waits /\ r.defunct = s.defunct
      BY <1>0, <2>5, <3>1, <3>2, UnlinkLinked DEF from
    <3>4. Filed(r, rm) = Filed(s, rm) \ {from}
      BY <3>2 DEF Filed, from
    <3>5. Good(r, rm)
      BY <3>2, <3>3, <3>4 DEF Good, from
    <3>6. Wakes(s, r, {})
      BY <3>2, <3>3 DEF Wakes, from
    <3>7. Settled(r)
      <4>1. r.group \subseteq s.group
        BY <3>2 DEF States
      <4> QED
        BY <2>1, <2>4, <2>5, <3>2, <4>1 DEF Settled
    <3> QED
      BY <1>3, <3>5, <3>6, <3>7 DEF r
  <2>6. CASE ~keep
    <3>1. r = Switched(s, first)
      BY <2>3, <2>6
    <3>2. s.stat[from] = "READY" => s.prio[first] <= s.prio[from]
      BY <2>1, <2>4, <2>6
    <3>3. /\ Good(r, rm) /\ Settled(r)
          /\ r.stat = s.stat /\ r.prio = s.prio /\ r.waits = s.waits
          /\ r.defunct = s.defunct
      BY <2>1, <3>1, <3>2, SwitchedGood DEF from
    <3>4. Wakes(s, r, {})
      BY <1>3, <3>3 DEF Wakes, Settled
    <3> QED
      BY <1>3, <3>3, <3>4 DEF r
  <2> QED
    BY <2>5, <2>6
<1>4. lock_nest # 0 \/ (lock_nest = 0 /\ s.group = {})
        \/ (lock_nest = 0 /\ s.group # {})
  OBVIOUS
<1> QED
  BY <1>1, <1>2, <1>3, <1>4

(* rt_thread_resume of a thread that is suspended. *)
LEMMA ResumeGood ==
  ASSUME NEW s, NEW rm, Good(s, rm), NEW t \in Thread,
         s.stat[t] = "SUSPEND", t \notin rm
  PROVE  /\ Good(Resume(s, t), rm) /\ Wakes(s, Resume(s, t), {t})
         /\ Resume(s, t).current = s.current
<1> DEFINE W == Filed(s, rm)
           m == ListRemove(s, t)
           r == Resume(s, t)
<1>1. /\ s \in States /\ Listed(s, W) /\ s.current \notin rm
      /\ \A u \in s.waits : s.stat[u] = "SUSPEND"
      /\ Once(s.defunct) /\ s.stat[Idle] = "READY" /\ Idle \notin rm
      /\ \A u \in Thread : Linked(s.defunct, u) => s.stat[u] = "CLOSE"
  BY DEF Good
<1>2. /\ t \notin W /\ s.current \in Thread /\ ~Linked(s.defunct, t)
      /\ s.stat \in [Thread -> {"INIT", "READY", "SUSPEND", "CLOSE"}]
      /\ s.defunct \in Seq(Thread) /\ Idle \in Thread /\ t # Idle
      /\ s.waits \subseteq Thread
  BY <1>1, ThreadAssumption DEF Filed, States
<1> HIDE DEF W
<1>3. /\ m \in States /\ m.stat = s.stat /\ m.prio = s.prio
      /\ m.current = s.current /\ m.waits = s.waits \ {t}
      /\ m.defunct = s.defunct /\ Listed(m, W)
  <2>1. /\ m \in States /\ m.stat = s.stat /\ m.prio = s.prio
        /\ m.current = s.current /\ m.waits = s.waits \ {t}
        /\ m.defunct = Unlink(s.defunct, t)
    BY <1>1, ListRemoveFields
  <2>2. Unlink(s.defunct, t) = s.defunct
    BY <1>2, UnlinkLinked
  <2>3. Listed(m, W)
    BY <1>1, <1>2, ListRemoveOther
  <2> QED
    BY <2>1, <2>2, <2>3
<1> HIDE DEF m
<1>4. r = InsertThread(m, t)
  BY DEF Resume, m
<1> HIDE DEF r
<1>5. /\ r \in States /\ r.stat = [s.stat EXCEPT ![t] = "READY"]
      /\ r.prio = s.prio /\ r.current = s.current /\ r.waits = s.waits \ {t}
      /\ r.defunct = s.defunct
  BY <1>3, <1>4, InsertFields
<1>6. /\ t = s.current => Listed(r, W)
      /\ t # s.current => Listed(r, W \union {t})
  BY <1>2, <1>3, <1>4, InsertListed
<1>7. \A u \in Thread : r.stat[u] = IF u = t THEN "READY" ELSE s.stat[u]
  BY <1>2, <1>5
<1>8. Filed(r, rm) = IF t = s.current THEN W ELSE W \union {t}
  BY <1>2, <1>5, <1>7 DEF Filed, W
<1>9. Listed(r, Filed(r, rm))
  BY <1>6, <1>8
<1>10. Good(r, rm)
  BY <1>1, <1>2, <1>5, <1>7, <1>9 DEF Good
<1>11. Wakes(s, r, {t})
  BY <1>5, <1>7 DEF Wakes
<1> QED
  BY <1>5, <1>10, <1>11 DEF r

(* rt_thread_timeout. *)
LEMMA TimedOutGood ==
  ASSUME NEW s, NEW rm, Good(s, rm), NEW t \in Thread,
         s.stat[t] = "SUSPEND", t \notin rm
  PROVE  /\ Good(TimedOut(s, t), rm) /\ Wakes(s, TimedOut(s, t), {t})
         /\ lock_nest = 0 => Settled(TimedOut(s, t))
<1> DEFINE m == Resume(s, t)
           r == Schedule(m)
<1>1. Good(m, rm) /\ Wakes(s, m, {t})
  BY ResumeGood
<1> HIDE DEF m
<1>2. Good(r, rm) /\ Wakes(m, r, {}) /\ (lock_nest = 0 => Settled(r))
  BY <1>1, ScheduleGood
<1> HIDE DEF r
<1>3. s \in States /\ m \in States /\ r \in States
  BY <1>1, <1>2 DEF Good
<1>4. Wakes(s, r, {t} \union {})
  BY <1>1, <1>2, <1>3, WakesTwice
<1>5. {t} \union {} = {t} /\ TimedOut(s, t) = r
  BY DEF TimedOut, r, m
<1> QED
  BY <1>2, <1>4, <1>5

(* The function that AllTimedOut is defined by exists.                     *)
LEMMA TimedOutSteps ==
  ASSUME NEW s, NEW order, Len(order) \in Nat
  PROVE  \E f : /\ f[0] = s
                /\ \A k \in 1..Len(order) : f[k] = TimedOut(f[k - 1], order[k])
                /\ AllTimedOut(s, order) = f[Len(order)]
<1> DEFINE n == Len(order)
           Sol(m, f) == f = [k \in 0..m |-> IF k = 0 THEN s
                                     ELSE TimedOut(f[k - 1], order[k])]
           Bad == {m \in 0..n : ~\E f : Sol(m, f)}
<1>0. n \in Nat
  OBVIOUS
<1>1. Bad = {}
  <2> SUFFICES ASSUME Bad # {} PROVE FALSE
    OBVIOUS
  <2>1. Bad \in SUBSET Nat
    BY <1>0
  <2>2. PICK m \in Bad : \A j \in Bad : m <= j
    BY <2>1, SmallestNat
  <2>3. m \in 0..n /\ ~\E f : Sol(m, f)
    BY <2>2
  <2>4. m # 0
    <3> DEFINE g == [k \in 0..0 |-> s]
               h == [k \in 0..0 |-> IF k = 0 THEN s
                                    ELSE TimedOut(g[k - 1], order[k])]
    <3>1. g = h
      OBVIOUS
    <3>2. Sol(0, g)
      BY <3>1
    <3> QED
      BY <2>3, <3>2
  <2>5. m - 1 \in 0..n /\ ~(m <= m - 1)
    BY <1>0, <2>3, <2>4
  <2>6. \E f : Sol(m - 1, f)
    BY <2>2, <2>5
  <2>7. PICK f : Sol(m - 1, f)
    BY <2>6
  <2> DEFINE g == [k \in 0..m |-> IF k = m THEN TimedOut(f[m - 1], order[m])
                                  ELSE f[k]]
             h == [k \in 0..m |-> IF k = 0 THEN s
                                  ELSE TimedOut(g[k - 1], order[k])]
  <2>8. ASSUME NEW k \in 0..m
        PROVE  g[k] = h[k]
    <3>1. CASE k = 0
      <4>1. 0 \in 0..(m - 1) /\ k # m
        BY <1>0, <2>3, <2>4, <3>1
      <4>2. f[0] = s
        BY <2>7, <4>1
      <4> QED
        BY <3>1, <4>1, <4>2
    <3>2. CASE k # 0 /\ k = m
      <4>1. m - 1 \in 0..m /\ m - 1 # m
        BY <1>0, <2>3, <2>4
      <4>2. g[m - 1] = f[m - 1]
        BY <4>1
      <4>3. g[m] = TimedOut(f[m - 1], order[m])
        BY <3>2
      <4>4. h[m] = TimedOut(g[m - 1], order[m])
        <5> HIDE DEF g
        <5> QED
          BY <3>2
      <4> QED
        BY <3>2, <4>2, <4>3, <4>4
    <3>3. CASE k # 0 /\ k # m
      <4>1. k - 1 \in 0..m /\ k - 1 # m /\ k \in 0..(m - 1)
        BY <1>0, <2>3, <3>3
      <4>2. g[k - 1] = f[k - 1] /\ g[k] = f[k]
        BY <3>3, <4>1
      <4>3. f[k] = TimedOut(f[k - 1], order[k])
        BY <2>7, <3>3, <4>1
      <4>4. h[k] = TimedOut(g[k - 1], order[k])
        <5> HIDE DEF g
        <5> QED
          BY <3>3
      <4> QED
        BY <4>2, <4>3, <4>4
    <3> QED
      BY <3>1, <3>2, <3>3
  <2>9. g = [k \in 0..m |-> g[k]] /\ h = [k \in 0..m |-> h[k]]
    OBVIOUS
  <2>10. g = h
    <3> HIDE DEF g, h
    <3> QED
      BY <2>8, <2>9
  <2>11. Sol(m, g)
    <3> HIDE DEF g
    <3> QED
      BY <2>10
  <2> QED
    BY <2>3, <2>11
<1>2. \E f : Sol(n, f)
  BY <1>0, <1>1
<1> DEFINE f == CHOOSE g : Sol(n, g)
<1>3. Sol(n, f)
  <2> HIDE DEF Sol
  <2> QED
    BY <1>2
<1>4. AllTimedOut(s, order) = f[n]
  BY DEF AllTimedOut
<1> HIDE DEF f
<1>5. f[0] = s
  BY <1>0, <1>3
<1>6. ASSUME NEW k \in 1..n
      PROVE  f[k] = TimedOut(f[k - 1], order[k])
  <2>1. k \in 0..n /\ k # 0
    BY <1>0
  <2> QED
    BY <1>3, <2>1
<1> QED
  BY <1>4, <1>5, <1>6

(* The thread timers that are due, each once and in any order.             *)
LEMMA AllTimedOutGood ==
  ASSUME NEW s, NEW rm, Good(s, rm), NEW due \in SUBSET Thread,
         \A t \in due : s.stat[t] = "SUSPEND" /\ t \notin rm,
         NEW order \in Orders(due)
  PROVE  LET r == AllTimedOut(s, order) IN
         /\ Good(r, rm) /\ Wakes(s, r, due)
         /\ due = {} => r = s
         /\ lock_nest = 0 /\ due # {} => Settled(r)
<1> DEFINE n == Cardinality(due)
           Woken(k) == {order[j] : j \in 1..k}
<1>0. IsFiniteSet(due) /\ n \in Nat
  BY ThreadAssumption, FS_Subset, FS_CardinalityType
<1>1. /\ order \in [1..n -> due]
      /\ \A i, j \in 1..n : order[i] = order[j] => i = j
  BY DEF Orders
<1> HIDE DEF n
<1>2. order \in Seq(due) /\ Len(order) = n
  BY <1>0, <1>1, SeqDef
<1>3. due = {order[j] : j \in 1..n}
  <2> DEFINE R == {order[j] : j \in 1..n}
  <2>2. R \subseteq due
    BY <1>1
  <2>3. ExistsBijection(1..n, R)
    <3>1. order \in [1..n -> R]
      BY <1>1
    <3>2. \A x \in R : \E j \in 1..n : order[j] = x
      OBVIOUS
    <3> HIDE DEF R
    <3>3. order \in Bijection(1..n, R)
      BY <1>1, <3>1, <3>2
         DEF Bijection, Injection, Surjection, IsInjective
    <3> QED
      BY <3>3 DEF ExistsBijection
  <2> HIDE DEF R
  <2>4. IsFiniteSet(R) /\ Cardinality(R) = n
    BY <1>0, <2>3, FS_CountingElements, FS_NatBijection
  <2>5. R = due
    BY <1>0, <2>2, <2>4, FS_Subset DEF n
  <2> QED
    BY <2>5 DEF R
<1>4. PICK f : /\ f[0] = s
               /\ \A k \in 1..n : f[k] = TimedOut(f[k - 1], order[k])
               /\ AllTimedOut(s, order) = f[n]
  <2>1. Len(order) \in Nat
    BY <1>0, <1>2
  <2>2. \E f : /\ f[0] = s
               /\ \A k \in 1..Len(order) :
                     f[k] = TimedOut(f[k - 1], order[k])
               /\ AllTimedOut(s, order) = f[Len(order)]
    BY <2>1, TimedOutSteps
  <2> QED
    BY <1>2, <2>2
<1> DEFINE Holds(k) == /\ Good(f[k], rm) /\ Wakes(s, f[k], Woken(k))
                       /\ lock_nest = 0 /\ k # 0 => Settled(f[k])
           Bad == {k \in 0..n : ~Holds(k)}
<1>5. Holds(0)
  <2>1. Woken(0) = {}
    BY <1>0
  <2>2. Wakes(s, s, {})
    BY DEF Wakes
  <2> QED
    BY <1>4, <2>1, <2>2
<1>6. ASSUME NEW k \in 1..n, Holds(k - 1)
      PROVE  Holds(k)
  <2> DEFINE m == f[k - 1]
             t == order[k]
             r == f[k]
             V == Woken(k - 1)
  <2>1. r = TimedOut(m, t)
    BY <1>4
  <2>2. Good(m, rm) /\ Wakes(s, m, V)
    BY <1>6
  <2>3. t \in due /\ t \in Thread /\ t \notin rm /\ s.stat[t] = "SUSPEND"
    BY <1>1
  <2>4. t \notin V
    <3>1. \A j \in 1..(k - 1) : j \in 1..n /\ j # k
      BY <1>0
    <3> QED
      BY <1>1, <3>1
  <2>5. Woken(k) = V \union {t}
    <3>1. 1..k = 1..(k - 1) \union {k}
      BY <1>0
    <3> QED
      BY <3>1
  <2> HIDE DEF m, t, r, V, Woken
  <2>6. m.stat[t] = "SUSPEND"
    BY <2>2, <2>3, <2>4 DEF Wakes
  <2>7. /\ Good(r, rm) /\ Wakes(m, r, {t})
        /\ lock_nest = 0 => Settled(r)
    BY <2>1, <2>2, <2>3, <2>6, TimedOutGood
  <2>8. Wakes(s, r, V \union {t})
    BY <2>2, <2>7, WakesTwice DEF Good
  <2> QED
    BY <2>5, <2>7, <2>8 DEF r
<1> HIDE DEF Holds
<1>7. Bad = {}
  <2> SUFFICES ASSUME Bad # {} PROVE FALSE
    OBVIOUS
  <2>1. Bad \in SUBSET Nat
    BY <1>0
  <2>2. PICK k \in Bad : \A j \in Bad : k <= j
    BY <2>1, SmallestNat
  <2>3. k \in 0..n /\ ~Holds(k)
    BY <2>2
  <2>4. k # 0
    BY <1>5, <2>3
  <2>5. k - 1 \in 0..n /\ k \in 1..n /\ ~(k <= k - 1)
    BY <1>0, <2>3, <2>4
  <2> QED
    BY <1>6, <2>2, <2>3, <2>5
<1>8. Holds(n)
  BY <1>0, <1>7
<1>9. n = 0 <=> due = {}
  BY <1>0, FS_EmptySet DEF n
<1>10. Woken(n) = due
  BY <1>3
<1> HIDE DEF Woken
<1> QED
  BY <1>4, <1>8, <1>9, <1>10 DEF Holds

------------------------------------------------------------------------------
(* The state, and what a step leaves alone.                                *)

(* The types of the variables of the lists, and who may be where.          *)
Placed ==
    /\ stat \in [Thread -> {"INIT", "READY", "SUSPEND", "CLOSE"}]
    /\ current_priority \in [Thread -> Level]
    /\ ready \in [Level -> Seq(Thread)]
    /\ group \subseteq Level /\ current \in Thread
    /\ waits \subseteq Thread /\ defunct \in Seq(Thread)
    /\ \A t \in waits : stat[t] = "SUSPEND"
    /\ Once(defunct)
    /\ \A t \in Thread : Linked(defunct, t) => stat[t] = "CLOSE"
    /\ stat[Idle] = "READY" /\ Idle \in Thread
    /\ Idle \notin Removed /\ current \notin Removed

(* What the invariant of the lists says of the variables by name.          *)
LEMMA ListsPlaced ==
  ListsInv => Placed /\ Now \in States /\ Listed(Now, Filed(Now, Removed))
BY ThreadAssumption DEF ListsInv, Good, States, Now, Placed

(* A section leaves behind the record that its functions return.           *)
LEMMA BecomesNow ==
  ASSUME NEW r \in States, Become(r)
  PROVE  /\ Now' = r
         /\ stat' = r.stat /\ current_priority' = r.prio
         /\ ready' = r.ready /\ group' = r.group /\ current' = r.current
         /\ waits' = r.waits /\ defunct' = r.defunct
BY DEF Become, Now, States

(* Who is being deleted changes only in rt_thread_delete.                  *)
LEMMA RemovedSame ==
  ASSUME \A d \in Thread :
            /\ pc'[d] \in {"detach", "close"} <=> pc[d] \in {"detach", "close"}
            /\ pc[d] \in {"detach", "close"} => on'[d] = on[d]
  PROVE  Removed' = Removed
BY DEF Removed

(* Whoever works on t finds nothing changed that it relies on.             *)
Untouched(t) ==
    /\ stat'[t] = stat[t]
    /\ t \in waits' \union timer' => t \in waits \union timer
    /\ current' = t => current = t \/ stat'[t] = "READY"
    /\ Linked(defunct', t) => Linked(defunct, t)
    /\ t \in freed' => t \in freed

(* A claim survives a step that leaves the thread it is about untouched.   *)
LEMMA ClaimKept ==
  ASSUME NEW c, NEW t, Claims(c, t), Untouched(t), pc'[c] = pc[c]
  PROVE  Claims(c, t)'
BY DEF Claims, Untouched, Asleep, Dead

(* A step in which only c goes on with its call.                           *)
OthersKeep(c) ==
    \A d \in Thread \ {c} :
       /\ pc'[d] = pc[d] /\ on'[d] = on[d]
       /\ on[d] # None => Untouched(on[d]) \/ Claims(d, on[d])'

(* The claims of all survive a step of c that keeps those of the others.   *)
LEMMA ClaimsStep ==
  ASSUME ClaimsInv, NEW c \in Thread, OthersKeep(c),
         pc' \in [Thread -> Locations],
         on' \in [Thread -> Thread \union {None}],
         c = Idle => pc'[c] \in {"user", "free"},
         on'[c] = None => pc'[c] \in {"user", "schedule"},
         on'[c] # None => /\ Claims(c, on[c])'
                          /\ on'[c] = on[c] \/ Unclaimed(on'[c])
  PROVE  ClaimsInv'
<1>1. pc'[Idle] \in {"user", "free"}
  BY ThreadAssumption DEF ClaimsInv, OthersKeep
<1>2. ASSUME NEW d \in Thread, d # c
      PROVE  /\ on'[d] = None => pc'[d] \in {"user", "schedule"}
             /\ on'[d] # None => Claims(d, on[d])'
  <2>1. /\ pc'[d] = pc[d] /\ on'[d] = on[d]
        /\ on[d] # None => /\ Claims(d, on[d])
                           /\ Untouched(on[d]) \/ Claims(d, on[d])'
        /\ on[d] = None => pc[d] \in {"user", "schedule"}
    BY <1>2 DEF OthersKeep, ClaimsInv
  <2>2. ASSUME on[d] # None
        PROVE  Claims(d, on[d])'
    <3>1. CASE Untouched(on[d])
      <4>1. PICK t : t = on[d]
        OBVIOUS
      <4>2. Claims(d, t)'
        BY <2>1, <2>2, <3>1, <4>1, ClaimKept
      <4>3. on'[d] = t
        BY <2>1, <4>1
      <4> QED
        BY <4>2, <4>3 DEF Claims, Asleep, Dead
    <3> QED
      BY <2>1, <2>2, <3>1
  <2> QED
    BY <2>1, <2>2
<1>3. ASSUME NEW d \in Thread, NEW e \in Thread, on'[d] = on'[e],
             on'[d] # None
      PROVE  d = e
  <2>1. \A x \in Thread : x # c => on'[x] = on[x]
    BY DEF OthersKeep
  <2>2. \A x, y \in Thread : on[x] = on[y] /\ on[x] # None => x = y
    BY DEF ClaimsInv
  <2>3. on'[c] # None => on'[c] = on[c] \/ \A x \in Thread : on[x] # on'[c]
    BY DEF Unclaimed
  <2> QED
    BY <1>3, <2>1, <2>2, <2>3
<1>4. ASSUME NEW d \in Thread
      PROVE  /\ on'[d] = None => pc'[d] \in {"user", "schedule"}
             /\ on'[d] # None => Claims(d, on[d])'
  BY <1>2
<1>5. /\ (pc \in [Thread -> Locations])'
      /\ (on \in [Thread -> Thread \union {None}])'
  OBVIOUS
<1> QED
  BY <1>1, <1>3, <1>4, <1>5 DEF ClaimsInv

(* Nobody works on a thread that may be woken, or that is being woken.     *)
LEMMA WokenUnclaimed ==
  ASSUME ClaimsInv, ListsInv, WakeInv, NEW t \in waits \union timer
  PROVE  /\ t \in Thread /\ stat[t] = "SUSPEND"
         /\ Unclaimed(t) /\ t \notin Removed
<1>1. t \in Thread /\ stat[t] = "SUSPEND"
  BY ListsPlaced, ThreadAssumption DEF WakeInv, Placed
<1>2. ASSUME NEW d \in Thread, on[d] = t
      PROVE  FALSE
  <2>1. t # None
    BY <1>1, ThreadAssumption
  <2>2. Claims(d, t)
    BY <1>2, <2>1 DEF ClaimsInv
  <2> QED
    BY <1>1, <2>2 DEF Claims, Asleep, Dead, Locations
<1> QED
  BY <1>1, <1>2 DEF Unclaimed, Removed

(* After rt_schedule no thread that waits is more urgent.                  *)
LEMMA SettledUrgent ==
  ASSUME NEW r \in States, Become(r), Settled(r)
  PROVE  ~Preempted' /\ stat'[current'] = "READY"
<1>1. /\ stat' = r.stat /\ current_priority' = r.prio
      /\ group' = r.group /\ current' = r.current
  BY BecomesNow
<1>2. /\ r.prio \in [Thread -> Level] /\ r.group \subseteq Level
      /\ r.current \in Thread
  BY DEF States
<1>3. \A p \in group' : /\ p \in Nat /\ current_priority'[current'] \in Nat
                        /\ current_priority'[current'] <= p
  BY <1>1, <1>2, LevelAssumption DEF Settled
<1> QED
  BY <1>1, <1>3 DEF Settled, Preempted

(* A section in which the threads of M are made ready.                     *)
LEMMA WakingStep ==
  ASSUME SchedInv, NEW r, NEW M, M \subseteq waits \union timer,
         Good(r, Removed), Wakes(Now, r, M), Become(r),
         timer' = timer \ M, freed' = freed, Removed' = Removed
  PROVE  /\ ListsInv' /\ WakeInv'
         /\ \A d \in Thread : on[d] # None => Untouched(on[d])
         /\ \A t \in Thread :
               stat'[t] = IF t \in M THEN "READY" ELSE stat[t]
         /\ current' \in Thread
         /\ current' # current => lock_nest = 0 /\ stat'[current'] = "READY"
<1>0. ListsInv /\ WakeInv /\ ClaimsInv /\ Placed /\ r \in States
  BY ListsPlaced DEF SchedInv, Good
<1>1. /\ Now' = r /\ stat' = r.stat /\ current' = r.current
      /\ waits' = r.waits /\ defunct' = r.defunct
  BY <1>0, BecomesNow
<1>2. ListsInv'
  BY <1>1 DEF ListsInv
<1>3. /\ \A t \in Thread : stat'[t] = IF t \in M THEN "READY" ELSE stat[t]
      /\ waits' = waits \ M /\ defunct' = defunct /\ current' \in Thread
      /\ current' # current => lock_nest = 0 /\ stat'[current'] = "READY"
  BY <1>0, <1>1 DEF Wakes, Now, States
<1>4. \A t \in M : t \in Thread /\ stat[t] = "SUSPEND" /\ Unclaimed(t)
  BY <1>0, WokenUnclaimed
<1>5. \A t \in Thread \ M : Untouched(t)
  BY <1>3 DEF Untouched
<1>6. WakeInv'
  <2>1. /\ waits' \subseteq Sleepers \union Waiters
        /\ timer' \subseteq Sleepers /\ freed' \subseteq Thread
    BY <1>0, <1>3 DEF WakeInv
  <2>2. \A t \in timer' : stat'[t] = "SUSPEND"
    BY <1>0, <1>3, ThreadAssumption DEF WakeInv
  <2>3. ASSUME NEW t \in freed'
        PROVE  stat'[t] = "CLOSE" /\ t # current' /\ ~Linked(defunct', t)
    <3>1. /\ t \in Thread /\ stat[t] = "CLOSE"
          /\ t # current /\ ~Linked(defunct, t)
      BY <1>0 DEF WakeInv
    <3> QED
      BY <1>3, <1>4, <3>1
  <2> QED
    BY <2>1, <2>2, <2>3 DEF WakeInv
<1>7. \A d \in Thread : on[d] # None => Untouched(on[d])
  BY <1>0, <1>4, <1>5 DEF ClaimsInv, Unclaimed
<1> QED
  BY <1>2, <1>3, <1>6, <1>7

(* Between two calls a thread is ready, and works on nobody.               *)
LEMMA CallerReady ==
  ASSUME SchedInv, NEW c \in Thread, current = c, pc[c] # "schedule"
  PROVE  stat[c] = "READY"
BY DEF SchedInv, CountsInv

(* A thread outside the calls with several sections works on nobody.       *)
LEMMA CallerFree ==
  ASSUME SchedInv, NEW c \in Thread, pc[c] \in {"user", "schedule"}
  PROVE  on[c] = None
BY DEF SchedInv, ClaimsInv, Claims

(* The calls that work on nobody: c comes from one of two places and goes  *)
(* to one of them.                                                         *)
LEMMA FreeStep ==
  ASSUME SchedInv, NEW c \in Thread, c # Idle,
         pc[c] \in {"user", "schedule"}, NEW where \in {"user", "schedule"},
         Goto(c, where), on' = on,
         \A d \in Thread : on[d] # None => Untouched(on[d])
  PROVE  ClaimsInv' /\ Removed' = Removed
<1>1. ClaimsInv /\ on[c] = None
  BY CallerFree DEF SchedInv
<1>2. /\ pc' = [pc EXCEPT ![c] = where] /\ where \in Locations
      /\ pc \in [Thread -> Locations] /\ on \in [Thread -> Thread \union {None}]
  BY <1>1 DEF Goto, Locations, ClaimsInv
<1>3. OthersKeep(c)
  BY <1>2 DEF OthersKeep
<1>4. ClaimsInv'
  BY <1>1, <1>2, <1>3, ClaimsStep
<1>5. Removed' = Removed
  BY <1>2 DEF Removed
<1> QED
  BY <1>4, <1>5

------------------------------------------------------------------------------
(* Every step keeps the invariant, and the thread that runs goes on while  *)
(* the scheduler is locked.                                                *)
Kept == SchedInv' /\ (current' # current => lock_nest = 0)

(* rt_schedule. *)
LEMMA DoScheduleInv ==
  ASSUME SchedInv, NEW c \in Thread, DoSchedule(c)
  PROVE  Kept
<1> DEFINE r == Schedule(Now)
<1>0. /\ current = c /\ pc[c] = "schedule" /\ Become(r)
      /\ stale' = (stale /\ lock_nest # 0) /\ Goto(c, "user")
      /\ lock_nest' = lock_nest /\ remaining_tick' = remaining_tick
      /\ timer' = timer /\ freed' = freed /\ on' = on
  BY DEF DoSchedule, At
<1>1. /\ ListsInv /\ CountsInv /\ WakeInv /\ ClaimsInv /\ c # Idle
      /\ pc \in [Thread -> Locations]
  BY <1>0 DEF SchedInv, ClaimsInv
<1>2. Good(Now, Removed)
  BY <1>1 DEF ListsInv
<1>3. /\ Good(r, Removed) /\ Wakes(Now, r, {})
      /\ lock_nest = 0 => Settled(r)
      /\ lock_nest # 0 => r = Now
  BY <1>2, ScheduleGood
<1> HIDE DEF r
<1>4. Removed' = Removed
  BY <1>0, <1>1 DEF Goto, Removed
<1>5. timer' = timer \ {} /\ {} \subseteq waits \union timer
  BY <1>0
<1>6. /\ ListsInv' /\ WakeInv'
      /\ \A d \in Thread : on[d] # None => Untouched(on[d])
      /\ \A t \in Thread : stat'[t] = stat[t]
      /\ current' \in Thread
      /\ current' # current => lock_nest = 0 /\ stat'[current'] = "READY"
  BY <1>0, <1>3, <1>4, <1>5, WakingStep
<1>7. ClaimsInv'
  BY <1>0, <1>1, <1>6, FreeStep
<1>8. lock_nest = 0 => ~Preempted' /\ stat'[current'] = "READY"
  BY <1>0, <1>3, SettledUrgent DEF Good
<1>9. lock_nest # 0 => stat'[current'] = "READY"
  BY <1>0, <1>1, <1>6 DEF CountsInv
<1>10. CountsInv'
  BY <1>0, <1>1, <1>8, <1>9 DEF CountsInv
<1>11. MostUrgentRuns'
  BY <1>0, <1>8 DEF MostUrgentRuns
<1> QED
  BY <1>6, <1>7, <1>10, <1>11 DEF Kept, SchedInv

(* rt_thread_yield and the two ends of a critical section.                 *)
LEMMA QuietInv ==
  ASSUME SchedInv, NEW c \in Thread,
         Yield(c) \/ EnterCritical(c) \/ ExitCritical(c)
  PROVE  Kept
<1>0. /\ current = c /\ pc[c] = "user" /\ c # Idle
      /\ stat' = stat /\ current_priority' = current_priority
      /\ ready' = ready /\ group' = group /\ current' = current
      /\ waits' = waits /\ defunct' = defunct
      /\ remaining_tick' = remaining_tick /\ timer' = timer
      /\ freed' = freed /\ on' = on /\ stale' = stale
  BY DEF Yield, EnterCritical, ExitCritical, Calls, At, queues
<1>1. ListsInv /\ CountsInv /\ WakeInv /\ ClaimsInv /\ MostUrgentRuns /\ Placed
  BY ListsPlaced DEF SchedInv
<1>2. /\ pc \in [Thread -> Locations]
      /\ lock_nest \in 0..MaxNest /\ MaxNest \in Nat
  BY <1>1, TickAssumption DEF ClaimsInv, CountsInv
<1>3. PICK where \in {"user", "schedule"} :
        /\ Goto(c, where)
        /\ lock_nest' \in 0..MaxNest
        /\ where = "user" => lock_nest' > 0
  <2>1. CASE Yield(c)
    BY <1>2, <2>1 DEF Yield
  <2>2. CASE EnterCritical(c)
    <3>1. pc' = [pc EXCEPT ![c] = "user"]
      BY <1>0, <1>2, <2>2 DEF EnterCritical
    <3> QED
      BY <1>2, <2>2, <3>1 DEF EnterCritical, Goto
  <2>3. CASE ExitCritical(c)
    BY <1>2, <2>3 DEF ExitCritical
  <2> QED
    BY <2>1, <2>2, <2>3
<1>4. \A d \in Thread : on[d] # None => Untouched(on[d])
  BY <1>0 DEF Untouched
<1>5. ClaimsInv' /\ Removed' = Removed
  BY <1>0, <1>3, <1>4, FreeStep
<1>6. ListsInv'
  BY <1>0, <1>1, <1>5 DEF ListsInv, Now
<1>7. WakeInv'
  BY <1>0, <1>1 DEF WakeInv
<1>8. stat[c] = "READY"
  BY <1>0, CallerReady
<1>9. CountsInv'
  BY <1>0, <1>1, <1>3, <1>8 DEF CountsInv
<1>10. MostUrgentRuns'
  BY <1>0, <1>2, <1>3 DEF MostUrgentRuns, Goto
<1> QED
  BY <1>0, <1>5, <1>6, <1>7, <1>9, <1>10 DEF Kept, SchedInv

(* A release or a send, of the running thread or of an interrupt.          *)
LEMMA WakeStepInv ==
  ASSUME SchedInv, NEW c \in Thread, NEW t, Wake(c, t)
  PROVE  Kept
<1> DEFINE r == Resume(Now, t)
<1>0. /\ current = c /\ pc[c] = "user" /\ c # Idle
      /\ t \in waits /\ stat[t] = "SUSPEND" /\ Become(r)
      /\ timer' = timer \ {t} /\ Goto(c, "schedule")
      /\ lock_nest' = lock_nest /\ remaining_tick' = remaining_tick
      /\ freed' = freed /\ on' = on /\ stale' = stale
  BY DEF Wake, Calls, At
<1>1. /\ ListsInv /\ CountsInv /\ WakeInv /\ ClaimsInv
      /\ pc \in [Thread -> Locations]
  BY DEF SchedInv, ClaimsInv
<1>2. t \in Thread /\ t \notin Removed
  BY <1>0, <1>1, WokenUnclaimed
<1>3. Good(r, Removed) /\ Wakes(Now, r, {t}) /\ r.current = Now.current
  <2>1. Good(Now, Removed) /\ Now.stat[t] = "SUSPEND"
    BY <1>0, <1>1 DEF ListsInv, Now
  <2> QED
    BY <1>2, <2>1, ResumeGood
<1> HIDE DEF r
<1>4. Removed' = Removed
  BY <1>0, <1>1 DEF Goto, Removed
<1>5. {t} \subseteq waits \union timer
  BY <1>0
<1>6. /\ ListsInv' /\ WakeInv'
      /\ \A d \in Thread : on[d] # None => Untouched(on[d])
      /\ \A u \in Thread : stat'[u] = IF u \in {t} THEN "READY" ELSE stat[u]
      /\ current' \in Thread
      /\ current' # current => lock_nest = 0 /\ stat'[current'] = "READY"
  BY <1>0, <1>3, <1>4, <1>5, WakingStep
<1>7. ClaimsInv'
  BY <1>0, <1>1, <1>6, FreeStep
<1>8. stat[c] = "READY"
  BY <1>0, CallerReady
<1>9. current' = current
  BY <1>0, <1>3, BecomesNow DEF Good, Now
<1>10. stat'[current'] = "READY"
  BY <1>0, <1>6, <1>8, <1>9
<1>11. CountsInv'
  BY <1>0, <1>1, <1>10 DEF CountsInv
<1>12. MostUrgentRuns'
  BY <1>0, <1>1, <1>9 DEF MostUrgentRuns, Goto
<1> QED
  BY <1>6, <1>7, <1>9, <1>11, <1>12 DEF Kept, SchedInv

(* What an interrupt leaves where it is. *)
LEMMA InterruptKeeps ==
  ASSUME ClaimsInv, pc' = pc, on' = on,
         \A d \in Thread : on[d] # None => Untouched(on[d])
  PROVE  ClaimsInv'
<1>1. OthersKeep(Idle)
  BY DEF OthersKeep
<1>2. /\ Idle \in Thread /\ pc[Idle] \in {"user", "free"}
      /\ pc \in [Thread -> Locations]
      /\ on \in [Thread -> Thread \union {None}]
      /\ on[Idle] = None => pc[Idle] \in {"user", "schedule"}
      /\ on[Idle] # None => Claims(Idle, on[Idle]) /\ Untouched(on[Idle])
  BY ThreadAssumption DEF ClaimsInv
<1>3. ASSUME on[Idle] # None
      PROVE  Claims(Idle, on[Idle])'
  <2>1. PICK t : t = on[Idle]
    OBVIOUS
  <2>2. Claims(Idle, t)'
    BY <1>2, <1>3, <2>1, ClaimKept
  <2> QED
    BY <2>1, <2>2 DEF Claims, Asleep, Dead
<1> QED
  BY <1>1, <1>2, <1>3, ClaimsStep

(* rt_tick_increase: the time slice and the thread timers.                 *)
LEMMA TickInv ==
  ASSUME SchedInv, NEW due \in SUBSET timer, Tick(due)
  PROVE  Kept
<1>1. /\ ListsInv /\ CountsInv /\ WakeInv /\ ClaimsInv
      /\ pc \in [Thread -> Locations] /\ Placed /\ Good(Now, Removed)
  BY ListsPlaced DEF SchedInv, ClaimsInv, ListsInv
<1>2. PICK order \in Orders(due) : Become(AllTimedOut(Sliced(Now), order))
  BY DEF Tick
<1> DEFINE m == Sliced(Now)
           r == AllTimedOut(m, order)
<1>3. /\ Become(r) /\ timer' = timer \ due
      /\ stale' = (/\ stale
                   /\ \/ lock_nest # 0
                      \/ remaining_tick[current] > 1 /\ due = {})
      /\ lock_nest' = lock_nest /\ freed' = freed /\ pc' = pc /\ on' = on
      /\ remaining_tick' =
           [remaining_tick EXCEPT ![current] = SliceLeft(current)]
  BY <1>2 DEF Tick
<1>4. /\ Good(m, Removed) /\ Wakes(Now, m, {})
      /\ remaining_tick[current] # 1 => m = Now
      /\ remaining_tick[current] = 1 /\ lock_nest = 0 => Settled(m)
  <2>1. CASE remaining_tick[current] = 1
    BY <1>1, <2>1, ScheduleGood DEF Sliced
  <2>2. CASE remaining_tick[current] # 1
    <3>1. Wakes(Now, Now, {})
      BY DEF Wakes
    <3> QED
      BY <1>1, <2>2, <3>1 DEF Sliced
  <2> QED
    BY <2>1, <2>2
<1>5. /\ due \in SUBSET Thread /\ due \subseteq waits \union timer
      /\ \A t \in due : t \in Thread /\ stat[t] = "SUSPEND" /\ t \notin Removed
  BY <1>1, WokenUnclaimed
<1> HIDE DEF m
<1>6. \A t \in due : m.stat[t] = "SUSPEND" /\ t \notin Removed
  BY <1>4, <1>5 DEF Wakes, Now
<1>7. /\ Good(r, Removed) /\ Wakes(m, r, due)
      /\ due = {} => r = m
      /\ lock_nest = 0 /\ due # {} => Settled(r)
  BY <1>2, <1>4, <1>5, <1>6, AllTimedOutGood
<1> HIDE DEF r
<1>8. Wakes(Now, r, due)
  <2>1. Wakes(Now, r, {} \union due)
    BY <1>1, <1>4, <1>7, WakesTwice DEF Good
  <2>2. {} \union due = due
    OBVIOUS
  <2> QED
    BY <2>1, <2>2
<1>9. Removed' = Removed
  BY <1>3 DEF Removed
<1>10. /\ ListsInv' /\ WakeInv'
       /\ \A d \in Thread : on[d] # None => Untouched(on[d])
       /\ \A t \in Thread : stat'[t] = IF t \in due THEN "READY" ELSE stat[t]
       /\ current' \in Thread
       /\ current' # current => lock_nest = 0 /\ stat'[current'] = "READY"
  BY <1>3, <1>5, <1>7, <1>8, <1>9, WakingStep
<1>11. ClaimsInv'
  BY <1>1, <1>3, <1>10, InterruptKeeps
<1>12. SliceLeft(current) \in 1..InitTick[current]
  <2>1. /\ remaining_tick[current] \in 1..InitTick[current]
        /\ InitTick[current] \in Nat \ {0}
    BY <1>1, TickAssumption DEF CountsInv, Placed
  <2> QED
    BY <2>1 DEF SliceLeft
<1>13. CountsInv'
  <2>1. /\ remaining_tick' \in [Thread -> Nat]
        /\ \A t \in Thread : remaining_tick'[t] \in 1..InitTick[t]
    BY <1>1, <1>3, <1>12 DEF CountsInv, Placed
  <2>2. stat'[current'] # "READY" =>
           pc'[current'] = "schedule" /\ lock_nest' = 0
    BY <1>1, <1>3, <1>10 DEF CountsInv, Placed
  <2>3. stale' \in BOOLEAN
    BY <1>3
  <2> QED
    BY <1>1, <1>3, <2>1, <2>2, <2>3 DEF CountsInv
<1>14. MostUrgentRuns'
  <2> SUFFICES ASSUME lock_nest = 0, pc[current'] # "schedule", ~stale'
               PROVE  ~Preempted'
    BY <1>3 DEF MostUrgentRuns
  <2>1. CASE Settled(r)
    BY <1>3, <1>7, <2>1, SettledUrgent DEF Good
  <2>2. CASE ~Settled(r)
    <3>1. due = {} /\ remaining_tick[current] # 1 /\ r = Now
      BY <1>4, <1>7, <2>2
    <3>2. /\ current' = current /\ group' = group
          /\ current_priority' = current_priority
      BY <1>1, <1>3, <3>1, BecomesNow DEF Now, Good
    <3>3. remaining_tick[current] > 1
      BY <1>1, <3>1 DEF CountsInv, Placed
    <3>4. ~stale
      BY <1>3, <3>1, <3>3
    <3> QED
      BY <3>2, <3>4 DEF SchedInv, MostUrgentRuns, Preempted
  <2> QED
    BY <2>1, <2>2
<1> QED
  BY <1>10, <1>11, <1>13, <1>14 DEF Kept, SchedInv

(* An interrupt handler that resumes a waiting thread.                     *)
LEMMA InterruptInv ==
  ASSUME SchedInv, NEW t \in Thread, Interrupt(t)
  PROVE  Kept
<1> DEFINE m == Resume(Now, t)
           r == Schedule(m)
<1>0. /\ t \in waits /\ stat[t] = "SUSPEND" /\ Become(r)
      /\ timer' = timer \ {t} /\ stale' = (stale /\ lock_nest # 0)
      /\ lock_nest' = lock_nest /\ remaining_tick' = remaining_tick
      /\ freed' = freed /\ pc' = pc /\ on' = on
  BY DEF Interrupt
<1>1. /\ ListsInv /\ CountsInv /\ WakeInv /\ ClaimsInv
      /\ pc \in [Thread -> Locations] /\ Placed /\ Good(Now, Removed)
  BY ListsPlaced DEF SchedInv, ClaimsInv, ListsInv
<1>2. t \notin Removed /\ {t} \subseteq waits \union timer
  BY <1>0, <1>1, WokenUnclaimed
<1>3. /\ Good(r, Removed) /\ Wakes(Now, r, {t})
      /\ lock_nest = 0 => Settled(r)
  <2>1. Now.stat[t] = "SUSPEND"
    BY <1>0 DEF Now
  <2>2. r = TimedOut(Now, t)
    BY DEF TimedOut
  <2> HIDE DEF r
  <2> QED
    BY <1>1, <1>2, <2>1, <2>2, TimedOutGood
<1> HIDE DEF r
<1>4. Removed' = Removed
  BY <1>0 DEF Removed
<1>5. /\ ListsInv' /\ WakeInv'
      /\ \A d \in Thread : on[d] # None => Untouched(on[d])
      /\ \A u \in Thread : stat'[u] = IF u \in {t} THEN "READY" ELSE stat[u]
      /\ current' \in Thread
      /\ current' # current => lock_nest = 0 /\ stat'[current'] = "READY"
  BY <1>0, <1>2, <1>3, <1>4, WakingStep
<1>6. ClaimsInv'
  BY <1>0, <1>1, <1>5, InterruptKeeps
<1>7. CountsInv'
  BY <1>0, <1>1, <1>5 DEF CountsInv, Placed
<1>8. lock_nest = 0 => ~Preempted'
  BY <1>0, <1>3, SettledUrgent DEF Good
<1>9. MostUrgentRuns'
  BY <1>0, <1>8 DEF MostUrgentRuns
<1> QED
  BY <1>5, <1>6, <1>7, <1>9 DEF Kept, SchedInv

(* rt_thread_suspend by the running thread, which may then wait on the     *)
(* list of an object.                                                      *)
LEMMA SuspendGood ==
  ASSUME NEW s, NEW rm, Good(s, rm), NEW c, c = s.current, c # Idle,
         s.stat[c] = "READY"
  PROVE  LET r == Suspend(s, c) IN
         /\ r \in States /\ Listed(r, Filed(r, rm))
         /\ r.stat = [s.stat EXCEPT ![c] = "SUSPEND"]
         /\ r.prio = s.prio /\ r.current = c /\ r.waits = s.waits
         /\ r.defunct = s.defunct
<1> DEFINE m == [s EXCEPT !.stat[c] = "SUSPEND"]
           r == Suspend(s, c)
           W == Filed(s, rm)
<1>1. /\ s \in States /\ c \in Thread /\ Listed(s, W) /\ c \notin W
      /\ s.stat \in [Thread -> {"INIT", "READY", "SUSPEND", "CLOSE"}]
      /\ s.defunct \in Seq(Thread) /\ ~Linked(s.defunct, c)
      /\ c \notin s.waits
  BY DEF Good, States, Filed
<1>2. /\ m \in States /\ m.stat = [s.stat EXCEPT ![c] = "SUSPEND"]
      /\ m.prio = s.prio /\ m.ready = s.ready /\ m.group = s.group
      /\ m.current = c /\ m.waits = s.waits /\ m.defunct = s.defunct
  BY <1>1 DEF States
<1>3. r = RemoveThread(m, c)
  BY DEF Suspend
<1> HIDE DEF m, r, W
<1>4. Listed(m, W)
  BY <1>1, <1>2, ListedSame
<1>5. /\ r \in States /\ r.stat = [s.stat EXCEPT ![c] = "SUSPEND"]
      /\ r.prio = s.prio /\ r.current = c /\ r.waits = s.waits \ {c}
      /\ r.defunct = Unlink(s.defunct, c)
  BY <1>1, <1>2, <1>3, RemoveFields
<1>6. Listed(r, W \ {c})
  BY <1>1, <1>2, <1>3, <1>4, RemoveListed
<1>7. \A t \in Thread : r.stat[t] = IF t = c THEN "SUSPEND" ELSE s.stat[t]
  BY <1>1, <1>5
<1>8. Filed(r, rm) = W \ {c}
  BY <1>1, <1>5, <1>7 DEF Filed, W
<1>9. Unlink(s.defunct, c) = s.defunct
  BY <1>1, UnlinkLinked
<1> QED
  BY <1>1, <1>5, <1>6, <1>8, <1>9 DEF r

Blocked(s, c, linked) ==
    [Suspend(s, c) EXCEPT !.waits = IF linked THEN @ \union {c} ELSE @]

(* The record of the lists after a thread has suspended itself.            *)
LEMMA BlockGood ==
  ASSUME NEW s, NEW rm, Good(s, rm), NEW c, c = s.current, c # Idle,
         s.stat[c] = "READY", NEW linked \in BOOLEAN
  PROVE  LET r == Blocked(s, c, linked)
         IN  /\ Good(r, rm)
             /\ r.stat = [s.stat EXCEPT ![c] = "SUSPEND"]
             /\ r.prio = s.prio /\ r.current = c
             /\ r.waits = IF linked THEN s.waits \union {c} ELSE s.waits
             /\ r.defunct = s.defunct
<1> DEFINE m == Suspend(s, c)
           r == [m EXCEPT !.waits = IF linked THEN @ \union {c} ELSE @]
<1>1. /\ m \in States /\ Listed(m, Filed(m, rm))
      /\ m.stat = [s.stat EXCEPT ![c] = "SUSPEND"]
      /\ m.prio = s.prio /\ m.current = c /\ m.waits = s.waits
      /\ m.defunct = s.defunct
  BY SuspendGood
<1> HIDE DEF m
<1>2. /\ s \in States /\ c \in Thread /\ c \notin rm
      /\ s.stat \in [Thread -> {"INIT", "READY", "SUSPEND", "CLOSE"}]
      /\ Idle \in Thread /\ ~Linked(s.defunct, c) /\ s.waits \subseteq Thread
      /\ \A t \in s.waits : s.stat[t] = "SUSPEND"
      /\ Once(s.defunct) /\ s.stat[Idle] = "READY" /\ Idle \notin rm
      /\ \A t \in Thread : Linked(s.defunct, t) => s.stat[t] = "CLOSE"
  BY ThreadAssumption DEF Good, States
<1>3. /\ r \in States /\ r.stat = m.stat /\ r.prio = m.prio
      /\ r.ready = m.ready /\ r.group = m.group /\ r.current = m.current
      /\ r.waits = IF linked THEN s.waits \union {c} ELSE s.waits
      /\ r.defunct = m.defunct
  BY <1>1, <1>2 DEF States
<1> HIDE DEF r
<1>4. Filed(r, rm) = Filed(m, rm)
  BY <1>3 DEF Filed
<1>5. Listed(r, Filed(r, rm))
  BY <1>1, <1>3, <1>4, ListedSame
<1>6. \A t \in Thread : r.stat[t] = IF t = c THEN "SUSPEND" ELSE s.stat[t]
  BY <1>1, <1>2, <1>3
<1>7. Good(r, rm)
  BY <1>1, <1>2, <1>3, <1>5, <1>6 DEF Good
<1> QED
  BY <1>1, <1>3, <1>7 DEF r, m, Blocked

(* Only rt_thread_resume works on the thread that runs, and that thread    *)
(* then waits for nobody else.                                             *)
LEMMA ClaimOnRunning ==
  ASSUME SchedInv, stat[current] = "READY", NEW d \in Thread, on[d] = current
  PROVE  pc[d] = "resume" /\ current \notin Sleepers \union Waiters
<1>1. Placed /\ ClaimsInv /\ on[d] # None
  BY ListsPlaced, ThreadAssumption DEF SchedInv, Placed
<1>2. Claims(d, current)
  BY <1>1 DEF ClaimsInv
<1>3. pc[d] \notin {"detach", "close"}
  BY <1>1 DEF Placed, Removed
<1> QED
  BY <1>2, <1>3 DEF Claims, Asleep, Dead, Locations

(* A thread that suspends itself in a call that waits.                     *)
LEMMA BlockInv ==
  ASSUME SchedInv, NoRace, NEW c \in Thread, NEW linked \in BOOLEAN,
         NEW timed \in BOOLEAN, Block(c, linked, timed)
  PROVE  Kept
<1> DEFINE r == Blocked(Now, c, linked)
<1>0. /\ current = c /\ pc[c] = "user" /\ c # Idle /\ lock_nest = 0
      /\ c \in IF timed THEN Sleepers ELSE IF linked THEN Waiters ELSE Parkers
      /\ Become(r)
      /\ timer' = IF timed THEN timer \union {c} ELSE timer \ {c}
      /\ Goto(c, "schedule")
      /\ lock_nest' = lock_nest /\ remaining_tick' = remaining_tick
      /\ freed' = freed /\ on' = on /\ stale' = stale
  BY DEF Block, Calls, At, Blocked
<1>1. /\ ListsInv /\ CountsInv /\ WakeInv /\ ClaimsInv
      /\ pc \in [Thread -> Locations] /\ Placed /\ Good(Now, Removed)
  BY ListsPlaced DEF SchedInv, ClaimsInv, ListsInv
<1>2. stat[c] = "READY"
  BY <1>0, CallerReady
<1>3. /\ Good(r, Removed) /\ r.stat = [stat EXCEPT ![c] = "SUSPEND"]
      /\ r.current = c /\ r.defunct = defunct
      /\ r.waits = IF linked THEN waits \union {c} ELSE waits
  <2>1. Now.stat = stat /\ c = Now.current
    BY <1>0 DEF Now
  <2> HIDE DEF r
  <2>2. /\ Good(r, Removed) /\ r.stat = [Now.stat EXCEPT ![c] = "SUSPEND"]
        /\ r.current = c /\ r.defunct = Now.defunct
        /\ r.waits = IF linked THEN Now.waits \union {c} ELSE Now.waits
    BY <1>0, <1>1, <1>2, <2>1, BlockGood DEF r
  <2> QED
    BY <2>2 DEF Now
<1> HIDE DEF r
<1>4. /\ Now' = r /\ stat' = [stat EXCEPT ![c] = "SUSPEND"]
      /\ current' = c /\ defunct' = defunct
      /\ waits' = IF linked THEN waits \union {c} ELSE waits
  BY <1>0, <1>3, BecomesNow DEF Good
<1>5. Removed' = Removed
  BY <1>0, <1>1 DEF Goto, Removed
<1>6. ListsInv'
  BY <1>3, <1>4, <1>5 DEF ListsInv
<1>7. \A t \in Thread : stat'[t] = IF t = c THEN "SUSPEND" ELSE stat[t]
  BY <1>1, <1>4 DEF Placed
<1>8. WakeInv'
  <2>1. /\ waits' \subseteq Sleepers \union Waiters
        /\ timer' \subseteq Sleepers /\ freed' \subseteq Thread
    BY <1>0, <1>1, <1>4 DEF WakeInv
  <2>2. \A t \in timer' : stat'[t] = "SUSPEND"
    BY <1>0, <1>1, <1>7, ThreadAssumption DEF WakeInv
  <2>3. \A t \in freed' :
           stat'[t] = "CLOSE" /\ t # current' /\ ~Linked(defunct', t)
    BY <1>0, <1>1, <1>2, <1>4, <1>7 DEF WakeInv
  <2> QED
    BY <2>1, <2>2, <2>3 DEF WakeInv
<1>9. ASSUME NEW d \in Thread \ {c}, on[d] # None
      PROVE  Untouched(on[d]) \/ Claims(d, on[d])'
  <2>1. Claims(d, on[d]) /\ on[d] \in Thread
    BY <1>1, <1>9 DEF ClaimsInv
  <2>2. pc'[d] = pc[d]
    BY <1>0, <1>1, <1>9 DEF Goto
  <2>3. CASE on[d] = c
    <3>1. pc[d] = "resume" /\ c \notin Sleepers \union Waiters
      BY <1>0, <1>2, <2>3, ClaimOnRunning
    <3>2. ~linked /\ ~timed
      BY <1>0, <3>1
    <3>3. c \notin waits' \union timer'
      BY <1>0, <1>1, <1>2, <1>4, <3>2 DEF Placed
    <3>4. stat'[c] = "SUSPEND"
      BY <1>7
    <3>5. on'[d] = c
      BY <1>0, <2>3
    <3> QED
      BY <1>9, <2>1, <2>2, <2>3, <3>1, <3>3, <3>4, <3>5 DEF Claims, Asleep
  <2>4. CASE on[d] # c
    <3>1. on[d] \in waits' \union timer' => on[d] \in waits \union timer
      BY <1>0, <1>4, <2>4
    <3> QED
      BY <1>0, <1>4, <1>7, <2>1, <2>4, <3>1 DEF Untouched
  <2> QED
    BY <2>3, <2>4
<1>10. ClaimsInv'
  <2>1. OthersKeep(c)
    BY <1>0, <1>1, <1>9 DEF OthersKeep, Goto
  <2>2. on[c] = None
    BY <1>0, CallerFree
  <2>3. /\ pc' \in [Thread -> Locations] /\ pc'[c] = "schedule"
        /\ on' \in [Thread -> Thread \union {None}]
    BY <1>0, <1>1 DEF Goto, ClaimsInv, Locations
  <2> QED
    BY <1>0, <1>1, <2>1, <2>2, <2>3, ClaimsStep
<1>11. pc'[current'] = "schedule"
  BY <1>0, <1>1, <1>4 DEF Goto
<1>12. CountsInv'
  BY <1>0, <1>1, <1>11 DEF CountsInv
<1>13. MostUrgentRuns'
  BY <1>11 DEF MostUrgentRuns
<1> QED
  BY <1>0, <1>6, <1>8, <1>10, <1>12, <1>13 DEF Kept, SchedInv

(* What a call in progress works on. *)
LEMMA CallsOn ==
  ASSUME SchedInv, NEW c \in Thread, pc[c] \notin {"user", "schedule"}
  PROVE  /\ on[c] \in Thread /\ on[c] # None /\ Claims(c, on[c])
         /\ \A d \in Thread : on[d] = on[c] => d = c
<1>1. ClaimsInv /\ None \notin Thread
  BY ThreadAssumption DEF SchedInv
<1>2. on[c] # None
  BY <1>1 DEF ClaimsInv
<1>3. Claims(c, on[c]) /\ on[c] \in Thread
  BY <1>1, <1>2 DEF ClaimsInv, Claims
<1> QED
  BY <1>1, <1>2, <1>3 DEF ClaimsInv

(* c goes to another place of its call, or begins to work on t.            *)
LEMMA CallGoesOn ==
  ASSUME SchedInv, NEW c \in Thread, NEW t \in Thread, NEW where \in Locations,
         Goto(c, where), on' = [on EXCEPT ![c] = t],
         c = Idle => where = "free",
         on[c] = t \/ Unclaimed(t), Claims(c, t)',
         \A d \in Thread \ {c} : on[d] # None => Untouched(on[d])
  PROVE  ClaimsInv'
<1>1. /\ ClaimsInv /\ pc \in [Thread -> Locations]
      /\ on \in [Thread -> Thread \union {None}] /\ t # None
  BY ThreadAssumption DEF SchedInv, ClaimsInv
<1>2. /\ pc' \in [Thread -> Locations] /\ pc'[c] = where
      /\ on' \in [Thread -> Thread \union {None}] /\ on'[c] = t
      /\ OthersKeep(c)
  BY <1>1 DEF Goto, OthersKeep
<1>3. Claims(c, on[c])'
  BY <1>2 DEF Claims, Asleep, Dead
<1> QED
  BY <1>1, <1>2, <1>3, ClaimsStep

(* c has done its work.                                                    *)
LEMMA CallEnds ==
  ASSUME SchedInv, NEW c \in Thread, NEW where \in {"user", "schedule"},
         Goto(c, where), on' = [on EXCEPT ![c] = None],
         c = Idle => where = "user",
         \A d \in Thread \ {c} : on[d] # None => Untouched(on[d])
  PROVE  ClaimsInv'
<1>1. /\ ClaimsInv /\ pc \in [Thread -> Locations]
      /\ on \in [Thread -> Thread \union {None}] /\ where \in Locations
  BY DEF SchedInv, ClaimsInv, Locations
<1>2. /\ pc' \in [Thread -> Locations] /\ pc'[c] = where
      /\ on' \in [Thread -> Thread \union {None}] /\ on'[c] = None
      /\ OthersKeep(c)
  BY <1>1 DEF Goto, OthersKeep
<1> QED
  BY <1>1, <1>2, ClaimsStep

(* rt_thread_startup. *)
LEMMA StartupInv ==
  ASSUME SchedInv, NEW c \in Thread, NEW t \in Thread, Startup(c, t)
  PROVE  Kept
<1>0. /\ current = c /\ pc[c] = "user" /\ c # Idle
      /\ stat[t] = "INIT" /\ Unclaimed(t)
      /\ current_priority' = [current_priority EXCEPT ![t] = InitPriority[t]]
      /\ stat' = [stat EXCEPT ![t] = "SUSPEND"]
      /\ Goto(c, "resume") /\ on' = [on EXCEPT ![c] = t]
      /\ ready' = ready /\ group' = group /\ current' = current
      /\ waits' = waits /\ defunct' = defunct /\ lock_nest' = lock_nest
      /\ remaining_tick' = remaining_tick /\ timer' = timer
      /\ freed' = freed /\ stale' = stale
  BY DEF Startup, Calls, At
<1>1. /\ ListsInv /\ CountsInv /\ WakeInv /\ ClaimsInv /\ MostUrgentRuns
      /\ pc \in [Thread -> Locations] /\ Placed /\ Good(Now, Removed)
      /\ Listed(Now, Filed(Now, Removed))
  BY ListsPlaced DEF SchedInv, ClaimsInv, ListsInv
<1>2. stat[c] = "READY" /\ c # t
  BY <1>0, CallerReady
<1>3. /\ \A u \in Thread : stat'[u] = IF u = t THEN "SUSPEND" ELSE stat[u]
      /\ \A u \in Thread : u # t => current_priority'[u] = current_priority[u]
      /\ stat' \in [Thread -> {"INIT", "READY", "SUSPEND", "CLOSE"}]
      /\ current_priority' \in [Thread -> Level]
  BY <1>0, <1>1, LevelAssumption DEF Placed
<1>4. Removed' = Removed
  <2>1. /\ pc'[c] = "resume"
        /\ \A d \in Thread : d # c => pc'[d] = pc[d] /\ on'[d] = on[d]
    BY <1>0, <1>1 DEF Goto
  <2> QED
    BY <1>0, <2>1, RemovedSame
<1>5. ListsInv'
  <2>1. /\ Now' \in States /\ Filed(Now', Removed) = Filed(Now, Removed)
        /\ t \notin Filed(Now, Removed)
    BY <1>0, <1>1, <1>3 DEF Filed, Now, States, Placed
  <2>2. Listed(Now', Filed(Now, Removed))
    BY <1>0, <1>1, <1>3, <2>1 DEF Listed, Now
  <2>3. /\ \A u \in waits' : stat'[u] = "SUSPEND"
        /\ Once(defunct') /\ stat'[Idle] = "READY"
        /\ \A u \in Thread : Linked(defunct', u) => stat'[u] = "CLOSE"
        /\ Idle \notin Removed /\ current' \notin Removed
    BY <1>0, <1>1, <1>3 DEF Placed
  <2>4. Good(Now', Removed)
    BY <2>1, <2>2, <2>3 DEF Good, Now
  <2> QED
    BY <1>4, <2>4 DEF ListsInv
<1>6. WakeInv'
  <2>1. \A u \in timer' : stat'[u] = "SUSPEND"
    BY <1>0, <1>1, <1>3, ThreadAssumption DEF WakeInv
  <2>2. \A u \in freed' :
           stat'[u] = "CLOSE" /\ u # current' /\ ~Linked(defunct', u)
    BY <1>0, <1>1, <1>3 DEF WakeInv
  <2> QED
    BY <1>0, <1>1, <2>1, <2>2 DEF WakeInv
<1>7. ClaimsInv'
  <2>1. \A d \in Thread \ {c} : on[d] # None => Untouched(on[d])
    BY <1>0, <1>1, <1>3 DEF Untouched, Unclaimed, ClaimsInv
  <2>2. Claims(c, t)'
    <3>1. pc'[c] = "resume" /\ stat'[t] = "SUSPEND"
      BY <1>0, <1>1, <1>3 DEF Goto
    <3>2. t \notin waits' \union timer'
      BY <1>0, <1>1 DEF Placed, WakeInv
    <3> QED
      BY <1>2, <3>1, <3>2 DEF Claims, Asleep, Locations
  <2>3. "resume" \in Locations
    BY DEF Locations
  <2> QED
    BY <1>0, <2>1, <2>2, <2>3, CallGoesOn
<1>8. CountsInv'
  BY <1>0, <1>1, <1>2, <1>3 DEF CountsInv
<1>9. MostUrgentRuns'
  BY <1>0, <1>1, <1>2, <1>3 DEF MostUrgentRuns, Preempted, Placed
<1> QED
  BY <1>0, <1>5, <1>6, <1>7, <1>8, <1>9 DEF Kept, SchedInv

(* rt_thread_resume, up to its test.                                       *)
LEMMA ResumeTestInv ==
  ASSUME SchedInv, NoRace, NEW c \in Thread,
         (\E t \in Thread : CallResume(c, t)) \/ ResumeTest(c)
  PROVE  Kept
<1>0. /\ current = c /\ pc[c] # "schedule"
      /\ stat' = stat /\ current_priority' = current_priority
      /\ ready' = ready /\ group' = group /\ current' = current
      /\ waits' = waits /\ defunct' = defunct /\ lock_nest' = lock_nest
      /\ remaining_tick' = remaining_tick /\ timer' = timer
      /\ freed' = freed /\ stale' = stale
  BY DEF CallResume, ResumeTest, Calls, At, queues
<1>1. /\ ListsInv /\ CountsInv /\ WakeInv /\ ClaimsInv /\ MostUrgentRuns
      /\ pc \in [Thread -> Locations] /\ Placed
      /\ on \in [Thread -> Thread \union {None}]
  BY ListsPlaced DEF SchedInv, ClaimsInv
<1>2. stat[c] = "READY"
  BY <1>0, CallerReady
<1>3. \A d \in Thread : on[d] # None => Untouched(on[d])
  BY <1>0 DEF Untouched
<1>4. ClaimsInv' /\ Removed' = Removed
  <2>1. ASSUME NEW t \in Thread, CallResume(c, t)
        PROVE  ClaimsInv' /\ Removed' = Removed
    <3>1. /\ pc[c] = "user" /\ t # c /\ t \in Nudged /\ c # Idle
          /\ stat[t] \in {"READY", "SUSPEND"} /\ Unclaimed(t)
          /\ Goto(c, "resume") /\ on' = [on EXCEPT ![c] = t]
      BY <2>1 DEF CallResume, Calls, At
    <3>2. pc'[c] = "resume" /\ "resume" \in Locations
      BY <1>1, <3>1 DEF Goto, Locations
    <3>3. Claims(c, t)'
      BY <1>0, <1>1, <3>1, <3>2 DEF Claims, Asleep, NoRace, WakeInv, Locations
    <3>4. ClaimsInv'
      BY <1>3, <3>1, <3>2, <3>3, CallGoesOn
    <3>5. Removed' = Removed
      <4>1. \A d \in Thread : d # c => pc'[d] = pc[d] /\ on'[d] = on[d]
        BY <1>1, <3>1 DEF Goto
      <4> QED
        BY <3>1, <3>2, <4>1, RemovedSame
    <3> QED
      BY <3>4, <3>5
  <2>2. ASSUME ResumeTest(c)
        PROVE  ClaimsInv' /\ Removed' = Removed
    <3>1. /\ pc[c] = "resume"
          /\ Goto(c, IF stat[on[c]] = "SUSPEND" THEN "unlink" ELSE "schedule")
          /\ on' = IF stat[on[c]] = "SUSPEND" THEN on
                   ELSE [on EXCEPT ![c] = None]
      BY <2>2 DEF ResumeTest, At
    <3>2. c # Idle
      BY <1>1, <3>1 DEF ClaimsInv
    <3>3. PICK t : t = on[c]
      OBVIOUS
    <3>4. t \in Thread /\ Claims(c, t)
      BY <3>1, <3>3, CallsOn
    <3>5. ClaimsInv'
      <4>1. CASE stat[t] = "SUSPEND"
        <5>1. /\ Goto(c, "unlink") /\ on' = [on EXCEPT ![c] = t]
              /\ on[c] = t /\ "unlink" \in Locations
          BY <1>1, <3>1, <3>3, <4>1 DEF Locations
        <5>2. pc'[c] = "unlink"
          BY <1>1, <5>1 DEF Goto
        <5>3. Claims(c, t)'
          BY <1>0, <3>1, <3>4, <4>1, <5>2 DEF Claims, Asleep, Locations
        <5> QED
          BY <1>3, <3>2, <3>4, <5>1, <5>3, CallGoesOn
      <4>2. CASE stat[t] # "SUSPEND"
        <5>1. Goto(c, "schedule") /\ on' = [on EXCEPT ![c] = None]
          BY <3>1, <3>3, <4>2
        <5> QED
          BY <1>3, <3>2, <5>1, CallEnds
      <4> QED
        BY <4>1, <4>2
    <3>6. Removed' = Removed
      <4>1. /\ pc'[c] \in {"unlink", "schedule"}
            /\ \A d \in Thread : d # c => pc'[d] = pc[d] /\ on'[d] = on[d]
        BY <1>1, <3>1 DEF Goto
      <4> QED
        BY <3>1, <4>1, RemovedSame
    <3> QED
      BY <3>5, <3>6
  <2> QED
    BY <2>1, <2>2
<1>5. ListsInv'
  BY <1>0, <1>1, <1>4 DEF ListsInv, Now
<1>6. WakeInv'
  BY <1>0, <1>1 DEF WakeInv
<1>7. CountsInv'
  BY <1>0, <1>1, <1>2 DEF CountsInv
<1>8. MostUrgentRuns'
  BY <1>0, <1>1 DEF MostUrgentRuns, Preempted
<1> QED
  BY <1>0, <1>4, <1>5, <1>6, <1>7, <1>8 DEF Kept, SchedInv

(* rt_thread_resume: the removal. *)
LEMMA ResumeUnlinkInv ==
  ASSUME SchedInv, NEW c \in Thread, ResumeUnlink(c)
  PROVE  Kept
<1>a. PICK t : t = on[c]
  OBVIOUS
<1> DEFINE r == ListRemove(Now, t)
<1>0. /\ current = c /\ pc[c] = "unlink" /\ Become(r)
      /\ timer' = timer \ {t} /\ Goto(c, "insert")
      /\ lock_nest' = lock_nest /\ remaining_tick' = remaining_tick
      /\ freed' = freed /\ on' = on /\ stale' = stale
  BY <1>a DEF ResumeUnlink, At
<1>1. /\ ListsInv /\ CountsInv /\ WakeInv /\ ClaimsInv /\ MostUrgentRuns
      /\ pc \in [Thread -> Locations] /\ Placed /\ Good(Now, Removed)
      /\ Now \in States /\ Listed(Now, Filed(Now, Removed))
      /\ on \in [Thread -> Thread \union {None}] /\ c # Idle
  BY <1>0, ListsPlaced DEF SchedInv, ClaimsInv, ListsInv
<1>2. /\ t \in Thread /\ t # c /\ stat[t] = "SUSPEND"
      /\ t \notin waits \union timer
  BY <1>0, <1>a, CallsOn DEF Claims, Asleep
<1>3. t \notin Filed(Now, Removed) /\ ~Linked(defunct, t)
  BY <1>1, <1>2 DEF Filed, Now, Placed
<1>4. /\ r \in States /\ r.stat = stat /\ r.prio = current_priority
      /\ r.group = group /\ r.current = current /\ r.waits = waits \ {t}
      /\ r.defunct = Unlink(defunct, t) /\ r.ready = ready
  BY <1>1, <1>2, <1>3, ListRemoveFields, ListRemoveOther DEF Now
<1> HIDE DEF r
<1>5. Unlink(defunct, t) = defunct
  BY <1>1, <1>2, <1>3, UnlinkLinked DEF Placed
<1>6. /\ stat' = stat /\ current_priority' = current_priority
      /\ ready' = ready /\ group' = group /\ current' = current
      /\ waits' = waits /\ defunct' = defunct /\ timer' = timer
  BY <1>0, <1>2, <1>4, <1>5, BecomesNow
<1>7. Removed' = Removed
  BY <1>0, <1>1 DEF Goto, Removed
<1>8. ListsInv'
  BY <1>1, <1>6, <1>7 DEF ListsInv, Now
<1>9. WakeInv'
  BY <1>0, <1>1, <1>6 DEF WakeInv
<1>10. ClaimsInv'
  <2>1. \A d \in Thread : on[d] # None => Untouched(on[d])
    BY <1>0, <1>6 DEF Untouched
  <2>2. pc'[c] = "insert" /\ "insert" \in Locations
    BY <1>0, <1>1 DEF Goto, Locations
  <2>3. Claims(c, t)'
    BY <1>2, <1>6, <2>2 DEF Claims, Asleep, Locations
  <2>4. on' = [on EXCEPT ![c] = t] /\ on[c] = t
    BY <1>0, <1>1, <1>a
  <2> QED
    BY <1>0, <1>1, <1>2, <2>1, <2>2, <2>3, <2>4, CallGoesOn
<1>11. stat[c] = "READY"
  BY <1>0, CallerReady
<1>12. CountsInv'
  BY <1>0, <1>1, <1>6, <1>11 DEF CountsInv
<1>13. MostUrgentRuns'
  BY <1>0, <1>1, <1>6 DEF MostUrgentRuns, Preempted
<1> QED
  BY <1>6, <1>8, <1>9, <1>10, <1>12, <1>13 DEF Kept, SchedInv

(* rt_schedule_insert_thread of a thread that is suspended.                *)
LEMMA InsertGood ==
  ASSUME NEW s, NEW rm, Good(s, rm), NEW t \in Thread,
         s.stat[t] = "SUSPEND", t \notin s.waits, t \notin rm
  PROVE  LET r == InsertThread(s, t) IN
         /\ Good(r, rm) /\ r.prio = s.prio /\ r.current = s.current
         /\ r.waits = s.waits /\ r.defunct = s.defunct
         /\ \A u \in Thread : r.stat[u] = IF u = t THEN "READY" ELSE s.stat[u]
<1> DEFINE W == Filed(s, rm)
           r == InsertThread(s, t)
<1>1. /\ s \in States /\ Listed(s, W) /\ s.current \notin rm
      /\ \A u \in s.waits : s.stat[u] = "SUSPEND"
      /\ Once(s.defunct) /\ s.stat[Idle] = "READY" /\ Idle \notin rm
      /\ \A u \in Thread : Linked(s.defunct, u) => s.stat[u] = "CLOSE"
      /\ t \notin W /\ s.current \in Thread /\ Idle \in Thread
      /\ s.stat \in [Thread -> {"INIT", "READY", "SUSPEND", "CLOSE"}]
      /\ s.waits \subseteq Thread
  BY ThreadAssumption DEF Good, Filed, States
<1> HIDE DEF W
<1>2. /\ r \in States /\ r.stat = [s.stat EXCEPT ![t] = "READY"]
      /\ r.prio = s.prio /\ r.current = s.current /\ r.waits = s.waits
      /\ r.defunct = s.defunct
  BY <1>1, InsertFields
<1>3. /\ t = s.current => Listed(r, W)
      /\ t # s.current => Listed(r, W \union {t})
  BY <1>1, InsertListed
<1> HIDE DEF r
<1>4. \A u \in Thread : r.stat[u] = IF u = t THEN "READY" ELSE s.stat[u]
  BY <1>1, <1>2
<1>5. Filed(r, rm) = IF t = s.current THEN W ELSE W \union {t}
  BY <1>1, <1>2, <1>4 DEF Filed, W
<1>6. Listed(r, Filed(r, rm))
  BY <1>3, <1>5
<1>7. Good(r, rm)
  BY <1>1, <1>2, <1>4, <1>6 DEF Good
<1> QED
  BY <1>2, <1>4, <1>7 DEF r

(* rt_thread_resume: the insertion. *)
LEMMA ResumeInsertInv ==
  ASSUME SchedInv, NEW c \in Thread, ResumeInsert(c)
  PROVE  Kept
<1> DEFINE t == on[c]
           r == InsertThread(Now, t)
<1>0. /\ current = c /\ pc[c] = "insert" /\ Become(r)
      /\ timer' = timer /\ Goto(c, "schedule")
      /\ lock_nest' = lock_nest /\ remaining_tick' = remaining_tick
      /\ freed' = freed /\ on' = [on EXCEPT ![c] = None] /\ stale' = stale
  BY DEF ResumeInsert, At
<1>1. /\ ListsInv /\ CountsInv /\ WakeInv /\ ClaimsInv
      /\ pc \in [Thread -> Locations] /\ Placed /\ Good(Now, Removed)
      /\ on \in [Thread -> Thread \union {None}] /\ c # Idle
  BY <1>0, ListsPlaced DEF SchedInv, ClaimsInv, ListsInv
<1>2. /\ t \in Thread /\ t # c /\ stat[t] = "SUSPEND"
      /\ t \notin waits \union timer
      /\ \A d \in Thread : on[d] = t => d = c
  BY <1>0, CallsOn DEF Claims, Asleep
<1> HIDE DEF t
<1>3. t \notin Removed
  BY <1>0, <1>2 DEF Removed
<1>4. /\ Good(r, Removed) /\ r.current = current /\ r.waits = waits
      /\ r.defunct = defunct
      /\ \A u \in Thread : r.stat[u] = IF u = t THEN "READY" ELSE stat[u]
  <2>1. Now.stat[t] = "SUSPEND" /\ t \notin Now.waits
    BY <1>2 DEF Now
  <2> HIDE DEF r
  <2>2. /\ Good(r, Removed) /\ r.current = Now.current /\ r.waits = Now.waits
        /\ r.defunct = Now.defunct
        /\ \A u \in Thread :
              r.stat[u] = IF u = t THEN "READY" ELSE Now.stat[u]
    BY <1>1, <1>2, <1>3, <2>1, InsertGood DEF r
  <2> QED
    BY <2>2 DEF Now
<1> HIDE DEF r
<1>5. /\ Now' = r /\ current' = current /\ waits' = waits
      /\ defunct' = defunct
      /\ \A u \in Thread : stat'[u] = IF u = t THEN "READY" ELSE stat[u]
  BY <1>0, <1>4, BecomesNow DEF Good
<1>6. Removed' = Removed
  <2>1. /\ pc'[c] = "schedule"
        /\ \A d \in Thread : d # c => pc'[d] = pc[d] /\ on'[d] = on[d]
    BY <1>0, <1>1 DEF Goto
  <2> QED
    BY <1>0, <2>1, RemovedSame
<1>7. ListsInv'
  BY <1>4, <1>5, <1>6 DEF ListsInv
<1>8. WakeInv'
  <2>1. \A u \in timer' : stat'[u] = "SUSPEND"
    BY <1>0, <1>1, <1>2, <1>5, ThreadAssumption DEF WakeInv
  <2>2. \A u \in freed' :
           stat'[u] = "CLOSE" /\ u # current' /\ ~Linked(defunct', u)
    BY <1>0, <1>1, <1>2, <1>5 DEF WakeInv
  <2> QED
    BY <1>0, <1>1, <1>5, <2>1, <2>2 DEF WakeInv
<1>9. ClaimsInv'
  <2>1. \A d \in Thread \ {c} : on[d] # None => Untouched(on[d])
    BY <1>0, <1>1, <1>2, <1>5 DEF Untouched, ClaimsInv
  <2> QED
    BY <1>0, <1>1, <2>1, CallEnds
<1>10. pc'[current'] = "schedule"
  BY <1>0, <1>1, <1>5 DEF Goto
<1>11. stat[c] = "READY"
  BY <1>0, CallerReady
<1>12. CountsInv'
  BY <1>0, <1>1, <1>2, <1>5, <1>11 DEF CountsInv
<1>13. MostUrgentRuns'
  BY <1>10 DEF MostUrgentRuns
<1> QED
  BY <1>5, <1>7, <1>8, <1>9, <1>12, <1>13 DEF Kept, SchedInv

(* rt_thread_control(CHANGE_PRIORITY) of a thread that is ready or         *)
(* suspended.                                                              *)
LEMMA RetunedGood ==
  ASSUME NEW s, NEW rm, Good(s, rm), NEW t \in Thread, NEW p \in Level,
         s.stat[t] \in {"READY", "SUSPEND"}, t \notin rm
  PROVE  LET r == Retuned(s, t, p) IN
         /\ Good(r, rm) /\ r.stat = s.stat /\ r.current = s.current
         /\ r.waits = s.waits /\ r.defunct = s.defunct
<1> DEFINE W == Filed(s, rm)
           r == Retuned(s, t, p)
<1>1. /\ s \in States /\ Listed(s, W) /\ s.current \notin rm
      /\ \A u \in s.waits : s.stat[u] = "SUSPEND"
      /\ Once(s.defunct) /\ s.stat[Idle] = "READY" /\ Idle \notin rm
      /\ \A u \in Thread : Linked(s.defunct, u) => s.stat[u] = "CLOSE"
      /\ s.prio \in [Thread -> Level] /\ s.defunct \in Seq(Thread)
      /\ s.stat \in [Thread -> {"INIT", "READY", "SUSPEND", "CLOSE"}]
      /\ s.waits \subseteq Thread
      /\ \A u \in Thread :
            u \in W <=> s.stat[u] = "READY" /\ u # s.current /\ u \notin rm
  BY DEF Good, States, Filed
<1> HIDE DEF W
<1>2. CASE s.stat[t] = "READY"
  <2> DEFINE m == RemoveThread(s, t)
             k == [m EXCEPT !.prio[t] = p]
  <2>1. /\ m \in States /\ m.stat = s.stat /\ m.prio = s.prio
        /\ m.current = s.current /\ m.waits = s.waits \ {t}
        /\ m.defunct = Unlink(s.defunct, t)
    BY <1>1, RemoveFields
  <2>2. Listed(m, W \ {t})
    BY <1>1, RemoveListed
  <2>3. s.waits \ {t} = s.waits /\ Unlink(s.defunct, t) = s.defunct
    <3>1. t \notin s.waits /\ ~Linked(s.defunct, t)
      BY <1>1, <1>2
    <3> QED
      BY <1>1, <3>1, UnlinkLinked
  <2>4. r = InsertThread(k, t)
    BY <1>2 DEF Retuned
  <2> HIDE DEF m
  <2>5. /\ k \in States /\ k.stat = m.stat /\ k.prio = [m.prio EXCEPT ![t] = p]
        /\ k.ready = m.ready /\ k.group = m.group /\ k.current = m.current
        /\ k.waits = m.waits /\ k.defunct = m.defunct
    BY <2>1 DEF States
  <2> HIDE DEF k
  <2>6. Listed(k, W \ {t})
    <3>1. \A u \in Thread : u # t => k.prio[u] = m.prio[u]
      BY <1>1, <2>1, <2>5
    <3> QED
      BY <2>2, <2>5, <3>1 DEF Listed
  <2> HIDE DEF r
  <2>7. /\ r \in States /\ r.stat = [k.stat EXCEPT ![t] = "READY"]
        /\ r.current = k.current /\ r.waits = k.waits
        /\ r.defunct = k.defunct
    BY <2>4, <2>5, InsertFields
  <2>8. /\ t = k.current => Listed(r, W \ {t})
        /\ t # k.current => Listed(r, (W \ {t}) \union {t})
    BY <2>4, <2>5, <2>6, InsertListed
  <2>9. /\ r.stat = s.stat /\ r.current = s.current /\ r.waits = s.waits
        /\ r.defunct = s.defunct
    BY <1>1, <1>2, <2>1, <2>3, <2>5, <2>7
  <2>10. Filed(r, rm) = W
    BY <2>9 DEF Filed, W
  <2>11. Listed(r, W)
    <3>1. CASE t = s.current
      <4>1. t \notin W
        BY <1>1, <3>1
      <4>2. W \ {t} = W
        BY <4>1
      <4> QED
        BY <2>1, <2>5, <2>8, <3>1, <4>2
    <3>2. CASE t # s.current
      <4>1. t \in W
        BY <1>1, <1>2, <3>2
      <4>2. (W \ {t}) \union {t} = W
        BY <4>1
      <4> QED
        BY <2>1, <2>5, <2>8, <3>2, <4>2
    <3> QED
      BY <3>1, <3>2
  <2>12. Good(r, rm)
    BY <1>1, <2>7, <2>9, <2>10, <2>11 DEF Good
  <2> QED
    BY <2>9, <2>12 DEF r
<1>3. CASE s.stat[t] = "SUSPEND"
  <2>1. r = [s EXCEPT !.prio[t] = p]
    BY <1>3 DEF Retuned
  <2> HIDE DEF r
  <2>2. /\ r \in States /\ r.stat = s.stat /\ r.prio = [s.prio EXCEPT ![t] = p]
        /\ r.ready = s.ready /\ r.group = s.group /\ r.current = s.current
        /\ r.waits = s.waits /\ r.defunct = s.defunct
    BY <1>1, <2>1 DEF States
  <2>3. Filed(r, rm) = W /\ t \notin W
    BY <1>1, <1>3, <2>2 DEF Filed, W
  <2>4. \A u \in Thread : u # t => r.prio[u] = s.prio[u]
    BY <1>1, <2>2
  <2>5. Listed(r, W)
    BY <1>1, <2>2, <2>3, <2>4 DEF Listed
  <2>6. Good(r, rm)
    BY <1>1, <2>2, <2>3, <2>5 DEF Good
  <2> QED
    BY <2>2, <2>6 DEF r
<1> QED
  BY <1>2, <1>3

(* rt_thread_control(CHANGE_PRIORITY). *)
LEMMA ChangePriorityInv ==
  ASSUME SchedInv, NEW c \in Thread, NEW t \in Thread, NEW p \in Level,
         ChangePriority(c, t, p)
  PROVE  Kept
<1> DEFINE r == Retuned(Now, t, p)
<1>0. /\ current = c /\ pc[c] = "user"
      /\ stat[t] \in {"READY", "SUSPEND"} /\ Unclaimed(t) /\ Become(r)
      /\ stale' = TRUE /\ lock_nest' = lock_nest
      /\ remaining_tick' = remaining_tick /\ timer' = timer
      /\ freed' = freed /\ pc' = pc /\ on' = on
  BY DEF ChangePriority, Calls, At
<1>1. /\ ListsInv /\ CountsInv /\ WakeInv /\ ClaimsInv /\ Good(Now, Removed)
  BY DEF SchedInv, ListsInv
<1>2. t \notin Removed
  BY <1>0 DEF Unclaimed, Removed
<1>3. /\ Good(r, Removed) /\ r.stat = stat /\ r.current = current
      /\ r.waits = waits /\ r.defunct = defunct
  <2>1. Now.stat[t] \in {"READY", "SUSPEND"}
    BY <1>0 DEF Now
  <2> HIDE DEF r
  <2>2. /\ Good(r, Removed) /\ r.stat = Now.stat /\ r.current = Now.current
        /\ r.waits = Now.waits /\ r.defunct = Now.defunct
    BY <1>1, <1>2, <2>1, RetunedGood DEF r
  <2> QED
    BY <2>2 DEF Now
<1> HIDE DEF r
<1>4. /\ Now' = r /\ stat' = stat /\ current' = current
      /\ waits' = waits /\ defunct' = defunct
  BY <1>0, <1>3, BecomesNow DEF Good
<1>5. Removed' = Removed
  BY <1>0 DEF Removed
<1>6. ListsInv'
  BY <1>3, <1>4, <1>5 DEF ListsInv
<1>7. WakeInv'
  BY <1>0, <1>1, <1>4 DEF WakeInv
<1>8. ClaimsInv'
  <2>1. \A d \in Thread : on[d] # None => Untouched(on[d])
    BY <1>0, <1>4 DEF Untouched
  <2> QED
    BY <1>0, <1>1, <2>1, InterruptKeeps
<1>9. CountsInv'
  BY <1>0, <1>1, <1>4 DEF CountsInv
<1>10. MostUrgentRuns'
  BY <1>0 DEF MostUrgentRuns
<1> QED
  BY <1>4, <1>6, <1>7, <1>8, <1>9, <1>10 DEF Kept, SchedInv

(* Linking a dead thread on the list of the dead.                          *)
LEMMA BuriedGood ==
  ASSUME NEW s, NEW rm, Good(s, rm), NEW t \in Thread,
         s.stat[t] = "CLOSE", ~Linked(s.defunct, t)
  PROVE  LET r == Buried(s, t) IN
         /\ Good(r, rm) /\ r.stat = s.stat /\ r.prio = s.prio
         /\ r.group = s.group /\ r.current = s.current /\ r.waits = s.waits
         /\ \A u \in Thread :
               Linked(r.defunct, u) => Linked(s.defunct, u) \/ u = t
<1> DEFINE r == Buried(s, t)
<1>1. /\ s \in States /\ Listed(s, Filed(s, rm))
      /\ s.defunct \in Seq(Thread) /\ Once(s.defunct)
      /\ \A u \in Thread : Linked(s.defunct, u) => s.stat[u] = "CLOSE"
  BY DEF Good, States
<1>2. CASE t \in Dynamic
  <2>1. r = [s EXCEPT !.defunct = <<t>> \o @]
    BY <1>2 DEF Buried
  <2>2. /\ <<t>> \o s.defunct \in Seq(Thread) /\ Once(<<t>> \o s.defunct)
        /\ \A u : Linked(<<t>> \o s.defunct, u)
                    <=> (Linked(s.defunct, u) \/ u = t)
    BY <1>1, PrependProperties
  <2>3. /\ r \in States /\ r.stat = s.stat /\ r.prio = s.prio
        /\ r.ready = s.ready /\ r.group = s.group /\ r.current = s.current
        /\ r.waits = s.waits /\ r.defunct = <<t>> \o s.defunct
    BY <1>1, <2>1, <2>2 DEF States
  <2> HIDE DEF r
  <2>4. Filed(r, rm) = Filed(s, rm)
    BY <2>3 DEF Filed
  <2>5. Listed(r, Filed(r, rm))
    BY <1>1, <2>3, <2>4, ListedSame
  <2>6. Good(r, rm)
    BY <1>1, <2>2, <2>3, <2>5 DEF Good
  <2> QED
    BY <2>2, <2>3, <2>6 DEF r
<1>3. CASE t \notin Dynamic
  BY <1>3 DEF Buried
<1> QED
  BY <1>2, <1>3

(* The running thread closes itself. *)
LEMMA ClosedGood ==
  ASSUME NEW s, NEW rm, Good(s, rm), NEW c, c = s.current, c # Idle,
         s.stat[c] = "READY"
  PROVE  LET r == [RemoveThread(s, c) EXCEPT !.stat[c] = "CLOSE"] IN
         /\ Good(r, rm) /\ r.current = c /\ r.waits = s.waits
         /\ r.defunct = s.defunct
         /\ \A u \in Thread : r.stat[u] = IF u = c THEN "CLOSE" ELSE s.stat[u]
<1> DEFINE W == Filed(s, rm)
           m == RemoveThread(s, c)
           r == [m EXCEPT !.stat[c] = "CLOSE"]
<1>1. /\ s \in States /\ Listed(s, W) /\ s.current \notin rm
      /\ \A u \in s.waits : s.stat[u] = "SUSPEND"
      /\ Once(s.defunct) /\ s.stat[Idle] = "READY" /\ Idle \notin rm
      /\ \A u \in Thread : Linked(s.defunct, u) => s.stat[u] = "CLOSE"
      /\ c \notin W /\ c \in Thread /\ Idle \in Thread
      /\ s.stat \in [Thread -> {"INIT", "READY", "SUSPEND", "CLOSE"}]
      /\ s.waits \subseteq Thread /\ s.defunct \in Seq(Thread)
  BY ThreadAssumption DEF Good, Filed, States
<1>2. c \notin s.waits /\ ~Linked(s.defunct, c)
  BY <1>1
<1> HIDE DEF W
<1>3. /\ m \in States /\ m.stat = s.stat /\ m.prio = s.prio
      /\ m.current = s.current /\ m.waits = s.waits \ {c}
      /\ m.defunct = Unlink(s.defunct, c)
  BY <1>1, RemoveFields
<1>4. Listed(m, W \ {c}) /\ W \ {c} = W
  BY <1>1, RemoveListed
<1>5. Unlink(s.defunct, c) = s.defunct
  BY <1>1, <1>2, UnlinkLinked
<1> HIDE DEF m
<1>6. /\ r \in States /\ r.stat = [m.stat EXCEPT ![c] = "CLOSE"]
      /\ r.prio = m.prio /\ r.ready = m.ready /\ r.group = m.group
      /\ r.current = m.current /\ r.waits = m.waits /\ r.defunct = m.defunct
  BY <1>3 DEF States
<1> HIDE DEF r
<1>7. \A u \in Thread : r.stat[u] = IF u = c THEN "CLOSE" ELSE s.stat[u]
  BY <1>1, <1>3, <1>6
<1>8. r.waits = s.waits /\ r.defunct = s.defunct /\ r.current = c
  BY <1>2, <1>3, <1>5, <1>6
<1>9. Filed(r, rm) = W
  BY <1>7, <1>8 DEF Filed, W
<1>10. Listed(r, Filed(r, rm))
  BY <1>4, <1>6, <1>9, ListedSame
<1>11. Good(r, rm)
  BY <1>1, <1>2, <1>6, <1>7, <1>8, <1>10 DEF Good
<1> QED
  BY <1>7, <1>8, <1>11 DEF r, m

(* rt_thread_exit. *)
LEMMA ExitInv ==
  ASSUME SchedInv, NEW c \in Thread, Exit(c)
  PROVE  Kept
<1> DEFINE m == [RemoveThread(Now, c) EXCEPT !.stat[c] = "CLOSE"]
           r == Buried(m, c)
<1>0. /\ current = c /\ pc[c] = "user" /\ c # Idle /\ lock_nest = 0
      /\ Unclaimed(c) /\ Become(r) /\ timer' = timer \ {c}
      /\ Goto(c, "schedule")
      /\ lock_nest' = lock_nest /\ remaining_tick' = remaining_tick
      /\ freed' = freed /\ on' = on /\ stale' = stale
  BY DEF Exit, Calls, At
<1>1. /\ ListsInv /\ CountsInv /\ WakeInv /\ ClaimsInv
      /\ pc \in [Thread -> Locations] /\ Placed /\ Good(Now, Removed)
  BY ListsPlaced DEF SchedInv, ClaimsInv, ListsInv
<1>2. stat[c] = "READY"
  BY <1>0, CallerReady
<1>3. /\ Good(m, Removed) /\ m.current = c /\ m.waits = waits
      /\ m.defunct = defunct
      /\ \A u \in Thread : m.stat[u] = IF u = c THEN "CLOSE" ELSE stat[u]
  <2>1. Now.stat[c] = "READY" /\ c = Now.current
    BY <1>0, <1>2 DEF Now
  <2> HIDE DEF m
  <2>2. /\ Good(m, Removed) /\ m.current = c /\ m.waits = Now.waits
        /\ m.defunct = Now.defunct
        /\ \A u \in Thread :
              m.stat[u] = IF u = c THEN "CLOSE" ELSE Now.stat[u]
    BY <1>0, <1>1, <2>1, ClosedGood DEF m
  <2> QED
    BY <2>2 DEF Now
<1> HIDE DEF m
<1>4. /\ Good(r, Removed) /\ r.stat = m.stat /\ r.current = c
      /\ r.waits = waits
      /\ \A u \in Thread : Linked(r.defunct, u) => Linked(defunct, u) \/ u = c
  <2>1. m.stat[c] = "CLOSE" /\ ~Linked(m.defunct, c)
    BY <1>1, <1>2, <1>3 DEF Placed
  <2> HIDE DEF r
  <2>2. /\ Good(r, Removed) /\ r.stat = m.stat /\ r.current = m.current
        /\ r.waits = m.waits
        /\ \A u \in Thread :
              Linked(r.defunct, u) => Linked(m.defunct, u) \/ u = c
    BY <1>3, <2>1, BuriedGood DEF r
  <2> QED
    BY <1>3, <2>2
<1> HIDE DEF r
<1>5. /\ Now' = r /\ current' = c /\ waits' = waits
      /\ \A u \in Thread : Linked(defunct', u) => Linked(defunct, u) \/ u = c
      /\ \A u \in Thread : stat'[u] = IF u = c THEN "CLOSE" ELSE stat[u]
  BY <1>0, <1>3, <1>4, BecomesNow DEF Good
<1>6. Removed' = Removed
  BY <1>0, <1>1 DEF Goto, Removed
<1>7. ListsInv'
  BY <1>4, <1>5, <1>6 DEF ListsInv
<1>8. WakeInv'
  <2>1. \A u \in timer' : stat'[u] = "SUSPEND"
    BY <1>0, <1>1, <1>5, ThreadAssumption DEF WakeInv
  <2>2. \A u \in freed' :
           stat'[u] = "CLOSE" /\ u # current' /\ ~Linked(defunct', u)
    BY <1>0, <1>1, <1>2, <1>5 DEF WakeInv
  <2> QED
    BY <1>0, <1>1, <1>5, <2>1, <2>2 DEF WakeInv
<1>9. ClaimsInv'
  <2>1. \A d \in Thread : on[d] # None => Untouched(on[d])
    BY <1>0, <1>1, <1>5 DEF Untouched, Unclaimed, ClaimsInv
  <2> QED
    BY <1>0, <2>1, FreeStep
<1>10. pc'[current'] = "schedule"
  BY <1>0, <1>1, <1>5 DEF Goto
<1>11. CountsInv'
  BY <1>0, <1>1, <1>10 DEF CountsInv
<1>12. MostUrgentRuns'
  BY <1>10 DEF MostUrgentRuns
<1> QED
  BY <1>0, <1>7, <1>8, <1>9, <1>11, <1>12 DEF Kept, SchedInv

(* rt_schedule_remove_thread of a thread that is to be deleted.            *)
LEMMA TakenGood ==
  ASSUME NEW s, NEW rm, Good(s, rm), NEW t \in Thread, t # Idle,
         t # s.current, s.stat[t] # "CLOSE"
  PROVE  LET r == RemoveThread(s, t) IN
         /\ Good(r, rm \union {t}) /\ r.stat = s.stat /\ r.prio = s.prio
         /\ r.group \subseteq s.group /\ r.current = s.current
         /\ r.waits = s.waits \ {t} /\ r.defunct = s.defunct
<1> DEFINE W == Filed(s, rm)
           r == RemoveThread(s, t)
<1>1. /\ s \in States /\ Listed(s, W) /\ s.current \notin rm
      /\ \A u \in s.waits : s.stat[u] = "SUSPEND"
      /\ Once(s.defunct) /\ s.stat[Idle] = "READY" /\ Idle \notin rm
      /\ \A u \in Thread : Linked(s.defunct, u) => s.stat[u] = "CLOSE"
      /\ s.defunct \in Seq(Thread)
  BY DEF Good, States
<1>2. /\ r \in States /\ r.stat = s.stat /\ r.prio = s.prio
      /\ r.current = s.current /\ r.waits = s.waits \ {t}
      /\ r.defunct = Unlink(s.defunct, t)
      /\ \A p \in Level : p \in r.group => p \in s.group
  BY <1>1, RemoveFields
<1>3. Listed(r, W \ {t})
  BY <1>1, RemoveListed
<1>4. Unlink(s.defunct, t) = s.defunct
  BY <1>1, UnlinkLinked
<1> HIDE DEF r
<1>5. Filed(r, rm \union {t}) = W \ {t}
  BY <1>2 DEF Filed
<1>6. Listed(r, Filed(r, rm \union {t}))
  BY <1>3, <1>5
<1>7. Good(r, rm \union {t})
  BY <1>1, <1>2, <1>4, <1>6 DEF Good
<1>8. r.group \subseteq s.group
  BY <1>2 DEF States
<1> QED
  BY <1>2, <1>4, <1>7, <1>8 DEF r

(* rt_thread_delete: the first section. *)
LEMMA DeleteRemoveInv ==
  ASSUME SchedInv, NoRace, NEW c \in Thread, NEW t \in Thread,
         DeleteRemove(c, t)
  PROVE  Kept
<1>0. /\ current = c /\ pc[c] = "user" /\ c # Idle
      /\ t \in Victims /\ t # c /\ Unclaimed(t) /\ stat[t] # "CLOSE"
      /\ IF stat[t] = "INIT" THEN UNCHANGED queues
                             ELSE Become(RemoveThread(Now, t))
      /\ Goto(c, "detach") /\ on' = [on EXCEPT ![c] = t]
      /\ lock_nest' = lock_nest /\ remaining_tick' = remaining_tick
      /\ timer' = timer /\ freed' = freed /\ stale' = stale
  BY DEF DeleteRemove, Calls, At
<1>1. /\ ListsInv /\ CountsInv /\ WakeInv /\ ClaimsInv /\ MostUrgentRuns
      /\ pc \in [Thread -> Locations] /\ Placed /\ Good(Now, Removed)
      /\ on \in [Thread -> Thread \union {None}] /\ Now \in States
      /\ Listed(Now, Filed(Now, Removed))
  BY ListsPlaced DEF SchedInv, ClaimsInv, ListsInv
<1>2. stat[c] = "READY" /\ t # Idle
  BY <1>0, CallerReady, ThreadAssumption
<1>3. /\ Good(Now', Removed \union {t}) /\ stat' = stat
      /\ current_priority' = current_priority /\ group' \subseteq group
      /\ current' = current /\ waits' \subseteq waits /\ defunct' = defunct
      /\ t \notin waits'
  <2>1. CASE stat[t] = "INIT"
    <3>1. /\ Now' = Now /\ stat' = stat /\ group' = group
          /\ current_priority' = current_priority
          /\ current' = current /\ waits' = waits /\ defunct' = defunct
      BY <1>0, <2>1 DEF queues, Now
    <3>2. Filed(Now, Removed \union {t}) = Filed(Now, Removed)
      BY <2>1 DEF Filed, Now
    <3>3. Now.current # t
      BY <1>0 DEF Now
    <3>4. Good(Now, Removed \union {t})
      BY <1>1, <1>2, <3>2, <3>3 DEF Good
    <3> QED
      BY <1>1, <2>1, <3>1, <3>4 DEF Placed
  <2>2. CASE stat[t] # "INIT"
    <3> DEFINE r == RemoveThread(Now, t)
    <3>1. Now.stat[t] # "CLOSE" /\ t # Now.current
      BY <1>0 DEF Now
    <3> HIDE DEF r
    <3>2. /\ Good(r, Removed \union {t}) /\ r.stat = Now.stat
          /\ r.prio = Now.prio /\ r.group \subseteq Now.group
          /\ r.current = Now.current /\ r.waits = Now.waits \ {t}
          /\ r.defunct = Now.defunct
      BY <1>1, <1>2, <3>1, TakenGood DEF r
    <3>3. Become(r)
      BY <1>0, <2>2 DEF r
    <3>4. /\ Now' = r /\ stat' = r.stat /\ current_priority' = r.prio
          /\ group' = r.group /\ current' = r.current /\ waits' = r.waits
          /\ defunct' = r.defunct
      BY <3>2, <3>3, BecomesNow DEF Good
    <3> QED
      BY <3>2, <3>4 DEF Now
  <2> QED
    BY <2>1, <2>2
<1>4. /\ pc'[c] = "detach" /\ on'[c] = t
      /\ \A d \in Thread : d # c => pc'[d] = pc[d] /\ on'[d] = on[d]
  BY <1>0, <1>1 DEF Goto
<1>5. Removed' = Removed \union {t}
  BY <1>0, <1>4 DEF Removed
<1>6. ListsInv'
  BY <1>3, <1>5 DEF ListsInv
<1>7. WakeInv'
  BY <1>0, <1>1, <1>3 DEF WakeInv
<1>8. ClaimsInv'
  <2>1. \A d \in Thread \ {c} : on[d] # None => Untouched(on[d])
    BY <1>0, <1>3 DEF Untouched
  <2>2. t \notin timer'
    BY <1>0, <1>1 DEF NoRace, WakeInv
  <2>3. Claims(c, t)'
    BY <1>0, <1>2, <1>3, <1>4, <2>2 DEF Claims, Locations
  <2>4. "detach" \in Locations
    BY DEF Locations
  <2> QED
    BY <1>0, <2>1, <2>3, <2>4, CallGoesOn
<1>9. CountsInv'
  BY <1>0, <1>1, <1>2, <1>3 DEF CountsInv
<1>10. MostUrgentRuns'
  BY <1>0, <1>1, <1>3 DEF MostUrgentRuns, Preempted
<1> QED
  BY <1>3, <1>6, <1>7, <1>8, <1>9, <1>10 DEF Kept, SchedInv

(* rt_thread_delete: the second section. *)
LEMMA DeleteTimerInv ==
  ASSUME SchedInv, NEW c \in Thread, DeleteTimer(c)
  PROVE  Kept
<1>a. PICK t : t = on[c]
  OBVIOUS
<1>0. /\ current = c /\ pc[c] = "detach" /\ timer' = timer \ {t}
      /\ Goto(c, "close") /\ on' = on
      /\ stat' = stat /\ current_priority' = current_priority
      /\ ready' = ready /\ group' = group /\ current' = current
      /\ waits' = waits /\ defunct' = defunct /\ lock_nest' = lock_nest
      /\ remaining_tick' = remaining_tick
      /\ freed' = freed /\ stale' = stale
  BY <1>a DEF DeleteTimer, At, queues
<1>1. /\ ListsInv /\ CountsInv /\ WakeInv /\ ClaimsInv /\ MostUrgentRuns
      /\ pc \in [Thread -> Locations] /\ Placed /\ c # Idle
      /\ on \in [Thread -> Thread \union {None}]
  BY <1>0, ListsPlaced DEF SchedInv, ClaimsInv
<1>2. t \in Thread /\ Claims(c, t)
  BY <1>0, <1>a, CallsOn
<1>3. pc'[c] = "close" /\ \A d \in Thread : d # c => pc'[d] = pc[d]
  BY <1>0, <1>1 DEF Goto
<1>4. Removed' = Removed
  BY <1>0, <1>3, RemovedSame
<1>5. ListsInv'
  BY <1>0, <1>1, <1>4 DEF ListsInv, Now
<1>6. WakeInv'
  BY <1>0, <1>1 DEF WakeInv
<1>7. ClaimsInv'
  <2>1. \A d \in Thread \ {c} : on[d] # None => Untouched(on[d])
    BY <1>0 DEF Untouched
  <2>2. Claims(c, t)'
    BY <1>0, <1>2, <1>3 DEF Claims, Locations
  <2>3. "close" \in Locations /\ on[c] = t /\ on' = [on EXCEPT ![c] = t]
    BY <1>0, <1>1, <1>a DEF Locations
  <2> QED
    BY <1>0, <1>1, <1>2, <2>1, <2>2, <2>3, CallGoesOn
<1>8. stat[c] = "READY"
  BY <1>0, CallerReady
<1>9. CountsInv'
  BY <1>0, <1>1, <1>8 DEF CountsInv
<1>10. MostUrgentRuns'
  BY <1>0, <1>1 DEF MostUrgentRuns, Preempted
<1> QED
  BY <1>0, <1>5, <1>6, <1>7, <1>9, <1>10 DEF Kept, SchedInv

(* rt_thread_delete: the third section. *)
LEMMA DeleteCloseInv ==
  ASSUME SchedInv, NEW c \in Thread, DeleteClose(c)
  PROVE  Kept
<1>a. PICK t : t = on[c]
  OBVIOUS
<1>0. /\ current = c /\ pc[c] = "close" /\ timer' = timer
      /\ Goto(c, "bury") /\ on' = on
      /\ stat' = [stat EXCEPT ![t] = "CLOSE"]
      /\ current_priority' = current_priority
      /\ ready' = ready /\ group' = group /\ current' = current
      /\ waits' = waits /\ defunct' = defunct /\ lock_nest' = lock_nest
      /\ remaining_tick' = remaining_tick
      /\ freed' = freed /\ stale' = stale
  BY <1>a DEF DeleteClose, At
<1>1. /\ ListsInv /\ CountsInv /\ WakeInv /\ ClaimsInv /\ MostUrgentRuns
      /\ pc \in [Thread -> Locations] /\ Placed /\ c # Idle
      /\ on \in [Thread -> Thread \union {None}] /\ Good(Now, Removed)
      /\ Listed(Now, Filed(Now, Removed))
  BY <1>0, ListsPlaced DEF SchedInv, ClaimsInv, ListsInv
<1>2. /\ t \in Thread /\ t # c /\ stat[t] # "CLOSE" /\ t # Idle
      /\ t \notin waits \union timer
      /\ \A d \in Thread : on[d] = t => d = c
  BY <1>0, <1>a, CallsOn DEF Claims
<1>3. pc'[c] = "bury" /\ \A d \in Thread : d # c => pc'[d] = pc[d]
  BY <1>0, <1>1 DEF Goto
<1>4. t \in Removed /\ Removed' = Removed \ {t}
  BY <1>0, <1>2, <1>3, <1>a DEF Removed
<1>5. /\ \A u \in Thread : stat'[u] = IF u = t THEN "CLOSE" ELSE stat[u]
      /\ stat' \in [Thread -> {"INIT", "READY", "SUSPEND", "CLOSE"}]
  BY <1>0, <1>1, <1>2 DEF Placed
<1>6. ~Linked(defunct, t)
  BY <1>1, <1>2 DEF Placed
<1>7. ListsInv'
  <2>1. Filed(Now', Removed \ {t}) = Filed(Now, Removed)
    BY <1>0, <1>4, <1>5 DEF Filed, Now
  <2>2. Listed(Now', Filed(Now, Removed))
    BY <1>0, <1>1 DEF Listed, Now
  <2>3. Now' \in States
    BY <1>0, <1>1, <1>5 DEF States, Now, Placed
  <2>4. /\ \A u \in waits' : stat'[u] = "SUSPEND"
        /\ Once(defunct') /\ stat'[Idle] = "READY"
        /\ \A u \in Thread : Linked(defunct', u) => stat'[u] = "CLOSE"
        /\ Idle \notin Removed \ {t} /\ current' \notin Removed \ {t}
    BY <1>0, <1>1, <1>2, <1>5 DEF Placed
  <2>5. Good(Now', Removed \ {t})
    BY <2>1, <2>2, <2>3, <2>4 DEF Good, Now
  <2> QED
    BY <1>4, <2>5 DEF ListsInv
<1>8. WakeInv'
  <2>1. \A u \in timer' : stat'[u] = "SUSPEND"
    BY <1>0, <1>1, <1>2, <1>5, ThreadAssumption DEF WakeInv
  <2>2. \A u \in freed' :
           stat'[u] = "CLOSE" /\ u # current' /\ ~Linked(defunct', u)
    BY <1>0, <1>1, <1>2, <1>5 DEF WakeInv
  <2> QED
    BY <1>0, <1>1, <2>1, <2>2 DEF WakeInv
<1>9. ClaimsInv'
  <2>1. \A d \in Thread \ {c} : on[d] # None => Untouched(on[d])
    BY <1>0, <1>1, <1>2, <1>5 DEF Untouched, ClaimsInv
  <2>2. Dead(t)' /\ t \notin freed'
    BY <1>0, <1>1, <1>2, <1>4, <1>5, <1>6 DEF Dead, Placed, WakeInv
  <2>3. Claims(c, t)'
    BY <1>2, <1>3, <2>2 DEF Claims, Locations
  <2>4. "bury" \in Locations /\ on[c] = t /\ on' = [on EXCEPT ![c] = t]
    BY <1>0, <1>1, <1>a DEF Locations
  <2> QED
    BY <1>0, <1>1, <1>2, <2>1, <2>3, <2>4, CallGoesOn
<1>10. stat[c] = "READY"
  BY <1>0, CallerReady
<1>11. CountsInv'
  BY <1>0, <1>1, <1>2, <1>5, <1>10 DEF CountsInv
<1>12. MostUrgentRuns'
  BY <1>0, <1>1 DEF MostUrgentRuns, Preempted
<1> QED
  BY <1>0, <1>7, <1>8, <1>9, <1>11, <1>12 DEF Kept, SchedInv

(* rt_thread_delete: the last section. *)
LEMMA DeleteBuryInv ==
  ASSUME SchedInv, NEW c \in Thread, DeleteBury(c)
  PROVE  Kept
<1>a. PICK t : t = on[c]
  OBVIOUS
<1> DEFINE r == Buried(Now, t)
<1>0. /\ current = c /\ pc[c] = "bury" /\ Become(r)
      /\ Goto(c, "user") /\ on' = [on EXCEPT ![c] = None]
      /\ lock_nest' = lock_nest /\ remaining_tick' = remaining_tick
      /\ timer' = timer /\ freed' = freed /\ stale' = stale
  BY <1>a DEF DeleteBury, At
<1>1. /\ ListsInv /\ CountsInv /\ WakeInv /\ ClaimsInv /\ MostUrgentRuns
      /\ pc \in [Thread -> Locations] /\ Placed /\ c # Idle
      /\ on \in [Thread -> Thread \union {None}] /\ Good(Now, Removed)
  BY <1>0, ListsPlaced DEF SchedInv, ClaimsInv, ListsInv
<1>2. /\ t \in Thread /\ Dead(t) /\ t \notin freed
      /\ \A d \in Thread : on[d] = t => d = c
  BY <1>0, <1>a, CallsOn DEF Claims
<1>3. /\ Good(r, Removed) /\ r.stat = stat /\ r.prio = current_priority
      /\ r.group = group /\ r.current = current /\ r.waits = waits
      /\ \A u \in Thread : Linked(r.defunct, u) => Linked(defunct, u) \/ u = t
  <2>1. Now.stat[t] = "CLOSE" /\ ~Linked(Now.defunct, t)
    BY <1>2 DEF Now, Dead
  <2> HIDE DEF r
  <2>2. /\ Good(r, Removed) /\ r.stat = Now.stat /\ r.prio = Now.prio
        /\ r.group = Now.group /\ r.current = Now.current
        /\ r.waits = Now.waits
        /\ \A u \in Thread :
              Linked(r.defunct, u) => Linked(Now.defunct, u) \/ u = t
    BY <1>1, <1>2, <2>1, BuriedGood DEF r
  <2> QED
    BY <2>2 DEF Now
<1> HIDE DEF r
<1>4. /\ Now' = r /\ stat' = stat /\ current_priority' = current_priority
      /\ group' = group /\ current' = current /\ waits' = waits
      /\ \A u \in Thread : Linked(defunct', u) => Linked(defunct, u) \/ u = t
  BY <1>0, <1>3, BecomesNow DEF Good
<1>5. Removed' = Removed
  <2>1. /\ pc'[c] = "user"
        /\ \A d \in Thread : d # c => pc'[d] = pc[d] /\ on'[d] = on[d]
    BY <1>0, <1>1 DEF Goto
  <2> QED
    BY <1>0, <2>1, RemovedSame
<1>6. ListsInv'
  BY <1>3, <1>4, <1>5 DEF ListsInv
<1>7. WakeInv'
  BY <1>0, <1>1, <1>2, <1>4 DEF WakeInv
<1>8. ClaimsInv'
  <2>1. \A d \in Thread \ {c} : on[d] # None => Untouched(on[d])
    BY <1>0, <1>1, <1>2, <1>4 DEF Untouched, ClaimsInv
  <2> QED
    BY <1>0, <1>1, <2>1, CallEnds
<1>9. stat[c] = "READY"
  BY <1>0, CallerReady
<1>10. CountsInv'
  BY <1>0, <1>1, <1>4, <1>9 DEF CountsInv
<1>11. MostUrgentRuns'
  BY <1>0, <1>1, <1>4 DEF MostUrgentRuns, Preempted
<1> QED
  BY <1>4, <1>6, <1>7, <1>8, <1>10, <1>11 DEF Kept, SchedInv

(* rt_list_remove of the first of the dead threads.                        *)
LEMMA ReapedGood ==
  ASSUME NEW s, NEW rm, Good(s, rm), s.defunct # <<>>
  PROVE  LET t == Head(s.defunct)
             r == ListRemove(s, t)
         IN  /\ t \in Thread /\ s.stat[t] = "CLOSE" /\ Linked(s.defunct, t)
             /\ Good(r, rm) /\ r.stat = s.stat /\ r.current = s.current
             /\ r.waits = s.waits
             /\ \A u \in Thread :
                   Linked(r.defunct, u) <=> Linked(s.defunct, u) /\ u # t
<1> DEFINE t == Head(s.defunct)
           r == ListRemove(s, t)
<1>1. /\ s \in States /\ Listed(s, Filed(s, rm)) /\ s.current \notin rm
      /\ \A u \in s.waits : s.stat[u] = "SUSPEND"
      /\ Once(s.defunct) /\ s.stat[Idle] = "READY" /\ Idle \notin rm
      /\ \A u \in Thread : Linked(s.defunct, u) => s.stat[u] = "CLOSE"
      /\ s.defunct \in Seq(Thread)
  BY DEF Good, States
<1>2. t \in Thread /\ Linked(s.defunct, t) /\ s.stat[t] = "CLOSE"
  BY <1>1, EmptyLinked
<1> HIDE DEF t
<1>3. t \notin Filed(s, rm) /\ t \notin s.waits
  BY <1>1, <1>2 DEF Filed
<1>4. /\ r \in States /\ r.stat = s.stat /\ r.prio = s.prio
      /\ r.current = s.current /\ r.waits = s.waits \ {t}
      /\ r.defunct = Unlink(s.defunct, t)
  BY <1>1, <1>2, ListRemoveFields
<1>5. Listed(r, Filed(s, rm))
  BY <1>1, <1>2, <1>3, ListRemoveOther
<1>6. /\ Once(Unlink(s.defunct, t))
      /\ \A u : Linked(Unlink(s.defunct, t), u)
                  <=> (Linked(s.defunct, u) /\ u # t)
  BY <1>1, <1>2, UnlinkLinked
<1> HIDE DEF r
<1>7. Filed(r, rm) = Filed(s, rm) /\ r.waits = s.waits
  BY <1>3, <1>4 DEF Filed
<1>8. Good(r, rm)
  BY <1>1, <1>4, <1>5, <1>6, <1>7 DEF Good
<1> QED
  BY <1>2, <1>4, <1>6, <1>7, <1>8 DEF t, r

(* rt_thread_idle_excute, up to rt_exit_critical.                          *)
LEMMA ReapTakeInv ==
  ASSUME SchedInv, ReapTake
  PROVE  Kept
<1>a. PICK t : t = Head(defunct)
  OBVIOUS
<1> DEFINE m == ListRemove(Now, t)
           r == Schedule(m)
<1>0. /\ current = Idle /\ pc[Idle] = "user" /\ defunct # <<>> /\ Become(r)
      /\ stale' = (stale /\ lock_nest # 0) /\ Goto(Idle, "free")
      /\ on' = [on EXCEPT ![Idle] = t]
      /\ lock_nest' = lock_nest /\ remaining_tick' = remaining_tick
      /\ timer' = timer /\ freed' = freed
  BY <1>a DEF ReapTake, At
<1>1. /\ ListsInv /\ CountsInv /\ WakeInv /\ ClaimsInv
      /\ pc \in [Thread -> Locations] /\ Placed /\ Idle \in Thread
      /\ on \in [Thread -> Thread \union {None}] /\ Good(Now, Removed)
  BY ListsPlaced, ThreadAssumption DEF SchedInv, ClaimsInv, ListsInv
<1>2. /\ t \in Thread /\ stat[t] = "CLOSE" /\ Linked(defunct, t)
      /\ Good(m, Removed) /\ m.stat = stat /\ m.current = current
      /\ m.waits = waits
      /\ \A u \in Thread :
            Linked(m.defunct, u) <=> Linked(defunct, u) /\ u # t
  <2>1. Now.defunct # <<>> /\ t = Head(Now.defunct)
    BY <1>0, <1>a DEF Now
  <2> HIDE DEF m
  <2>2. /\ t \in Thread /\ Now.stat[t] = "CLOSE" /\ Linked(Now.defunct, t)
        /\ Good(m, Removed) /\ m.stat = Now.stat /\ m.current = Now.current
        /\ m.waits = Now.waits
        /\ \A u \in Thread :
              Linked(m.defunct, u) <=> Linked(Now.defunct, u) /\ u # t
    BY <1>1, <2>1, ReapedGood DEF m
  <2> QED
    BY <2>2 DEF Now
<1> HIDE DEF m
<1>3. /\ Good(r, Removed) /\ Wakes(m, r, {})
      /\ lock_nest = 0 => Settled(r)
  BY <1>2, ScheduleGood
<1> HIDE DEF r
<1>4. /\ Now' = r /\ waits' = waits /\ current' \in Thread
      /\ \A u \in Thread : stat'[u] = stat[u]
      /\ \A u \in Thread : Linked(defunct', u) <=> Linked(defunct, u) /\ u # t
      /\ current' # current => lock_nest = 0 /\ stat'[current'] = "READY"
  <2>1. /\ r.waits = m.waits \ {} /\ r.defunct = m.defunct
        /\ r.current # m.current =>
             lock_nest = 0 /\ r.stat[r.current] = "READY"
        /\ \A u \in Thread : r.stat[u] = m.stat[u]
    BY <1>3 DEF Wakes
  <2>2. /\ Now' = r /\ waits' = r.waits /\ current' = r.current
        /\ stat' = r.stat /\ defunct' = r.defunct /\ r.current \in Thread
    BY <1>0, <1>3, BecomesNow DEF Good, States
  <2> QED
    BY <1>2, <2>1, <2>2
<1>5. stat[Idle] = "READY"
  BY <1>1 DEF Placed
<1>6. stat'[current'] = "READY"
  BY <1>0, <1>1, <1>4, <1>5
<1>7. /\ pc'[Idle] = "free" /\ on'[Idle] = t
      /\ \A d \in Thread : d # Idle => pc'[d] = pc[d] /\ on'[d] = on[d]
  BY <1>0, <1>1 DEF Goto
<1>8. Removed' = Removed
  BY <1>0, <1>7, RemovedSame
<1>9. ListsInv'
  BY <1>3, <1>4, <1>8 DEF ListsInv
<1>10. WakeInv'
  <2>1. \A u \in timer' : stat'[u] = "SUSPEND"
    BY <1>0, <1>1, <1>4, ThreadAssumption DEF WakeInv
  <2>2. \A u \in freed' :
           stat'[u] = "CLOSE" /\ u # current' /\ ~Linked(defunct', u)
    BY <1>0, <1>1, <1>4, <1>6 DEF WakeInv
  <2> QED
    BY <1>0, <1>1, <1>4, <2>1, <2>2 DEF WakeInv
<1>11. ClaimsInv'
  <2>1. \A d \in Thread \ {Idle} : on[d] # None => Untouched(on[d])
    BY <1>0, <1>1, <1>4 DEF Untouched, ClaimsInv
  <2>2. Unclaimed(t)
    <3> SUFFICES ASSUME NEW d \in Thread, on[d] = t PROVE FALSE
      BY DEF Unclaimed
    <3>1. Claims(d, t)
      BY <1>1, <1>2, ThreadAssumption DEF ClaimsInv
    <3> QED
      BY <1>2, <3>1 DEF Claims, Asleep, Dead, Locations
  <2>3. Dead(t)'
    BY <1>2, <1>4, <1>6 DEF Dead
  <2>4. Claims(Idle, t)'
    BY <1>2, <1>5, <1>7, <2>3 DEF Claims, Locations
  <2>5. "free" \in Locations
    BY DEF Locations
  <2> QED
    BY <1>0, <1>1, <1>2, <2>1, <2>2, <2>4, <2>5, CallGoesOn
<1>12. CountsInv'
  BY <1>0, <1>1, <1>6 DEF CountsInv
<1>13. lock_nest = 0 => ~Preempted'
  BY <1>0, <1>3, SettledUrgent DEF Good
<1>14. MostUrgentRuns'
  BY <1>0, <1>13 DEF MostUrgentRuns
<1> QED
  BY <1>4, <1>9, <1>10, <1>11, <1>12, <1>14 DEF Kept, SchedInv

(* rt_thread_idle_excute: the memory is given back.                        *)
LEMMA ReapFreeInv ==
  ASSUME SchedInv, ReapFree
  PROVE  Kept
<1>a. PICK t : t = on[Idle]
  OBVIOUS
<1>0. /\ current = Idle /\ pc[Idle] = "free" /\ freed' = freed \union {t}
      /\ Goto(Idle, "user") /\ on' = [on EXCEPT ![Idle] = None]
      /\ stat' = stat /\ current_priority' = current_priority
      /\ ready' = ready /\ group' = group /\ current' = current
      /\ waits' = waits /\ defunct' = defunct /\ lock_nest' = lock_nest
      /\ remaining_tick' = remaining_tick /\ timer' = timer
      /\ stale' = stale
  BY <1>a DEF ReapFree, At, queues
<1>1. /\ ListsInv /\ CountsInv /\ WakeInv /\ ClaimsInv /\ MostUrgentRuns
      /\ pc \in [Thread -> Locations] /\ Placed /\ Idle \in Thread
      /\ on \in [Thread -> Thread \union {None}]
  BY ListsPlaced, ThreadAssumption DEF SchedInv, ClaimsInv
<1>2. t \in Thread /\ Dead(t) /\ \A d \in Thread : on[d] = t => d = Idle
  BY <1>0, <1>1, <1>a, CallsOn DEF Claims
<1>3. /\ pc'[Idle] = "user"
      /\ \A d \in Thread : d # Idle => pc'[d] = pc[d] /\ on'[d] = on[d]
  BY <1>0, <1>1 DEF Goto
<1>4. Removed' = Removed
  BY <1>0, <1>3, RemovedSame
<1>5. ListsInv'
  BY <1>0, <1>1, <1>4 DEF ListsInv, Now
<1>6. WakeInv'
  BY <1>0, <1>1, <1>2 DEF WakeInv, Dead
<1>7. ClaimsInv'
  <2>1. \A d \in Thread \ {Idle} : on[d] # None => Untouched(on[d])
    BY <1>0, <1>2 DEF Untouched
  <2> QED
    BY <1>0, <1>1, <2>1, CallEnds
<1>8. CountsInv'
  BY <1>0, <1>1 DEF CountsInv, Placed
<1>9. MostUrgentRuns'
  BY <1>0, <1>1 DEF MostUrgentRuns, Preempted
<1> QED
  BY <1>0, <1>5, <1>6, <1>7, <1>8, <1>9 DEF Kept, SchedInv

------------------------------------------------------------------------------
(* The theorems.                                                           *)

(* The main thread runs and the idle thread waits.                         *)
LEMMA InitSched ==
  Init => SchedInv
<1> SUFFICES ASSUME Init PROVE SchedInv
  OBVIOUS
<1> DEFINE q == InitPriority[Idle]
           W == Filed(Now, Removed)
<1>0. /\ Main \in Thread /\ Idle \in Thread /\ Main # Idle /\ None \notin Thread
      /\ q \in Level /\ InitPriority[Main] < q /\ Level \subseteq Nat
      /\ InitPriority \in [Thread -> Level]
  BY ThreadAssumption, LevelAssumption
<1>1. /\ stat = [t \in Thread |->
                   IF t \in {Main, Idle} THEN "READY" ELSE "INIT"]
      /\ current_priority = InitPriority
      /\ ready = [p \in Level |-> IF p = q THEN <<Idle>> ELSE <<>>]
      /\ group = {q} /\ current = Main /\ waits = {} /\ defunct = <<>>
      /\ lock_nest = 0 /\ remaining_tick = InitTick /\ timer = {} /\ freed = {}
      /\ pc = [t \in Thread |-> "user"] /\ on = [t \in Thread |-> None]
      /\ stale = FALSE
  BY DEF Init
<1> HIDE DEF q
<1>2. Removed = {}
  BY <1>1 DEF Removed
<1>3. W = {Idle}
  BY <1>0, <1>1, <1>2 DEF Filed, Now
<1>4. /\ <<Idle>> \in Seq(Thread) /\ <<>> \in Seq(Thread) /\ <<Idle>> # <<>>
      /\ Once(<<Idle>>) /\ Once(<<>>)
      /\ \A t : Linked(<<Idle>>, t) <=> t = Idle
      /\ \A t : ~Linked(<<>>, t)
  <2>1. <<Idle>> \in Seq(Thread) /\ <<>> \in Seq(Thread) /\ <<Idle>> # <<>>
    BY <1>0
  <2>2. /\ Len(<<Idle>>) = 1 /\ <<Idle>>[1] = Idle /\ 1..1 = {1}
        /\ Len(<<>>) = 0 /\ 1..0 = {}
    OBVIOUS
  <2>3. Once(<<Idle>>) /\ Once(<<>>)
    BY <2>2 DEF Once
  <2>4. \A t : Linked(<<Idle>>, t) <=> t = Idle
    BY <2>2 DEF Linked
  <2>5. \A t : ~Linked(<<>>, t)
    BY <2>2 DEF Linked
  <2> QED
    BY <2>1, <2>3, <2>4, <2>5
<1>5. Now \in States
  BY <1>0, <1>1, <1>4 DEF Now, States
<1>6. Listed(Now, {Idle})
  <2> SUFFICES ASSUME NEW p \in Level
               PROVE  /\ Once(ready[p])
                      /\ p \in group <=> ready[p] # <<>>
                      /\ \A t \in Thread : Linked(ready[p], t)
                            <=> t \in {Idle} /\ current_priority[t] = p
    BY DEF Listed, Now
  <2>1. CASE p = q
    BY <1>0, <1>1, <1>4, <2>1 DEF q
  <2>2. CASE p # q
    BY <1>0, <1>1, <1>4, <2>2 DEF q
  <2> QED
    BY <2>1, <2>2
<1>7. ListsInv
  BY <1>0, <1>1, <1>2, <1>3, <1>4, <1>5, <1>6 DEF ListsInv, Good, Now
<1>8. WakeInv
  BY <1>1 DEF WakeInv
<1>9. ClaimsInv
  BY <1>0, <1>1 DEF ClaimsInv, Locations
<1>10. CountsInv
  <2>1. stat[current] = "READY"
    BY <1>0, <1>1
  <2>2. /\ InitTick \in [Thread -> Nat]
        /\ \A t \in Thread : InitTick[t] \in 1..InitTick[t]
    BY TickAssumption
  <2>3. 0 \in 0..MaxNest
    BY TickAssumption
  <2> QED
    BY <1>1, <2>1, <2>2, <2>3 DEF CountsInv
<1>11. MostUrgentRuns
  <2>1. InitPriority[Main] \in Nat /\ q \in Nat
    BY <1>0
  <2>2. ~(q < InitPriority[Main])
    BY <1>0, <2>1
  <2>3. ~Preempted
    BY <1>1, <2>2 DEF Preempted
  <2> QED
    BY <2>3 DEF MostUrgentRuns
<1> QED
  BY <1>7, <1>8, <1>9, <1>10, <1>11 DEF SchedInv

(* Every step of every thread and every interrupt.                         *)
LEMMA NextSched ==
  ASSUME SchedInv, NoRace, [Next]_vars
  PROVE  Kept
<1>1. CASE UNCHANGED vars
  <2>1. Now' = Now /\ Removed' = Removed
    BY <1>1 DEF vars, Now, Removed
  <2>2. ListsInv' /\ CountsInv' /\ WakeInv' /\ ClaimsInv' /\ MostUrgentRuns'
    BY <1>1, <2>1 DEF vars, SchedInv, ListsInv, CountsInv, WakeInv, ClaimsInv,
       Claims, Asleep, Dead, MostUrgentRuns, Preempted
  <2> QED
    BY <1>1, <2>2 DEF Kept, SchedInv, vars
<1>2. ASSUME NEW c \in Thread, Yield(c) \/ EnterCritical(c) \/ ExitCritical(c)
      PROVE  Kept
  BY <1>2, QuietInv
<1>3. ASSUME NEW c \in Thread, NEW linked \in BOOLEAN, NEW timed \in BOOLEAN,
             Block(c, linked, timed)
      PROVE  Kept
  BY <1>3, BlockInv
<1>4. ASSUME NEW c \in Thread, NEW t \in Thread, Wake(c, t)
      PROVE  Kept
  BY <1>4, WakeStepInv
<1>5. ASSUME NEW c \in Thread, NEW t \in Thread, Startup(c, t)
      PROVE  Kept
  BY <1>5, StartupInv
<1>6. ASSUME NEW c \in Thread, NEW t \in Thread, CallResume(c, t)
      PROVE  Kept
  BY <1>6, ResumeTestInv
<1>7. ASSUME NEW c \in Thread, NEW t \in Thread, NEW p \in Level,
             ChangePriority(c, t, p)
      PROVE  Kept
  BY <1>7, ChangePriorityInv
<1>8. ASSUME NEW c \in Thread, NEW t \in Thread, DeleteRemove(c, t)
      PROVE  Kept
  BY <1>8, DeleteRemoveInv
<1>9. ASSUME NEW c \in Thread, Exit(c)
      PROVE  Kept
  BY <1>9, ExitInv
<1>10. ASSUME NEW c \in Thread, Inside(c)
       PROVE  Kept
  BY <1>10, DoScheduleInv, ResumeTestInv, ResumeUnlinkInv, ResumeInsertInv,
     DeleteTimerInv, DeleteCloseInv, DeleteBuryInv DEF Inside
<1>11. CASE ReapTake \/ ReapFree
  BY <1>11, ReapTakeInv, ReapFreeInv
<1>12. ASSUME NEW due \in SUBSET timer, Tick(due)
       PROVE  Kept
  BY <1>12, TickInv
<1>13. ASSUME NEW t \in Thread, Interrupt(t)
       PROVE  Kept
  BY <1>13, InterruptInv
<1> QED
  BY <1>1, <1>2, <1>3, <1>4, <1>5, <1>6, <1>7, <1>8, <1>9, <1>10, <1>11,
     <1>12, <1>13 DEF Next

(* The invariant of the scheduler.                                         *)
THEOREM SchedulerInvariant ==
  ASSUME NoRace
  PROVE  Spec => []SchedInv
<1>1. SchedInv /\ [Next]_vars => SchedInv'
  BY NextSched DEF Kept
<1> QED
  BY <1>1, InitSched, PTL DEF Spec

(* What the invariant says of the lists.                                   *)
LEMMA ListsFromInv ==
  SchedInv => ListsMatchStat
<1> SUFFICES ASSUME SchedInv PROVE ListsMatchStat
  OBVIOUS
<1>1. /\ Placed /\ Listed(Now, Filed(Now, Removed))
      /\ CountsInv /\ WakeInv /\ ClaimsInv
  BY ListsPlaced DEF SchedInv
<1>2. timer \subseteq Thread
  BY <1>1, ThreadAssumption DEF WakeInv
<1>3. TypeOK
  BY <1>1, <1>2 DEF TypeOK, Placed, CountsInv, WakeInv, ClaimsInv
<1>4. group = {p \in Level : ready[p] # <<>>}
  BY <1>1 DEF Listed, Now, Placed
<1>5. ASSUME NEW t \in Thread, NEW p \in Level
      PROVE  Occurs(ready[p], t) =
               IF /\ stat[t] = "READY" /\ t # current /\ t \notin Removed
                  /\ current_priority[t] = p
               THEN 1 ELSE 0
  <2>1. /\ Once(ready[p]) /\ ready[p] \in Seq(Thread)
        /\ Linked(ready[p], t) <=>
             /\ stat[t] = "READY" /\ t # current /\ t \notin Removed
             /\ current_priority[t] = p
    BY <1>1 DEF Listed, Filed, Now, Placed
  <2> QED
    BY <2>1, OccursOnce
<1>6. \A t \in waits \union timer : stat[t] = "SUSPEND"
  BY <1>1 DEF Placed, WakeInv
<1> QED
  BY <1>3, <1>4, <1>5, <1>6 DEF ListsMatchStat

(* At every moment when an interrupt may come, the ready lists and the     *)
(* bits of the group say who is ready, in any order of calls, context      *)
(* switches and interrupts: rt_schedule finds the threads that are ready   *)
(* and no other.                                                           *)
THEOREM ListsAlwaysMatchStat ==
  ASSUME NoRace
  PROVE  Spec => []ListsMatchStat
BY SchedulerInvariant, ListsFromInv, PTL

(* Preemption: the most urgent thread that is ready has the processor,     *)
(* except inside the calls that end with rt_schedule and after a change of *)
(* priority.                                                               *)
THEOREM MostUrgentAlwaysRuns ==
  ASSUME NoRace
  PROVE  Spec => []MostUrgentRuns
<1>1. SchedInv => MostUrgentRuns
  BY DEF SchedInv
<1> QED
  BY <1>1, SchedulerInvariant, PTL

(* What the invariant says of the threads that are closed.                 *)
LEMMA ClosedFromInv ==
  SchedInv => ClosedIsGone
<1> SUFFICES ASSUME SchedInv PROVE ClosedIsGone
  OBVIOUS
<1>1. Placed /\ CountsInv /\ WakeInv /\ ListsMatchStat
  BY ListsPlaced, ListsFromInv DEF SchedInv
<1>2. \A t \in Thread : Occurs(defunct, t) = IF Linked(defunct, t) THEN 1 ELSE 0
  BY <1>1, OccursOnce DEF Placed
<1>3. ASSUME NEW t \in Thread, stat[t] = "CLOSE"
      PROVE  /\ \A p \in Level : Occurs(ready[p], t) = 0
             /\ t \notin waits \union timer
             /\ current = t => pc[t] = "schedule"
             /\ Occurs(defunct, t) <= 1
  BY <1>1, <1>2, <1>3 DEF ListsMatchStat, CountsInv
<1>4. \A t \in freed : stat[t] = "CLOSE" /\ t # current
                       /\ Occurs(defunct, t) = 0
  BY <1>1, <1>2 DEF WakeInv
<1> QED
  BY <1>3, <1>4 DEF ClosedIsGone

(* A thread that has left, or was deleted, is never scheduled, woken or    *)
(* put on the list of the dead again, and is freed only when nothing       *)
(* refers to it any more.                                                  *)
THEOREM ClosedStaysGone ==
  ASSUME NoRace
  PROVE  Spec => []ClosedIsGone
BY SchedulerInvariant, ClosedFromInv, PTL

(* rt_enter_critical keeps the processor: no interrupt and no call of the  *)
(* running thread switches to another one.                                 *)
THEOREM CriticalAlwaysKeepsRunning ==
  ASSUME NoRace
  PROVE  Spec => CriticalKeepsRunning
<1>1. SchedInv /\ [Next]_vars => [lock_nest > 0 => current' = current]_vars
  BY NextSched DEF Kept
<1> QED
  BY <1>1, SchedulerInvariant, PTL DEF Spec, CriticalKeepsRunning
==============================================================================
