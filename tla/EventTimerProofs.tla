-------------------------- MODULE EventTimerProofs --------------------------
(***************************************************************************)
(* Theorems about two components that share no name and no state.          *)
(*                                                                         *)
(* The event (module Event), for any threads, bits, requests, flag,        *)
(* timeouts, resets, detaches and signals.                                 *)
(*                                                                         *)
(* The timers (module Timer), for any timers, times, callers and clock.    *)
(***************************************************************************)
EXTENDS Event, Timer, IpcListProofs

(* The records that the loop of rt_event_send works on.                    *)
Walks == [set : SUBSET Bit, got : [Thread -> SUBSET Bit],
          list : Seq(Thread), resumed : SUBSET Thread]

Begun(bits) == [set |-> bits, got |-> event_set, list |-> list, resumed |-> {}]

(* The bits that the threads of T take away.                               *)
Taken(got, T) ==
    UNION {got[u] : u \in {v \in T : "CLEAR" \in event_info[v]}}

------------------------------------------------------------------------------
(* More bits fit no worse. *)
LEMMA FitsMore ==
  ASSUME NEW want, NEW option, NEW more, NEW bits \in SUBSET more,
         Fits(want, option, bits)
  PROVE  Fits(want, option, more)
BY DEF Fits

(* A thread that is not satisfied is passed over. *)
LEMMA VisitPasses ==
  ASSUME NEW s, NEW w, ~Fits(event_set[w], event_info[w], s.set)
  PROVE  Visit(s, w) = s
BY DEF Visit

(* A thread that is satisfied gets those of its bits that are set, leaves  *)
(* the list, and takes its bits away if it asked for that.                 *)
LEMMA VisitServes ==
  ASSUME TypeOK, NEW s \in Walks, NEW w \in Thread,
         Fits(event_set[w], event_info[w], s.set), Once(s.list)
  PROVE  LET r == Visit(s, w)
             got == event_set[w] \intersect s.set
         IN  /\ r \in Walks
             /\ r.set = IF "CLEAR" \in event_info[w] THEN s.set \ got
                        ELSE s.set
             /\ r.got = [s.got EXCEPT ![w] = got]
             /\ r.resumed = s.resumed \union {w}
             /\ Once(r.list)
             /\ \A u : Linked(r.list, u) <=> (Linked(s.list, u) /\ u # w)
<1> DEFINE got == event_set[w] \intersect s.set
           got2 == IF "AND" \in event_info[w] THEN event_set[w]
                   ELSE event_set[w] \intersect s.set
           r == [set |-> IF "CLEAR" \in event_info[w] THEN s.set \ got
                         ELSE s.set,
                 got |-> [s.got EXCEPT ![w] = got],
                 list |-> Unlink(s.list, w),
                 resumed |-> s.resumed \union {w}]
           prio == [u \in Thread |-> 0]
<1>1. /\ s.set \in SUBSET Bit /\ s.got \in [Thread -> SUBSET Bit]
      /\ s.list \in Seq(Thread) /\ s.resumed \in SUBSET Thread
  BY DEF Walks
<1>2. got2 = got
  BY DEF Fits
<1>3. Visit(s, w) = r
  <2> HIDE DEF got
  <2> QED
    BY <1>2 DEF Visit
<1>4. got \in SUBSET Bit
  BY <1>1
<1>5. prio \in [Thread -> Nat]
  OBVIOUS
<1> HIDE DEF prio
<1>6. /\ Unlink(s.list, w) \in Seq(Thread) /\ Once(Unlink(s.list, w))
      /\ \A u : Linked(Unlink(s.list, w), u) <=> (Linked(s.list, u) /\ u # w)
  BY <1>1, <1>5, UnlinkProperties
<1> HIDE DEF got
<1>7. r \in Walks
  BY <1>1, <1>4, <1>6 DEF Walks
<1> QED
  BY <1>3, <1>6, <1>7 DEF got

(* The function that Sweep is defined by exists.                           *)
LEMMA SweepSteps ==
  ASSUME NEW bits, NEW order, Len(order) \in Nat
  PROVE  \E f : /\ f[0] = Begun(bits)
                /\ \A k \in 1..Len(order) : f[k] = Visit(f[k - 1], order[k])
                /\ Sweep(bits, order) = f[Len(order)]
<1> DEFINE size == Len(order)
           Sol(m, f) == f = [k \in 0..m |-> IF k = 0 THEN Begun(bits)
                                     ELSE Visit(f[k - 1], order[k])]
           Bad == {m \in 0..size : ~\E f : Sol(m, f)}
<1>0. size \in Nat
  OBVIOUS
<1>1. Bad = {}
  <2> SUFFICES ASSUME Bad # {} PROVE FALSE
    OBVIOUS
  <2>1. Bad \in SUBSET Nat
    BY <1>0
  <2>2. PICK m \in Bad : \A j \in Bad : m <= j
    BY <2>1, SmallestNat
  <2>3. m \in 0..size /\ ~\E f : Sol(m, f)
    BY <2>2
  <2>4. m # 0
    <3> DEFINE g == [k \in 0..0 |-> Begun(bits)]
               h == [k \in 0..0 |-> IF k = 0 THEN Begun(bits)
                                    ELSE Visit(g[k - 1], order[k])]
    <3>1. g = h
      OBVIOUS
    <3>2. Sol(0, g)
      BY <3>1
    <3> QED
      BY <2>3, <3>2
  <2>5. m - 1 \in 0..size /\ ~(m <= m - 1)
    BY <1>0, <2>3, <2>4
  <2>6. \E f : Sol(m - 1, f)
    BY <2>2, <2>5
  <2>7. PICK f : Sol(m - 1, f)
    BY <2>6
  <2> DEFINE g == [k \in 0..m |-> IF k = m THEN Visit(f[m - 1], order[m])
                                  ELSE f[k]]
             h == [k \in 0..m |-> IF k = 0 THEN Begun(bits)
                                  ELSE Visit(g[k - 1], order[k])]
  <2>8. ASSUME NEW k \in 0..m
        PROVE  g[k] = h[k]
    <3>1. CASE k = 0
      <4>1. 0 \in 0..(m - 1) /\ k # m
        BY <1>0, <2>3, <2>4, <3>1
      <4>2. f[0] = Begun(bits)
        BY <2>7, <4>1
      <4> QED
        BY <3>1, <4>1, <4>2
    <3>2. CASE k # 0 /\ k = m
      <4>1. m - 1 \in 0..m /\ m - 1 # m
        BY <1>0, <2>3, <2>4
      <4>2. g[m - 1] = f[m - 1]
        BY <4>1
      <4>3. g[m] = Visit(f[m - 1], order[m])
        BY <3>2
      <4>4. h[m] = Visit(g[m - 1], order[m])
        <5> HIDE DEF g
        <5> QED
          BY <3>2
      <4> QED
        BY <3>2, <4>2, <4>3, <4>4
    <3>3. CASE k # 0 /\ k # m
      <4>1. k - 1 \in 0..m /\ k - 1 # m /\ k \in 0..(m - 1)
        BY <1>0, <2>3, <3>3
      <4>2. g[k - 1] = f[k - 1] /\ g[k] = f[k]
        BY <3>3, <4>1
      <4>3. f[k] = Visit(f[k - 1], order[k])
        BY <2>7, <3>3, <4>1
      <4>4. h[k] = Visit(g[k - 1], order[k])
        <5> HIDE DEF g
        <5> QED
          BY <3>3
      <4> QED
        BY <4>2, <4>3, <4>4
    <3> QED
      BY <3>1, <3>2, <3>3
  <2>9. g = [k \in 0..m |-> g[k]] /\ h = [k \in 0..m |-> h[k]]
    OBVIOUS
  <2>10. g = h
    <3> HIDE DEF g, h
    <3> QED
      BY <2>8, <2>9
  <2>11. Sol(m, g)
    <3> HIDE DEF g
    <3> QED
      BY <2>10
  <2> QED
    BY <2>3, <2>11
<1>2. \E f : Sol(size, f)
  BY <1>0, <1>1
<1> DEFINE f == CHOOSE g : Sol(size, g)
<1>3. Sol(size, f)
  <2> HIDE DEF Sol
  <2> QED
    BY <1>2
<1>4. Sweep(bits, order) = f[size]
  BY DEF Sweep, Begun
<1> HIDE DEF f
<1>5. f[0] = Begun(bits)
  BY <1>0, <1>3
<1>6. ASSUME NEW k \in 1..size
      PROVE  f[k] = Visit(f[k - 1], order[k])
  <2>1. k \in 0..size /\ k # 0
    BY <1>0
  <2> QED
    BY <1>3, <2>1
<1> QED
  BY <1>4, <1>5, <1>6

(* The loop after k rounds: who was resumed, with which bits, and what is  *)
(* left.                                                                   *)
First(k) == {list[j] : j \in 1..k}

Walked(f, k, bits) ==
    /\ f[k] \in Walks /\ Once(f[k].list)
    /\ \A u \in Thread :
          Linked(f[k].list, u) <=> (Linked(list, u) /\ u \notin f[k].resumed)
    /\ f[k].resumed \subseteq First(k)
    /\ \A u \in Thread \ f[k].resumed : f[k].got[u] = event_set[u]
    /\ f[k].set = bits \ Taken(f[k].got, f[k].resumed)

(* Each thread met what those in front of it had left.                     *)
InTurn(f, k) ==
    \A i \in 1..k :
       /\ list[i] \in f[k].resumed
            <=> Fits(event_set[list[i]], event_info[list[i]], f[i - 1].set)
       /\ list[i] \in f[k].resumed
            => f[k].got[list[i]] = event_set[list[i]] \intersect f[i - 1].set

(* What a round has done, later ones leave.                                *)
Kept(f, k) ==
    \A i \in 0..k :
       /\ f[i].resumed = f[k].resumed \intersect First(i)
       /\ \A u \in f[i].resumed : f[k].got[u] = f[i].got[u]
       /\ f[k].set \subseteq f[i].set

(* Before the first round nothing has happened. *)
LEMMA WalkBegins ==
  ASSUME TypeOK, NEW bits \in SUBSET Bit, NEW f, f[0] = Begun(bits)
  PROVE  Walked(f, 0, bits) /\ InTurn(f, 0) /\ Kept(f, 0)
<1>1. /\ f[0].set = bits /\ f[0].got = event_set
      /\ f[0].list = list /\ f[0].resumed = {}
  BY DEF Begun
<1>2. f[0] \in Walks /\ Once(list)
  BY DEF Begun, Walks, TypeOK
<1>3. Taken(event_set, {}) = {}
  BY DEF Taken
<1>4. Walked(f, 0, bits)
  BY <1>1, <1>2, <1>3 DEF Walked
<1>5. InTurn(f, 0)
  BY DEF InTurn
<1>6. \A i \in 0..0 : i = 0
  OBVIOUS
<1>7. Kept(f, 0)
  BY <1>1, <1>6 DEF Kept
<1> QED
  BY <1>4, <1>5, <1>7

(* The threads of the list are met one by one. *)
LEMMA FirstGrows ==
  ASSUME TypeOK, NEW k \in 1..Len(list)
  PROVE  /\ list[k] \in Thread /\ Linked(list, list[k])
         /\ First(k) = First(k - 1) \union {list[k]}
         /\ list[k] \notin First(k - 1)
         /\ \A i \in 0..(k - 1) : First(i) \subseteq First(k - 1)
<1>1. list \in Seq(Thread) /\ Len(list) \in Nat /\ Once(list)
  BY LenProperties DEF TypeOK
<1>2. list[k] \in Thread /\ Linked(list, list[k])
  BY <1>1, ElementOfSeq DEF Linked
<1>3. 1..k = 1..(k - 1) \union {k} /\ k \notin 1..(k - 1)
  BY <1>1
<1>4. First(k) = First(k - 1) \union {list[k]}
  BY <1>3 DEF First
<1>5. list[k] \notin First(k - 1)
  BY <1>1, <1>3 DEF First, Once
<1>6. ASSUME NEW i \in 0..(k - 1) PROVE First(i) \subseteq First(k - 1)
  BY <1>1 DEF First
<1> QED
  BY <1>2, <1>4, <1>5, <1>6

(* A round of the loop. *)
LEMMA WalkGoesOn ==
  ASSUME TypeOK, NEW bits \in SUBSET Bit, NEW f, NEW k \in 1..Len(list),
         Walked(f, k - 1, bits), InTurn(f, k - 1), Kept(f, k - 1),
         f[k] = Visit(f[k - 1], list[k])
  PROVE  Walked(f, k, bits) /\ InTurn(f, k) /\ Kept(f, k)
<1> DEFINE w == list[k]
           s == f[k - 1]
           r == f[k]
<1>1. /\ w \in Thread /\ Linked(list, w)
      /\ First(k) = First(k - 1) \union {w} /\ w \notin First(k - 1)
      /\ \A i \in 0..(k - 1) : First(i) \subseteq First(k - 1)
  BY FirstGrows
<1>2. /\ s \in Walks /\ Once(s.list)
      /\ \A u \in Thread :
            Linked(s.list, u) <=> (Linked(list, u) /\ u \notin s.resumed)
      /\ s.resumed \subseteq First(k - 1)
      /\ \A u \in Thread \ s.resumed : s.got[u] = event_set[u]
      /\ s.set = bits \ Taken(s.got, s.resumed)
  BY DEF Walked
<1>3. /\ 1..k = 1..(k - 1) \union {k} /\ 0..k = 0..(k - 1) \union {k}
      /\ \A i \in 1..(k - 1) : list[i] \in First(k - 1)
      /\ Len(list) \in Nat
  BY LenProperties DEF TypeOK, First
<1>4. w \notin s.resumed
  BY <1>1, <1>2
<1>5. r = Visit(s, w)
  OBVIOUS
<1>6. CASE ~Fits(event_set[w], event_info[w], s.set)
  <2>1. r = s
    BY <1>5, <1>6, VisitPasses
  <2>2. Walked(f, k, bits)
    BY <1>1, <1>2, <2>1 DEF Walked
  <2>3. InTurn(f, k)
    BY <1>3, <1>4, <1>6, <2>1 DEF InTurn
  <2>4. s.resumed = s.resumed \intersect First(k)
    BY <1>1, <1>2
  <2>5. Kept(f, k)
    BY <1>3, <2>1, <2>4 DEF Kept
  <2> QED
    BY <2>2, <2>3, <2>5
<1>7. CASE Fits(event_set[w], event_info[w], s.set)
  <2> DEFINE got == event_set[w] \intersect s.set
  <2>1. /\ r \in Walks
        /\ r.set = IF "CLEAR" \in event_info[w] THEN s.set \ got ELSE s.set
        /\ r.got = [s.got EXCEPT ![w] = got]
        /\ r.resumed = s.resumed \union {w}
        /\ Once(r.list)
        /\ \A u : Linked(r.list, u) <=> (Linked(s.list, u) /\ u # w)
    <3>1. s \in Walks /\ w \in Thread /\ Once(s.list)
      BY <1>1, <1>2
    <3> HIDE DEF s, w, r
    <3> QED
      BY <1>5, <1>7, <3>1, VisitServes
  <2>2. s.got \in [Thread -> SUBSET Bit]
    BY <1>2 DEF Walks
  <2>3. r.got[w] = got /\ \A u \in Thread : u # w => r.got[u] = s.got[u]
    BY <1>1, <2>1, <2>2
  <2>4. Taken(r.got, r.resumed)
          = Taken(s.got, s.resumed)
              \union (IF "CLEAR" \in event_info[w] THEN got ELSE {})
    <3>1. \A u \in s.resumed : r.got[u] = s.got[u]
      BY <1>2, <1>4, <2>3 DEF Walks
    <3> HIDE DEF got
    <3> QED
      BY <2>1, <2>3, <3>1 DEF Taken
  <2>5. r.set = bits \ Taken(r.got, r.resumed)
    <3> HIDE DEF got
    <3> QED
      BY <1>2, <2>1, <2>4
  <2> HIDE DEF got
  <2>6. \A u \in Thread :
           Linked(r.list, u) <=> (Linked(list, u) /\ u \notin r.resumed)
    BY <1>2, <2>1
  <2>7. Walked(f, k, bits)
    BY <1>1, <1>2, <2>1, <2>3, <2>5, <2>6 DEF Walked
  <2>8. InTurn(f, k)
    <3>1. ASSUME NEW i \in 1..(k - 1)
          PROVE  /\ list[i] \in r.resumed <=> list[i] \in s.resumed
                 /\ list[i] \in s.resumed => r.got[list[i]] = s.got[list[i]]
      <4>1. list[i] # w
        BY <1>1, <1>3
      <4> QED
        BY <2>1, <2>3, <4>1, <1>2 DEF Walks
    <3>2. w \in r.resumed /\ r.got[w] = event_set[w] \intersect s.set
      BY <2>1, <2>3 DEF got
    <3> QED
      BY <1>3, <1>7, <3>1, <3>2 DEF InTurn
  <2>9. Kept(f, k)
    <3>1. ASSUME NEW i \in 0..(k - 1)
          PROVE  /\ f[i].resumed = r.resumed \intersect First(i)
                 /\ \A u \in f[i].resumed : r.got[u] = f[i].got[u]
                 /\ r.set \subseteq f[i].set
      <4>1. /\ f[i].resumed = s.resumed \intersect First(i)
            /\ \A u \in f[i].resumed : s.got[u] = f[i].got[u]
            /\ s.set \subseteq f[i].set
        BY DEF Kept
      <4>2. w \notin First(i)
        BY <1>1
      <4>3. f[i].resumed = r.resumed \intersect First(i)
        BY <2>1, <4>1, <4>2
      <4>4. \A u \in f[i].resumed : u # w /\ u \in Thread
        BY <1>2, <4>1, <4>2 DEF Walks
      <4>5. r.set \subseteq s.set
        BY <2>1
      <4> QED
        BY <2>3, <4>1, <4>3, <4>4, <4>5
    <3>2. r.resumed = r.resumed \intersect First(k)
      BY <1>1, <1>2, <2>1
    <3> QED
      BY <1>3, <3>1, <3>2 DEF Kept
  <2> QED
    BY <2>7, <2>8, <2>9
<1> QED
  BY <1>6, <1>7

(* The whole loop. *)
LEMMA WalkEnds ==
  ASSUME TypeOK, NEW bits \in SUBSET Bit
  PROVE  \E f : /\ Sweep(bits, list) = f[Len(list)]
                /\ f[0].set = bits
                /\ \A k \in 0..Len(list) : Walked(f, k, bits)
                /\ InTurn(f, Len(list)) /\ Kept(f, Len(list))
<1> DEFINE size == Len(list)
<1>0. size \in Nat
  BY LenProperties DEF TypeOK
<1>1. PICK f : /\ f[0] = Begun(bits)
               /\ \A k \in 1..size : f[k] = Visit(f[k - 1], list[k])
               /\ Sweep(bits, list) = f[size]
  <2>1. \E f : /\ f[0] = Begun(bits)
               /\ \A k \in 1..Len(list) : f[k] = Visit(f[k - 1], list[k])
               /\ Sweep(bits, list) = f[Len(list)]
    BY <1>0, SweepSteps
  <2> QED
    BY <2>1
<1> DEFINE Good(k) == Walked(f, k, bits) /\ InTurn(f, k) /\ Kept(f, k)
           Bad == {k \in 0..size : ~Good(k)}
<1>2. Good(0)
  BY <1>1, WalkBegins
<1>3. ASSUME NEW k \in 1..size, Good(k - 1)
      PROVE  Good(k)
  BY <1>1, <1>3, WalkGoesOn
<1>4. Bad = {}
  <2> SUFFICES ASSUME Bad # {} PROVE FALSE
    OBVIOUS
  <2> HIDE DEF Good
  <2>1. Bad \in SUBSET Nat
    BY <1>0
  <2>2. PICK k \in Bad : \A j \in Bad : k <= j
    BY <2>1, SmallestNat
  <2>3. k \in 0..size /\ ~Good(k)
    BY <2>2
  <2>4. k \in 1..size
    BY <1>0, <1>2, <2>3
  <2>5. k - 1 \in 0..size /\ ~(k <= k - 1)
    BY <1>0, <2>4
  <2>6. Good(k - 1)
    BY <2>2, <2>5
  <2> QED
    BY <1>3, <2>3, <2>4, <2>6
<1>5. \A k \in 0..size : Good(k)
  <2> HIDE DEF Good
  <2> QED
    BY <1>4
<1>6. size \in 0..size /\ f[0].set = bits
  BY <1>0, <1>1 DEF Begun
<1> QED
  BY <1>1, <1>5, <1>6

------------------------------------------------------------------------------
(* The threads of R that stand in front of t. *)
InFront(R, w) ==
    {u \in R : \E i, j \in 1..Len(list) :
                  i < j /\ list[i] = u /\ list[j] = w}

(* What a send does: who stays on the list, ... *)
LEMMA SweepServes ==
  ASSUME TypeOK, NEW bits \in SUBSET Bit
  PROVE  LET r == Sweep(bits, list) IN
         /\ r \in Walks /\ Once(r.list)
         /\ \A u \in Thread :
               Linked(r.list, u) <=> (Suspended(u) /\ u \notin r.resumed)
         /\ \A u \in r.resumed : Suspended(u)
         /\ \A u \in Thread \ r.resumed : r.got[u] = event_set[u]
         /\ \A u \in Thread :
               Suspended(u) /\ u \notin r.resumed
                 => ~Fits(event_set[u], event_info[u], r.set)
<1> DEFINE size == Len(list)
           r == Sweep(bits, list)
<1>1. size \in Nat /\ size \in 0..size
  BY LenProperties DEF TypeOK
<1>2. PICK f : /\ r = f[size] /\ f[0].set = bits
               /\ \A k \in 0..size : Walked(f, k, bits)
               /\ InTurn(f, size) /\ Kept(f, size)
  BY WalkEnds
<1> HIDE DEF r
<1>3. Walked(f, size, bits)
  BY <1>1, <1>2
<1>4. /\ r \in Walks /\ Once(r.list)
      /\ \A u \in Thread :
            Linked(r.list, u) <=> (Suspended(u) /\ u \notin r.resumed)
      /\ \A u \in Thread \ r.resumed : r.got[u] = event_set[u]
  BY <1>2, <1>3 DEF Walked, Suspended
<1>5. \A u \in r.resumed : Suspended(u)
  BY <1>2, <1>3 DEF Walked, Suspended, Linked, First
<1>6. ASSUME NEW u \in Thread, Suspended(u), u \notin r.resumed
      PROVE  ~Fits(event_set[u], event_info[u], r.set)
  <2>1. PICK i \in 1..size : list[i] = u
    BY <1>6 DEF Suspended, Linked
  <2>2. ~Fits(event_set[u], event_info[u], f[i - 1].set)
    BY <1>2, <1>6, <2>1 DEF InTurn
  <2>3. i - 1 \in 0..size
    BY <1>1
  <2>4. r.set \subseteq f[i - 1].set
    BY <1>2, <2>3 DEF Kept
  <2> QED
    BY <2>2, <2>4, FitsMore
<1> QED
  BY <1>4, <1>5, <1>6 DEF r

(* ... and who is served with what. *)
LEMMA SweepGives ==
  ASSUME TypeOK, NEW bits \in SUBSET Bit
  PROVE  LET r == Sweep(bits, list)
             Left(w) == bits \ Taken(r.got, InFront(r.resumed, w))
         IN  /\ r.set = bits \ Taken(r.got, r.resumed)
             /\ \A w \in Thread : Suspended(w) =>
                   /\ w \in r.resumed
                        <=> Fits(event_set[w], event_info[w], Left(w))
                   /\ w \in r.resumed
                        => r.got[w] = event_set[w] \intersect Left(w)
<1> DEFINE size == Len(list)
           r == Sweep(bits, list)
           Left(w) == bits \ Taken(r.got, InFront(r.resumed, w))
<1>1. size \in Nat /\ size \in 0..size
  BY LenProperties DEF TypeOK
<1>2. PICK f : /\ r = f[size] /\ f[0].set = bits
               /\ \A k \in 0..size : Walked(f, k, bits)
               /\ InTurn(f, size) /\ Kept(f, size)
  BY WalkEnds
<1>3. r.set = bits \ Taken(r.got, r.resumed)
  BY <1>1, <1>2 DEF Walked
<1>4. ASSUME NEW w \in Thread, Suspended(w)
      PROVE  /\ w \in r.resumed
                  <=> Fits(event_set[w], event_info[w], Left(w))
             /\ w \in r.resumed
                  => r.got[w] = event_set[w] \intersect Left(w)
  <2>1. PICK i \in 1..size : list[i] = w
    BY <1>4 DEF Suspended, Linked
  <2>2. i - 1 \in 0..size
    BY <1>1
  <2> HIDE DEF r
  <2>3. InFront(r.resumed, w) = r.resumed \intersect First(i - 1)
    <3>1. \A j \in 1..size : list[j] = w <=> j = i
      BY <2>1 DEF TypeOK, Once
    <3>2. \A j : j \in 1..size /\ j < i <=> j \in 1..(i - 1)
      BY <1>1
    <3> QED
      BY <2>1, <3>1, <3>2 DEF InFront, First
  <2>4. /\ f[i - 1].resumed = r.resumed \intersect First(i - 1)
        /\ \A u \in f[i - 1].resumed : r.got[u] = f[i - 1].got[u]
    BY <1>2, <2>2 DEF Kept
  <2>5. Taken(r.got, InFront(r.resumed, w))
          = Taken(f[i - 1].got, f[i - 1].resumed)
    BY <2>3, <2>4 DEF Taken
  <2>6. f[i - 1].set = bits \ Taken(f[i - 1].got, f[i - 1].resumed)
    BY <1>2, <2>2 DEF Walked
  <2>7. Left(w) = f[i - 1].set
    BY <2>5, <2>6
  <2> QED
    BY <1>2, <2>1, <2>7 DEF InTurn
<1> QED
  BY <1>3, <1>4

------------------------------------------------------------------------------
(* A thread on the list has not been served and has no error; one that is  *)
(* in no call has not been served either.                                  *)
Unserved ==
    /\ \A w \in Thread : Suspended(w) => error[w] = "EOK" /\ w \notin served
    /\ \A w \in Thread : pc[w] # "waiting" => w \notin served

(* The inductive invariant. *)
EventInv == AnswerIsTrue /\ NoSatisfiedWaiter /\ Unserved

(* The initial states satisfy it. *)
LEMMA InitEventInv == Init => EventInv
<1> SUFFICES ASSUME Init PROVE EventInv
  OBVIOUS
<1>1. list = <<>> /\ Len(list) = 0 /\ list \in Seq(Thread)
  BY EmptySeq DEF Init
<1>2. \A w : ~Suspended(w)
  BY <1>1 DEF Suspended, Linked
<1>3. TypeOK
  BY <1>1, <1>2 DEF Init, TypeOK, Once
<1> QED
  BY <1>2, <1>3 DEF Init, EventInv, AnswerIsTrue, NoSatisfiedWaiter, Unserved

(* rt_event_recv that finds its bits, and one that does not wait.          *)
LEMMA RecvNowInv ==
  ASSUME EventInv, NEW w \in Thread, NEW ask \in Ask[w],
         RecvNow(w, ask) \/ RecvFails(w, ask)
  PROVE  EventInv'
<1>1. TypeOK
  BY DEF EventInv, AnswerIsTrue
<1>2. /\ pc[w] = "idle" /\ list' = list /\ timer' = timer /\ pc' = pc
      /\ event_set' = event_set /\ event_info' = event_info /\ live' = live
      /\ served' = served /\ struck' = struck
      /\ set' \subseteq set
      /\ \E e \in {"EOK", "ETIMEOUT"} : error' = [error EXCEPT ![w] = e]
  BY DEF RecvNow, RecvFails
<1>3. \A u : Suspended(u)' <=> Suspended(u)
  BY <1>2 DEF Suspended
<1>4. ~Suspended(w)
  BY <1>1, <1>2 DEF TypeOK
<1>5. TypeOK'
  BY <1>1, <1>2, <1>3 DEF TypeOK
<1>6. \A u \in Thread \ {w} : error'[u] = error[u]
  BY <1>1, <1>2 DEF TypeOK
<1>7. AnswerIsTrue'
  BY <1>2, <1>3, <1>5, <1>6 DEF EventInv, AnswerIsTrue
<1>8. NoSatisfiedWaiter'
  BY <1>2, <1>3, FitsMore DEF EventInv, NoSatisfiedWaiter
<1>9. Unserved'
  BY <1>2, <1>3, <1>4, <1>6 DEF EventInv, Unserved
<1> QED
  BY <1>7, <1>8, <1>9 DEF EventInv

(* rt_event_recv that waits. *)
LEMMA RecvSuspendInv ==
  ASSUME EventInv, NEW w \in Thread, NEW ask \in Ask[w], RecvSuspend(w, ask)
  PROVE  EventInv'
<1>1. TypeOK
  BY DEF EventInv, AnswerIsTrue
<1>2. ask \in [want : SUBSET Bit \ {{}}, option : Options]
  BY AskAssumption
<1>3. /\ pc[w] = "idle" /\ ~Fits(ask.want, ask.option, set)
      /\ event_set' = [event_set EXCEPT ![w] = ask.want]
      /\ event_info' = [event_info EXCEPT ![w] = ask.option]
      /\ error' = [error EXCEPT ![w] = "EOK"]
      /\ list' = Enqueue(list, w, Flag, Priority)
      /\ timer' \subseteq timer \union {w}
      /\ pc' = [pc EXCEPT ![w] = "waiting"]
      /\ set' = set /\ live' = live /\ served' = served /\ struck' = struck
  BY DEF RecvSuspend
<1>4. ~Suspended(w)
  BY <1>1, <1>3 DEF TypeOK
<1>5. /\ list' \in Seq(Thread) /\ Once(list')
      /\ \A u : Suspended(u)' <=> (Suspended(u) \/ u = w)
  BY <1>1, <1>3, <1>4, FlagAssumption, EnqueueElements, EnqueueLinked
     DEF TypeOK, Suspended
<1>6. /\ event_set'[w] = ask.want /\ event_info'[w] = ask.option
      /\ error'[w] = "EOK" /\ pc'[w] = "waiting"
      /\ \A u \in Thread \ {w} :
            /\ event_set'[u] = event_set[u] /\ event_info'[u] = event_info[u]
            /\ error'[u] = error[u] /\ pc'[u] = pc[u]
  BY <1>1, <1>3 DEF TypeOK
<1>7. TypeOK'
  <2>1. /\ event_set' \in [Thread -> SUBSET Bit]
        /\ event_info' \in [Thread -> Options \union {{}}]
    BY <1>1, <1>2, <1>3 DEF TypeOK
  <2>2. /\ error' \in [Thread -> {"EOK", "ETIMEOUT", "ERROR", "EINTR"}]
        /\ pc' \in [Thread -> {"idle", "waiting"} \union Detaching]
    BY <1>1, <1>3 DEF TypeOK
  <2> QED
    BY <1>1, <1>3, <1>5, <1>6, <2>1, <2>2 DEF TypeOK
<1>8. AnswerIsTrue'
  BY <1>3, <1>5, <1>6, <1>7 DEF EventInv, AnswerIsTrue
<1>9. NoSatisfiedWaiter'
  BY <1>3, <1>5, <1>6 DEF EventInv, NoSatisfiedWaiter
<1>10. Unserved'
  BY <1>3, <1>5, <1>6 DEF EventInv, Unserved
<1> QED
  BY <1>8, <1>9, <1>10 DEF EventInv

(* rt_event_send. *)
LEMMA SendInv ==
  ASSUME EventInv, NEW s \in SUBSET Bit, Send(s)
  PROVE  EventInv'
<1> DEFINE r == Sweep(set \union s, list)
<1>1. TypeOK /\ set \union s \in SUBSET Bit
  BY DEF EventInv, AnswerIsTrue, TypeOK
<1>2. /\ set' = r.set /\ event_set' = r.got /\ list' = r.list
      /\ timer' = timer \ r.resumed /\ served' = served \union r.resumed
      /\ error' = error /\ event_info' = event_info /\ pc' = pc
      /\ live' = live /\ struck' = struck
  BY DEF Send
<1>3. /\ r \in Walks /\ Once(r.list)
      /\ \A u \in Thread :
            Linked(r.list, u) <=> (Suspended(u) /\ u \notin r.resumed)
      /\ \A u \in r.resumed : Suspended(u)
      /\ \A u \in Thread \ r.resumed : r.got[u] = event_set[u]
      /\ \A u \in Thread :
            Suspended(u) /\ u \notin r.resumed
              => ~Fits(event_set[u], event_info[u], r.set)
  BY <1>1, SweepServes
<1> HIDE DEF r
<1>4. \A u \in Thread : Suspended(u)' <=> (Suspended(u) /\ u \notin r.resumed)
  BY <1>2, <1>3 DEF Suspended
<1>5. /\ r.set \in SUBSET Bit /\ r.got \in [Thread -> SUBSET Bit]
      /\ r.list \in Seq(Thread) /\ r.resumed \in SUBSET Thread
  BY <1>3 DEF Walks
<1>6. TypeOK'
  BY <1>1, <1>2, <1>3, <1>4, <1>5 DEF TypeOK
<1>7. AnswerIsTrue'
  BY <1>2, <1>3, <1>4, <1>6 DEF EventInv, AnswerIsTrue, Unserved
<1>8. NoSatisfiedWaiter'
  BY <1>2, <1>3, <1>4 DEF NoSatisfiedWaiter
<1>9. Unserved'
  BY <1>1, <1>2, <1>3, <1>4 DEF EventInv, Unserved, TypeOK
<1> QED
  BY <1>7, <1>8, <1>9 DEF EventInv

(* Threads that leave the list for another reason than a send: those of    *)
(* gone, which get the error of their reason.                              *)
LEMMA GoneInv ==
  ASSUME EventInv, TypeOK', NEW gone \in SUBSET Thread,
         \A u \in Thread : Suspended(u)' <=> (Suspended(u) /\ u \notin gone),
         \A u \in gone \ struck' : Suspended(u) /\ error'[u] # "EOK",
         \A u \in Thread \ gone : error'[u] = error[u],
         set' \subseteq set, event_set' = event_set, event_info' = event_info,
         served' = served, struck \subseteq struck',
         \A u \in Thread : pc'[u] = "waiting" <=> pc[u] = "waiting"
  PROVE  EventInv'
<1>1. AnswerIsTrue'
  BY DEF EventInv, AnswerIsTrue, Unserved
<1>2. NoSatisfiedWaiter'
  BY FitsMore DEF EventInv, NoSatisfiedWaiter
<1>3. Unserved'
  BY DEF EventInv, Unserved
<1> QED
  BY <1>1, <1>2, <1>3 DEF EventInv

(* rt_event_control(RESET). *)
LEMMA ResetInv ==
  ASSUME EventInv, NEW w \in Thread, Reset(w)
  PROVE  EventInv'
<1> DEFINE gone == {u \in Thread : Suspended(u)}
<1>1. TypeOK
  BY DEF EventInv, AnswerIsTrue
<1>2. /\ error' = [u \in Thread |-> IF Suspended(u) THEN "ERROR" ELSE error[u]]
      /\ timer' = {} /\ list' = <<>> /\ set' = {}
      /\ event_set' = event_set /\ event_info' = event_info /\ pc' = pc
      /\ live' = live /\ served' = served /\ struck' = struck
  BY DEF Reset
<1>3. list' \in Seq(Thread) /\ Once(list') /\ \A u : ~Suspended(u)'
  <2>1. list' \in Seq(Thread) /\ Len(list') = 0
    BY <1>2, EmptySeq
  <2> QED
    BY <2>1 DEF Suspended, Linked, Once
<1>4. error' \in [Thread -> {"EOK", "ETIMEOUT", "ERROR", "EINTR"}]
  BY <1>1, <1>2 DEF TypeOK
<1>5. TypeOK'
  BY <1>1, <1>2, <1>3, <1>4 DEF TypeOK
<1>6. /\ \A u \in Thread : Suspended(u)' <=> (Suspended(u) /\ u \notin gone)
      /\ \A u \in gone \ struck' : Suspended(u) /\ error'[u] # "EOK"
      /\ \A u \in Thread \ gone : error'[u] = error[u]
  BY <1>2, <1>3
<1> HIDE DEF gone
<1> QED
  BY <1>2, <1>5, <1>6, GoneInv DEF gone

(* A thread leaves the list. *)
LEMMA LeavesList ==
  ASSUME TypeOK, NEW w \in Thread, list' = Unlink(list, w)
  PROVE  /\ list' \in Seq(Thread) /\ Once(list')
         /\ \A u : Suspended(u)' <=> (Suspended(u) /\ u # w)
<1>1. list \in Seq(Thread) /\ Once(list) /\ Priority \in [Thread -> Nat]
  BY FlagAssumption DEF TypeOK
<1> QED
  BY <1>1, UnlinkProperties DEF Suspended

(* The timer of a thread ends its wait ... *)
LEMMA TimeoutInv ==
  ASSUME EventInv, NEW w \in Thread, Timeout(w)
  PROVE  EventInv'
<1>1. TypeOK
  BY DEF EventInv, AnswerIsTrue
<1>2. /\ w \in timer /\ timer' = timer \ {w}
      /\ error' = [error EXCEPT ![w] = "ETIMEOUT"]
      /\ list' = Unlink(list, w)
      /\ set' = set /\ event_set' = event_set /\ event_info' = event_info
      /\ pc' = pc /\ live' = live /\ served' = served /\ struck' = struck
  BY DEF Timeout
<1>3. /\ list' \in Seq(Thread) /\ Once(list')
      /\ \A u : Suspended(u)' <=> (Suspended(u) /\ u # w)
  BY <1>1, <1>2, LeavesList
<1>4. /\ error' \in [Thread -> {"EOK", "ETIMEOUT", "ERROR", "EINTR"}]
      /\ error'[w] = "ETIMEOUT" /\ Suspended(w)
      /\ \A u \in Thread \ {w} : error'[u] = error[u]
  BY <1>1, <1>2 DEF TypeOK
<1>5. TypeOK'
  BY <1>1, <1>2, <1>3, <1>4 DEF TypeOK
<1> DEFINE gone == {w}
<1>6. /\ gone \in SUBSET Thread
      /\ \A u \in Thread : Suspended(u)' <=> (Suspended(u) /\ u \notin gone)
      /\ \A u \in gone \ struck' : Suspended(u) /\ error'[u] # "EOK"
      /\ \A u \in Thread \ gone : error'[u] = error[u]
  BY <1>3, <1>4
<1> HIDE DEF gone
<1> QED
  BY <1>2, <1>5, <1>6, GoneInv

(* ... and so does a signal. *)
LEMMA SignalInv ==
  ASSUME EventInv, NEW w \in Thread, Signal(w)
  PROVE  EventInv'
<1>1. TypeOK
  BY DEF EventInv, AnswerIsTrue
<1>2. PICK e \in {error[w], "EINTR"} : error' = [error EXCEPT ![w] = e]
  BY DEF Signal
<1>3. /\ w \in Signalled /\ struck' = struck \union {w}
      /\ list' = Unlink(list, w) /\ timer' = timer \ {w}
      /\ set' = set /\ event_set' = event_set /\ event_info' = event_info
      /\ pc' = pc /\ live' = live /\ served' = served
  BY DEF Signal
<1>4. /\ list' \in Seq(Thread) /\ Once(list')
      /\ \A u : Suspended(u)' <=> (Suspended(u) /\ u # w)
  BY <1>1, <1>3, LeavesList
<1>5. /\ error' \in [Thread -> {"EOK", "ETIMEOUT", "ERROR", "EINTR"}]
      /\ \A u \in Thread \ {w} : error'[u] = error[u]
  BY <1>1, <1>2 DEF TypeOK
<1>6. TypeOK'
  BY <1>1, <1>3, <1>4, <1>5 DEF TypeOK
<1> DEFINE gone == {w}
<1>7. /\ gone \in SUBSET Thread
      /\ \A u \in Thread : Suspended(u)' <=> (Suspended(u) /\ u \notin gone)
      /\ \A u \in gone \ struck' : Suspended(u) /\ error'[u] # "EOK"
      /\ \A u \in Thread \ gone : error'[u] = error[u]
  BY <1>3, <1>4, <1>5
<1> HIDE DEF gone
<1> QED
  BY <1>3, <1>6, <1>7, GoneInv

(* The way out of rt_event_recv. *)
LEMMA ReturnInv ==
  ASSUME EventInv, NEW w \in Thread, Return(w)
  PROVE  EventInv'
<1>1. TypeOK
  BY DEF EventInv, AnswerIsTrue
<1>2. /\ pc[w] = "waiting" /\ ~Suspended(w)
      /\ pc' = [pc EXCEPT ![w] = "idle"] /\ served' = served \ {w}
      /\ set' = set /\ list' = list /\ timer' = timer /\ error' = error
      /\ event_set' = event_set /\ event_info' = event_info
      /\ live' = live /\ struck' = struck
  BY DEF Return, waits
<1>3. \A u : Suspended(u)' <=> Suspended(u)
  BY <1>2 DEF Suspended
<1>4. /\ pc'[w] = "idle" /\ \A u \in Thread \ {w} : pc'[u] = pc[u]
      /\ pc' \in [Thread -> {"idle", "waiting"} \union Detaching]
  BY <1>1, <1>2 DEF TypeOK
<1>5. TypeOK'
  BY <1>1, <1>2, <1>3, <1>4 DEF TypeOK
<1>6. AnswerIsTrue'
  BY <1>2, <1>3, <1>4, <1>5 DEF EventInv, AnswerIsTrue
<1>7. NoSatisfiedWaiter'
  BY <1>2, <1>3 DEF EventInv, NoSatisfiedWaiter
<1>8. Unserved'
  BY <1>2, <1>3, <1>4 DEF EventInv, Unserved
<1> QED
  BY <1>6, <1>7, <1>8 DEF EventInv

(* The steps of a detach. *)
LEMMA DetachInv ==
  ASSUME EventInv, NEW w \in Thread,
         \/ DetachBegin(w) \/ ResumeAllTest(w) \/ ResumeAllTake(w)
         \/ Unregister(w)
  PROVE  EventInv'
<1>1. TypeOK
  BY DEF EventInv, AnswerIsTrue
<1>2. /\ pc[w] # "waiting" /\ live' \in BOOLEAN
      /\ \E where \in {"idle"} \union Detaching : Goes(w, where)
      /\ set' = set /\ event_set' = event_set /\ event_info' = event_info
      /\ served' = served /\ struck' = struck
  BY <1>1 DEF DetachBegin, ResumeAllTest, ResumeAllTake, Unregister, waits,
              TypeOK, Detaching
<1>3. /\ pc' \in [Thread -> {"idle", "waiting"} \union Detaching]
      /\ \A u \in Thread : pc'[u] = "waiting" <=> pc[u] = "waiting"
  <2>1. PICK where \in {"idle"} \union Detaching :
           pc' = [pc EXCEPT ![w] = where]
    BY <1>2 DEF Goes
  <2>2. where # "waiting"
    BY DEF Detaching
  <2> QED
    BY <1>1, <1>2, <2>1, <2>2 DEF TypeOK
<1>4. CASE list' = list /\ timer' = timer /\ error' = error
  <2> DEFINE gone == {}
  <2>1. \A u : Suspended(u)' <=> Suspended(u)
    BY <1>4 DEF Suspended
  <2>2. TypeOK'
    BY <1>1, <1>2, <1>3, <1>4, <2>1 DEF TypeOK
  <2>3. /\ gone \in SUBSET Thread
        /\ \A u \in Thread : Suspended(u)' <=> (Suspended(u) /\ u \notin gone)
        /\ \A u \in gone \ struck' : Suspended(u) /\ error'[u] # "EOK"
        /\ \A u \in Thread \ gone : error'[u] = error[u]
    BY <1>4, <2>1
  <2> HIDE DEF gone
  <2> QED
    BY <1>2, <1>3, <2>2, <2>3, GoneInv
<1>5. CASE /\ list # <<>> /\ list' = Tail(list)
           /\ error' = [error EXCEPT ![Head(list)] = "ERROR"]
           /\ timer' = timer \ {Head(list)}
  <2> DEFINE h == Head(list)
  <2>1. /\ h \in Thread /\ Suspended(h)
        /\ list' \in Seq(Thread) /\ Once(list')
        /\ \A u : Suspended(u)' <=> (Suspended(u) /\ u # h)
    BY <1>1, <1>5, FlagAssumption, TailProperties DEF TypeOK, Suspended
  <2>2. error' = [error EXCEPT ![h] = "ERROR"] /\ timer' = timer \ {h}
    BY <1>5
  <2> HIDE DEF h
  <2>3. /\ error' \in [Thread -> {"EOK", "ETIMEOUT", "ERROR", "EINTR"}]
        /\ error'[h] = "ERROR"
        /\ \A u \in Thread \ {h} : error'[u] = error[u]
    BY <1>1, <2>1, <2>2 DEF TypeOK
  <2>4. TypeOK'
    BY <1>1, <1>2, <1>3, <2>1, <2>2, <2>3 DEF TypeOK
  <2> DEFINE gone == {h}
  <2>5. /\ gone \in SUBSET Thread
        /\ \A u \in Thread : Suspended(u)' <=> (Suspended(u) /\ u \notin gone)
        /\ \A u \in gone \ struck' : Suspended(u) /\ error'[u] # "EOK"
        /\ \A u \in Thread \ gone : error'[u] = error[u]
    BY <2>1, <2>3
  <2> HIDE DEF gone
  <2> QED
    BY <1>2, <1>3, <2>4, <2>5, GoneInv
<1>6. \/ list' = list /\ timer' = timer /\ error' = error
      \/ /\ list # <<>> /\ list' = Tail(list)
         /\ error' = [error EXCEPT ![Head(list)] = "ERROR"]
         /\ timer' = timer \ {Head(list)}
  BY DEF DetachBegin, ResumeAllTest, ResumeAllTake, Unregister, waits
<1> QED
  BY <1>4, <1>5, <1>6

(* Every step keeps the invariant. *)
LEMMA NextEventInv == EventInv /\ [Next]_vars => EventInv'
<1> SUFFICES ASSUME EventInv, [Next]_vars PROVE EventInv'
  OBVIOUS
<1>1. ASSUME NEW s \in SUBSET Bit, Send(s) PROVE EventInv'
  BY <1>1, SendInv
<1>2. ASSUME NEW w \in Thread, NEW ask \in Ask[w],
             RecvNow(w, ask) \/ RecvFails(w, ask)
      PROVE  EventInv'
  BY <1>2, RecvNowInv
<1>3. ASSUME NEW w \in Thread, NEW ask \in Ask[w], RecvSuspend(w, ask)
      PROVE  EventInv'
  BY <1>3, RecvSuspendInv
<1>4. ASSUME NEW w \in Thread, Reset(w) PROVE EventInv'
  BY <1>4, ResetInv
<1>5. ASSUME NEW w \in Thread, DetachBegin(w) PROVE EventInv'
  BY <1>5, DetachInv
<1>6. ASSUME NEW w \in Thread, CallStep(w) PROVE EventInv'
  BY <1>6, ReturnInv, DetachInv DEF CallStep
<1>7. ASSUME NEW w \in Thread, Timeout(w) PROVE EventInv'
  BY <1>7, TimeoutInv
<1>8. ASSUME NEW w \in Thread, Signal(w) PROVE EventInv'
  BY <1>8, SignalInv
<1>9. CASE UNCHANGED vars
  BY <1>9 DEF vars, EventInv, AnswerIsTrue, TypeOK, NoSatisfiedWaiter,
              Unserved, Suspended
<1> QED
  BY <1>1, <1>2, <1>3, <1>4, <1>5, <1>6, <1>7, <1>8, <1>9 DEF Next

(* The invariant of the event holds in every behaviour. *)
THEOREM EventInvariant == Spec => []EventInv
BY InitEventInv, NextEventInv, PTL DEF Spec

(* No thread stays suspended beside bits that satisfy it: one walk of      *)
(* rt_event_send is enough, although those it serves take bits away from   *)
(* those behind them, and no other call makes such a thread.               *)
THEOREM NobodySatisfiedWaits == Spec => []NoSatisfiedWaiter
<1>1. EventInv => NoSatisfiedWaiter
  BY DEF EventInv
<1> QED
  BY <1>1, EventInvariant, PTL

(* rt_event_recv returns RT_EOK exactly when a send has served the thread, *)
(* whatever timeout, reset or detach comes in between; a signal spoils     *)
(* only the answer of the thread it is sent to.                            *)
THEOREM AnswerIsAlwaysTrue == Spec => []AnswerIsTrue
<1>1. EventInv => AnswerIsTrue
  BY DEF EventInv
<1> QED
  BY <1>1, EventInvariant, PTL

(* One send serves the waiting threads in the order of the list, each with *)
(* what those in front of it have left.                                    *)
LEMMA SendInOrder ==
  ASSUME TypeOK, NEW s \in SUBSET Bit, Send(s)
  PROVE  SendServes(s)
<1> DEFINE r == Sweep(set \union s, list)
           Served == {w \in Thread : Suspended(w) /\ ~Suspended(w)'}
           Before(w) == {u \in Served : \E i, j \in 1..Len(list) :
                           i < j /\ list[i] = u /\ list[j] = w}
           Cleared(T) ==
              UNION {event_set[w]' :
                        w \in {u \in T : "CLEAR" \in event_info[u]}}
           Left(w) == (set \union s) \ Cleared(Before(w))
<1>1. set \union s \in SUBSET Bit
  BY DEF TypeOK
<1>2. set' = r.set /\ event_set' = r.got /\ list' = r.list
  BY DEF Send
<1>3. /\ \A u \in Thread :
            Linked(r.list, u) <=> (Suspended(u) /\ u \notin r.resumed)
      /\ \A u \in r.resumed : Suspended(u)
      /\ r.resumed \in SUBSET Thread
  BY <1>1, SweepServes DEF Walks
<1>4. /\ r.set = (set \union s) \ Taken(r.got, r.resumed)
      /\ \A w \in Thread : Suspended(w) =>
            LET rest == (set \union s) \ Taken(r.got, InFront(r.resumed, w))
            IN  /\ w \in r.resumed
                     <=> Fits(event_set[w], event_info[w], rest)
                /\ w \in r.resumed
                     => r.got[w] = event_set[w] \intersect rest
  BY <1>1, SweepGives
<1> HIDE DEF r
<1>5. Served = r.resumed
  BY <1>2, <1>3 DEF Suspended
<1>6. \A w : Before(w) = InFront(r.resumed, w)
  BY <1>5 DEF InFront
<1>7. \A T : Cleared(T) = Taken(r.got, T)
  BY <1>2 DEF Taken
<1>8. \A w : Left(w) = (set \union s) \ Taken(r.got, InFront(r.resumed, w))
  BY <1>6, <1>7
<1>9. set' = (set \union s) \ Cleared(Served)
  BY <1>2, <1>4, <1>5, <1>7
<1>10. \A w \in Thread : Suspended(w) =>
          /\ w \in Served <=> Fits(event_set[w], event_info[w], Left(w))
          /\ w \in Served => event_set[w]' = event_set[w] \intersect Left(w)
  <2> HIDE DEF Served, Left
  <2> QED
    BY <1>2, <1>4, <1>5, <1>8
<1> QED
  BY <1>9, <1>10 DEF SendServes

(* Every rt_event_send of every behaviour does. *)
THEOREM SendsServeInOrder == Spec => SweepInOrder
<1>1. EventInv /\ [Next]_vars
        => [\A s \in SUBSET Bit : Send(s) => SendServes(s)]_vars
  BY SendInOrder DEF EventInv, AnswerIsTrue
<1> QED
  BY <1>1, EventInvariant, PTL DEF Spec, SweepInOrder
------------------------------------------------------------------------------
(* The two lists: each links its own kind of timers, once.  *)
HardTimers == Hard \union {Wake}
Lists(h, s) == h \in Seq(HardTimers) /\ s \in Seq(Soft) /\ Once(h) /\ Once(s)

InList(u) == Linked(hard, u) \/ Linked(soft, u)

(* Caller c is in a timer function, on timer u, at one of the places.      *)
Engaged(c, u, where) == on[c] = u /\ op[c] \in where

(* The callers the proofs assume: careful ones, of whom whoever stops a    *)
(* timer that others stop or start is the one who starts it, and no        *)
(* interrupt makes a timer one-shot or periodic.                           *)
Tidy ==
    /\ Careful
    /\ \A s \in Starts, r \in Stops : s[2] = r[2] => s[1] = r[1]
    /\ \A u \in User : <<Clock, u>> \notin Turns

(* Each list has its own kind of timers, once; the timer thread has its    *)
(* timer only while it is asleep.                                          *)
ListInv ==
    /\ TimerTypeOK
    /\ Lists(hard, soft)
    /\ Linked(hard, Wake) => asleep

(* A caller is inside a function on a timer it may start or stop.          *)
CallerInv ==
    \A c \in Caller :
       /\ op[c] \in {"none", "resume"} <=> on[c] = None
       /\ op[c] \in {"tick", "link", "test"} => <<c, on[c]>> \in Starts
       /\ op[c] \in {"unlink", "flag"} =>
             <<c, on[c]>> \in Stops \/ OwnCallback(c, on[c])

(* Where the interrupt and the timer thread are, and on which timers.      *)
PlaceInv ==
    /\ irq = "callback" <=> cb # None
    /\ at \in {"callback", "after"} <=> t # None
    /\ n # None => Linked(soft, n)
    /\ t # None => ~Linked(soft, t)
    /\ asleep => at = "check"
    /\ op[TimerThread] # "none" => at = "callback"
    /\ cb # None /\ Linked(hard, cb) => cb \in periodic

(* Nobody else touches a timer between the two sections of its start.      *)
StartInv ==
    \A c \in Caller : \A u \in User : Engaged(c, u, {"tick", "link"}) =>
       ~InList(u) /\ u \notin {t, n, cb}

(* Nor between the removal of a stopped timer and its flag.                *)
StopInv ==
    \A c \in Caller : \A u \in User : Engaged(c, u, {"flag"}) =>
       /\ ~InList(u) /\ u \notin asked /\ u # cb
       /\ u = t => c = TimerThread

DeadInv ==
    \A u \in dead :
       /\ ~InList(u) /\ u \notin asked /\ u \notin {t, n, cb}
       /\ \A c \in Caller : on[c] # u

(* What is asked of a timer is what the lists and the flags say, up to     *)
(* the functions that are under way.                                       *)
AskedInv ==
    \A u \in User :
       /\ InList(u) => u \in asked
       /\ u \in asked =>
             \/ InList(u) \/ u = cb \/ u = t
             \/ \E c \in Caller : Engaged(c, u, {"tick", "link"})
       /\ u \notin dead
          /\ (\A c \in Caller : ~Engaged(c, u, {"tick", "link", "flag"}))
            => (u \in active <=> u \in asked)

ControlInv ==
    /\ ListInv /\ CallerInv /\ PlaceInv /\ StartInv /\ StopInv /\ DeadInv
    /\ AskedInv

------------------------------------------------------------------------------
(* The elements of a list are of the type of its list. *)
LEMMA LinkedType ==
  ASSUME NEW T, NEW row \in Seq(T), NEW u, Linked(row, u)
  PROVE  u \in T
BY ElementOfSeq DEF Linked

(* rt_timer_start inserts the timer before the first that expires later.   *)
LEMMA InsertPlace ==
  ASSUME NEW T, NEW row \in Seq(T), NEW u \in T, NEW now
  PROVE  /\ Insert(row, u, now) \in Seq(T)
         /\ \E p \in Nat :
              /\ IsInsertion(Insert(row, u, now), row, p, u)
              /\ \A i \in 1..Len(row) :
                   i < p => i \notin ExpiresLater(row, now)
              /\ p <= Len(row) => p \in ExpiresLater(row, now)
<1> DEFINE later == ExpiresLater(row, now)
           p == IF later = {} THEN Len(row) + 1
                ELSE CHOOSE i \in later : \A j \in later : i <= j
<1>0. Len(row) \in Nat /\ DOMAIN row = 1..Len(row)
  BY LenProperties
<1>1. later \subseteq 1..Len(row)
  BY <1>0 DEF ExpiresLater
<1>2. /\ p \in 1..(Len(row) + 1)
      /\ \A i \in 1..Len(row) : i < p => i \notin later
      /\ p <= Len(row) => p \in later
  <2>1. CASE later = {}
    BY <1>0, <2>1
  <2>2. CASE later # {}
    <3>1. later \subseteq Nat
      BY <1>0, <1>1
    <3>2. \E i \in later : \A j \in later : i <= j
      BY <2>2, <3>1, SmallestNat
    <3>3. p \in later /\ \A j \in later : p <= j
      BY <2>2, <3>2
    <3> HIDE DEF p, later
    <3> QED
      BY <1>0, <1>1, <3>1, <3>3
  <2> QED
    BY <2>1, <2>2
<1>3. Insert(row, u, now) = InsertAt(row, p, u)
  BY DEF Insert
<1> HIDE DEF p
<1>4. /\ InsertAt(row, p, u) \in Seq(T)
      /\ IsInsertion(InsertAt(row, p, u), row, p, u)
  BY <1>2, InsertElements DEF IsInsertion
<1>5. p \in Nat
  BY <1>0, <1>2
<1> QED
  BY <1>2, <1>3, <1>4, <1>5

(* It links the timer and keeps the others. *)
LEMMA InsertLinked ==
  ASSUME NEW T, NEW row \in Seq(T), NEW u \in T, NEW now
  PROVE  /\ Insert(row, u, now) \in Seq(T)
         /\ \A v : Linked(Insert(row, u, now), v) <=> (Linked(row, v) \/ v = u)
         /\ Once(row) /\ ~Linked(row, u) => Once(Insert(row, u, now))
<1> DEFINE e == Insert(row, u, now)
<1>1. /\ e \in Seq(T)
      /\ \E p \in Nat : IsInsertion(e, row, p, u)
  BY InsertPlace
<1> HIDE DEF e
<1>2. /\ \A v : Linked(e, v) <=> (Linked(row, v) \/ v = u)
      /\ Once(row) /\ ~Linked(row, u) => Once(e)
  BY <1>1, InsertionLinked
<1> QED
  BY <1>1, <1>2 DEF e

(* rt_list_remove of a timer, of whichever list. *)
LEMMA RemoveLinked ==
  ASSUME NEW T, NEW row \in Seq(T), NEW u \in T, Once(row)
  PROVE  /\ Unlink(row, u) \in Seq(T) /\ Once(Unlink(row, u))
         /\ \A v : Linked(Unlink(row, u), v) <=> (Linked(row, v) /\ v # u)
<1> DEFINE prio == [v \in T |-> 0]
<1>1. prio \in [T -> Nat]
  OBVIOUS
<1> HIDE DEF prio
<1> QED
  BY <1>1, UnlinkProperties

(* rt_list_remove of a timer that is not of the kind of the list. *)
LEMMA RemoveOther ==
  ASSUME NEW row, NEW u, ~Linked(row, u)
  PROVE  Unlink(row, u) = row
BY DEF Unlink

(* The kinds of timers are distinct. *)
LEMMA Kinds ==
  /\ \A u \in User : (u \in Hard <=> u \notin Soft) /\ u # None /\ u # Wake
  /\ Wake # None /\ Wake \notin Soft /\ None \notin Soft
  /\ None \notin HardTimers
BY TimerAssumption DEF HardTimers, User, Timers

(* Removing a timer from both lists. *)
LEMMA UnlinkLists ==
  ASSUME Lists(hard, soft), NEW u \in Timers, UnlinkTimer(u)
  PROVE  /\ Lists(hard', soft')
         /\ \A v : Linked(hard', v) <=> (Linked(hard, v) /\ v # u)
         /\ \A v : Linked(soft', v) <=> (Linked(soft, v) /\ v # u)
<1> USE DEF Lists
<1>1. hard' = Unlink(hard, u) /\ soft' = Unlink(soft, u)
  BY DEF UnlinkTimer
<1>2. CASE u \in Soft
  <2>1. u \notin HardTimers
    BY <1>2, Kinds DEF User, HardTimers
  <2>2. ~Linked(hard, u)
    BY <2>1, LinkedType
  <2>3. hard' = hard
    BY <1>1, <2>2, RemoveOther
  <2>4. \A v : Linked(hard', v) <=> (Linked(hard, v) /\ v # u)
    BY <2>2, <2>3
  <2> QED
    BY <1>1, <1>2, <2>3, <2>4, RemoveLinked
<1>3. CASE u \notin Soft
  <2>1. u \in HardTimers
    BY <1>3 DEF Timers, User, HardTimers
  <2>2. ~Linked(soft, u)
    BY <1>3, LinkedType
  <2>3. soft' = soft
    BY <1>1, <2>2, RemoveOther
  <2>4. \A v : Linked(soft', v) <=> (Linked(soft, v) /\ v # u)
    BY <2>2, <2>3
  <2> QED
    BY <1>1, <2>1, <2>3, <2>4, RemoveLinked
<1> QED
  BY <1>2, <1>3

(* The second section of rt_timer_start: the timer is linked in the list   *)
(* of its kind.                                                            *)
LEMMA LinkLists ==
  ASSUME Lists(hard, soft), NEW u \in User, NEW k, Link(u, k)
  PROVE  /\ Lists(hard', soft')
         /\ \A v : Linked(hard', v)
                        <=> (Linked(hard, v) \/ (v = u /\ u \in Hard))
         /\ \A v : Linked(soft', v)
                        <=> (Linked(soft, v) \/ (v = u /\ u \in Soft))
         /\ active' = active \union {u}
<1> USE DEF Lists
<1>1. CASE u \in Soft
  <2> DEFINE s == Unlink(soft, u)
  <2>0. /\ s \in Seq(Soft) /\ Once(s)
        /\ \A v : Linked(s, v) <=> (Linked(soft, v) /\ v # u)
    BY <1>1, RemoveLinked
  <2>1. hard' = hard /\ soft' = Insert(s, u, k) /\ active' = active \union {u}
    BY <1>1 DEF Link
  <2> HIDE DEF s
  <2>2. /\ soft' \in Seq(Soft) /\ Once(soft')
        /\ \A v : Linked(soft', v) <=> (Linked(s, v) \/ v = u)
    BY <1>1, <2>0, <2>1, InsertLinked
  <2> QED
    BY <1>1, <2>0, <2>1, <2>2, Kinds
<1>2. CASE u \in Hard
  <2> DEFINE s == Unlink(hard, u)
  <2>00. u \in HardTimers /\ u \notin Soft
    BY <1>2, Kinds DEF HardTimers
  <2>0. /\ s \in Seq(HardTimers) /\ Once(s)
        /\ \A v : Linked(s, v) <=> (Linked(hard, v) /\ v # u)
    BY <2>00, RemoveLinked
  <2>1. soft' = soft /\ hard' = Insert(s, u, k) /\ active' = active \union {u}
    BY <2>00 DEF Link
  <2> HIDE DEF s
  <2>2. /\ hard' \in Seq(HardTimers) /\ Once(hard')
        /\ \A v : Linked(hard', v) <=> (Linked(s, v) \/ v = u)
    BY <2>00, <2>0, <2>1, InsertLinked
  <2> QED
    BY <1>2, <2>0, <2>00, <2>1, <2>2
<1> QED
  BY <1>1, <1>2 DEF User

(* The first hard timer leaves its list. *)
LEMMA TailLists ==
  ASSUME NEW T, NEW row \in Seq(T), Once(row), row # <<>>
  PROVE  /\ Tail(row) \in Seq(T) /\ Once(Tail(row))
         /\ Head(row) \in T /\ Linked(row, Head(row))
         /\ \A v : Linked(Tail(row), v) <=> (Linked(row, v) /\ v # Head(row))
<1> DEFINE prio == [v \in T |-> 0]
<1>1. prio \in [T -> Nat]
  OBVIOUS
<1> HIDE DEF prio
<1> QED
  BY <1>1, TailProperties

(* A timer is in the list of its kind, the lists together link them all.   *)
LEMMA BothLists ==
  ASSUME Lists(hard, soft), NEW u
  PROVE  /\ Linked(hard, u) => u \in HardTimers
         /\ Linked(soft, u) => u \in Soft
         /\ Linked(hard \o soft, u) <=> InList(u)
<1>0. /\ hard \in Seq(HardTimers) /\ soft \in Seq(Soft)
      /\ Len(hard) \in Nat /\ Len(soft) \in Nat
  BY LenProperties DEF Lists
<1>1. /\ Linked(hard, u) => u \in HardTimers
      /\ Linked(soft, u) => u \in Soft
  BY <1>0, LinkedType
<1> DEFINE e == hard \o soft
<1>2. /\ Len(e) = Len(hard) + Len(soft)
      /\ \A k \in 1..(Len(hard) + Len(soft)) :
           e[k] = IF k <= Len(hard) THEN hard[k] ELSE soft[k - Len(hard)]
  BY <1>0, ConcatProperties
<1> HIDE DEF e
<1>3. ASSUME Linked(e, u)
      PROVE  InList(u)
  <2>1. PICK k \in 1..(Len(hard) + Len(soft)) : e[k] = u
    BY <1>2, <1>3 DEF Linked
  <2>2. CASE k <= Len(hard)
    BY <1>0, <1>2, <2>1, <2>2 DEF Linked, InList
  <2>3. CASE ~(k <= Len(hard))
    <3>1. k - Len(hard) \in 1..Len(soft)
      BY <1>0, <2>3
    <3> QED
      BY <1>0, <1>2, <2>1, <2>3, <3>1 DEF Linked, InList
  <2> QED
    BY <2>2, <2>3
<1>4. ASSUME Linked(hard, u)
      PROVE  Linked(e, u)
  BY <1>0, <1>2, <1>4 DEF Linked
<1>5. ASSUME Linked(soft, u)
      PROVE  Linked(e, u)
  <2>1. PICK k \in 1..Len(soft) : soft[k] = u
    BY <1>5 DEF Linked
  <2>2. /\ k + Len(hard) \in 1..(Len(hard) + Len(soft))
        /\ ~(k + Len(hard) <= Len(hard)) /\ (k + Len(hard)) - Len(hard) = k
    BY <1>0
  <2>3. e[k + Len(hard)] = u
    BY <1>2, <2>1, <2>2
  <2> QED
    BY <1>2, <2>2, <2>3 DEF Linked
<1> QED
  BY <1>1, <1>3, <1>4, <1>5 DEF e, InList

(* node->next of a linked timer is the head of the list or another timer   *)
(* that is linked.                                                         *)
LEMMA NextLinked ==
  ASSUME NEW u, Linked(soft, u), soft \in Seq(Soft), Once(soft)
  PROVE  \/ Next1(u) = None
         \/ Next1(u) \in Soft /\ Linked(soft, Next1(u)) /\ Next1(u) # u
<1>0. Len(soft) \in Nat /\ DOMAIN soft = 1..Len(soft)
  BY LenProperties
<1>1. PICK i \in 1..Len(soft) :
        soft[i] = u /\ Next1(u) = IF i = Len(soft) THEN None ELSE soft[i + 1]
  <2> DEFINE k == CHOOSE j \in DOMAIN soft : soft[j] = u
  <2>1. k \in 1..Len(soft) /\ soft[k] = u
    BY <1>0 DEF Linked
  <2>2. Next1(u) = IF k = Len(soft) THEN None ELSE soft[k + 1]
    BY DEF Next1
  <2> HIDE DEF k
  <2> QED
    BY <2>1, <2>2
<1>2. i \in Int /\ i + 1 # i
  BY <1>0
<1>3. CASE i # Len(soft)
  <2>1. i + 1 \in 1..Len(soft)
    <3>1. Len(soft) \in Nat /\ i # Len(soft)
      BY <1>0, <1>3
    <3> QED
      BY <3>1
  <2>2. soft[i + 1] # u
    <3> SUFFICES ASSUME soft[i + 1] = soft[i] PROVE FALSE
      BY <1>1
    <3>1. i + 1 = i
      BY <1>1, <2>1 DEF Once
    <3> QED
      BY <1>2, <3>1
  <2>3. soft[i + 1] \in Soft
    BY <2>1, ElementOfSeq
  <2> QED
    BY <1>1, <1>3, <2>1, <2>2, <2>3 DEF Linked
<1> QED
  BY <1>1, <1>3

(* Tick counters stay in their range.                                      *)
LEMMA TickType ==
  /\ TickMod \in Nat \ {0} /\ 0 \in 0..TickMax /\ TickMax \in 0..TickMax
  /\ \A a \in Int : a % TickMod \in 0..TickMax
BY TickAssumption DEF TickMax

(* Nobody else is inside a function on a timer that is being started, or   *)
(* that a party is about to start.                                         *)
LEMMA StarterAlone ==
  ASSUME Tidy, CallerInv, TimerTypeOK, NEW c, NEW u \in User,
         <<c, u>> \in Starts, u # t,
         NEW d \in Caller, d # c
  PROVE  on[d] # u
<1> SUFFICES ASSUME on[d] = u PROVE FALSE
  OBVIOUS
<1>1. u # None
  BY Kinds
<1>2. op[d] \in Operations /\ op[d] \notin {"none", "resume"}
  BY <1>1 DEF CallerInv, TimerTypeOK
<1>3. <<d, u>> \in Starts \/ <<d, u>> \in Stops
  BY <1>2 DEF CallerInv, Operations, OwnCallback
<1>4. <<d, u>>[2] = <<c, u>>[2] /\ <<d, u>>[1] # <<c, u>>[1]
  OBVIOUS
<1>5. CASE <<d, u>> \in Starts
  BY <1>4, <1>5, PartyAssumption
<1>6. CASE <<d, u>> \in Stops
  BY <1>4, <1>6 DEF Tidy
<1> QED
  BY <1>3, <1>5, <1>6

------------------------------------------------------------------------------
(* rt_timer_start, first section.                                          *)
LEMMA StartUnlinkControl ==
  ASSUME Tidy, ControlInv,
         NEW c \in Caller, NEW u \in User, StartUnlink(c, u)
  PROVE  ControlInv'
<1>1. /\ TimerTypeOK /\ Lists(hard, soft) /\ (Linked(hard, Wake) => asleep)
      /\ CallerInv /\ PlaceInv /\ StartInv /\ StopInv /\ DeadInv /\ AskedInv
  BY DEF ControlInv, ListInv
<1>0. /\ Runs(c) /\ op[c] = "none" /\ <<c, u>> \in Starts /\ u \notin dead
      /\ u \notin {t, n, cb} /\ UnlinkTimer(u)
      /\ active' = active \ {u}
      /\ op' = [op EXCEPT ![c] = "tick"] /\ on' = [on EXCEPT ![c] = u]
  BY DEF StartUnlink, KeepsOff, CallerGoes, Tidy
<1>f. /\ tick' = tick /\ timeout' = timeout /\ init' = init
      /\ periodic' = periodic /\ dead' = dead /\ irq' = irq /\ cb' = cb
      /\ at' = at /\ asleep' = asleep /\ cur' = cur /\ nxt' = nxt /\ t' = t
      /\ n' = n /\ left' = left /\ asked' = asked /\ outdated' = outdated
  BY DEF StartUnlink, interrupt, thread
<1>2. /\ Lists(hard', soft')
      /\ \A v : Linked(hard', v) <=> (Linked(hard, v) /\ v # u)
      /\ \A v : Linked(soft', v) <=> (Linked(soft, v) /\ v # u)
  <2>1. u \in Timers
    BY DEF Timers
  <2> QED
    BY <1>0, <1>1, <2>1, UnlinkLists
<1>3. \A v : InList(v)' <=> (InList(v) /\ v # u)
  BY <1>2 DEF InList
<1>4. /\ Wake # None /\ Wake \notin Soft
      /\ \A v \in User : v # Wake /\ v # None
  BY Kinds
<1>5. TimerTypeOK'
  <2>1. hard' \in Seq(HardTimers) /\ soft' \in Seq(Soft)
    BY <1>2 DEF Lists
  <2>2. /\ op' \in [Caller -> Operations]
        /\ on' \in [Caller -> User \union {None}]
    BY <1>0, <1>1, <1>f DEF TimerTypeOK, Operations
  <2> QED
    BY <1>0, <1>1, <1>f, <2>1, <2>2 DEF TimerTypeOK, HardTimers
<1>6. (Linked(hard, Wake) => asleep)'
  BY <1>0, <1>1, <1>2, <1>4, <1>f DEF PlaceInv
<1>7. CallerInv'
  BY <1>0, <1>1, <1>4, <1>f
     DEF CallerInv, OwnCallback, PlaceInv, Runs, TimerTypeOK
<1>8. PlaceInv'
  BY <1>0, <1>1, <1>2, <1>4, <1>f DEF PlaceInv, Runs, TimerTypeOK
<1>9. StartInv'
  BY <1>0, <1>1, <1>2, <1>3, <1>4, <1>f DEF StartInv, TimerTypeOK, Engaged
<1>10. StopInv'
  BY <1>0, <1>1, <1>2, <1>3, <1>4, <1>f DEF StopInv, TimerTypeOK, Engaged
<1>11. DeadInv'
  BY <1>0, <1>1, <1>2, <1>3, <1>4, <1>f DEF DeadInv, TimerTypeOK
<1>12. AskedInv'
  BY <1>0, <1>1, <1>2, <1>3, <1>4, <1>f DEF AskedInv, TimerTypeOK, Engaged
<1> QED
  BY <1>2, <1>5, <1>6, <1>7, <1>8, <1>9, <1>10, <1>11, <1>12
     DEF ControlInv, ListInv

(* rt_timer_start, rt_tick_get. *)
LEMMA StartTickControl ==
  ASSUME Tidy, ControlInv,
         NEW c \in Caller, StartTick(c)
  PROVE  ControlInv'
<1>1. /\ TimerTypeOK /\ Lists(hard, soft) /\ (Linked(hard, Wake) => asleep)
      /\ CallerInv /\ PlaceInv /\ StartInv /\ StopInv /\ DeadInv /\ AskedInv
  BY DEF ControlInv, ListInv
<1>0. /\ Runs(c) /\ op[c] = "tick"
      /\ timeout' = [timeout EXCEPT ![on[c]] = (tick + init[on[c]]) % TickMod]
      /\ left' = [left EXCEPT ![on[c]] = init[on[c]]]
      /\ op' = [op EXCEPT ![c] = "link"]
  BY DEF StartTick, CallerGoes
<1>f. /\ tick' = tick /\ init' = init /\ periodic' = periodic
      /\ active' = active /\ hard' = hard /\ soft' = soft /\ dead' = dead
      /\ irq' = irq /\ cb' = cb /\ on' = on /\ at' = at /\ asleep' = asleep
      /\ cur' = cur /\ nxt' = nxt /\ t' = t /\ n' = n /\ asked' = asked
      /\ outdated' = outdated
  BY DEF StartTick, interrupt, thread
<1>n. on[c] \in User /\ on[c] # None
  BY <1>0, <1>1, Kinds DEF CallerInv, TimerTypeOK
<1>2. /\ Lists(hard', soft')
      /\ \A v : Linked(hard', v) <=> Linked(hard, v)
      /\ \A v : Linked(soft', v) <=> Linked(soft, v)
  BY <1>1, <1>f
<1>3. \A v : InList(v)' <=> InList(v)
  BY <1>2 DEF InList
<1>4. /\ Wake # None /\ Wake \notin Soft
      /\ \A v \in User : v # Wake /\ v # None
  BY Kinds
<1>5. TimerTypeOK'
  <2>0. init[on[c]] \in Int /\ tick + init[on[c]] \in Int
    BY <1>1, <1>n DEF TimerTypeOK
  <2>1. (tick + init[on[c]]) % TickMod \in 0..TickMax
    BY <2>0, TickType
  <2>2. /\ op' \in [Caller -> Operations]
        /\ on' \in [Caller -> User \union {None}]
    BY <1>0, <1>1, <1>f DEF TimerTypeOK, Operations
  <2> QED
    BY <1>0, <1>1, <1>f, <2>0, <2>1, <2>2 DEF TimerTypeOK, HardTimers
<1>6. (Linked(hard, Wake) => asleep)'
  BY <1>0, <1>1, <1>2, <1>4, <1>f DEF PlaceInv
<1>7. CallerInv'
  BY <1>0, <1>1, <1>4, <1>f
     DEF CallerInv, OwnCallback, PlaceInv, Runs, TimerTypeOK
<1>8. PlaceInv'
  BY <1>0, <1>1, <1>2, <1>4, <1>f DEF PlaceInv, Runs, TimerTypeOK
<1>9. StartInv'
  BY <1>0, <1>1, <1>2, <1>3, <1>4, <1>f DEF StartInv, TimerTypeOK, Engaged
<1>10. StopInv'
  BY <1>0, <1>1, <1>2, <1>3, <1>4, <1>f DEF StopInv, TimerTypeOK, Engaged
<1>11. DeadInv'
  BY <1>0, <1>1, <1>2, <1>3, <1>4, <1>f DEF DeadInv, TimerTypeOK
<1>12. AskedInv'
  BY <1>0, <1>1, <1>2, <1>3, <1>4, <1>f DEF AskedInv, TimerTypeOK, Engaged
<1> QED
  BY <1>2, <1>5, <1>6, <1>7, <1>8, <1>9, <1>10, <1>11, <1>12
     DEF ControlInv, ListInv

(* rt_timer_start, second section. *)
LEMMA StartLinkControl ==
  ASSUME Tidy, ControlInv,
         NEW c \in Caller, StartLink(c)
  PROVE  ControlInv'
<1>1. /\ TimerTypeOK /\ Lists(hard, soft) /\ (Linked(hard, Wake) => asleep)
      /\ CallerInv /\ PlaceInv /\ StartInv /\ StopInv /\ DeadInv /\ AskedInv
  BY DEF ControlInv, ListInv
<1>0. /\ Runs(c) /\ op[c] = "link" /\ Link(on[c], timeout[on[c]])
      /\ asked' = asked \union {on[c]} /\ outdated' \in BOOLEAN
      /\ op' = [op EXCEPT ![c] = IF on[c] \in Soft THEN "test" ELSE "none"]
      /\ on' = IF on[c] \in Soft THEN on ELSE [on EXCEPT ![c] = None]
  BY DEF StartLink, CallerGoes
<1>f. /\ tick' = tick /\ timeout' = timeout /\ init' = init
      /\ periodic' = periodic /\ dead' = dead /\ irq' = irq /\ cb' = cb
      /\ at' = at /\ asleep' = asleep /\ cur' = cur /\ nxt' = nxt /\ t' = t
      /\ n' = n /\ left' = left
  BY DEF StartLink, interrupt, thread
<1>n. on[c] \in User /\ on[c] # None
  BY <1>0, <1>1, Kinds DEF CallerInv, TimerTypeOK
<1>o. /\ on[c] \notin {t, n, cb} /\ ~InList(on[c])
      /\ \A d \in Caller : d # c => on[d] # on[c]
  <2>1. on[c] \notin {t, n, cb} /\ ~InList(on[c])
    BY <1>0, <1>1, <1>n DEF StartInv, Engaged
  <2>2. <<c, on[c]>> \in Starts
    BY <1>0, <1>1 DEF CallerInv
  <2> QED
    BY <1>1, <1>n, <2>1, <2>2, StarterAlone
<1>2. /\ Lists(hard', soft')
      /\ \A v : Linked(hard', v)
                     <=> (Linked(hard, v) \/ (v = on[c] /\ on[c] \in Hard))
      /\ \A v : Linked(soft', v)
                     <=> (Linked(soft, v) \/ (v = on[c] /\ on[c] \in Soft))
      /\ active' = active \union {on[c]}
  BY <1>0, <1>1, <1>n, LinkLists
<1>3. \A v : InList(v)' <=> (InList(v) \/ v = on[c])
  BY <1>0, <1>1, <1>n, <1>2 DEF InList, User
<1>4. /\ Wake # None /\ Wake \notin Soft
      /\ \A v \in User : v # Wake /\ v # None
  BY Kinds
<1>5. TimerTypeOK'
  <2>3. active' \subseteq User /\ asked' \subseteq User
    BY <1>0, <1>1, <1>2, <1>n DEF TimerTypeOK
  <2>1. hard' \in Seq(HardTimers) /\ soft' \in Seq(Soft)
    BY <1>2 DEF Lists
  <2>2. /\ op' \in [Caller -> Operations]
        /\ on' \in [Caller -> User \union {None}]
    BY <1>0, <1>1, <1>f DEF TimerTypeOK, Operations
  <2> QED
    BY <1>0, <1>1, <1>f, <2>3, <2>1, <2>2 DEF TimerTypeOK, HardTimers
<1>6. (Linked(hard, Wake) => asleep)'
  BY <1>0, <1>1, <1>2, <1>4, <1>f, <1>n, <1>o DEF PlaceInv
<1>7. CallerInv'
  BY <1>0, <1>1, <1>4, <1>f, <1>n, <1>o
     DEF CallerInv, OwnCallback, PlaceInv, Runs, TimerTypeOK
<1>8. PlaceInv'
  BY <1>0, <1>1, <1>2, <1>4, <1>f, <1>n, <1>o DEF PlaceInv, Runs, TimerTypeOK
<1>9. StartInv'
  BY <1>0, <1>1, <1>2, <1>3, <1>4, <1>f, <1>n, <1>o
     DEF StartInv, TimerTypeOK, Engaged
<1>10. StopInv'
  BY <1>0, <1>1, <1>2, <1>3, <1>4, <1>f, <1>n, <1>o
     DEF StopInv, TimerTypeOK, Engaged
<1>11. DeadInv'
  BY <1>0, <1>1, <1>2, <1>3, <1>4, <1>f, <1>n, <1>o DEF DeadInv, TimerTypeOK
<1>12. AskedInv'
  BY <1>0, <1>1, <1>2, <1>3, <1>4, <1>f, <1>n, <1>o
     DEF AskedInv, TimerTypeOK, Engaged
<1> QED
  BY <1>2, <1>5, <1>6, <1>7, <1>8, <1>9, <1>10, <1>11, <1>12
     DEF ControlInv, ListInv

(* rt_timer_start, the test of the timer thread. *)
LEMMA StartTestControl ==
  ASSUME Tidy, ControlInv,
         NEW c \in Caller, StartTest(c)
  PROVE  ControlInv'
<1>1. /\ TimerTypeOK /\ Lists(hard, soft) /\ (Linked(hard, Wake) => asleep)
      /\ CallerInv /\ PlaceInv /\ StartInv /\ StopInv /\ DeadInv /\ AskedInv
  BY DEF ControlInv, ListInv
<1>0. /\ Runs(c) /\ op[c] = "test"
      /\ op' = [op EXCEPT ![c] = IF asleep THEN "resume" ELSE "none"]
      /\ on' = [on EXCEPT ![c] = None]
  BY DEF StartTest, CallerGoes
<1>f. /\ tick' = tick /\ timeout' = timeout /\ init' = init
      /\ periodic' = periodic /\ active' = active /\ hard' = hard
      /\ soft' = soft /\ dead' = dead /\ irq' = irq /\ cb' = cb /\ at' = at
      /\ asleep' = asleep /\ cur' = cur /\ nxt' = nxt /\ t' = t /\ n' = n
      /\ left' = left /\ asked' = asked /\ outdated' = outdated
  BY DEF StartTest, fields, interrupt, thread
<1>2. /\ Lists(hard', soft')
      /\ \A v : Linked(hard', v) <=> Linked(hard, v)
      /\ \A v : Linked(soft', v) <=> Linked(soft, v)
  BY <1>1, <1>f
<1>3. \A v : InList(v)' <=> InList(v)
  BY <1>2 DEF InList
<1>4. /\ Wake # None /\ Wake \notin Soft
      /\ \A v \in User : v # Wake /\ v # None
  BY Kinds
<1>5. TimerTypeOK'
  <2>2. /\ op' \in [Caller -> Operations]
        /\ on' \in [Caller -> User \union {None}]
    BY <1>0, <1>1, <1>f DEF TimerTypeOK, Operations
  <2> QED
    BY <1>0, <1>1, <1>f, <2>2 DEF TimerTypeOK, HardTimers
<1>6. (Linked(hard, Wake) => asleep)'
  BY <1>0, <1>1, <1>2, <1>4, <1>f DEF PlaceInv
<1>7. CallerInv'
  BY <1>0, <1>1, <1>4, <1>f
     DEF CallerInv, OwnCallback, PlaceInv, Runs, TimerTypeOK
<1>8. PlaceInv'
  BY <1>0, <1>1, <1>2, <1>4, <1>f DEF PlaceInv, Runs, TimerTypeOK
<1>9. StartInv'
  BY <1>0, <1>1, <1>2, <1>3, <1>4, <1>f DEF StartInv, TimerTypeOK, Engaged
<1>10. StopInv'
  BY <1>0, <1>1, <1>2, <1>3, <1>4, <1>f DEF StopInv, TimerTypeOK, Engaged
<1>11. DeadInv'
  BY <1>0, <1>1, <1>2, <1>3, <1>4, <1>f DEF DeadInv, TimerTypeOK
<1>12. AskedInv'
  BY <1>0, <1>1, <1>2, <1>3, <1>4, <1>f DEF AskedInv, TimerTypeOK, Engaged
<1> QED
  BY <1>2, <1>5, <1>6, <1>7, <1>8, <1>9, <1>10, <1>11, <1>12
     DEF ControlInv, ListInv

(* rt_timer_start, rt_thread_resume. *)
LEMMA StartResumeControl ==
  ASSUME Tidy, ControlInv,
         NEW c \in Caller, StartResume(c)
  PROVE  ControlInv'
<1>1. /\ TimerTypeOK /\ Lists(hard, soft) /\ (Linked(hard, Wake) => asleep)
      /\ CallerInv /\ PlaceInv /\ StartInv /\ StopInv /\ DeadInv /\ AskedInv
  BY DEF ControlInv, ListInv
<1>0. /\ Runs(c) /\ op[c] = "resume" /\ asleep' = FALSE
      /\ hard' = Unlink(hard, Wake) /\ soft' = soft
      /\ op' = [op EXCEPT ![c] = "none"]
  BY DEF StartResume, CallerGoes
<1>f. /\ tick' = tick /\ timeout' = timeout /\ init' = init
      /\ periodic' = periodic /\ active' = active /\ soft' = soft
      /\ dead' = dead /\ irq' = irq /\ cb' = cb /\ on' = on /\ at' = at
      /\ cur' = cur /\ nxt' = nxt /\ t' = t /\ n' = n /\ left' = left
      /\ asked' = asked /\ outdated' = outdated
  BY DEF StartResume, fields, interrupt
<1>2. /\ Lists(hard', soft')
      /\ \A v : Linked(hard', v) <=> (Linked(hard, v) /\ v # Wake)
      /\ \A v : Linked(soft', v) <=> (Linked(soft, v) /\ v # Wake)
  <2>1. Wake \in Timers
    BY DEF Timers
  <2>2. ~Linked(soft, Wake)
    BY <1>1, Kinds, LinkedType DEF Lists
  <2>3. UnlinkTimer(Wake)
    BY <1>0, <2>2, RemoveOther DEF UnlinkTimer
  <2> QED
    BY <1>1, <2>1, <2>3, UnlinkLists
<1>3. \A v : InList(v)' <=> (InList(v) /\ v # Wake)
  BY <1>2 DEF InList
<1>4. /\ Wake # None /\ Wake \notin Soft
      /\ \A v \in User : v # Wake /\ v # None
  BY Kinds
<1>5. TimerTypeOK'
  <2>1. hard' \in Seq(HardTimers) /\ soft' \in Seq(Soft)
    BY <1>2 DEF Lists
  <2>2. /\ op' \in [Caller -> Operations]
        /\ on' \in [Caller -> User \union {None}]
    BY <1>0, <1>1, <1>f DEF TimerTypeOK, Operations
  <2> QED
    BY <1>0, <1>1, <1>f, <2>1, <2>2 DEF TimerTypeOK, HardTimers
<1>6. (Linked(hard, Wake) => asleep)'
  BY <1>0, <1>1, <1>2, <1>4, <1>f DEF PlaceInv
<1>7. CallerInv'
  BY <1>0, <1>1, <1>4, <1>f
     DEF CallerInv, OwnCallback, PlaceInv, Runs, TimerTypeOK
<1>8. PlaceInv'
  BY <1>0, <1>1, <1>2, <1>4, <1>f DEF PlaceInv, Runs, TimerTypeOK
<1>9. StartInv'
  BY <1>0, <1>1, <1>2, <1>3, <1>4, <1>f DEF StartInv, TimerTypeOK, Engaged
<1>10. StopInv'
  BY <1>0, <1>1, <1>2, <1>3, <1>4, <1>f DEF StopInv, TimerTypeOK, Engaged
<1>11. DeadInv'
  BY <1>0, <1>1, <1>2, <1>3, <1>4, <1>f DEF DeadInv, TimerTypeOK
<1>12. AskedInv'
  BY <1>0, <1>1, <1>2, <1>3, <1>4, <1>f DEF AskedInv, TimerTypeOK, Engaged
<1> QED
  BY <1>2, <1>5, <1>6, <1>7, <1>8, <1>9, <1>10, <1>11, <1>12
     DEF ControlInv, ListInv

(* rt_timer_stop, the test of the flag. *)
LEMMA StopTestControl ==
  ASSUME Tidy, ControlInv,
         NEW c \in Caller, NEW u \in User, StopTest(c, u)
  PROVE  ControlInv'
<1>1. /\ TimerTypeOK /\ Lists(hard, soft) /\ (Linked(hard, Wake) => asleep)
      /\ CallerInv /\ PlaceInv /\ StartInv /\ StopInv /\ DeadInv /\ AskedInv
  BY DEF ControlInv, ListInv
<1>0. /\ Runs(c) /\ op[c] = "none" /\ u \in active \ dead
      /\ (<<c, u>> \in Stops /\ u \notin {t, n, cb}) \/ OwnCallback(c, u)
      /\ op' = [op EXCEPT ![c] = "unlink"] /\ on' = [on EXCEPT ![c] = u]
  BY DEF StopTest, CallerGoes, KeepsOff, Tidy
<1>f. /\ tick' = tick /\ timeout' = timeout /\ init' = init
      /\ periodic' = periodic /\ active' = active /\ hard' = hard
      /\ soft' = soft /\ dead' = dead /\ irq' = irq /\ cb' = cb /\ at' = at
      /\ asleep' = asleep /\ cur' = cur /\ nxt' = nxt /\ t' = t /\ n' = n
      /\ left' = left /\ asked' = asked /\ outdated' = outdated
  BY DEF StopTest, fields, interrupt, thread
<1>2. /\ Lists(hard', soft')
      /\ \A v : Linked(hard', v) <=> Linked(hard, v)
      /\ \A v : Linked(soft', v) <=> Linked(soft, v)
  BY <1>1, <1>f
<1>3. \A v : InList(v)' <=> InList(v)
  BY <1>2 DEF InList
<1>4. /\ Wake # None /\ Wake \notin Soft
      /\ \A v \in User : v # Wake /\ v # None
  BY Kinds
<1>5. TimerTypeOK'
  <2>2. /\ op' \in [Caller -> Operations]
        /\ on' \in [Caller -> User \union {None}]
    BY <1>0, <1>1, <1>f DEF TimerTypeOK, Operations
  <2> QED
    BY <1>0, <1>1, <1>f, <2>2 DEF TimerTypeOK, HardTimers
<1>6. (Linked(hard, Wake) => asleep)'
  BY <1>0, <1>1, <1>2, <1>4, <1>f DEF PlaceInv
<1>7. CallerInv'
  BY <1>0, <1>1, <1>4, <1>f
     DEF CallerInv, OwnCallback, PlaceInv, Runs, TimerTypeOK
<1>8. PlaceInv'
  BY <1>0, <1>1, <1>2, <1>4, <1>f DEF PlaceInv, Runs, TimerTypeOK
<1>9. StartInv'
  BY <1>0, <1>1, <1>2, <1>3, <1>4, <1>f DEF StartInv, TimerTypeOK, Engaged
<1>10. StopInv'
  BY <1>0, <1>1, <1>2, <1>3, <1>4, <1>f DEF StopInv, TimerTypeOK, Engaged
<1>11. DeadInv'
  BY <1>0, <1>1, <1>2, <1>3, <1>4, <1>f DEF DeadInv, TimerTypeOK
<1>12. AskedInv'
  BY <1>0, <1>1, <1>2, <1>3, <1>4, <1>f DEF AskedInv, TimerTypeOK, Engaged
<1> QED
  BY <1>2, <1>5, <1>6, <1>7, <1>8, <1>9, <1>10, <1>11, <1>12
     DEF ControlInv, ListInv

(* rt_timer_stop, the section. *)
LEMMA StopUnlinkControl ==
  ASSUME Tidy, ControlInv,
         NEW c \in Caller, StopUnlink(c)
  PROVE  ControlInv'
<1>1. /\ TimerTypeOK /\ Lists(hard, soft) /\ (Linked(hard, Wake) => asleep)
      /\ CallerInv /\ PlaceInv /\ StartInv /\ StopInv /\ DeadInv /\ AskedInv
  BY DEF ControlInv, ListInv
<1>0. /\ Runs(c) /\ op[c] = "unlink" /\ UnlinkTimer(on[c])
      /\ on[c] \notin {t, n, cb} \/ OwnCallback(c, on[c])
      /\ asked' = asked \ {on[c]}
      /\ op' = [op EXCEPT ![c] = "flag"]
  BY DEF StopUnlink, CallerGoes, KeepsOff, Tidy
<1>f. /\ tick' = tick /\ timeout' = timeout /\ init' = init
      /\ periodic' = periodic /\ active' = active /\ dead' = dead
      /\ irq' = irq /\ cb' = cb /\ on' = on /\ at' = at /\ asleep' = asleep
      /\ cur' = cur /\ nxt' = nxt /\ t' = t /\ n' = n /\ left' = left
      /\ outdated' = outdated
  BY DEF StopUnlink, fields, interrupt, thread
<1>n. on[c] \in User /\ on[c] # None
  BY <1>0, <1>1, Kinds DEF CallerInv, TimerTypeOK
<1>o. on[c] \notin {n, cb} /\ (on[c] = t => c = TimerThread)
  <2>1. CASE OwnCallback(c, on[c])
    BY <1>0, <1>1, <1>n, <2>1, Kinds DEF OwnCallback, PlaceInv, TimerTypeOK
  <2> QED
    BY <1>0, <2>1
<1>2. /\ Lists(hard', soft')
      /\ \A v : Linked(hard', v) <=> (Linked(hard, v) /\ v # on[c])
      /\ \A v : Linked(soft', v) <=> (Linked(soft, v) /\ v # on[c])
  <2>1. on[c] \in Timers
    BY <1>n DEF Timers
  <2> QED
    BY <1>0, <1>1, <2>1, UnlinkLists
<1>3. \A v : InList(v)' <=> (InList(v) /\ v # on[c])
  BY <1>2 DEF InList
<1>4. /\ Wake # None /\ Wake \notin Soft
      /\ \A v \in User : v # Wake /\ v # None
  BY Kinds
<1>5. TimerTypeOK'
  <2>1. hard' \in Seq(HardTimers) /\ soft' \in Seq(Soft)
    BY <1>2 DEF Lists
  <2>2. /\ op' \in [Caller -> Operations]
        /\ on' \in [Caller -> User \union {None}]
    BY <1>0, <1>1, <1>f DEF TimerTypeOK, Operations
  <2> QED
    BY <1>0, <1>1, <1>f, <2>1, <2>2 DEF TimerTypeOK, HardTimers
<1>6. (Linked(hard, Wake) => asleep)'
  BY <1>0, <1>1, <1>2, <1>4, <1>f, <1>n, <1>o DEF PlaceInv
<1>7. CallerInv'
  BY <1>0, <1>1, <1>4, <1>f, <1>n, <1>o
     DEF CallerInv, OwnCallback, PlaceInv, Runs, TimerTypeOK
<1>8. PlaceInv'
  BY <1>0, <1>1, <1>2, <1>4, <1>f, <1>n, <1>o DEF PlaceInv, Runs, TimerTypeOK
<1>9. StartInv'
  BY <1>0, <1>1, <1>2, <1>3, <1>4, <1>f, <1>n, <1>o
     DEF StartInv, TimerTypeOK, Engaged
<1>10. StopInv'
  BY <1>0, <1>1, <1>2, <1>3, <1>4, <1>f, <1>n, <1>o
     DEF StopInv, TimerTypeOK, Engaged
<1>11. DeadInv'
  BY <1>0, <1>1, <1>2, <1>3, <1>4, <1>f, <1>n, <1>o DEF DeadInv, TimerTypeOK
<1>12. AskedInv'
  BY <1>0, <1>1, <1>2, <1>3, <1>4, <1>f, <1>n, <1>o
     DEF AskedInv, TimerTypeOK, Engaged
<1> QED
  BY <1>2, <1>5, <1>6, <1>7, <1>8, <1>9, <1>10, <1>11, <1>12
     DEF ControlInv, ListInv

(* rt_timer_stop, the flag. *)
LEMMA StopFlagControl ==
  ASSUME Tidy, ControlInv,
         NEW c \in Caller, StopFlag(c)
  PROVE  ControlInv'
<1>1. /\ TimerTypeOK /\ Lists(hard, soft) /\ (Linked(hard, Wake) => asleep)
      /\ CallerInv /\ PlaceInv /\ StartInv /\ StopInv /\ DeadInv /\ AskedInv
  BY DEF ControlInv, ListInv
<1>0. /\ Runs(c) /\ op[c] = "flag" /\ active' = active \ {on[c]}
      /\ op' = [op EXCEPT ![c] = "none"] /\ on' = [on EXCEPT ![c] = None]
  BY DEF StopFlag, CallerGoes
<1>f. /\ tick' = tick /\ timeout' = timeout /\ init' = init
      /\ periodic' = periodic /\ hard' = hard /\ soft' = soft /\ dead' = dead
      /\ irq' = irq /\ cb' = cb /\ at' = at /\ asleep' = asleep /\ cur' = cur
      /\ nxt' = nxt /\ t' = t /\ n' = n /\ left' = left /\ asked' = asked
      /\ outdated' = outdated
  BY DEF StopFlag, interrupt, thread
<1>n. on[c] \in User /\ on[c] # None
  BY <1>0, <1>1, Kinds DEF CallerInv, TimerTypeOK
<1>o. on[c] \notin asked
  BY <1>0, <1>1, <1>n DEF StopInv, Engaged
<1>2. /\ Lists(hard', soft')
      /\ \A v : Linked(hard', v) <=> Linked(hard, v)
      /\ \A v : Linked(soft', v) <=> Linked(soft, v)
  BY <1>1, <1>f
<1>3. \A v : InList(v)' <=> InList(v)
  BY <1>2 DEF InList
<1>4. /\ Wake # None /\ Wake \notin Soft
      /\ \A v \in User : v # Wake /\ v # None
  BY Kinds
<1>5. TimerTypeOK'
  <2>2. /\ op' \in [Caller -> Operations]
        /\ on' \in [Caller -> User \union {None}]
    BY <1>0, <1>1, <1>f DEF TimerTypeOK, Operations
  <2> QED
    BY <1>0, <1>1, <1>f, <2>2 DEF TimerTypeOK, HardTimers
<1>6. (Linked(hard, Wake) => asleep)'
  BY <1>0, <1>1, <1>2, <1>4, <1>f, <1>n, <1>o DEF PlaceInv
<1>7. CallerInv'
  BY <1>0, <1>1, <1>4, <1>f, <1>n, <1>o
     DEF CallerInv, OwnCallback, PlaceInv, Runs, TimerTypeOK
<1>8. PlaceInv'
  BY <1>0, <1>1, <1>2, <1>4, <1>f, <1>n, <1>o DEF PlaceInv, Runs, TimerTypeOK
<1>9. StartInv'
  BY <1>0, <1>1, <1>2, <1>3, <1>4, <1>f, <1>n, <1>o
     DEF StartInv, TimerTypeOK, Engaged
<1>10. StopInv'
  BY <1>0, <1>1, <1>2, <1>3, <1>4, <1>f, <1>n, <1>o
     DEF StopInv, TimerTypeOK, Engaged
<1>11. DeadInv'
  BY <1>0, <1>1, <1>2, <1>3, <1>4, <1>f, <1>n, <1>o DEF DeadInv, TimerTypeOK
<1>12. AskedInv'
  BY <1>0, <1>1, <1>2, <1>3, <1>4, <1>f, <1>n, <1>o
     DEF AskedInv, TimerTypeOK, Engaged
<1> QED
  BY <1>2, <1>5, <1>6, <1>7, <1>8, <1>9, <1>10, <1>11, <1>12
     DEF ControlInv, ListInv

(* rt_timer_detach and rt_timer_delete. *)
LEMMA DetachControl ==
  ASSUME Tidy, ControlInv,
         NEW c \in Caller, NEW u \in User, Detach(c, u)
  PROVE  ControlInv'
<1>1. /\ TimerTypeOK /\ Lists(hard, soft) /\ (Linked(hard, Wake) => asleep)
      /\ CallerInv /\ PlaceInv /\ StartInv /\ StopInv /\ DeadInv /\ AskedInv
  BY DEF ControlInv, ListInv
<1>0. /\ Runs(c) /\ op[c] = "none" /\ u \notin {t, n, cb} /\ UnlinkTimer(u)
      /\ \A d \in Caller : on[d] # u
      /\ dead' = dead \union {u} /\ asked' = asked \ {u}
  BY DEF Detach, KeepsOff, Tidy
<1>f. /\ tick' = tick /\ timeout' = timeout /\ init' = init
      /\ periodic' = periodic /\ active' = active /\ irq' = irq /\ cb' = cb
      /\ op' = op /\ on' = on /\ at' = at /\ asleep' = asleep /\ cur' = cur
      /\ nxt' = nxt /\ t' = t /\ n' = n /\ left' = left
      /\ outdated' = outdated
  BY DEF Detach, interrupt, calls, thread
<1>2. /\ Lists(hard', soft')
      /\ \A v : Linked(hard', v) <=> (Linked(hard, v) /\ v # u)
      /\ \A v : Linked(soft', v) <=> (Linked(soft, v) /\ v # u)
  <2>1. u \in Timers
    BY DEF Timers
  <2> QED
    BY <1>0, <1>1, <2>1, UnlinkLists
<1>3. \A v : InList(v)' <=> (InList(v) /\ v # u)
  BY <1>2 DEF InList
<1>4. /\ Wake # None /\ Wake \notin Soft
      /\ \A v \in User : v # Wake /\ v # None
  BY Kinds
<1>5. TimerTypeOK'
  <2>1. hard' \in Seq(HardTimers) /\ soft' \in Seq(Soft)
    BY <1>2 DEF Lists
  <2> QED
    BY <1>0, <1>1, <1>f, <2>1 DEF TimerTypeOK, HardTimers
<1>6. (Linked(hard, Wake) => asleep)'
  BY <1>0, <1>1, <1>2, <1>4, <1>f DEF PlaceInv
<1>7. CallerInv'
  BY <1>0, <1>1, <1>4, <1>f
     DEF CallerInv, OwnCallback, PlaceInv, Runs, TimerTypeOK
<1>8. PlaceInv'
  BY <1>0, <1>1, <1>2, <1>4, <1>f DEF PlaceInv, Runs, TimerTypeOK
<1>9. StartInv'
  BY <1>0, <1>1, <1>2, <1>3, <1>4, <1>f DEF StartInv, TimerTypeOK, Engaged
<1>10. StopInv'
  BY <1>0, <1>1, <1>2, <1>3, <1>4, <1>f DEF StopInv, TimerTypeOK, Engaged
<1>11. DeadInv'
  BY <1>0, <1>1, <1>2, <1>3, <1>4, <1>f DEF DeadInv, TimerTypeOK
<1>12. AskedInv'
  BY <1>0, <1>1, <1>2, <1>3, <1>4, <1>f DEF AskedInv, TimerTypeOK, Engaged
<1> QED
  BY <1>2, <1>5, <1>6, <1>7, <1>8, <1>9, <1>10, <1>11, <1>12
     DEF ControlInv, ListInv

(* rt_timer_control. *)
LEMMA SetUpControl ==
  ASSUME Tidy, ControlInv,
         NEW c \in Caller \union {Clock}, NEW u \in User, Control(c, u)
  PROVE  ControlInv'
<1>1. /\ TimerTypeOK /\ Lists(hard, soft) /\ (Linked(hard, Wake) => asleep)
      /\ CallerInv /\ PlaceInv /\ StartInv /\ StopInv /\ DeadInv /\ AskedInv
  BY DEF ControlInv, ListInv
<1>0. /\ (c = Clock /\ periodic' = periodic) \/ (c # Clock /\ Runs(c))
      /\ periodic' \in {periodic, periodic \union {u}, periodic \ {u}}
      /\ init' \in [User -> Nat]
  <2>2. c # Clock => Runs(c)
    BY DEF Control
  <2>3. /\ periodic' \in {periodic, periodic \union {u}, periodic \ {u}}
        /\ c = Clock => periodic' = periodic
    BY DEF Control, Tidy
  <2>4. init' \in [User -> Nat]
    BY <1>1, TickAssumption DEF Control, TimerTypeOK
  <2> QED
    BY <2>2, <2>3, <2>4
<1>f. /\ tick' = tick /\ timeout' = timeout /\ active' = active
      /\ hard' = hard /\ soft' = soft /\ dead' = dead /\ irq' = irq
      /\ cb' = cb /\ op' = op /\ on' = on /\ at' = at /\ asleep' = asleep
      /\ cur' = cur /\ nxt' = nxt /\ t' = t /\ n' = n /\ left' = left
      /\ asked' = asked /\ outdated' = outdated
  BY DEF Control, fields, interrupt, calls, thread
<1>2. /\ Lists(hard', soft')
      /\ \A v : Linked(hard', v) <=> Linked(hard, v)
      /\ \A v : Linked(soft', v) <=> Linked(soft, v)
  BY <1>1, <1>f
<1>3. \A v : InList(v)' <=> InList(v)
  BY <1>2 DEF InList
<1>4. /\ Wake # None /\ Wake \notin Soft
      /\ \A v \in User : v # Wake /\ v # None
  BY Kinds
<1>5. TimerTypeOK'
  BY <1>0, <1>1, <1>f DEF TimerTypeOK, HardTimers
<1>6. (Linked(hard, Wake) => asleep)'
  BY <1>0, <1>1, <1>2, <1>4, <1>f DEF PlaceInv
<1>7. CallerInv'
  BY <1>0, <1>1, <1>4, <1>f
     DEF CallerInv, OwnCallback, PlaceInv, Runs, TimerTypeOK
<1>8. PlaceInv'
  BY <1>0, <1>1, <1>2, <1>4, <1>f DEF PlaceInv, Runs, TimerTypeOK
<1>9. StartInv'
  BY <1>0, <1>1, <1>2, <1>3, <1>4, <1>f DEF StartInv, TimerTypeOK, Engaged
<1>10. StopInv'
  BY <1>0, <1>1, <1>2, <1>3, <1>4, <1>f DEF StopInv, TimerTypeOK, Engaged
<1>11. DeadInv'
  BY <1>0, <1>1, <1>2, <1>3, <1>4, <1>f DEF DeadInv, TimerTypeOK
<1>12. AskedInv'
  BY <1>0, <1>1, <1>2, <1>3, <1>4, <1>f DEF AskedInv, TimerTypeOK, Engaged
<1> QED
  BY <1>2, <1>5, <1>6, <1>7, <1>8, <1>9, <1>10, <1>11, <1>12
     DEF ControlInv, ListInv

(* rt_tick_increase. *)
LEMMA TickControl ==
  ASSUME Tidy, ControlInv, Tick
  PROVE  ControlInv'
<1>1. /\ TimerTypeOK /\ Lists(hard, soft) /\ (Linked(hard, Wake) => asleep)
      /\ CallerInv /\ PlaceInv /\ StartInv /\ StopInv /\ DeadInv /\ AskedInv
  BY DEF ControlInv, ListInv
<1>0. /\ irq = "off" /\ irq' = "check" /\ tick' = (tick + 1) % TickMod
      /\ left' = [v \in Timers |-> IF v \in Running THEN left[v] - 1 ELSE 0]
      /\ timeout' = [v \in Timers |->
                        IF v \in Running \union {n} THEN timeout[v] ELSE 0]
      /\ outdated' \in BOOLEAN
  BY DEF Tick
<1>f. /\ init' = init /\ periodic' = periodic /\ active' = active
      /\ hard' = hard /\ soft' = soft /\ dead' = dead /\ cb' = cb /\ op' = op
      /\ on' = on /\ at' = at /\ asleep' = asleep /\ cur' = cur /\ nxt' = nxt
      /\ t' = t /\ n' = n /\ asked' = asked
  BY DEF Tick, calls, thread
<1>2. /\ Lists(hard', soft')
      /\ \A v : Linked(hard', v) <=> Linked(hard, v)
      /\ \A v : Linked(soft', v) <=> Linked(soft, v)
  BY <1>1, <1>f
<1>3. \A v : InList(v)' <=> InList(v)
  BY <1>2 DEF InList
<1>4. /\ Wake # None /\ Wake \notin Soft
      /\ \A v \in User : v # Wake /\ v # None
  BY Kinds
<1>5. TimerTypeOK'
  <2>1. tick + 1 \in Int
    BY <1>1 DEF TimerTypeOK
  <2>2. (tick + 1) % TickMod \in 0..TickMax /\ 0 \in 0..TickMax
    BY <2>1, TickType
  <2>3. timeout' \in [Timers -> 0..TickMax]
    BY <1>0, <1>1, <2>2 DEF TimerTypeOK
  <2>4. left' \in [Timers -> Int]
    BY <1>0, <1>1 DEF TimerTypeOK
  <2> QED
    BY <1>0, <1>1, <1>f, <2>1, <2>2, <2>3, <2>4 DEF TimerTypeOK, HardTimers
<1>6. (Linked(hard, Wake) => asleep)'
  BY <1>0, <1>1, <1>2, <1>4, <1>f DEF PlaceInv
<1>7. CallerInv'
  BY <1>0, <1>1, <1>4, <1>f
     DEF CallerInv, OwnCallback, PlaceInv, Runs, TimerTypeOK
<1>8. PlaceInv'
  BY <1>0, <1>1, <1>2, <1>4, <1>f DEF PlaceInv, Runs, TimerTypeOK
<1>9. StartInv'
  BY <1>0, <1>1, <1>2, <1>3, <1>4, <1>f DEF StartInv, TimerTypeOK, Engaged
<1>10. StopInv'
  BY <1>0, <1>1, <1>2, <1>3, <1>4, <1>f DEF StopInv, TimerTypeOK, Engaged
<1>11. DeadInv'
  BY <1>0, <1>1, <1>2, <1>3, <1>4, <1>f DEF DeadInv, TimerTypeOK
<1>12. AskedInv'
  BY <1>0, <1>1, <1>2, <1>3, <1>4, <1>f DEF AskedInv, TimerTypeOK, Engaged
<1> QED
  BY <1>2, <1>5, <1>6, <1>7, <1>8, <1>9, <1>10, <1>11, <1>12
     DEF ControlInv, ListInv

(* rt_timer_check: the first hard timer is due. *)
LEMMA CheckExpireControl ==
  ASSUME Tidy, ControlInv, CheckExpire
  PROVE  ControlInv'
<1>1. /\ TimerTypeOK /\ Lists(hard, soft) /\ (Linked(hard, Wake) => asleep)
      /\ CallerInv /\ PlaceInv /\ StartInv /\ StopInv /\ DeadInv /\ AskedInv
  BY DEF ControlInv, ListInv
<1>0. /\ irq = "check" /\ hard # <<>> /\ hard' = Tail(hard)
      /\ \/ /\ Head(hard) = Wake /\ asleep' = FALSE /\ irq' = irq /\ cb' = cb
         \/ /\ Head(hard) # Wake /\ irq' = "callback" /\ cb' = Head(hard)
            /\ asleep' = asleep
  BY DEF CheckExpire
<1>f. /\ tick' = tick /\ timeout' = timeout /\ init' = init
      /\ periodic' = periodic /\ active' = active /\ soft' = soft
      /\ dead' = dead /\ op' = op /\ on' = on /\ at' = at /\ cur' = cur
      /\ nxt' = nxt /\ t' = t /\ n' = n /\ left' = left /\ asked' = asked
      /\ outdated' = outdated
  BY DEF CheckExpire, fields, calls
<1>h. PICK h \in Hard \union {Wake} : h = Head(hard) /\ Linked(hard, h)
  BY <1>0, <1>1, TailLists DEF Lists, HardTimers
<1>2. /\ Lists(hard', soft')
      /\ \A v : Linked(hard', v) <=> (Linked(hard, v) /\ v # h)
      /\ \A v : Linked(soft', v) <=> Linked(soft, v)
  BY <1>0, <1>1, <1>f, <1>h, TailLists DEF Lists
<1>3. \A v : InList(v)' <=> (InList(v) /\ v # h)
  <2>1. ~Linked(soft, h)
    BY <1>1, <1>h, BothLists, Kinds DEF User
  <2> QED
    BY <1>2, <2>1 DEF InList
<1>e. /\ cb = None /\ Linked(hard, h) /\ InList(h) /\ h \in Hard \union {Wake}
      /\ \/ h = Wake /\ asleep' = FALSE /\ irq' = irq /\ cb' = cb
         \/ /\ h # Wake /\ h \in User /\ h \notin Soft
            /\ irq' = "callback" /\ cb' = h /\ asleep' = asleep
  BY <1>0, <1>1, <1>h, Kinds DEF User, InList, PlaceInv
<1>4. /\ Wake # None /\ Wake \notin Soft
      /\ \A v \in User : v # Wake /\ v # None
  BY Kinds
<1>5. TimerTypeOK'
  <2>1. hard' \in Seq(HardTimers) /\ soft' \in Seq(Soft)
    BY <1>2 DEF Lists
  <2> QED
    BY <1>e, <1>0, <1>1, <1>f, <2>1 DEF TimerTypeOK, HardTimers
<1>6. (Linked(hard, Wake) => asleep)'
  BY <1>0, <1>1, <1>2, <1>4, <1>f, <1>e DEF PlaceInv
<1>7. CallerInv'
  BY <1>0, <1>1, <1>4, <1>f, <1>e
     DEF CallerInv, OwnCallback, PlaceInv, Runs, TimerTypeOK
<1>8. PlaceInv'
  BY <1>0, <1>1, <1>2, <1>4, <1>f, <1>e DEF PlaceInv, Runs, TimerTypeOK
<1>9. StartInv'
  BY <1>0, <1>1, <1>2, <1>3, <1>4, <1>f, <1>e
     DEF StartInv, TimerTypeOK, Engaged
<1>10. StopInv'
  BY <1>0, <1>1, <1>2, <1>3, <1>4, <1>f, <1>e
     DEF StopInv, TimerTypeOK, Engaged
<1>11. DeadInv'
  BY <1>0, <1>1, <1>2, <1>3, <1>4, <1>f, <1>e DEF DeadInv, TimerTypeOK
<1>12. AskedInv'
  BY <1>0, <1>1, <1>2, <1>3, <1>4, <1>f, <1>e
     DEF AskedInv, TimerTypeOK, Engaged
<1> QED
  BY <1>2, <1>5, <1>6, <1>7, <1>8, <1>9, <1>10, <1>11, <1>12
     DEF ControlInv, ListInv

(* rt_timer_start in the callback of a hard timer. *)
LEMMA CallbackStartControl ==
  ASSUME Tidy, ControlInv,
         NEW u \in User, CallbackStart(u)
  PROVE  ControlInv'
<1>1. /\ TimerTypeOK /\ Lists(hard, soft) /\ (Linked(hard, Wake) => asleep)
      /\ CallerInv /\ PlaceInv /\ StartInv /\ StopInv /\ DeadInv /\ AskedInv
  BY DEF ControlInv, ListInv
<1>0. /\ irq = "callback" /\ u \notin dead
      /\ \/ <<Clock, u>> \in Starts /\ u \notin {t, n, cb}
         \/ u = cb /\ u \in periodic
      /\ timeout' = [timeout EXCEPT ![u] = (tick + init[u]) % TickMod]
      /\ left' = [left EXCEPT ![u] = init[u]]
      /\ Link(u, timeout'[u])
      /\ asked' = asked \union {u}
  BY DEF CallbackStart, KeepsOff, Tidy
<1>f. /\ tick' = tick /\ init' = init /\ periodic' = periodic /\ dead' = dead
      /\ irq' = irq /\ cb' = cb /\ op' = op /\ on' = on /\ at' = at
      /\ asleep' = asleep /\ cur' = cur /\ nxt' = nxt /\ t' = t /\ n' = n
      /\ outdated' = outdated
  BY DEF CallbackStart, interrupt, calls, thread
<1>o. \A d \in Caller : on[d] = u => op[d] \notin {"tick", "link", "flag"}
  <2>1. CASE <<Clock, u>> \in Starts /\ u \notin {t, n, cb}
    <3>1. \A d \in Caller : d # Clock
      BY TimerAssumption
    <3> QED
      BY <1>1, <2>1, <3>1, StarterAlone
  <2>2. CASE u = cb
    BY <1>1, <2>2 DEF StartInv, StopInv, Engaged
  <2> QED
    BY <1>0, <2>1, <2>2
<1>p. u \in Hard /\ u \notin Soft /\ u \notin {t, n}
  <2>1. CASE <<Clock, u>> \in Starts
    <3>1. <<Clock, u>> \in {Clock} \X Hard
      BY <2>1, TimerAssumption, PartyAssumption
    <3> QED
      BY <1>1, <3>1, Kinds DEF TimerTypeOK
  <2>2. CASE u = cb
    BY <1>1, <2>2, Kinds DEF TimerTypeOK
  <2> QED
    BY <1>0, <2>1, <2>2
<1>2. /\ Lists(hard', soft')
      /\ \A v : Linked(hard', v) <=> (Linked(hard, v) \/ (v = u /\ u \in Hard))
      /\ \A v : Linked(soft', v) <=> (Linked(soft, v) \/ (v = u /\ u \in Soft))
      /\ active' = active \union {u}
  BY <1>0, <1>1, LinkLists
<1>3. \A v : InList(v)' <=> (InList(v) \/ v = u)
  BY <1>0, <1>1, <1>2 DEF InList, User
<1>4. /\ Wake # None /\ Wake \notin Soft
      /\ \A v \in User : v # Wake /\ v # None
  BY Kinds
<1>5. TimerTypeOK'
  <2>1. hard' \in Seq(HardTimers) /\ soft' \in Seq(Soft)
    BY <1>2 DEF Lists
  <2>5. init[u] \in Int /\ tick + init[u] \in Int
    BY <1>1 DEF TimerTypeOK
  <2>6. (tick + init[u]) % TickMod \in 0..TickMax
    BY <2>5, TickType
  <2>7. timeout' \in [Timers -> 0..TickMax] /\ left' \in [Timers -> Int]
    BY <1>0, <1>1, <2>5, <2>6 DEF TimerTypeOK
  <2>8. active' \subseteq User /\ asked' \subseteq User
    BY <1>0, <1>1, <1>2 DEF TimerTypeOK
  <2> QED
    BY <1>0, <1>1, <1>f, <2>1, <2>5, <2>6, <2>7, <2>8
       DEF TimerTypeOK, HardTimers
<1>6. (Linked(hard, Wake) => asleep)'
  BY <1>0, <1>1, <1>2, <1>4, <1>f, <1>o, <1>p DEF PlaceInv
<1>7. CallerInv'
  BY <1>0, <1>1, <1>4, <1>f, <1>o, <1>p
     DEF CallerInv, OwnCallback, PlaceInv, Runs, TimerTypeOK
<1>8. PlaceInv'
  BY <1>0, <1>1, <1>2, <1>4, <1>f, <1>o, <1>p DEF PlaceInv, Runs, TimerTypeOK
<1>9. StartInv'
  BY <1>0, <1>1, <1>2, <1>3, <1>4, <1>f, <1>o, <1>p
     DEF StartInv, TimerTypeOK, Engaged
<1>10. StopInv'
  BY <1>0, <1>1, <1>2, <1>3, <1>4, <1>f, <1>o, <1>p
     DEF StopInv, TimerTypeOK, Engaged
<1>11. DeadInv'
  BY <1>0, <1>1, <1>2, <1>3, <1>4, <1>f, <1>o, <1>p DEF DeadInv, TimerTypeOK
<1>12. AskedInv'
  BY <1>0, <1>1, <1>2, <1>3, <1>4, <1>f, <1>o, <1>p
     DEF AskedInv, TimerTypeOK, Engaged
<1> QED
  BY <1>2, <1>5, <1>6, <1>7, <1>8, <1>9, <1>10, <1>11, <1>12
     DEF ControlInv, ListInv

(* rt_timer_stop in the callback of a hard timer. *)
LEMMA CallbackStopControl ==
  ASSUME Tidy, ControlInv,
         NEW u \in User, CallbackStop(u)
  PROVE  ControlInv'
<1>1. /\ TimerTypeOK /\ Lists(hard, soft) /\ (Linked(hard, Wake) => asleep)
      /\ CallerInv /\ PlaceInv /\ StartInv /\ StopInv /\ DeadInv /\ AskedInv
  BY DEF ControlInv, ListInv
<1>0. /\ irq = "callback" /\ u \in active \ dead
      /\ (<<Clock, u>> \in Stops /\ u \notin {t, n, cb}) \/ u = cb
      /\ UnlinkTimer(u) /\ active' = active \ {u} /\ asked' = asked \ {u}
  BY DEF CallbackStop, KeepsOff, Tidy
<1>f. /\ tick' = tick /\ timeout' = timeout /\ init' = init
      /\ periodic' = periodic /\ dead' = dead /\ irq' = irq /\ cb' = cb
      /\ op' = op /\ on' = on /\ at' = at /\ asleep' = asleep /\ cur' = cur
      /\ nxt' = nxt /\ t' = t /\ n' = n /\ left' = left
      /\ outdated' = outdated
  BY DEF CallbackStop, interrupt, calls, thread
<1>p. u \in Hard /\ u \notin Soft /\ u \notin {t, n}
  <2>1. CASE <<Clock, u>> \in Stops
    <3>1. <<Clock, u>> \in {Clock} \X Hard
      BY <2>1, TimerAssumption, PartyAssumption
    <3> QED
      BY <1>1, <3>1, Kinds DEF TimerTypeOK
  <2>2. CASE u = cb
    BY <1>1, <2>2, Kinds DEF TimerTypeOK
  <2> QED
    BY <1>0, <2>1, <2>2
<1>o. \A d \in Caller : on[d] = u => op[d] \notin {"tick", "link"}
  <2>1. CASE <<Clock, u>> \in Stops
    <3> SUFFICES ASSUME NEW d \in Caller, <<d, u>> \in Starts
                 PROVE  FALSE
      BY <1>1 DEF CallerInv
    <3>1. <<d, u>>[2] = <<Clock, u>>[2] /\ d # Clock
      BY TimerAssumption
    <3>2. <<d, u>>[1] = <<Clock, u>>[1]
      BY <2>1, <3>1 DEF Tidy
    <3> QED
      BY <3>1, <3>2
  <2>2. CASE u = cb
    BY <1>1, <2>2 DEF StartInv, Engaged
  <2> QED
    BY <1>0, <2>1, <2>2
<1>2. /\ Lists(hard', soft')
      /\ \A v : Linked(hard', v) <=> (Linked(hard, v) /\ v # u)
      /\ \A v : Linked(soft', v) <=> (Linked(soft, v) /\ v # u)
  <2>1. u \in Timers
    BY DEF Timers
  <2> QED
    BY <1>0, <1>1, <2>1, UnlinkLists
<1>3. \A v : InList(v)' <=> (InList(v) /\ v # u)
  BY <1>2 DEF InList
<1>4. /\ Wake # None /\ Wake \notin Soft
      /\ \A v \in User : v # Wake /\ v # None
  BY Kinds
<1>5. TimerTypeOK'
  <2>1. hard' \in Seq(HardTimers) /\ soft' \in Seq(Soft)
    BY <1>2 DEF Lists
  <2> QED
    BY <1>0, <1>1, <1>f, <2>1 DEF TimerTypeOK, HardTimers
<1>6. (Linked(hard, Wake) => asleep)'
  BY <1>0, <1>1, <1>2, <1>4, <1>f, <1>o, <1>p DEF PlaceInv
<1>7. CallerInv'
  BY <1>0, <1>1, <1>4, <1>f, <1>o, <1>p
     DEF CallerInv, OwnCallback, PlaceInv, Runs, TimerTypeOK
<1>8. PlaceInv'
  BY <1>0, <1>1, <1>2, <1>4, <1>f, <1>o, <1>p DEF PlaceInv, Runs, TimerTypeOK
<1>9. StartInv'
  BY <1>0, <1>1, <1>2, <1>3, <1>4, <1>f, <1>o, <1>p
     DEF StartInv, TimerTypeOK, Engaged
<1>10. StopInv'
  BY <1>0, <1>1, <1>2, <1>3, <1>4, <1>f, <1>o, <1>p
     DEF StopInv, TimerTypeOK, Engaged
<1>11. DeadInv'
  BY <1>0, <1>1, <1>2, <1>3, <1>4, <1>f, <1>o, <1>p DEF DeadInv, TimerTypeOK
<1>12. AskedInv'
  BY <1>0, <1>1, <1>2, <1>3, <1>4, <1>f, <1>o, <1>p
     DEF AskedInv, TimerTypeOK, Engaged
<1> QED
  BY <1>2, <1>5, <1>6, <1>7, <1>8, <1>9, <1>10, <1>11, <1>12
     DEF ControlInv, ListInv

(* rt_timer_check ends. *)
LEMMA CheckEndControl ==
  ASSUME Tidy, ControlInv, CheckEnd
  PROVE  ControlInv'
<1>1. /\ TimerTypeOK /\ Lists(hard, soft) /\ (Linked(hard, Wake) => asleep)
      /\ CallerInv /\ PlaceInv /\ StartInv /\ StopInv /\ DeadInv /\ AskedInv
  BY DEF ControlInv, ListInv
<1>0. /\ irq = "check" /\ irq' = "off"
  BY DEF CheckEnd
<1>f. /\ tick' = tick /\ timeout' = timeout /\ init' = init
      /\ periodic' = periodic /\ active' = active /\ hard' = hard
      /\ soft' = soft /\ dead' = dead /\ cb' = cb /\ op' = op /\ on' = on
      /\ at' = at /\ asleep' = asleep /\ cur' = cur /\ nxt' = nxt /\ t' = t
      /\ n' = n /\ left' = left /\ asked' = asked /\ outdated' = outdated
  BY DEF CheckEnd, fields, calls, thread
<1>2. /\ Lists(hard', soft')
      /\ \A v : Linked(hard', v) <=> Linked(hard, v)
      /\ \A v : Linked(soft', v) <=> Linked(soft, v)
  BY <1>1, <1>f
<1>3. \A v : InList(v)' <=> InList(v)
  BY <1>2 DEF InList
<1>4. /\ Wake # None /\ Wake \notin Soft
      /\ \A v \in User : v # Wake /\ v # None
  BY Kinds
<1>5. TimerTypeOK'
  BY <1>0, <1>1, <1>f DEF TimerTypeOK, HardTimers
<1>6. (Linked(hard, Wake) => asleep)'
  BY <1>0, <1>1, <1>2, <1>4, <1>f DEF PlaceInv
<1>7. CallerInv'
  BY <1>0, <1>1, <1>4, <1>f
     DEF CallerInv, OwnCallback, PlaceInv, Runs, TimerTypeOK
<1>8. PlaceInv'
  BY <1>0, <1>1, <1>2, <1>4, <1>f DEF PlaceInv, Runs, TimerTypeOK
<1>9. StartInv'
  BY <1>0, <1>1, <1>2, <1>3, <1>4, <1>f DEF StartInv, TimerTypeOK, Engaged
<1>10. StopInv'
  BY <1>0, <1>1, <1>2, <1>3, <1>4, <1>f DEF StopInv, TimerTypeOK, Engaged
<1>11. DeadInv'
  BY <1>0, <1>1, <1>2, <1>3, <1>4, <1>f DEF DeadInv, TimerTypeOK
<1>12. AskedInv'
  BY <1>0, <1>1, <1>2, <1>3, <1>4, <1>f DEF AskedInv, TimerTypeOK, Engaged
<1> QED
  BY <1>2, <1>5, <1>6, <1>7, <1>8, <1>9, <1>10, <1>11, <1>12
     DEF ControlInv, ListInv

(* rt_thread_timer_entry: the first timeout is read. *)
LEMMA ReadNextControl ==
  ASSUME Tidy, ControlInv, ReadNext
  PROVE  ControlInv'
<1>1. /\ TimerTypeOK /\ Lists(hard, soft) /\ (Linked(hard, Wake) => asleep)
      /\ CallerInv /\ PlaceInv /\ StartInv /\ StopInv /\ DeadInv /\ AskedInv
  BY DEF ControlInv, ListInv
<1>0. /\ at = "next" /\ at' \in {"suspend", "delay"} /\ ~asleep
      /\ outdated' \in BOOLEAN
      /\ nxt' = IF soft = <<>> THEN TickMax ELSE timeout[Head(soft)]
      /\ op[TimerThread] = "none"
  BY DEF ReadNext, TimerThreadAt
<1>f. /\ tick' = tick /\ timeout' = timeout /\ init' = init
      /\ periodic' = periodic /\ active' = active /\ hard' = hard
      /\ soft' = soft /\ dead' = dead /\ irq' = irq /\ cb' = cb /\ op' = op
      /\ on' = on /\ asleep' = asleep /\ cur' = cur /\ t' = t /\ n' = n
      /\ left' = left /\ asked' = asked
  BY DEF ReadNext, fields, interrupt, calls
<1>2. /\ Lists(hard', soft')
      /\ \A v : Linked(hard', v) <=> Linked(hard, v)
      /\ \A v : Linked(soft', v) <=> Linked(soft, v)
  BY <1>1, <1>f
<1>3. \A v : InList(v)' <=> InList(v)
  BY <1>2 DEF InList
<1>4. /\ Wake # None /\ Wake \notin Soft
      /\ \A v \in User : v # Wake /\ v # None
  BY Kinds
<1>5. TimerTypeOK'
  <2>1. soft # <<>> => Head(soft) \in Soft
    BY <1>1, TailLists DEF Lists
  <2>2. nxt' \in 0..TickMax
    BY <1>0, <1>1, <2>1, TickType DEF TimerTypeOK, Timers, User
  <2>3. at' \in Locations
    BY <1>0 DEF Locations
  <2> QED
    BY <1>0, <1>1, <1>f, <2>1, <2>2, <2>3 DEF TimerTypeOK, HardTimers
<1>6. (Linked(hard, Wake) => asleep)'
  BY <1>0, <1>1, <1>2, <1>4, <1>f DEF PlaceInv
<1>7. CallerInv'
  BY <1>0, <1>1, <1>4, <1>f
     DEF CallerInv, OwnCallback, PlaceInv, Runs, TimerTypeOK
<1>8. PlaceInv'
  BY <1>0, <1>1, <1>2, <1>4, <1>f DEF PlaceInv, Runs, TimerTypeOK
<1>9. StartInv'
  BY <1>0, <1>1, <1>2, <1>3, <1>4, <1>f DEF StartInv, TimerTypeOK, Engaged
<1>10. StopInv'
  BY <1>0, <1>1, <1>2, <1>3, <1>4, <1>f DEF StopInv, TimerTypeOK, Engaged
<1>11. DeadInv'
  BY <1>0, <1>1, <1>2, <1>3, <1>4, <1>f DEF DeadInv, TimerTypeOK
<1>12. AskedInv'
  BY <1>0, <1>1, <1>2, <1>3, <1>4, <1>f DEF AskedInv, TimerTypeOK, Engaged
<1> QED
  BY <1>2, <1>5, <1>6, <1>7, <1>8, <1>9, <1>10, <1>11, <1>12
     DEF ControlInv, ListInv

(* rt_thread_timer_entry: the timer thread suspends itself. *)
LEMMA SuspendSelfControl ==
  ASSUME Tidy, ControlInv, SuspendSelf
  PROVE  ControlInv'
<1>1. /\ TimerTypeOK /\ Lists(hard, soft) /\ (Linked(hard, Wake) => asleep)
      /\ CallerInv /\ PlaceInv /\ StartInv /\ StopInv /\ DeadInv /\ AskedInv
  BY DEF ControlInv, ListInv
<1>0. /\ at = "suspend" /\ at' = "check" /\ asleep' = TRUE /\ nxt' = 0
      /\ op[TimerThread] = "none"
  BY DEF SuspendSelf, TimerThreadAt
<1>f. /\ tick' = tick /\ timeout' = timeout /\ init' = init
      /\ periodic' = periodic /\ active' = active /\ hard' = hard
      /\ soft' = soft /\ dead' = dead /\ irq' = irq /\ cb' = cb /\ op' = op
      /\ on' = on /\ cur' = cur /\ t' = t /\ n' = n /\ left' = left
      /\ asked' = asked /\ outdated' = outdated
  BY DEF SuspendSelf, fields, interrupt, calls
<1>2. /\ Lists(hard', soft')
      /\ \A v : Linked(hard', v) <=> Linked(hard, v)
      /\ \A v : Linked(soft', v) <=> Linked(soft, v)
  BY <1>1, <1>f
<1>3. \A v : InList(v)' <=> InList(v)
  BY <1>2 DEF InList
<1>4. /\ Wake # None /\ Wake \notin Soft
      /\ \A v \in User : v # Wake /\ v # None
  BY Kinds
<1>5. TimerTypeOK'
  <2>1. nxt' \in 0..TickMax
    BY <1>0, TickType
  <2>3. at' \in Locations
    BY <1>0 DEF Locations
  <2> QED
    BY <1>0, <1>1, <1>f, <2>1, <2>3 DEF TimerTypeOK, HardTimers
<1>6. (Linked(hard, Wake) => asleep)'
  BY <1>0, <1>1, <1>2, <1>4, <1>f DEF PlaceInv
<1>7. CallerInv'
  BY <1>0, <1>1, <1>4, <1>f
     DEF CallerInv, OwnCallback, PlaceInv, Runs, TimerTypeOK
<1>8. PlaceInv'
  BY <1>0, <1>1, <1>2, <1>4, <1>f DEF PlaceInv, Runs, TimerTypeOK
<1>9. StartInv'
  BY <1>0, <1>1, <1>2, <1>3, <1>4, <1>f DEF StartInv, TimerTypeOK, Engaged
<1>10. StopInv'
  BY <1>0, <1>1, <1>2, <1>3, <1>4, <1>f DEF StopInv, TimerTypeOK, Engaged
<1>11. DeadInv'
  BY <1>0, <1>1, <1>2, <1>3, <1>4, <1>f DEF DeadInv, TimerTypeOK
<1>12. AskedInv'
  BY <1>0, <1>1, <1>2, <1>3, <1>4, <1>f DEF AskedInv, TimerTypeOK, Engaged
<1> QED
  BY <1>2, <1>5, <1>6, <1>7, <1>8, <1>9, <1>10, <1>11, <1>12
     DEF ControlInv, ListInv

(* rt_thread_timer_entry: the tick is read. *)
LEMMA ReadTickControl ==
  ASSUME Tidy, ControlInv, ReadTick
  PROVE  ControlInv'
<1>1. /\ TimerTypeOK /\ Lists(hard, soft) /\ (Linked(hard, Wake) => asleep)
      /\ CallerInv /\ PlaceInv /\ StartInv /\ StopInv /\ DeadInv /\ AskedInv
  BY DEF ControlInv, ListInv
<1>0. /\ at = "delay" /\ at' \in {"sleep", "check"} /\ ~asleep
      /\ nxt' \in {0, Ahead(nxt, tick)} /\ op[TimerThread] = "none"
  BY DEF ReadTick, TimerThreadAt
<1>f. /\ tick' = tick /\ timeout' = timeout /\ init' = init
      /\ periodic' = periodic /\ active' = active /\ hard' = hard
      /\ soft' = soft /\ dead' = dead /\ irq' = irq /\ cb' = cb /\ op' = op
      /\ on' = on /\ asleep' = asleep /\ cur' = cur /\ t' = t /\ n' = n
      /\ left' = left /\ asked' = asked /\ outdated' = outdated
  BY DEF ReadTick, fields, interrupt, calls
<1>2. /\ Lists(hard', soft')
      /\ \A v : Linked(hard', v) <=> Linked(hard, v)
      /\ \A v : Linked(soft', v) <=> Linked(soft, v)
  BY <1>1, <1>f
<1>3. \A v : InList(v)' <=> InList(v)
  BY <1>2 DEF InList
<1>4. /\ Wake # None /\ Wake \notin Soft
      /\ \A v \in User : v # Wake /\ v # None
  BY Kinds
<1>5. TimerTypeOK'
  <2>1. nxt - tick \in Int
    BY <1>1 DEF TimerTypeOK
  <2>2. nxt' \in 0..TickMax
    BY <1>0, <2>1, TickType DEF Ahead
  <2>3. at' \in Locations
    BY <1>0 DEF Locations
  <2> QED
    BY <1>0, <1>1, <1>f, <2>1, <2>2, <2>3 DEF TimerTypeOK, HardTimers
<1>6. (Linked(hard, Wake) => asleep)'
  BY <1>0, <1>1, <1>2, <1>4, <1>f DEF PlaceInv
<1>7. CallerInv'
  BY <1>0, <1>1, <1>4, <1>f
     DEF CallerInv, OwnCallback, PlaceInv, Runs, TimerTypeOK
<1>8. PlaceInv'
  BY <1>0, <1>1, <1>2, <1>4, <1>f DEF PlaceInv, Runs, TimerTypeOK
<1>9. StartInv'
  BY <1>0, <1>1, <1>2, <1>3, <1>4, <1>f DEF StartInv, TimerTypeOK, Engaged
<1>10. StopInv'
  BY <1>0, <1>1, <1>2, <1>3, <1>4, <1>f DEF StopInv, TimerTypeOK, Engaged
<1>11. DeadInv'
  BY <1>0, <1>1, <1>2, <1>3, <1>4, <1>f DEF DeadInv, TimerTypeOK
<1>12. AskedInv'
  BY <1>0, <1>1, <1>2, <1>3, <1>4, <1>f DEF AskedInv, TimerTypeOK, Engaged
<1> QED
  BY <1>2, <1>5, <1>6, <1>7, <1>8, <1>9, <1>10, <1>11, <1>12
     DEF ControlInv, ListInv

(* rt_thread_delay: the timer thread sleeps by its timer. *)
LEMMA SleepControl ==
  ASSUME Tidy, ControlInv, Sleep
  PROVE  ControlInv'
<1>1. /\ TimerTypeOK /\ Lists(hard, soft) /\ (Linked(hard, Wake) => asleep)
      /\ CallerInv /\ PlaceInv /\ StartInv /\ StopInv /\ DeadInv /\ AskedInv
  BY DEF ControlInv, ListInv
<1>0. /\ at = "sleep" /\ at' = "check" /\ ~asleep /\ asleep' = TRUE /\ nxt' = 0
      /\ timeout' = [timeout EXCEPT ![Wake] = (tick + nxt) % TickMod]
      /\ left' = [left EXCEPT ![Wake] = nxt]
      /\ hard' = Insert(hard, Wake, timeout'[Wake])
      /\ op[TimerThread] = "none" /\ irq = "off"
  BY DEF Sleep, TimerThreadAt
<1>f. /\ tick' = tick /\ init' = init /\ periodic' = periodic
      /\ active' = active /\ soft' = soft /\ dead' = dead /\ irq' = irq
      /\ cb' = cb /\ op' = op /\ on' = on /\ cur' = cur /\ t' = t /\ n' = n
      /\ asked' = asked /\ outdated' = outdated
  BY DEF Sleep, interrupt, calls
<1>2. /\ Lists(hard', soft')
      /\ \A v : Linked(hard', v) <=> (Linked(hard, v) \/ v = Wake)
      /\ \A v : Linked(soft', v) <=> Linked(soft, v)
  <2>1. Wake \in HardTimers /\ ~Linked(hard, Wake)
    BY <1>0, <1>1 DEF HardTimers
  <2> QED
    BY <1>0, <1>1, <1>f, <2>1, InsertLinked DEF Lists
<1>3. \A v \in User : InList(v)' <=> InList(v)
  BY <1>2, Kinds DEF InList
<1>4. /\ Wake # None /\ Wake \notin Soft
      /\ \A v \in User : v # Wake /\ v # None
  BY Kinds
<1>5. TimerTypeOK'
  <2>1. hard' \in Seq(HardTimers) /\ soft' \in Seq(Soft)
    BY <1>2 DEF Lists
  <2>2. nxt \in Int /\ tick + nxt \in Int
    BY <1>1 DEF TimerTypeOK
  <2>3. nxt' \in 0..TickMax /\ (tick + nxt) % TickMod \in 0..TickMax
    BY <1>0, <2>2, TickType
  <2>4. timeout' \in [Timers -> 0..TickMax] /\ left' \in [Timers -> Int]
    BY <1>0, <1>1, <2>2, <2>3 DEF TimerTypeOK
  <2>5. at' \in Locations
    BY <1>0 DEF Locations
  <2> QED
    BY <1>0, <1>1, <1>f, <2>1, <2>2, <2>3, <2>4, <2>5
       DEF TimerTypeOK, HardTimers
<1>6. (Linked(hard, Wake) => asleep)'
  BY <1>0, <1>1, <1>2, <1>4, <1>f DEF PlaceInv
<1>7. CallerInv'
  BY <1>0, <1>1, <1>4, <1>f
     DEF CallerInv, OwnCallback, PlaceInv, Runs, TimerTypeOK
<1>8. PlaceInv'
  BY <1>0, <1>1, <1>2, <1>4, <1>f DEF PlaceInv, Runs, TimerTypeOK
<1>9. StartInv'
  BY <1>0, <1>1, <1>2, <1>3, <1>4, <1>f DEF StartInv, TimerTypeOK, Engaged
<1>10. StopInv'
  BY <1>0, <1>1, <1>2, <1>3, <1>4, <1>f DEF StopInv, TimerTypeOK, Engaged
<1>11. DeadInv'
  BY <1>0, <1>1, <1>2, <1>3, <1>4, <1>f DEF DeadInv, TimerTypeOK
<1>12. AskedInv'
  BY <1>0, <1>1, <1>2, <1>3, <1>4, <1>f DEF AskedInv, TimerTypeOK, Engaged
<1> QED
  BY <1>2, <1>5, <1>6, <1>7, <1>8, <1>9, <1>10, <1>11, <1>12
     DEF ControlInv, ListInv

(* rt_soft_timer_check begins. *)
LEMMA CheckSoftControl ==
  ASSUME Tidy, ControlInv, CheckSoft
  PROVE  ControlInv'
<1>1. /\ TimerTypeOK /\ Lists(hard, soft) /\ (Linked(hard, Wake) => asleep)
      /\ CallerInv /\ PlaceInv /\ StartInv /\ StopInv /\ DeadInv /\ AskedInv
  BY DEF ControlInv, ListInv
<1>0. /\ at = "check" /\ at' = "scan" /\ ~asleep /\ cur' = tick
      /\ n' = IF soft = <<>> THEN None ELSE Head(soft)
      /\ op[TimerThread] = "none"
  BY DEF CheckSoft, TimerThreadAt
<1>f. /\ tick' = tick /\ timeout' = timeout /\ init' = init
      /\ periodic' = periodic /\ active' = active /\ hard' = hard
      /\ soft' = soft /\ dead' = dead /\ irq' = irq /\ cb' = cb /\ op' = op
      /\ on' = on /\ asleep' = asleep /\ nxt' = nxt /\ t' = t /\ left' = left
      /\ asked' = asked /\ outdated' = outdated
  BY DEF CheckSoft, fields, interrupt, calls
<1>2. /\ Lists(hard', soft')
      /\ \A v : Linked(hard', v) <=> Linked(hard, v)
      /\ \A v : Linked(soft', v) <=> Linked(soft, v)
  BY <1>1, <1>f
<1>3. \A v : InList(v)' <=> InList(v)
  BY <1>2 DEF InList
<1>e. n' # None => n' \in Soft /\ Linked(soft, n') /\ InList(n')
  BY <1>0, <1>1, TailLists DEF Lists, InList
<1>4. /\ Wake # None /\ Wake \notin Soft
      /\ \A v \in User : v # Wake /\ v # None
  BY Kinds
<1>5. TimerTypeOK'
  <2>1. at' \in Locations
    BY <1>0 DEF Locations
  <2> QED
    BY <1>0, <1>1, <1>e, <1>f, <2>1 DEF TimerTypeOK, HardTimers
<1>6. (Linked(hard, Wake) => asleep)'
  BY <1>0, <1>1, <1>2, <1>4, <1>f, <1>e DEF PlaceInv
<1>7. CallerInv'
  BY <1>0, <1>1, <1>4, <1>f, <1>e
     DEF CallerInv, OwnCallback, PlaceInv, Runs, TimerTypeOK
<1>8. PlaceInv'
  BY <1>0, <1>1, <1>2, <1>4, <1>f, <1>e DEF PlaceInv, Runs, TimerTypeOK
<1>9. StartInv'
  BY <1>0, <1>1, <1>2, <1>3, <1>4, <1>f, <1>e
     DEF StartInv, TimerTypeOK, Engaged
<1>10. StopInv'
  BY <1>0, <1>1, <1>2, <1>3, <1>4, <1>f, <1>e
     DEF StopInv, TimerTypeOK, Engaged
<1>11. DeadInv'
  BY <1>0, <1>1, <1>2, <1>3, <1>4, <1>f, <1>e DEF DeadInv, TimerTypeOK
<1>12. AskedInv'
  BY <1>0, <1>1, <1>2, <1>3, <1>4, <1>f, <1>e
     DEF AskedInv, TimerTypeOK, Engaged
<1> QED
  BY <1>2, <1>5, <1>6, <1>7, <1>8, <1>9, <1>10, <1>11, <1>12
     DEF ControlInv, ListInv

(* rt_soft_timer_check ends. *)
LEMMA ScanEndControl ==
  ASSUME Tidy, ControlInv, ScanEnd
  PROVE  ControlInv'
<1>1. /\ TimerTypeOK /\ Lists(hard, soft) /\ (Linked(hard, Wake) => asleep)
      /\ CallerInv /\ PlaceInv /\ StartInv /\ StopInv /\ DeadInv /\ AskedInv
  BY DEF ControlInv, ListInv
<1>0. /\ at = "scan" /\ at' = "next" /\ ~asleep /\ cur' = 0 /\ n' = None
      /\ op[TimerThread] = "none"
  BY DEF ScanEnd, TimerThreadAt
<1>f. /\ tick' = tick /\ timeout' = timeout /\ init' = init
      /\ periodic' = periodic /\ active' = active /\ hard' = hard
      /\ soft' = soft /\ dead' = dead /\ irq' = irq /\ cb' = cb /\ op' = op
      /\ on' = on /\ asleep' = asleep /\ nxt' = nxt /\ t' = t /\ left' = left
      /\ asked' = asked /\ outdated' = outdated
  BY DEF ScanEnd, fields, interrupt, calls
<1>2. /\ Lists(hard', soft')
      /\ \A v : Linked(hard', v) <=> Linked(hard, v)
      /\ \A v : Linked(soft', v) <=> Linked(soft, v)
  BY <1>1, <1>f
<1>3. \A v : InList(v)' <=> InList(v)
  BY <1>2 DEF InList
<1>4. /\ Wake # None /\ Wake \notin Soft
      /\ \A v \in User : v # Wake /\ v # None
  BY Kinds
<1>5. TimerTypeOK'
  <2>1. at' \in Locations /\ cur' \in 0..TickMax
    BY <1>0, TickType DEF Locations
  <2> QED
    BY <1>0, <1>1, <1>f, <2>1 DEF TimerTypeOK, HardTimers
<1>6. (Linked(hard, Wake) => asleep)'
  BY <1>0, <1>1, <1>2, <1>4, <1>f DEF PlaceInv
<1>7. CallerInv'
  BY <1>0, <1>1, <1>4, <1>f
     DEF CallerInv, OwnCallback, PlaceInv, Runs, TimerTypeOK
<1>8. PlaceInv'
  BY <1>0, <1>1, <1>2, <1>4, <1>f DEF PlaceInv, Runs, TimerTypeOK
<1>9. StartInv'
  BY <1>0, <1>1, <1>2, <1>3, <1>4, <1>f DEF StartInv, TimerTypeOK, Engaged
<1>10. StopInv'
  BY <1>0, <1>1, <1>2, <1>3, <1>4, <1>f DEF StopInv, TimerTypeOK, Engaged
<1>11. DeadInv'
  BY <1>0, <1>1, <1>2, <1>3, <1>4, <1>f DEF DeadInv, TimerTypeOK
<1>12. AskedInv'
  BY <1>0, <1>1, <1>2, <1>3, <1>4, <1>f DEF AskedInv, TimerTypeOK, Engaged
<1> QED
  BY <1>2, <1>5, <1>6, <1>7, <1>8, <1>9, <1>10, <1>11, <1>12
     DEF ControlInv, ListInv

(* The callback of a soft timer returns. *)
LEMMA SoftReturnControl ==
  ASSUME Tidy, ControlInv, SoftReturn
  PROVE  ControlInv'
<1>1. /\ TimerTypeOK /\ Lists(hard, soft) /\ (Linked(hard, Wake) => asleep)
      /\ CallerInv /\ PlaceInv /\ StartInv /\ StopInv /\ DeadInv /\ AskedInv
  BY DEF ControlInv, ListInv
<1>0. /\ at = "callback" /\ at' = "after" /\ ~asleep /\ cur' = tick
      /\ op[TimerThread] = "none"
  BY DEF SoftReturn, TimerThreadAt
<1>f. /\ tick' = tick /\ timeout' = timeout /\ init' = init
      /\ periodic' = periodic /\ active' = active /\ hard' = hard
      /\ soft' = soft /\ dead' = dead /\ irq' = irq /\ cb' = cb /\ op' = op
      /\ on' = on /\ asleep' = asleep /\ nxt' = nxt /\ t' = t /\ n' = n
      /\ left' = left /\ asked' = asked /\ outdated' = outdated
  BY DEF SoftReturn, fields, interrupt, calls
<1>2. /\ Lists(hard', soft')
      /\ \A v : Linked(hard', v) <=> Linked(hard, v)
      /\ \A v : Linked(soft', v) <=> Linked(soft, v)
  BY <1>1, <1>f
<1>3. \A v : InList(v)' <=> InList(v)
  BY <1>2 DEF InList
<1>4. /\ Wake # None /\ Wake \notin Soft
      /\ \A v \in User : v # Wake /\ v # None
  BY Kinds
<1>5. TimerTypeOK'
  <2>1. at' \in Locations
    BY <1>0 DEF Locations
  <2> QED
    BY <1>0, <1>1, <1>f, <2>1 DEF TimerTypeOK, HardTimers
<1>6. (Linked(hard, Wake) => asleep)'
  BY <1>0, <1>1, <1>2, <1>4, <1>f DEF PlaceInv
<1>7. CallerInv'
  BY <1>0, <1>1, <1>4, <1>f
     DEF CallerInv, OwnCallback, PlaceInv, Runs, TimerTypeOK
<1>8. PlaceInv'
  BY <1>0, <1>1, <1>2, <1>4, <1>f DEF PlaceInv, Runs, TimerTypeOK
<1>9. StartInv'
  BY <1>0, <1>1, <1>2, <1>3, <1>4, <1>f DEF StartInv, TimerTypeOK, Engaged
<1>10. StopInv'
  BY <1>0, <1>1, <1>2, <1>3, <1>4, <1>f DEF StopInv, TimerTypeOK, Engaged
<1>11. DeadInv'
  BY <1>0, <1>1, <1>2, <1>3, <1>4, <1>f DEF DeadInv, TimerTypeOK
<1>12. AskedInv'
  BY <1>0, <1>1, <1>2, <1>3, <1>4, <1>f DEF AskedInv, TimerTypeOK, Engaged
<1> QED
  BY <1>2, <1>5, <1>6, <1>7, <1>8, <1>9, <1>10, <1>11, <1>12
     DEF ControlInv, ListInv

(* rt_soft_timer_check: the next timer is due. *)
LEMMA ScanExpireControl ==
  ASSUME Tidy, ControlInv, ScanExpire
  PROVE  ControlInv'
<1>1. /\ TimerTypeOK /\ Lists(hard, soft) /\ (Linked(hard, Wake) => asleep)
      /\ CallerInv /\ PlaceInv /\ StartInv /\ StopInv /\ DeadInv /\ AskedInv
  BY DEF ControlInv, ListInv
<1>0. /\ at = "scan" /\ at' = "callback" /\ ~asleep /\ cur' = 0
      /\ n # None /\ t' = n /\ n' = Next1(n) /\ soft' = Unlink(soft, n)
      /\ op[TimerThread] = "none" /\ irq = "off"
  BY DEF ScanExpire, TimerThreadAt
<1>f. /\ tick' = tick /\ timeout' = timeout /\ init' = init
      /\ periodic' = periodic /\ active' = active /\ hard' = hard
      /\ dead' = dead /\ irq' = irq /\ cb' = cb /\ op' = op /\ on' = on
      /\ asleep' = asleep /\ nxt' = nxt /\ left' = left /\ asked' = asked
      /\ outdated' = outdated
  BY DEF ScanExpire, fields, interrupt, calls
<1>n. n \in Soft /\ n \in User /\ Linked(soft, n) /\ InList(n) /\ n \notin Hard
  BY <1>0, <1>1, Kinds DEF PlaceInv, TimerTypeOK, User, InList
<1>2. /\ Lists(hard', soft')
      /\ \A v : Linked(hard', v) <=> Linked(hard, v)
      /\ \A v : Linked(soft', v) <=> (Linked(soft, v) /\ v # n)
  BY <1>0, <1>1, <1>f, <1>n, RemoveLinked DEF Lists
<1>3. \A v : InList(v)' <=> (InList(v) /\ v # n)
  <2>1. ~Linked(hard, n)
    BY <1>1, <1>n, BothLists, Kinds DEF HardTimers
  <2> QED
    BY <1>2, <2>1 DEF InList
<1>e. /\ n' # None => n' \in Soft /\ Linked(soft, n') /\ n' # n /\ InList(n')
      /\ t = None /\ cb = None
  <2>1. n' # None => n' \in Soft /\ Linked(soft, n') /\ n' # n
    BY <1>0, <1>1, <1>n, NextLinked DEF Lists
  <2> QED
    BY <1>0, <1>1, <2>1 DEF InList, PlaceInv
<1>4. /\ Wake # None /\ Wake \notin Soft
      /\ \A v \in User : v # Wake /\ v # None
  BY Kinds
<1>5. TimerTypeOK'
  <2>1. hard' \in Seq(HardTimers) /\ soft' \in Seq(Soft)
    BY <1>2 DEF Lists
  <2>2. at' \in Locations /\ cur' \in 0..TickMax
    BY <1>0, TickType DEF Locations
  <2> QED
    BY <1>0, <1>1, <1>e, <1>f, <1>n, <2>1, <2>2 DEF TimerTypeOK, HardTimers
<1>6. (Linked(hard, Wake) => asleep)'
  BY <1>0, <1>1, <1>2, <1>4, <1>f, <1>e, <1>n DEF PlaceInv
<1>7. CallerInv'
  BY <1>0, <1>1, <1>4, <1>f, <1>e, <1>n
     DEF CallerInv, OwnCallback, PlaceInv, Runs, TimerTypeOK
<1>8. PlaceInv'
  BY <1>0, <1>1, <1>2, <1>4, <1>f, <1>e, <1>n DEF PlaceInv, Runs, TimerTypeOK
<1>9. StartInv'
  BY <1>0, <1>1, <1>2, <1>3, <1>4, <1>f, <1>e, <1>n
     DEF StartInv, TimerTypeOK, Engaged
<1>10. StopInv'
  BY <1>0, <1>1, <1>2, <1>3, <1>4, <1>f, <1>e, <1>n
     DEF StopInv, TimerTypeOK, Engaged
<1>11. DeadInv'
  BY <1>0, <1>1, <1>2, <1>3, <1>4, <1>f, <1>e, <1>n DEF DeadInv, TimerTypeOK
<1>12. AskedInv'
  BY <1>0, <1>1, <1>2, <1>3, <1>4, <1>f, <1>e, <1>n
     DEF AskedInv, TimerTypeOK, Engaged
<1> QED
  BY <1>2, <1>5, <1>6, <1>7, <1>8, <1>9, <1>10, <1>11, <1>12
     DEF ControlInv, ListInv

(* The callback of a hard timer returns. *)
LEMMA CallbackReturnControl ==
  ASSUME Tidy, ControlInv, CallbackReturn
  PROVE  ControlInv'
<1>1. /\ TimerTypeOK /\ Lists(hard, soft) /\ (Linked(hard, Wake) => asleep)
      /\ CallerInv /\ PlaceInv /\ StartInv /\ StopInv /\ DeadInv /\ AskedInv
  BY DEF ControlInv, ListInv
<1>0. /\ irq = "callback" /\ irq' = "check" /\ cb' = None /\ Rearm(cb)
  BY DEF CallbackReturn
<1>f. /\ tick' = tick /\ init' = init /\ periodic' = periodic /\ dead' = dead
      /\ op' = op /\ on' = on /\ at' = at /\ asleep' = asleep /\ cur' = cur
      /\ nxt' = nxt /\ t' = t /\ n' = n /\ outdated' = outdated
  BY DEF CallbackReturn, calls, thread
<1>p. /\ cb \in User /\ cb \in Hard /\ cb \notin Soft /\ cb # None
      /\ cb \notin {t, n} /\ cb \notin dead /\ (InList(cb) => cb \in periodic)
      /\ \A d \in Caller : ~Engaged(d, cb, {"tick", "link", "flag"})
  <2>1. cb \in Hard /\ cb \in User
    BY <1>0, <1>1, Kinds DEF PlaceInv, TimerTypeOK, User
  <2>2. cb \notin {t, n} /\ cb \notin Soft /\ cb # None
    BY <1>1, <2>1, Kinds DEF TimerTypeOK
  <2>3. InList(cb) => cb \in periodic
    BY <1>1, <2>2, BothLists DEF PlaceInv, InList
  <2> QED
    BY <1>1, <2>1, <2>2, <2>3 DEF StartInv, StopInv, DeadInv, Engaged
<1>2. /\ Lists(hard', soft')
      /\ \/ /\ cb \in periodic /\ cb \in active /\ asked' = asked
            /\ active' = active \union {cb}
            /\ \A v : Linked(hard', v)
                     <=> (Linked(hard, v) \/ (v = cb /\ cb \in Hard))
            /\ \A v : Linked(soft', v)
                     <=> (Linked(soft, v) \/ (v = cb /\ cb \in Soft))
         \/ /\ ~(cb \in periodic /\ cb \in active)
            /\ active' = active \ {cb}
            /\ asked' = IF cb \in periodic \/ InList(cb) THEN asked
                        ELSE asked \ {cb}
            /\ \A v : Linked(hard', v) <=> Linked(hard, v)
            /\ \A v : Linked(soft', v) <=> Linked(soft, v)
  <2>1. CASE cb \in periodic /\ cb \in active
    <3>1. Link(cb, timeout'[cb]) /\ asked' = asked
      BY <1>0, <2>1 DEF Rearm
    <3> QED
      BY <1>1, <1>p, <2>1, <3>1, LinkLists
  <2>2. CASE ~(cb \in periodic /\ cb \in active)
    <3>1. Linked(hard \o soft, cb) <=> InList(cb)
      BY <1>1, BothLists
    <3> QED
      BY <1>0, <1>1, <2>2, <3>1 DEF Rearm
  <2> QED
    BY <2>1, <2>2
<1>3. \A v : InList(v)' <=> (InList(v) \/ (v = cb /\ cb \in periodic
                                          /\ cb \in active))
  BY <1>p, <1>2 DEF InList, User
<1>q. cb \in active <=> cb \in asked
  BY <1>1, <1>p DEF AskedInv
<1>4. /\ Wake # None /\ Wake \notin Soft
      /\ \A v \in User : v # Wake /\ v # None
  BY Kinds
<1>5. TimerTypeOK'
  <2>1. hard' \in Seq(HardTimers) /\ soft' \in Seq(Soft)
    BY <1>2 DEF Lists
  <2>5. init[cb] \in Int /\ tick + init[cb] \in Int
    BY <1>1, <1>p DEF TimerTypeOK
  <2>6. (tick + init[cb]) % TickMod \in 0..TickMax
    BY <2>5, TickType
  <2>7. timeout' \in [Timers -> 0..TickMax] /\ left' \in [Timers -> Int]
    <3>1. CASE cb \in periodic /\ cb \in active
      BY <1>0, <1>1, <2>5, <2>6, <3>1 DEF TimerTypeOK, Rearm
    <3>2. CASE ~(cb \in periodic /\ cb \in active)
      BY <1>0, <1>1, <3>2 DEF TimerTypeOK, Rearm
    <3> QED
      BY <3>1, <3>2
  <2>8. active' \subseteq User /\ asked' \subseteq User
    BY <1>1, <1>2, <1>p DEF TimerTypeOK
  <2> QED
    BY <1>0, <1>1, <1>f, <2>1, <2>5, <2>6, <2>7, <2>8
       DEF TimerTypeOK, HardTimers
<1>6. (Linked(hard, Wake) => asleep)'
  BY <1>0, <1>1, <1>2, <1>4, <1>f, <1>p DEF PlaceInv
<1>7. CallerInv'
  BY <1>0, <1>1, <1>4, <1>f, <1>p
     DEF CallerInv, OwnCallback, PlaceInv, Runs, TimerTypeOK
<1>8. PlaceInv'
  BY <1>0, <1>1, <1>2, <1>4, <1>f, <1>p DEF PlaceInv, Runs, TimerTypeOK
<1>9. StartInv'
  BY <1>0, <1>1, <1>2, <1>3, <1>4, <1>f, <1>p
     DEF StartInv, TimerTypeOK, Engaged
<1>10. StopInv'
  BY <1>0, <1>1, <1>2, <1>3, <1>4, <1>f, <1>p
     DEF StopInv, TimerTypeOK, Engaged
<1>11. DeadInv'
  BY <1>0, <1>1, <1>2, <1>3, <1>4, <1>f, <1>p DEF DeadInv, TimerTypeOK
<1>12. AskedInv'
  <2>1. CASE cb \in periodic /\ cb \in active
    <3>1. ASSUME NEW u \in User PROVE (InList(u) => u \in asked)'
      BY <1>0, <1>1, <1>2, <1>3, <1>f, <1>p, <1>q, <2>1
         DEF AskedInv, Engaged
    <3>2. ASSUME NEW u \in User
          PROVE  (u \in asked =>
                    \/ InList(u) \/ u = cb \/ u = t
                    \/ \E c \in Caller : Engaged(c, u, {"tick", "link"}))'
      BY <1>0, <1>1, <1>2, <1>3, <1>f, <1>p, <1>q, <2>1
         DEF AskedInv, Engaged
    <3>3. ASSUME NEW u \in User
          PROVE  (u \notin dead
                  /\ (\A c \in Caller :
                        ~Engaged(c, u, {"tick", "link", "flag"}))
                    => (u \in active <=> u \in asked))'
      BY <1>0, <1>1, <1>2, <1>3, <1>f, <1>p, <1>q, <2>1
         DEF AskedInv, Engaged
    <3> QED
      BY <3>1, <3>2, <3>3 DEF AskedInv
  <2>2. CASE ~(cb \in periodic /\ cb \in active)
    <3>1. ASSUME NEW u \in User PROVE (InList(u) => u \in asked)'
      BY <1>0, <1>1, <1>2, <1>3, <1>f, <1>p, <1>q, <2>2
         DEF AskedInv, Engaged
    <3>2. ASSUME NEW u \in User
          PROVE  (u \in asked =>
                    \/ InList(u) \/ u = cb \/ u = t
                    \/ \E c \in Caller : Engaged(c, u, {"tick", "link"}))'
      BY <1>0, <1>1, <1>2, <1>3, <1>f, <1>p, <1>q, <2>2
         DEF AskedInv, Engaged
    <3>3. ASSUME NEW u \in User
          PROVE  (u \notin dead
                  /\ (\A c \in Caller :
                        ~Engaged(c, u, {"tick", "link", "flag"}))
                    => (u \in active <=> u \in asked))'
      BY <1>0, <1>1, <1>2, <1>3, <1>f, <1>p, <1>q, <2>2
         DEF AskedInv, Engaged
    <3> QED
      BY <3>1, <3>2, <3>3 DEF AskedInv
  <2> QED
    BY <2>1, <2>2
<1> QED
  BY <1>2, <1>5, <1>6, <1>7, <1>8, <1>9, <1>10, <1>11, <1>12
     DEF ControlInv, ListInv

(* rt_soft_timer_check: after the callback, with the scheduler locked. *)
LEMMA SoftAfterControl ==
  ASSUME Tidy, ControlInv, SoftAfter
  PROVE  ControlInv'
<1>1. /\ TimerTypeOK /\ Lists(hard, soft) /\ (Linked(hard, Wake) => asleep)
      /\ CallerInv /\ PlaceInv /\ StartInv /\ StopInv /\ DeadInv /\ AskedInv
  BY DEF ControlInv, ListInv
<1>0. /\ at = "after" /\ at' = "scan" /\ ~asleep /\ t' = None /\ Rearm(t)
      /\ irq = "off" /\ op[TimerThread] = "none"
  BY DEF SoftAfter, TimerThreadAt
<1>f. /\ tick' = tick /\ init' = init /\ periodic' = periodic /\ dead' = dead
      /\ irq' = irq /\ cb' = cb /\ op' = op /\ on' = on /\ asleep' = asleep
      /\ cur' = cur /\ nxt' = nxt /\ n' = n /\ outdated' = outdated
  BY DEF SoftAfter, interrupt, calls
<1>p. /\ t \in User /\ t \in Soft /\ t \notin Hard /\ t # None /\ cb = None
      /\ t # n /\ t \notin dead /\ ~InList(t)
      /\ \A d \in Caller : ~Engaged(d, t, {"tick", "link", "flag"})
  <2>1. t \in Soft /\ t \in User /\ t # None /\ cb = None /\ t \notin Hard
    BY <1>0, <1>1, Kinds DEF PlaceInv, TimerTypeOK, User
  <2>2. t # n
    BY <1>1, <2>1 DEF PlaceInv
  <2>3. ~InList(t)
    BY <1>1, <2>1, BothLists, Kinds DEF PlaceInv, InList, HardTimers
  <2>4. t \notin dead
    BY <1>1, <2>1 DEF DeadInv
  <2>5. \A d \in Caller : ~Engaged(d, t, {"tick", "link", "flag"})
    BY <1>0, <1>1, <2>1, Kinds DEF StartInv, StopInv, CallerInv, Engaged
  <2> QED
    BY <2>1, <2>2, <2>3, <2>4, <2>5
<1>2. /\ Lists(hard', soft')
      /\ \/ /\ t \in periodic /\ t \in active /\ asked' = asked
            /\ active' = active \union {t}
            /\ \A v : Linked(hard', v)
                     <=> (Linked(hard, v) \/ (v = t /\ t \in Hard))
            /\ \A v : Linked(soft', v)
                     <=> (Linked(soft, v) \/ (v = t /\ t \in Soft))
         \/ /\ ~(t \in periodic /\ t \in active)
            /\ active' = active \ {t}
            /\ asked' = IF t \in periodic \/ InList(t) THEN asked
                        ELSE asked \ {t}
            /\ \A v : Linked(hard', v) <=> Linked(hard, v)
            /\ \A v : Linked(soft', v) <=> Linked(soft, v)
  <2>1. CASE t \in periodic /\ t \in active
    <3>1. Link(t, timeout'[t]) /\ asked' = asked
      BY <1>0, <2>1 DEF Rearm
    <3> QED
      BY <1>1, <1>p, <2>1, <3>1, LinkLists
  <2>2. CASE ~(t \in periodic /\ t \in active)
    <3>1. Linked(hard \o soft, t) <=> InList(t)
      BY <1>1, BothLists
    <3> QED
      BY <1>0, <1>1, <2>2, <3>1 DEF Rearm
  <2> QED
    BY <2>1, <2>2
<1>3. \A v : InList(v)' <=> (InList(v) \/ (v = t /\ t \in periodic
                                          /\ t \in active))
  BY <1>p, <1>2 DEF InList, User
<1>q. t \in active <=> t \in asked
  BY <1>1, <1>p DEF AskedInv
<1>4. /\ Wake # None /\ Wake \notin Soft
      /\ \A v \in User : v # Wake /\ v # None
  BY Kinds
<1>5. TimerTypeOK'
  <2>1. hard' \in Seq(HardTimers) /\ soft' \in Seq(Soft)
    BY <1>2 DEF Lists
  <2>5. init[t] \in Int /\ tick + init[t] \in Int
    BY <1>1, <1>p DEF TimerTypeOK
  <2>6. (tick + init[t]) % TickMod \in 0..TickMax
    BY <2>5, TickType
  <2>7. timeout' \in [Timers -> 0..TickMax] /\ left' \in [Timers -> Int]
    <3>1. CASE t \in periodic /\ t \in active
      BY <1>0, <1>1, <2>5, <2>6, <3>1 DEF TimerTypeOK, Rearm
    <3>2. CASE ~(t \in periodic /\ t \in active)
      BY <1>0, <1>1, <3>2 DEF TimerTypeOK, Rearm
    <3> QED
      BY <3>1, <3>2
  <2>8. active' \subseteq User /\ asked' \subseteq User
    BY <1>1, <1>2, <1>p DEF TimerTypeOK
  <2>9. at' \in Locations
    BY <1>0 DEF Locations
  <2> QED
    BY <1>0, <1>1, <1>f, <2>1, <2>5, <2>6, <2>7, <2>8, <2>9
       DEF TimerTypeOK, HardTimers
<1>6. (Linked(hard, Wake) => asleep)'
  BY <1>0, <1>1, <1>2, <1>4, <1>f, <1>p DEF PlaceInv
<1>7. CallerInv'
  BY <1>0, <1>1, <1>4, <1>f, <1>p
     DEF CallerInv, OwnCallback, PlaceInv, Runs, TimerTypeOK
<1>8. PlaceInv'
  BY <1>0, <1>1, <1>2, <1>4, <1>f, <1>p DEF PlaceInv, Runs, TimerTypeOK
<1>9. StartInv'
  BY <1>0, <1>1, <1>2, <1>3, <1>4, <1>f, <1>p
     DEF StartInv, TimerTypeOK, Engaged
<1>10. StopInv'
  BY <1>0, <1>1, <1>2, <1>3, <1>4, <1>f, <1>p
     DEF StopInv, TimerTypeOK, Engaged
<1>11. DeadInv'
  BY <1>0, <1>1, <1>2, <1>3, <1>4, <1>f, <1>p DEF DeadInv, TimerTypeOK
<1>12. AskedInv'
  <2>1. CASE t \in periodic /\ t \in active
    <3>1. ASSUME NEW u \in User PROVE (InList(u) => u \in asked)'
      BY <1>0, <1>1, <1>2, <1>3, <1>f, <1>p, <1>q, <2>1
         DEF AskedInv, Engaged
    <3>2. ASSUME NEW u \in User
          PROVE  (u \in asked =>
                    \/ InList(u) \/ u = cb \/ u = t
                    \/ \E c \in Caller : Engaged(c, u, {"tick", "link"}))'
      BY <1>0, <1>1, <1>2, <1>3, <1>f, <1>p, <1>q, <2>1
         DEF AskedInv, Engaged
    <3>3. ASSUME NEW u \in User
          PROVE  (u \notin dead
                  /\ (\A c \in Caller :
                        ~Engaged(c, u, {"tick", "link", "flag"}))
                    => (u \in active <=> u \in asked))'
      BY <1>0, <1>1, <1>2, <1>3, <1>f, <1>p, <1>q, <2>1
         DEF AskedInv, Engaged
    <3> QED
      BY <3>1, <3>2, <3>3 DEF AskedInv
  <2>2. CASE ~(t \in periodic /\ t \in active)
    <3>1. ASSUME NEW u \in User PROVE (InList(u) => u \in asked)'
      BY <1>0, <1>1, <1>2, <1>3, <1>f, <1>p, <1>q, <2>2
         DEF AskedInv, Engaged
    <3>2. ASSUME NEW u \in User
          PROVE  (u \in asked =>
                    \/ InList(u) \/ u = cb \/ u = t
                    \/ \E c \in Caller : Engaged(c, u, {"tick", "link"}))'
      BY <1>0, <1>1, <1>2, <1>3, <1>f, <1>p, <1>q, <2>2
         DEF AskedInv, Engaged
    <3>3. ASSUME NEW u \in User
          PROVE  (u \notin dead
                  /\ (\A c \in Caller :
                        ~Engaged(c, u, {"tick", "link", "flag"}))
                    => (u \in active <=> u \in asked))'
      BY <1>0, <1>1, <1>2, <1>3, <1>f, <1>p, <1>q, <2>2
         DEF AskedInv, Engaged
    <3> QED
      BY <3>1, <3>2, <3>3 DEF AskedInv
  <2> QED
    BY <2>1, <2>2
<1> QED
  BY <1>2, <1>5, <1>6, <1>7, <1>8, <1>9, <1>10, <1>11, <1>12
     DEF ControlInv, ListInv

(* The control state is as it should be at the start. *)
LEMMA InitControl == TimerInit => ControlInv
<1> SUFFICES ASSUME TimerInit PROVE ControlInv
  OBVIOUS
<1>1. Len(hard) = 0 /\ Len(soft) = 0 /\ hard \in Seq(HardTimers)
      /\ soft \in Seq(Soft)
  BY DEF TimerInit
<1>2. \A v : ~Linked(hard, v) /\ ~Linked(soft, v)
  BY <1>1 DEF Linked
<1>3. Once(hard) /\ Once(soft)
  BY <1>1 DEF Once
<1>4. dead \subseteq User /\ Periodic \subseteq User
  BY TimerAssumption DEF TimerInit
<1>5. TimerTypeOK
  <2>1. /\ timeout \in [Timers -> 0..TickMax] /\ left \in [Timers -> Int]
        /\ op \in [Caller -> Operations]
        /\ on \in [Caller -> User \union {None}] /\ init \in [User -> Nat]
    BY TickAssumption, TickType DEF TimerInit, Operations
  <2>2. /\ hard \in Seq(Hard \union {Wake}) /\ soft \in Seq(Soft)
        /\ tick \in 0..TickMax /\ cur \in 0..TickMax /\ nxt \in 0..TickMax
        /\ at \in Locations
    BY <1>1, TickType DEF TimerInit, HardTimers, Locations
  <2> QED
    BY <1>4, <2>1, <2>2 DEF TimerInit, TimerTypeOK
<1>6. CallerInv /\ PlaceInv
  BY <1>2 DEF TimerInit, CallerInv, PlaceInv, Caller
<1>7. StartInv /\ StopInv /\ DeadInv /\ AskedInv
  BY <1>2, <1>4, Kinds
     DEF TimerInit, StartInv, StopInv, DeadInv, AskedInv, Engaged, InList
<1> QED
  BY <1>1, <1>2, <1>3, <1>5, <1>6, <1>7 DEF ControlInv, ListInv, Lists

(* Every step keeps it so. *)
LEMMA NextControl ==
  Tidy /\ ControlInv /\ [TimerNext]_timerVars => ControlInv'
<1> SUFFICES ASSUME Tidy, ControlInv, [TimerNext]_timerVars PROVE ControlInv'
  OBVIOUS
<1>1. CASE UNCHANGED timerVars
  BY <1>1 DEF timerVars, ControlInv, ListInv, TimerTypeOK, CallerInv, PlaceInv,
     StartInv, StopInv, DeadInv, AskedInv, Engaged, InList, OwnCallback
<1>2. CASE Tick \/ ClockStep
  BY <1>2, TickControl, CheckExpireControl, CallbackReturnControl,
     CheckEndControl DEF ClockStep
<1>3. CASE ThreadStep
  BY <1>3, ReadNextControl, SuspendSelfControl, ReadTickControl, SleepControl,
     CheckSoftControl, ScanExpireControl, ScanEndControl, SoftReturnControl,
     SoftAfterControl DEF ThreadStep
<1>4. ASSUME NEW u \in User,
             CallbackStart(u) \/ CallbackStop(u) \/ Control(Clock, u)
      PROVE  ControlInv'
  BY <1>4, CallbackStartControl, CallbackStopControl, SetUpControl
<1>5. ASSUME NEW u \in User, NEW c \in Caller,
             \/ StartUnlink(c, u) \/ StopTest(c, u)
             \/ Control(c, u) \/ Detach(c, u)
      PROVE  ControlInv'
  BY <1>5, StartUnlinkControl, StopTestControl, SetUpControl, DetachControl
<1>6. ASSUME NEW c \in Caller, CallerStep(c)
      PROVE  ControlInv'
  BY <1>6, StartTickControl, StartLinkControl, StartTestControl,
     StartResumeControl, StopUnlinkControl, StopFlagControl DEF CallerStep
<1> QED
  BY <1>1, <1>2, <1>3, <1>4, <1>5, <1>6 DEF TimerNext

(* The control part of the invariant of the timers. *)
THEOREM TimerControl == Tidy /\ TimerSpec => []ControlInv
<1> SUFFICES ASSUME Tidy PROVE TimerSpec => []ControlInv
  OBVIOUS
<1>1. TimerInit => ControlInv
  BY InitControl
<1>2. ControlInv /\ [TimerNext]_timerVars => ControlInv'
  BY NextControl
<1> QED
  BY <1>1, <1>2, PTL DEF TimerSpec

(* A timer is linked and marked active exactly when the last that was said *)
(* about it is that it should run.                                         *)
THEOREM TimersRunAsAsked == Tidy /\ TimerSpec => []RunsAsAsked
<1>1. ControlInv => RunsAsAsked
  <2> SUFFICES ASSUME ControlInv, NEW u \in User, ~InProgress(u)
               PROVE  /\ Linked(hard \o soft, u) <=> u \in asked
                      /\ u \notin dead => (u \in active <=> u \in asked)
    BY DEF RunsAsAsked
  <2>1. Lists(hard, soft) /\ AskedInv
    BY DEF ControlInv, ListInv
  <2>2. Linked(hard \o soft, u) <=> InList(u)
    BY <2>1, BothLists
  <2> QED
    BY <2>1, <2>2 DEF AskedInv, InProgress, Engaged
<1> QED
  BY <1>1, TimerControl, PTL

(* A timer that was stopped or detached and not started since does not     *)
(* have its callback called: this is what careful callers are careful for. *)
THEOREM StoppedTimersAreSilent == Tidy /\ TimerSpec => SilentAfterStop
<1>1. ControlInv /\ [TimerNext]_timerVars =>
        [/\ CheckExpire => Head(hard) \in asked \union {Wake}
         /\ ScanExpire => n \in asked]_timerVars
  <2> SUFFICES ASSUME ControlInv
               PROVE  /\ CheckExpire => Head(hard) \in asked \union {Wake}
                      /\ ScanExpire => n \in asked
    OBVIOUS
  <2>1. /\ TimerTypeOK /\ Lists(hard, soft) /\ PlaceInv /\ AskedInv
    BY DEF ControlInv, ListInv
  <2>2. ASSUME CheckExpire
        PROVE  Head(hard) \in asked \union {Wake}
    <3>1. Linked(hard, Head(hard)) /\ Head(hard) \in Hard \union {Wake}
      BY <2>1, <2>2, TailLists DEF CheckExpire, Lists, HardTimers
    <3> QED
      BY <2>1, <3>1 DEF AskedInv, InList, User
  <2>3. ASSUME ScanExpire
        PROVE  n \in asked
    BY <2>1, <2>3 DEF ScanExpire, PlaceInv, AskedInv, InList, User, TimerTypeOK
  <2> QED
    BY <2>2, <2>3
<1> QED
  BY <1>1, TimerControl, PTL DEF TimerSpec, SilentAfterStop
------------------------------------------------------------------------------
(* The times that the proofs of the time part assume: every one is at most *)
(* K, and twice K, with how late a thread may be, fits in the ticks that   *)
(* the comparison of tick counters takes for the past.                     *)
Half == TickMax \div 2
Bounded(K) ==
    /\ K \in Nat \ {0}
    /\ K + MaxLag < Half /\ 2 * K + MaxLag <= TickMod - Half
    /\ \A k \in NewTicks : k <= K
    /\ \A u \in User : InitTick[u] <= K

(* The clock interrupt has counted the tick already. *)
Late == IF irq = "off" THEN 0 ELSE 1

(* The timeout tick of a timer that runs says what is left.                *)
TickInv(K) ==
    /\ \A u \in User : init[u] <= K
    /\ \A u \in Running :
         timeout[u] = (tick + left[u]) % TickMod /\ left[u] <= K
    /\ \A c \in Caller : op[c] = "link" => -MaxLag <= left[on[c]]

HardInv ==
    /\ Sorted(hard, left)
    /\ \A u \in Timers : Linked(hard, u) => -MaxLag - Late <= left[u]
    /\ Linked(hard, Wake) => -Late <= left[Wake]

(* How long the timer thread may have slept on its timer. *)
Slept(K) ==
    IF irq = "off" THEN IF left[Wake] > 0 THEN K - left[Wake] ELSE 0
    ELSE IF left[Wake] >= 0 THEN K - left[Wake] ELSE 1

SoftInv(K) ==
    /\ Sorted(soft, left)
    /\ \A u \in Soft : Linked(soft, u) =>
         /\ -(MaxLag + K) <= left[u]
         /\ asleep /\ Linked(hard, Wake) => -MaxLag - Slept(K) <= left[u]

(* No soft timer is due before d, or what was read is out of date.         *)
NoneBefore(d) ==
    \A u \in Soft : Linked(soft, u) =>
       d <= left[u] \/ (outdated /\ -MaxLag <= left[u])

(* What the timer thread has read, and how old it is. *)
ReadInv(K) ==
    /\ at = "delay" => \E d \in -(MaxLag + K)..K :
         nxt = (tick + d) % TickMod /\ NoneBefore(d)
    /\ at = "sleep" => nxt \in 0..K /\ NoneBefore(nxt)
    /\ at = "suspend" => outdated \/ \A u \in Soft : ~Linked(soft, u)
    /\ at \in {"scan", "after"} /\ n # None => \E g \in 0..TickMod :
         cur = (tick - g) % TickMod /\ left[n] + g <= K

WakeInv ==
    asleep /\ ~outdated =>
      \/ \A u \in Soft : Linked(soft, u) =>
           Linked(hard, Wake) /\ left[Wake] <= left[u]
      \/ \E c \in Caller : op[c] \in {"test", "resume"}

TimeInv(K) ==
    TickInv(K) /\ HardInv /\ SoftInv(K) /\ ReadInv(K) /\ WakeInv

------------------------------------------------------------------------------
(* A counter that has wrapped at most once, either way.                    *)
LEMMA Wraps ==
  ASSUME NEW x \in -TickMod..(2 * TickMod - 1)
  PROVE  x % TickMod = IF x < 0 THEN x + TickMod
                       ELSE IF x < TickMod THEN x ELSE x - TickMod
<1>0. TickMod \in Nat \ {0}
  BY TickType
<1>1. CASE x \in 0..(TickMod - 1)
  BY <1>0, <1>1
<1>2. CASE x \in TickMod..(2 * TickMod - 1)
  BY <1>0, <1>2
<1>3. CASE x \in (-TickMod)..(-1)
  BY <1>0, <1>3
<1> QED
  BY <1>0, <1>1, <1>2, <1>3

(* The half of the counter. *)
LEMMA HalfTick ==
  /\ Half \in Nat /\ 2 * Half + 1 <= TickMod /\ TickMod <= 2 * Half + 2
BY TickType DEF Half, TickMax

(* The unsigned difference of two counters that are a and b from the tick. *)
LEMMA AheadOf ==
  ASSUME tick \in 0..TickMax,
         NEW a \in -TickMod..(TickMod - 1), NEW b \in -TickMod..(TickMod - 1),
         a - b \in -TickMod..(TickMod - 1)
  PROVE  Ahead((tick + a) % TickMod, (tick + b) % TickMod)
           = IF a < b THEN a - b + TickMod ELSE a - b
<1> DEFINE x == (tick + a) % TickMod
           y == (tick + b) % TickMod
<1>0. TickMod \in Nat \ {0} /\ tick \in 0..(TickMod - 1)
  BY TickType DEF TickMax
<1>1. x = IF tick + a < 0 THEN tick + a + TickMod
          ELSE IF tick + a < TickMod THEN tick + a ELSE tick + a - TickMod
  <2> DEFINE s == tick + a
  <2>1. s \in -TickMod..(2 * TickMod - 1)
    BY <1>0
  <2> HIDE DEF s
  <2>2. s % TickMod = IF s < 0 THEN s + TickMod
                      ELSE IF s < TickMod THEN s ELSE s - TickMod
    BY <2>1, Wraps
  <2> QED
    BY <1>0, <2>1, <2>2 DEF s
<1>2. y = IF tick + b < 0 THEN tick + b + TickMod
          ELSE IF tick + b < TickMod THEN tick + b ELSE tick + b - TickMod
  <2> DEFINE s == tick + b
  <2>1. s \in -TickMod..(2 * TickMod - 1)
    BY <1>0
  <2> HIDE DEF s
  <2>2. s % TickMod = IF s < 0 THEN s + TickMod
                      ELSE IF s < TickMod THEN s ELSE s - TickMod
    BY <2>1, Wraps
  <2> QED
    BY <1>0, <2>1, <2>2 DEF s
<1>3. /\ x \in 0..(TickMod - 1) /\ y \in 0..(TickMod - 1)
      /\ x - y \in {a - b, a - b + TickMod, a - b - TickMod}
  BY <1>0, <1>1, <1>2
<1> HIDE DEF x, y
<1>4. x - y \in -TickMod..(2 * TickMod - 1)
  BY <1>0, <1>3
<1>5. (x - y) % TickMod = IF x - y < 0 THEN x - y + TickMod
                          ELSE IF x - y < TickMod THEN x - y
                          ELSE x - y - TickMod
  BY <1>4, Wraps
<1>6. (x - y) % TickMod = IF a < b THEN a - b + TickMod ELSE a - b
  BY <1>0, <1>3, <1>5
<1> QED
  BY <1>6 DEF Ahead, x, y

(* Which of two timers expires first is told by their timeout ticks.       *)
LEMMA LaterIff ==
  ASSUME tick \in 0..TickMax, NEW K, Bounded(K),
         NEW a \in -(MaxLag + K)..K, NEW b \in -MaxLag..K
  PROVE  LET d == Ahead((tick + a) % TickMod, (tick + b) % TickMod)
         IN  (d # 0 /\ Near(d)) <=> b < a
<1>1. /\ Half \in Nat /\ 2 * Half + 1 <= TickMod /\ TickMod \in Nat
      /\ K \in Nat /\ MaxLag \in Nat /\ K + MaxLag < Half
      /\ 2 * K + MaxLag <= TickMod - Half
  BY HalfTick, TickAssumption DEF Bounded
<1>2. /\ a \in -TickMod..(TickMod - 1) /\ b \in -TickMod..(TickMod - 1)
      /\ a - b \in -TickMod..(TickMod - 1)
  BY <1>1
<1>3. Ahead((tick + a) % TickMod, (tick + b) % TickMod)
        = IF a < b THEN a - b + TickMod ELSE a - b
  BY <1>2, AheadOf
<1> QED
  BY <1>1, <1>3 DEF Near, Half

(* A timer with time a left is due at a tick that is g ticks old exactly   *)
(* when it was due then.                                                   *)
LEMMA DueIff ==
  ASSUME tick \in 0..TickMax, NEW K, Bounded(K), NEW u,
         NEW a \in Int, NEW g \in Nat, g <= TickMod - 1,
         timeout[u] = (tick + a) % TickMod,
         -(MaxLag + K) <= a, a + g <= K, -Half < a + g
  PROVE  Due((tick - g) % TickMod, u) <=> a + g <= 0
<1>1. /\ Half \in Nat /\ 2 * Half + 1 <= TickMod /\ TickMod \in Nat
      /\ K \in Nat /\ MaxLag \in Nat /\ K + MaxLag < Half
      /\ 2 * K + MaxLag <= TickMod - Half
  BY HalfTick, TickAssumption DEF Bounded
<1>2. /\ -g \in -TickMod..(TickMod - 1) /\ a \in -TickMod..(TickMod - 1)
      /\ (-g) - a \in -TickMod..(TickMod - 1)
  BY <1>1
<1>3. Ahead((tick + (-g)) % TickMod, (tick + a) % TickMod)
        = IF -g < a THEN -g - a + TickMod ELSE -g - a
  BY <1>2, AheadOf
<1>4. tick + (-g) = tick - g
  <2>1. tick \in Int
    BY TickType
  <2> QED
    BY <2>1
<1> QED
  BY <1>1, <1>3, <1>4 DEF Due, Near, Half

------------------------------------------------------------------------------
(* A list stays sorted when its keys keep their order. *)
LEMMA SortedKeys ==
  ASSUME NEW row, NEW key, NEW more, Sorted(row, key),
         \A u, v : Linked(row, u) /\ Linked(row, v) /\ key[u] <= key[v]
                     => more[u] <= more[v]
  PROVE  Sorted(row, more)
<1> SUFFICES ASSUME NEW i \in 1..Len(row), NEW j \in 1..Len(row), i < j
             PROVE  more[row[i]] <= more[row[j]]
  BY DEF Sorted
<1>1. key[row[i]] <= key[row[j]]
  BY DEF Sorted
<1>2. Linked(row, row[i]) /\ Linked(row, row[j])
  BY DEF Linked
<1> QED
  BY <1>1, <1>2

(* The first of a sorted list is the smallest. *)
LEMMA HeadSmallest ==
  ASSUME NEW T, NEW row \in Seq(T), NEW key, \A v \in T : key[v] \in Int,
         Sorted(row, key), NEW u, Linked(row, u)
  PROVE  row # <<>> /\ key[Head(row)] <= key[u]
<1>0. Len(row) \in Nat /\ \A k \in 1..Len(row) : row[k] \in T
  BY LenProperties, ElementOfSeq
<1>1. PICK i \in 1..Len(row) : row[i] = u
  BY DEF Linked
<1>2. row # <<>> /\ Head(row) = row[1]
  BY <1>0, <1>1
<1>3. 1 \in 1..Len(row) /\ (1 = i \/ 1 < i)
  BY <1>0, <1>1
<1>4. CASE 1 < i
  BY <1>1, <1>2, <1>3, <1>4 DEF Sorted
<1>5. CASE 1 = i
  BY <1>0, <1>1, <1>2, <1>3, <1>5
<1> QED
  BY <1>3, <1>4, <1>5, <1>2

(* rt_timer_start keeps a list in order.                                   *)
LEMMA InsertSorted ==
  ASSUME tick \in 0..TickMax, NEW K, Bounded(K),
         NEW T, NEW row \in Seq(T), NEW u \in T,
         NEW key, \A v \in T : key[v] \in Int,
         Sorted(row, key),
         \A v : Linked(row, v) => /\ timeout[v] = (tick + key[v]) % TickMod
                                   /\ key[v] \in -(MaxLag + K)..K,
         key[u] \in -MaxLag..K
  PROVE  Sorted(Insert(row, u, (tick + key[u]) % TickMod), key)
<1> DEFINE now == (tick + key[u]) % TickMod
           e == Insert(row, u, now)
<1>0. /\ Len(row) \in Nat /\ DOMAIN row = 1..Len(row)
      /\ \A k \in 1..Len(row) : row[k] \in T
  BY LenProperties, ElementOfSeq
<1>1. \A k \in 1..Len(row) : k \in ExpiresLater(row, now)
                                <=> key[u] < key[row[k]]
  <2> SUFFICES ASSUME NEW k \in 1..Len(row)
               PROVE  k \in ExpiresLater(row, now) <=> key[u] < key[row[k]]
    OBVIOUS
  <2>1. Linked(row, row[k])
    BY DEF Linked
  <2>2. /\ timeout[row[k]] = (tick + key[row[k]]) % TickMod
        /\ key[row[k]] \in -(MaxLag + K)..K
    BY <2>1
  <2>3. LET d == Ahead((tick + key[row[k]]) % TickMod, now)
        IN  (d # 0 /\ Near(d)) <=> key[u] < key[row[k]]
    BY <2>2, LaterIff
  <2> HIDE DEF now
  <2> QED
    BY <1>0, <2>2, <2>3 DEF ExpiresLater
<1> HIDE DEF now
<1>2. PICK p \in Nat :
        /\ IsInsertion(e, row, p, u)
        /\ \A i \in 1..Len(row) : i < p => i \notin ExpiresLater(row, now)
        /\ p <= Len(row) => p \in ExpiresLater(row, now)
  BY InsertPlace
<1> HIDE DEF e
<1>3. p \in 1..(Len(row) + 1)
  BY <1>2 DEF IsInsertion
<1>4. ASSUME NEW k \in 1..Len(row)
      PROVE  /\ k < p => key[row[k]] <= key[u]
             /\ k >= p => key[u] <= key[row[k]]
  <2>0. key[u] \in Int /\ key[row[k]] \in Int
    BY <1>0
  <2>1. CASE k < p
    BY <1>1, <1>2, <1>3, <2>0, <2>1
  <2>2. CASE k >= p
    <3>1. p \in 1..Len(row) /\ key[u] < key[row[p]] /\ key[row[p]] \in Int
      BY <1>0, <1>1, <1>2, <1>3, <2>2
    <3>2. CASE p < k
      <4>1. key[row[p]] <= key[row[k]]
        BY <3>1, <3>2 DEF Sorted
      <4> QED
        BY <2>0, <2>2, <3>1, <4>1
    <3>3. CASE p = k
      BY <2>0, <2>2, <3>1, <3>3
    <3> QED
      BY <1>0, <1>3, <2>2, <3>2, <3>3
  <2> QED
    BY <1>0, <1>3, <2>1, <2>2
<1>5. Sorted(e, key)
  BY <1>2, <1>4, InsertionSorted
<1> QED
  BY <1>5 DEF e, now
------------------------------------------------------------------------------
(* What Bounded says of the numbers.                                       *)
LEMMA Bounds ==
  ASSUME NEW K, Bounded(K)
  PROVE  /\ K \in Nat \ {0} /\ MaxLag \in Nat /\ Half \in Nat
         /\ K + MaxLag < Half /\ 2 * K + MaxLag <= TickMod - Half
         /\ 2 * Half + 1 <= TickMod /\ TickMod \in Nat \ {0}
BY HalfTick, TickType, TickAssumption DEF Bounded

(* Steps that neither link a timer nor count a tick leave the times as     *)
(* they are.                                                               *)
LEMMA FewerTime ==
  ASSUME NEW K, TickInv(K), HardInv, SoftInv(K),
         tick' = tick, timeout' = timeout, left' = left,
         (irq' = "off") <=> (irq = "off"),
         \A u \in User : init'[u] <= K,
         Sorted(hard', left), Sorted(soft', left),
         \A v : Linked(hard', v) => Linked(hard, v),
         \A v : Linked(soft', v) => Linked(soft, v),
         \A c \in Caller : op'[c] = "link" => op[c] = "link" /\ on'[c] = on[c],
         asleep' /\ Linked(hard', Wake) => asleep
  PROVE  TickInv(K)' /\ HardInv' /\ SoftInv(K)'
<1>1. Running' \subseteq Running
  BY DEF Running
<1>2. Late' = Late /\ Slept(K)' = Slept(K)
  BY DEF Late, Slept
<1>3. TickInv(K)'
  BY <1>1 DEF TickInv
<1>4. HardInv'
  BY <1>2 DEF HardInv
<1>5. SoftInv(K)'
  <2>1. Sorted(soft', left')
    OBVIOUS
  <2>2. ASSUME NEW u \in Soft, Linked(soft', u)
        PROVE  /\ -(MaxLag + K) <= left'[u]
               /\ asleep' /\ Linked(hard', Wake)
                    => -MaxLag - Slept(K)' <= left'[u]
    BY <1>2, <2>2 DEF SoftInv
  <2> QED
    BY <2>1, <2>2 DEF SoftInv
<1> QED
  BY <1>3, <1>4, <1>5

(* Nor do they change what the timer thread has read, or who wakes it.     *)
LEMMA FewerRead ==
  ASSUME NEW K, ReadInv(K), WakeInv,
         tick' = tick, at' = at, nxt' = nxt, cur' = cur, n' = n,
         outdated' = outdated, left'[Wake] = left[Wake],
         \A v : Linked(soft', v) => Linked(soft, v) /\ left'[v] = left[v],
         n # None => left'[n] = left[n],
         asleep' => asleep /\ (Linked(hard, Wake) => Linked(hard', Wake)),
         asleep' /\ (\E c \in Caller : op[c] \in {"test", "resume"})
           => \E c \in Caller : op'[c] \in {"test", "resume"}
  PROVE  ReadInv(K)' /\ WakeInv'
<1>1. \A d : NoneBefore(d) => NoneBefore(d)'
  BY DEF NoneBefore
<1>2. ReadInv(K)'
  BY <1>1 DEF ReadInv
<1>3. WakeInv'
  BY DEF WakeInv
<1> QED
  BY <1>2, <1>3

(* A user's timer is unlinked. *)
LEMMA UnlinkTime ==
  ASSUME NEW K, TimeInv(K), ControlInv, NEW u \in User, UnlinkTimer(u),
         tick' = tick, timeout' = timeout, left' = left, irq' = irq,
         init' = init, at' = at, nxt' = nxt, cur' = cur, n' = n,
         outdated' = outdated, asleep' = asleep,
         \A c \in Caller : op'[c] = "link" => op[c] = "link" /\ on'[c] = on[c],
         \A c \in Caller : op[c] \in {"test", "resume"}
                             => op'[c] \in {"test", "resume"}
  PROVE  TimeInv(K)'
<1>1. Lists(hard, soft) /\ (Linked(hard, Wake) => asleep)
  BY DEF ControlInv, ListInv
<1>2. u \in Timers /\ u # Wake
  BY Kinds DEF Timers
<1>3. /\ \A v : Linked(hard', v) <=> (Linked(hard, v) /\ v # u)
      /\ \A v : Linked(soft', v) <=> (Linked(soft, v) /\ v # u)
  BY <1>1, <1>2, UnlinkLists
<1>4. Sorted(hard', left) /\ Sorted(soft', left)
  BY <1>1, UnlinkSorted DEF UnlinkTimer, Lists, TimeInv, HardInv, SoftInv
<1>5. TickInv(K)' /\ HardInv' /\ SoftInv(K)'
  <2>1. \A v \in User : init'[v] <= K
    BY DEF TimeInv, TickInv
  <2> QED
    BY <1>1, <1>3, <1>4, <2>1, FewerTime DEF TimeInv
<1>6. ReadInv(K)' /\ WakeInv'
  BY <1>2, <1>3, FewerRead DEF TimeInv
<1> QED
  BY <1>5, <1>6 DEF TimeInv

(* A step of a party that touches no list and no time. *)
LEMMA StillTime ==
  ASSUME NEW K, TimeInv(K), ControlInv,
         tick' = tick, timeout' = timeout, left' = left, irq' = irq,
         \A u \in User : init'[u] <= K, hard' = hard, soft' = soft,
         at' = at, nxt' = nxt, cur' = cur, n' = n,
         outdated' = outdated, asleep' = asleep,
         \A c \in Caller : op'[c] = "link" => op[c] = "link" /\ on'[c] = on[c],
         asleep /\ (\E c \in Caller : op[c] \in {"test", "resume"})
           => \E c \in Caller : op'[c] \in {"test", "resume"}
  PROVE  TimeInv(K)'
<1>1. /\ \A v : Linked(hard', v) => Linked(hard, v)
      /\ \A v : Linked(soft', v) => Linked(soft, v)
      /\ Linked(hard', Wake) => Linked(hard, Wake)
      /\ Linked(hard, Wake) => Linked(hard', Wake)
  OBVIOUS
<1>2. Sorted(hard', left) /\ Sorted(soft', left)
  BY DEF TimeInv, HardInv, SoftInv
<1>3. TickInv(K)' /\ HardInv' /\ SoftInv(K)'
  BY <1>1, <1>2, FewerTime DEF TimeInv
<1>4. ReadInv(K)' /\ WakeInv'
  BY <1>1, FewerRead DEF TimeInv
<1> QED
  BY <1>3, <1>4 DEF TimeInv

(* A timer is linked, with the time it has left.                           *)
LEMMA LinkTime ==
  ASSUME NEW K, Bounded(K), TickInv(K), HardInv, SoftInv(K),
         ControlInv, TimerTypeOK', NEW u \in User, Link(u, timeout'[u]),
         timeout'[u] = (tick + left'[u]) % TickMod, left'[u] \in -MaxLag..K,
         \A v \in Timers : v # u => /\ timeout'[v] = timeout[v]
                                    /\ left'[v] = left[v],
         tick' = tick, (irq' = "off") <=> (irq = "off"), init' = init,
         asleep' = asleep,
         \A c \in Caller : op'[c] = "link" =>
            op[c] = "link" /\ on'[c] = on[c] /\ on[c] # u /\ on[c] \in User
  PROVE  TickInv(K)' /\ HardInv' /\ SoftInv(K)'
<1>1. /\ TimerTypeOK /\ Lists(hard, soft)
  BY DEF ControlInv, ListInv
<1>2. /\ K \in Nat \ {0} /\ MaxLag \in Nat /\ Late \in {0, 1}
  BY Bounds DEF Late
<1>3. /\ Lists(hard', soft')
      /\ \A v : Linked(hard', v) <=> (Linked(hard, v) \/ (v = u /\ u \in Hard))
      /\ \A v : Linked(soft', v) <=> (Linked(soft, v) \/ (v = u /\ u \in Soft))
  BY <1>1, LinkLists
<1>4. u \in Timers /\ u # Wake
  BY Kinds DEF Timers
<1>5. \A v \in Running' : v = u \/ v \in Running
  BY <1>3 DEF Running
<1>6. \A v : (Linked(hard, v) \/ Linked(soft, v))
                => v \in Timers /\ v \in Running
  BY <1>1, BothLists DEF Running, Timers, HardTimers, User
<1>7. \A v \in Timers : left'[v] \in Int /\ left[v] \in Int
  BY <1>1 DEF TimerTypeOK
<1>8. TickInv(K)'
  <2>1. \A v \in Running' : v \in Timers
    BY DEF Running
  <2>2. ASSUME NEW v \in Running'
        PROVE  timeout'[v] = (tick + left'[v]) % TickMod /\ left'[v] <= K
    <3>1. CASE v = u
      BY <1>2, <3>1
    <3>2. CASE v # u
      BY <1>5, <2>1, <3>2 DEF TickInv
    <3> QED
      BY <3>1, <3>2
  <2>3. \A c \in Caller : op'[c] = "link" => -MaxLag <= left'[on'[c]]
    BY DEF TickInv, Timers
  <2> QED
    BY <2>2, <2>3 DEF TickInv
<1>9. Late' = Late
  BY DEF Late
<1>10. Slept(K)' = Slept(K)
  BY <1>4 DEF Slept, Timers
<1>11. ASSUME NEW T \in SUBSET Timers, NEW row \in Seq(T), Once(row), u \in T,
              Sorted(row, left),
              \A v : Linked(row, v) =>
                 v \in Running /\ -(MaxLag + K) <= left[v]
       PROVE  Sorted(Insert(Unlink(row, u), u, timeout'[u]), left')
  <2> DEFINE s == Unlink(row, u)
  <2>1. /\ s \in Seq(T)
        /\ \A v : Linked(s, v) <=> (Linked(row, v) /\ v # u)
    BY <1>11, RemoveLinked
  <2>2. Sorted(s, left)
    BY <1>11, UnlinkSorted
  <2> HIDE DEF s
  <2>3. \A v : Linked(s, v) => v \in Timers /\ v # u /\ left'[v] = left[v]
    BY <2>1, LinkedType
  <2>4. Sorted(s, left')
    BY <2>2, <2>3, SortedKeys
  <2>5. ASSUME NEW v, Linked(s, v)
        PROVE  /\ timeout[v] = (tick + left'[v]) % TickMod
               /\ left'[v] \in -(MaxLag + K)..K
    <3>1. v \in Running /\ -(MaxLag + K) <= left[v]
      BY <1>11, <2>1, <2>5
    <3>2. timeout[v] = (tick + left[v]) % TickMod /\ left[v] <= K
      BY <3>1 DEF TickInv
    <3> QED
      BY <1>2, <1>7, <2>3, <2>5, <3>1, <3>2
  <2>6. \A v \in T : left'[v] \in Int
    BY <1>7
  <2>7. tick \in 0..TickMax
    BY <1>1 DEF TimerTypeOK
  <2> DEFINE key == left'
  <2> HIDE DEF key
  <2>8. Sorted(Insert(s, u, (tick + key[u]) % TickMod), key)
    <3>1. /\ \A v : Linked(s, v) => /\ timeout[v] = (tick + key[v]) % TickMod
                                    /\ key[v] \in -(MaxLag + K)..K
          /\ \A v \in T : key[v] \in Int
          /\ key[u] \in -MaxLag..K /\ Sorted(s, key)
      BY <2>4, <2>5, <2>6 DEF key
    <3> QED
      BY <1>11, <2>1, <2>7, <3>1, InsertSorted
  <2> QED
    BY <2>8 DEF s, key
<1>12. /\ HardTimers \subseteq Timers /\ Soft \subseteq Timers
       /\ Hard \subseteq HardTimers
  BY DEF HardTimers, Timers, User
<1>13. HardInv'
  <2>1. Sorted(hard', left')
    <3>1. CASE u \in Soft
      <4>1. hard' = hard
        BY <3>1 DEF Link
      <4>2. \A v : Linked(hard, v) => v # u /\ left'[v] = left[v]
        <5>1. u \notin HardTimers
          BY <1>4, <3>1, Kinds DEF HardTimers
        <5>2. \A v : Linked(hard, v) => v \in HardTimers /\ v \in Timers
          BY <1>1, <1>6, BothLists
        <5> QED
          BY <5>1, <5>2
      <4>3. Sorted(hard, left)
        BY DEF HardInv
      <4>4. Sorted(hard, left')
        BY <4>2, <4>3, SortedKeys
      <4> QED
        BY <4>1, <4>4
    <3>2. CASE u \notin Soft
      <4>1. hard' = Insert(Unlink(hard, u), u, timeout'[u])
        BY <3>2 DEF Link
      <4>2. u \in HardTimers
        BY <1>12, <3>2 DEF User
      <4>3. \A v : Linked(hard, v) => v \in Running /\ -(MaxLag + K) <= left[v]
        BY <1>2, <1>6, <1>7 DEF HardInv
      <4>4. hard \in Seq(HardTimers) /\ Once(hard) /\ Sorted(hard, left)
        BY <1>1 DEF Lists, HardInv
      <4> QED
        BY <1>11, <1>12, <4>1, <4>2, <4>3, <4>4
    <3> QED
      BY <3>1, <3>2
  <2>2. \A v \in Timers : Linked(hard', v) => -MaxLag - Late <= left'[v]
    BY <1>2, <1>3, <1>4, <1>7 DEF HardInv
  <2>3. Linked(hard', Wake) => -Late <= left'[Wake]
    BY <1>3, <1>4 DEF HardInv, Timers
  <2> QED
    BY <1>9, <2>1, <2>2, <2>3 DEF HardInv
<1>14. SoftInv(K)'
  <2>1. Sorted(soft', left')
    <3>1. CASE u \notin Soft
      <4>1. soft' = soft
        BY <3>1 DEF Link
      <4>2. \A v : Linked(soft, v) => v # u /\ left'[v] = left[v]
        BY <1>1, <1>6, <3>1, BothLists
      <4>3. Sorted(soft, left)
        BY DEF SoftInv
      <4>4. Sorted(soft, left')
        BY <4>2, <4>3, SortedKeys
      <4> QED
        BY <4>1, <4>4
    <3>2. CASE u \in Soft
      <4>1. soft' = Insert(Unlink(soft, u), u, timeout'[u])
        BY <3>2 DEF Link
      <4>2. \A v : Linked(soft, v) => v \in Running /\ -(MaxLag + K) <= left[v]
        BY <1>1, <1>6, BothLists DEF SoftInv
      <4>3. soft \in Seq(Soft) /\ Once(soft) /\ Sorted(soft, left)
        BY <1>1 DEF Lists, SoftInv
      <4> QED
        BY <1>11, <1>12, <3>2, <4>1, <4>2, <4>3
    <3> QED
      BY <3>1, <3>2
  <2>2. Linked(hard', Wake) <=> Linked(hard, Wake)
    BY <1>3, <1>4
  <2>3. Linked(hard, Wake) => Slept(K) >= 0 /\ Slept(K) \in Int
    <3>1. Linked(hard, Wake) => left[Wake] <= K /\ left[Wake] \in Int
      BY <1>6, <1>7 DEF TickInv, Timers
    <3> QED
      BY <1>2, <3>1 DEF Slept
  <2>4. ASSUME NEW v \in Soft, Linked(soft', v)
        PROVE  /\ -(MaxLag + K) <= left'[v]
               /\ asleep' /\ Linked(hard', Wake)
                    => -MaxLag - Slept(K)' <= left'[v]
    <3>1. CASE v = u
      BY <1>2, <1>10, <2>2, <2>3, <3>1
    <3>2. CASE v # u
      BY <1>3, <1>10, <1>12, <2>2, <2>4, <3>2 DEF SoftInv
    <3> QED
      BY <3>1, <3>2
  <2> QED
    BY <2>1, <2>4 DEF SoftInv
<1> QED
  BY <1>8, <1>13, <1>14

------------------------------------------------------------------------------
(* The steps of the parties that call timer functions.                     *)
LEMMA StartUnlinkTime ==
  ASSUME NEW K, TimeInv(K), ControlInv, NEW c \in Caller, NEW u \in User,
         StartUnlink(c, u)
  PROVE  TimeInv(K)'
<1>1. op \in [Caller -> Operations]
  BY DEF ControlInv, ListInv, TimerTypeOK
<1>2. /\ UnlinkTimer(u) /\ tick' = tick /\ timeout' = timeout /\ left' = left
      /\ irq' = irq /\ init' = init /\ at' = at /\ nxt' = nxt /\ cur' = cur
      /\ n' = n /\ outdated' = outdated /\ asleep' = asleep
  BY DEF StartUnlink, interrupt, thread
<1>3. /\ op' = [op EXCEPT ![c] = "tick"] /\ on' = [on EXCEPT ![c] = u]
      /\ op[c] = "none"
  BY DEF StartUnlink, CallerGoes
<1>4. \A d \in Caller : op'[d] = "link" => op[d] = "link" /\ on'[d] = on[d]
  <2>1. on \in [Caller -> User \union {None}]
    BY DEF ControlInv, ListInv, TimerTypeOK
  <2> QED
    BY <1>1, <1>3, <2>1
<1>5. \A d \in Caller : op[d] \in {"test", "resume"}
                           => op'[d] \in {"test", "resume"}
  BY <1>1, <1>3
<1> QED
  BY <1>2, <1>4, <1>5, UnlinkTime

(* rt_tick_get, and the timeout tick. *)
LEMMA StartTickTime ==
  ASSUME NEW K, Bounded(K), TimeInv(K), ControlInv, NEW c \in Caller,
         StartTick(c)
  PROVE  TimeInv(K)'
<1>1. /\ TimerTypeOK /\ Lists(hard, soft) /\ CallerInv /\ StartInv /\ PlaceInv
      /\ TickInv(K) /\ HardInv /\ SoftInv(K) /\ ReadInv(K) /\ WakeInv
  BY DEF ControlInv, ListInv, TimeInv
<1>2. /\ op[c] = "tick" /\ op' = [op EXCEPT ![c] = "link"]
      /\ timeout' = [timeout EXCEPT ![on[c]] = (tick + init[on[c]]) % TickMod]
      /\ left' = [left EXCEPT ![on[c]] = init[on[c]]]
      /\ init' = init /\ hard' = hard /\ soft' = soft /\ on' = on
      /\ tick' = tick /\ irq' = irq /\ at' = at /\ asleep' = asleep
      /\ cur' = cur /\ nxt' = nxt /\ n' = n /\ outdated' = outdated
  BY DEF StartTick, CallerGoes, interrupt, thread
<1>3. PICK u \in User : u = on[c]
  BY <1>1, <1>2 DEF CallerInv, TimerTypeOK
<1>4. ~InList(u) /\ u # n /\ u # Wake /\ u \in Timers
  BY <1>1, <1>2, <1>3, Kinds DEF StartInv, Engaged, Timers
<1>5. /\ K \in Nat \ {0} /\ MaxLag \in Nat /\ init[u] \in 0..K
  BY <1>1, Bounds DEF TickInv, TimerTypeOK
<1>6. /\ timeout' = [timeout EXCEPT ![u] = (tick + init[u]) % TickMod]
      /\ left' = [left EXCEPT ![u] = init[u]]
  BY <1>2, <1>3
<1>7. /\ timeout'[u] = (tick + left'[u]) % TickMod /\ left'[u] \in 0..K
      /\ \A v \in Timers : v # u => /\ timeout'[v] = timeout[v]
                                    /\ left'[v] = left[v]
  BY <1>1, <1>4, <1>5, <1>6 DEF TimerTypeOK
<1>8. \A v : Linked(hard, v) \/ Linked(soft, v) =>
         v \in Timers /\ v # u /\ left'[v] = left[v]
  BY <1>1, <1>4, <1>7, BothLists DEF InList, Timers, HardTimers, User
<1>9. TickInv(K)'
  <2>1. \A v \in Running' : v \in Timers /\ (v = u \/ v \in Running)
    BY <1>1, <1>2, <1>3 DEF Running, TimerTypeOK
  <2>2. ASSUME NEW v \in Running'
        PROVE  timeout'[v] = (tick' + left'[v]) % TickMod /\ left'[v] <= K
    <3>1. CASE v = u
      BY <1>2, <1>5, <1>7, <3>1
    <3>2. CASE v # u
      BY <1>1, <1>2, <1>7, <2>1, <3>2 DEF TickInv
    <3> QED
      BY <3>1, <3>2
  <2>3. ASSUME NEW d \in Caller, op'[d] = "link"
        PROVE  -MaxLag <= left'[on'[d]]
    <3>1. CASE on[d] = u
      BY <1>2, <1>5, <1>7, <3>1
    <3>2. CASE on[d] # u
      <4>1. d # c /\ op[d] = "link"
        BY <1>1, <1>2, <1>3, <2>3, <3>2 DEF TimerTypeOK
      <4>2. on[d] \in Timers
        BY <1>1, <4>1 DEF CallerInv, TimerTypeOK, Timers
      <4> QED
        BY <1>1, <1>2, <1>7, <3>2, <4>1, <4>2 DEF TickInv
    <3> QED
      BY <3>1, <3>2
  <2>4. \A v \in User : init'[v] <= K
    BY <1>1, <1>2 DEF TickInv
  <2> QED
    BY <2>2, <2>3, <2>4 DEF TickInv
<1>10. HardInv'
  <2>1. Sorted(hard, left')
    BY <1>1, <1>8, SortedKeys DEF HardInv
  <2>2. Late' = Late
    BY <1>2 DEF Late
  <2> QED
    BY <1>1, <1>2, <1>8, <2>1, <2>2 DEF HardInv
<1>11. SoftInv(K)'
  <2>1. Sorted(soft, left')
    BY <1>1, <1>8, SortedKeys DEF SoftInv
  <2>2. Slept(K)' = Slept(K)
    BY <1>2, <1>4, <1>7 DEF Slept, Timers
  <2>3. ASSUME NEW v \in Soft, Linked(soft', v)
        PROVE  /\ -(MaxLag + K) <= left'[v]
               /\ asleep' /\ Linked(hard', Wake)
                    => -MaxLag - Slept(K)' <= left'[v]
    BY <1>1, <1>2, <1>8, <2>2, <2>3 DEF SoftInv
  <2> QED
    BY <1>2, <2>1, <2>3 DEF SoftInv
<1>12. ReadInv(K)' /\ WakeInv'
  <2>1. left'[Wake] = left[Wake]
    BY <1>4, <1>7 DEF Timers
  <2>2. n # None => left'[n] = left[n]
    BY <1>1, <1>8 DEF PlaceInv
  <2>3. asleep' /\ (\E d \in Caller : op[d] \in {"test", "resume"})
          => \E d \in Caller : op'[d] \in {"test", "resume"}
    BY <1>1, <1>2 DEF TimerTypeOK
  <2> QED
    BY <1>1, <1>2, <1>8, <2>1, <2>2, <2>3, FewerRead
<1> QED
  BY <1>9, <1>10, <1>11, <1>12 DEF TimeInv

(* The second section of rt_timer_start. *)
LEMMA StartLinkTime ==
  ASSUME NEW K, Bounded(K), TimeInv(K), ControlInv, ControlInv',
         NEW c \in Caller, StartLink(c)
  PROVE  TimeInv(K)'
<1>1. /\ TimerTypeOK /\ Lists(hard, soft) /\ CallerInv /\ StartInv /\ PlaceInv
      /\ TickInv(K) /\ HardInv /\ SoftInv(K) /\ ReadInv(K) /\ WakeInv
      /\ TimerTypeOK'
  BY DEF ControlInv, ListInv, TimeInv
<1>2. /\ Runs(c) /\ op[c] = "link" /\ Link(on[c], timeout[on[c]])
      /\ op' = [op EXCEPT ![c] = IF on[c] \in Soft THEN "test" ELSE "none"]
      /\ on' = IF on[c] \in Soft THEN on ELSE [on EXCEPT ![c] = None]
      /\ outdated' = (outdated \/ (on[c] \in Soft /\ HasRead))
      /\ timeout' = timeout /\ left' = left
      /\ init' = init /\ tick' = tick /\ irq' = irq /\ at' = at
      /\ asleep' = asleep /\ cur' = cur /\ nxt' = nxt /\ n' = n
  BY DEF StartLink, CallerGoes, interrupt, thread
<1>3. PICK u \in User : u = on[c]
  BY <1>1, <1>2 DEF CallerInv, TimerTypeOK
<1>4. u \in Running
  BY <1>2, <1>3 DEF Running, Timers
<1>5. /\ timeout'[u] = (tick + left'[u]) % TickMod /\ left'[u] \in -MaxLag..K
  <2>1. left[u] \in Int
    BY <1>1 DEF TimerTypeOK, Timers
  <2> QED
    BY <1>1, <1>2, <1>3, <1>4, <2>1, Bounds DEF TickInv
<1>6. Link(u, timeout'[u])
  BY <1>2, <1>3
<1>7. ASSUME NEW d \in Caller, op'[d] = "link"
      PROVE  op[d] = "link" /\ on'[d] = on[d] /\ on[d] # u /\ on[d] \in User
  <2>1. d # c /\ op[d] = "link" /\ on'[d] = on[d]
    BY <1>1, <1>2, <1>7 DEF TimerTypeOK
  <2>2. on[d] \in User /\ <<d, on[d]>> \in Starts /\ <<c, u>> \in Starts
    BY <1>1, <1>2, <1>3, <2>1 DEF CallerInv, TimerTypeOK
  <2>3. on[d] # u
    <3> SUFFICES ASSUME on[d] = u PROVE FALSE
      OBVIOUS
    <3>1. <<d, u>> \in Starts /\ <<d, u>>[2] = <<c, u>>[2]
      BY <2>2
    <3>2. <<d, u>>[1] = <<c, u>>[1]
      BY <2>2, <3>1, PartyAssumption
    <3> QED
      BY <2>1, <3>2
  <2> QED
    BY <2>1, <2>2, <2>3
<1>8. TickInv(K)' /\ HardInv' /\ SoftInv(K)'
  BY <1>1, <1>2, <1>5, <1>6, <1>7, LinkTime
<1>9. /\ \A v : Linked(hard', v) <=> (Linked(hard, v) \/ (v = u /\ u \in Hard))
      /\ \A v : Linked(soft', v) <=> (Linked(soft, v) \/ (v = u /\ u \in Soft))
  BY <1>1, <1>6, LinkLists
<1>10. CASE u \in Soft
  <2>1. op'[c] = "test"
    BY <1>1, <1>2, <1>3, <1>10 DEF TimerTypeOK
  <2>2. WakeInv'
    BY <2>1 DEF WakeInv
  <2>3. ASSUME NEW d, NoneBefore(d), at \in {"delay", "sleep"}
        PROVE  NoneBefore(d)'
    <3>1. outdated'
      BY <1>1, <1>2, <1>3, <1>10, <2>3 DEF HasRead, PlaceInv, TimerTypeOK
    <3>2. -MaxLag <= left'[u]
      BY <1>5, Bounds
    <3> QED
      BY <1>2, <1>9, <2>3, <3>1, <3>2 DEF NoneBefore
  <2>4. at = "suspend" => outdated'
    BY <1>1, <1>2, <1>3, <1>10 DEF HasRead, PlaceInv
  <2>5. ReadInv(K)'
    BY <1>1, <1>2, <2>3, <2>4 DEF ReadInv
  <2> QED
    BY <1>8, <2>2, <2>5 DEF TimeInv
<1>11. CASE u \notin Soft
  <2>1. /\ \A v : Linked(soft', v) => Linked(soft, v) /\ left'[v] = left[v]
        /\ Linked(hard, Wake) => Linked(hard', Wake)
        /\ outdated' = outdated
    BY <1>1, <1>2, <1>3, <1>9, <1>11 DEF TimerTypeOK
  <2>2. (\E d \in Caller : op[d] \in {"test", "resume"})
          => \E d \in Caller : op'[d] \in {"test", "resume"}
    BY <1>1, <1>2 DEF TimerTypeOK
  <2>3. ReadInv(K)' /\ WakeInv'
    BY <1>1, <1>2, <2>1, <2>2, FewerRead
  <2> QED
    BY <1>8, <2>3 DEF TimeInv
<1> QED
  BY <1>10, <1>11

(* The test of the timer thread: a sleeper will be resumed. *)
LEMMA StartTestTime ==
  ASSUME NEW K, TimeInv(K), ControlInv, NEW c \in Caller, StartTest(c)
  PROVE  TimeInv(K)'
<1>1. /\ op' = [op EXCEPT ![c] = IF asleep THEN "resume" ELSE "none"]
      /\ on' = [on EXCEPT ![c] = None] /\ op[c] = "test"
  BY DEF StartTest, CallerGoes
<1>2. /\ tick' = tick /\ timeout' = timeout /\ left' = left /\ irq' = irq
      /\ init' = init /\ hard' = hard /\ soft' = soft /\ at' = at
      /\ nxt' = nxt /\ cur' = cur /\ n' = n /\ outdated' = outdated
      /\ asleep' = asleep
  BY DEF StartTest, fields, interrupt, thread
<1>3. op \in [Caller -> Operations] /\ on \in [Caller -> User \union {None}]
  BY DEF ControlInv, ListInv, TimerTypeOK
<1>4. \A d \in Caller : op'[d] = "link" => op[d] = "link" /\ on'[d] = on[d]
  BY <1>1, <1>3
<1>5. asleep => op'[c] \in {"test", "resume"}
  BY <1>1, <1>3
<1>6. \A u \in User : init'[u] <= K
  BY <1>2 DEF TimeInv, TickInv
<1> QED
  BY <1>2, <1>4, <1>5, <1>6, StillTime

(* rt_thread_resume. *)
LEMMA StartResumeTime ==
  ASSUME NEW K, TimeInv(K), ControlInv, NEW c \in Caller, StartResume(c)
  PROVE  TimeInv(K)'
<1>1. /\ TimerTypeOK /\ Lists(hard, soft)
      /\ TickInv(K) /\ HardInv /\ SoftInv(K) /\ ReadInv(K) /\ WakeInv
  BY DEF ControlInv, ListInv, TimeInv
<1>2. /\ op' = [op EXCEPT ![c] = "none"] /\ asleep' = FALSE
      /\ hard' = Unlink(hard, Wake) /\ soft' = soft /\ on' = on
      /\ tick' = tick /\ timeout' = timeout /\ left' = left /\ irq' = irq
      /\ init' = init /\ at' = at /\ nxt' = nxt /\ cur' = cur /\ n' = n
      /\ outdated' = outdated
  BY DEF StartResume, CallerGoes, fields, interrupt
<1>3. /\ \A v : Linked(hard', v) => Linked(hard, v)
      /\ Sorted(hard', left) /\ Sorted(soft', left)
  <2>1. Wake \in HardTimers
    BY DEF HardTimers
  <2>2. \A v : Linked(hard', v) => Linked(hard, v)
    BY <1>1, <1>2, <2>1, RemoveLinked DEF Lists
  <2>3. Sorted(hard', left)
    BY <1>1, <1>2, UnlinkSorted DEF Lists, HardInv
  <2> QED
    BY <1>1, <1>2, <2>2, <2>3 DEF SoftInv
<1>4. \A d \in Caller : op'[d] = "link" => op[d] = "link" /\ on'[d] = on[d]
  BY <1>1, <1>2 DEF TimerTypeOK
<1>5. \A u \in User : init'[u] <= K
  BY <1>1, <1>2 DEF TickInv
<1>6. \A v : Linked(soft', v) => Linked(soft, v)
  BY <1>2
<1>7. TickInv(K)' /\ HardInv' /\ SoftInv(K)'
  BY <1>1, <1>2, <1>3, <1>4, <1>5, <1>6, FewerTime
<1>8. ReadInv(K)' /\ WakeInv'
  BY <1>1, <1>2, <1>6, FewerRead
<1> QED
  BY <1>7, <1>8 DEF TimeInv

(* rt_timer_stop, all but its section. *)
LEMMA StopTime ==
  ASSUME NEW K, TimeInv(K), ControlInv, NEW c \in Caller, NEW u \in User,
         StopTest(c, u) \/ StopFlag(c)
  PROVE  TimeInv(K)'
<1>1. /\ tick' = tick /\ timeout' = timeout /\ left' = left /\ irq' = irq
      /\ init' = init /\ hard' = hard /\ soft' = soft /\ at' = at
      /\ nxt' = nxt /\ cur' = cur /\ n' = n /\ outdated' = outdated
      /\ asleep' = asleep
  BY DEF StopTest, StopFlag, fields, interrupt, thread
<1>2. /\ op[c] \in {"none", "flag"}
      /\ \E where \in {"unlink", "none"} : op' = [op EXCEPT ![c] = where]
      /\ \E v \in {u, None} : on' = [on EXCEPT ![c] = v]
  BY DEF StopTest, StopFlag, CallerGoes
<1>3. op \in [Caller -> Operations] /\ on \in [Caller -> User \union {None}]
  BY DEF ControlInv, ListInv, TimerTypeOK
<1>4. \A d \in Caller : op'[d] = "link" => op[d] = "link" /\ on'[d] = on[d]
  BY <1>2, <1>3
<1>5. (\E d \in Caller : op[d] \in {"test", "resume"})
        => \E d \in Caller : op'[d] \in {"test", "resume"}
  BY <1>2, <1>3
<1>6. \A v \in User : init'[v] <= K
  BY <1>1 DEF TimeInv, TickInv
<1> QED
  BY <1>1, <1>4, <1>5, <1>6, StillTime

(* The section of rt_timer_stop. *)
LEMMA StopUnlinkTime ==
  ASSUME NEW K, TimeInv(K), ControlInv, NEW c \in Caller, StopUnlink(c)
  PROVE  TimeInv(K)'
<1>1. /\ UnlinkTimer(on[c]) /\ tick' = tick /\ timeout' = timeout
      /\ left' = left /\ irq' = irq /\ init' = init /\ at' = at /\ nxt' = nxt
      /\ cur' = cur /\ n' = n /\ outdated' = outdated /\ asleep' = asleep
      /\ op' = [op EXCEPT ![c] = "flag"] /\ on' = on /\ op[c] = "unlink"
  BY DEF StopUnlink, fields, interrupt, thread, CallerGoes
<1>2. op \in [Caller -> Operations] /\ on[c] \in User
  BY <1>1 DEF ControlInv, ListInv, TimerTypeOK, CallerInv
<1>3. \A d \in Caller : op'[d] = "link" => op[d] = "link" /\ on'[d] = on[d]
  BY <1>1, <1>2
<1>4. \A d \in Caller : op[d] \in {"test", "resume"}
                           => op'[d] \in {"test", "resume"}
  BY <1>1, <1>2
<1> QED
  BY <1>1, <1>2, <1>3, <1>4, UnlinkTime

(* rt_timer_detach, rt_timer_delete, rt_timer_stop in a callback.          *)
LEMMA DetachTime ==
  ASSUME NEW K, TimeInv(K), ControlInv, NEW u \in User,
         CallbackStop(u) \/ \E c \in Caller : Detach(c, u)
  PROVE  TimeInv(K)'
<1>1. /\ UnlinkTimer(u) /\ tick' = tick /\ timeout' = timeout
      /\ left' = left /\ irq' = irq /\ init' = init /\ at' = at /\ nxt' = nxt
      /\ cur' = cur /\ n' = n /\ outdated' = outdated /\ asleep' = asleep
      /\ op' = op /\ on' = on
  BY DEF CallbackStop, Detach, interrupt, calls, thread
<1> QED
  BY <1>1, UnlinkTime

(* rt_timer_control. *)
LEMMA SetUpTime ==
  ASSUME NEW K, Bounded(K), TimeInv(K), ControlInv,
         NEW c \in Caller \union {Clock}, NEW u \in User, Control(c, u)
  PROVE  TimeInv(K)'
<1>1. /\ tick' = tick /\ timeout' = timeout /\ left' = left /\ irq' = irq
      /\ hard' = hard /\ soft' = soft /\ at' = at
      /\ nxt' = nxt /\ cur' = cur /\ n' = n /\ outdated' = outdated
      /\ asleep' = asleep /\ op' = op /\ on' = on
  BY DEF Control, interrupt, calls, thread
<1>2. init \in [User -> Nat] /\ \A v \in User : init[v] <= K
  BY DEF ControlInv, ListInv, TimerTypeOK, TimeInv, TickInv
<1>3. \/ init' = init
      \/ \E k \in NewTicks : init' = [init EXCEPT ![u] = k]
  BY DEF Control
<1>4. \A v \in User : init'[v] <= K
  BY <1>2, <1>3 DEF Bounded
<1> QED
  BY <1>1, <1>4, StillTime

------------------------------------------------------------------------------
(* The steps of the clock interrupt.                                       *)

(* A tick counter is its own remainder. *)
LEMMA TickNow ==
  ASSUME tick \in 0..TickMax
  PROVE  tick = (tick - 0) % TickMod
<1>1. tick \in 0..(TickMod - 1) /\ TickMod \in Nat \ {0}
  BY TickType DEF TickMax
<1>2. tick \in -TickMod..(2 * TickMod - 1) /\ tick - 0 = tick
  BY <1>1
<1>3. tick % TickMod = tick
  BY <1>1, <1>2, Wraps
<1> QED
  BY <1>2, <1>3

(* What the invariant says of the hard timers that are linked.             *)
LEMMA HardTimes ==
  ASSUME NEW K, Bounded(K), ControlInv, TickInv(K), HardInv,
         NEW u, Linked(hard, u)
  PROVE  /\ u \in Timers /\ left[u] \in Int /\ hard # <<>>
         /\ left[Head(hard)] <= left[u]
         /\ -MaxLag - Late <= left[u] /\ left[u] <= K
         /\ Due(tick, u) <=> left[u] <= 0
<1>1. TimerTypeOK /\ hard \in Seq(HardTimers) /\ Lists(hard, soft)
  BY DEF ControlInv, ListInv, Lists
<1>2. u \in Timers /\ \A v \in HardTimers : left[v] \in Int
  BY <1>1, BothLists DEF TimerTypeOK, Timers, HardTimers, User
<1>3. u \in Running /\ left[u] \in Int
  BY <1>1, <1>2 DEF Running, TimerTypeOK
<1>4. hard # <<>> /\ left[Head(hard)] <= left[u]
  BY <1>1, <1>2, HeadSmallest DEF HardInv
<1>5. /\ timeout[u] = (tick + left[u]) % TickMod /\ left[u] <= K
      /\ -MaxLag - Late <= left[u]
  BY <1>2, <1>3 DEF TickInv, HardInv
<1>6. /\ -(MaxLag + K) <= left[u] /\ -Half < left[u]
  BY <1>3, <1>5, Bounds DEF Late
<1>7. tick \in 0..TickMax
  BY <1>1 DEF TimerTypeOK
<1>8. Due((tick - 0) % TickMod, u) <=> left[u] + 0 <= 0
  <2>1. 0 \in Nat /\ 0 <= TickMod - 1 /\ left[u] + 0 = left[u]
    BY <1>3, Bounds
  <2> QED
    BY <1>3, <1>5, <1>6, <1>7, <2>1, DueIff
<1>9. Due(tick, u) <=> left[u] <= 0
  BY <1>3, <1>7, <1>8, TickNow
<1> QED
  BY <1>2, <1>3, <1>4, <1>5, <1>9

(* The first hard timer leaves the list.                                   *)
LEMMA CheckExpireTime ==
  ASSUME NEW K, TimeInv(K), ControlInv, CheckExpire
  PROVE  TimeInv(K)'
<1>1. /\ TimerTypeOK /\ Lists(hard, soft)
      /\ TickInv(K) /\ HardInv /\ SoftInv(K) /\ ReadInv(K) /\ WakeInv
  BY DEF ControlInv, ListInv, TimeInv
<1>2. /\ hard # <<>> /\ hard' = Tail(hard) /\ soft' = soft /\ op' = op
      /\ on' = on /\ tick' = tick /\ timeout' = timeout /\ left' = left
      /\ init' = init /\ at' = at /\ nxt' = nxt /\ cur' = cur /\ n' = n
      /\ outdated' = outdated
      /\ irq = "check" /\ irq' \in {"check", "callback"}
      /\ asleep' = (asleep /\ Head(hard) # Wake)
  BY <1>1 DEF CheckExpire, fields, calls, TimerTypeOK
<1>3. /\ \A v : Linked(hard', v) <=> (Linked(hard, v) /\ v # Head(hard))
      /\ \A v : Linked(soft', v) <=> Linked(soft, v)
  BY <1>1, <1>2, TailLists DEF Lists
<1>4. Sorted(hard', left) /\ Sorted(soft', left)
  BY <1>1, <1>2, TailSorted DEF Lists, HardInv, SoftInv
<1>5. \A u \in User : init'[u] <= K
  BY <1>1, <1>2 DEF TickInv
<1>6. TickInv(K)' /\ HardInv' /\ SoftInv(K)'
  BY <1>1, <1>2, <1>3, <1>4, <1>5, FewerTime
<1>7. ReadInv(K)' /\ WakeInv'
  BY <1>1, <1>2, <1>3, FewerRead
<1> QED
  BY <1>6, <1>7 DEF TimeInv

(* No hard timer that is due is left. *)
LEMMA NoneLeft ==
  ASSUME NEW K, Bounded(K), TimeInv(K), ControlInv, CheckEnd, NEW u,
         Linked(hard, u)
  PROVE  u \in Timers /\ left[u] \in Nat \ {0}
<1>1. TickInv(K) /\ HardInv /\ hard \in Seq(HardTimers)
  BY DEF ControlInv, ListInv, TimeInv, Lists
<1>2. /\ u \in Timers /\ left[u] \in Int /\ hard # <<>>
      /\ left[Head(hard)] <= left[u]
  BY <1>1, HardTimes
<1>3. Linked(hard, Head(hard))
  BY <1>1, <1>2, TailLists DEF ControlInv, ListInv, Lists
<1>4. ~Due(tick, Head(hard))
  BY <1>2 DEF CheckEnd
<1>5. left[Head(hard)] \in Int /\ ~(left[Head(hard)] <= 0)
  BY <1>1, <1>3, <1>4, HardTimes
<1> QED
  BY <1>2, <1>5

(* rt_timer_check ends with no hard timer left that is due. *)
LEMMA CheckEndTime ==
  ASSUME NEW K, Bounded(K), TimeInv(K), ControlInv, CheckEnd
  PROVE  TimeInv(K)'
<1>1. /\ TimerTypeOK /\ Lists(hard, soft)
      /\ TickInv(K) /\ HardInv /\ SoftInv(K) /\ ReadInv(K) /\ WakeInv
  BY DEF ControlInv, ListInv, TimeInv
<1>2. /\ irq = "check" /\ irq' = "off" /\ hard' = hard /\ soft' = soft
      /\ op' = op /\ on' = on /\ tick' = tick /\ timeout' = timeout
      /\ left' = left /\ init' = init /\ at' = at /\ nxt' = nxt /\ cur' = cur
      /\ n' = n /\ outdated' = outdated /\ asleep' = asleep
  BY DEF CheckEnd, fields, calls, thread
<1>3. MaxLag \in Nat /\ \A u : Linked(hard, u) => left[u] \in Nat \ {0}
  BY NoneLeft, Bounds
<1>4. Running' = Running
  BY <1>2 DEF Running
<1>5. TickInv(K)'
  BY <1>1, <1>2, <1>4 DEF TickInv
<1>6. HardInv'
  <2>1. Late' = 0
    BY <1>2 DEF Late
  <2> QED
    BY <1>1, <1>2, <1>3, <2>1 DEF HardInv
<1>7. SoftInv(K)'
  <2>1. Linked(hard, Wake) => Slept(K)' = Slept(K)
    BY <1>2, <1>3 DEF Slept
  <2> QED
    BY <1>1, <1>2, <2>1 DEF SoftInv
<1>8. ReadInv(K)' /\ WakeInv'
  BY <1>1, <1>2, FewerRead
<1> QED
  BY <1>5, <1>6, <1>7, <1>8 DEF TimeInv

(* The tick and what is left change against each other. *)
LEMMA TickShift ==
  ASSUME tick \in 0..TickMax, NEW a \in -(TickMod - 1)..(TickMod - 1)
  PROVE  (((tick + 1) % TickMod) + (a - 1)) % TickMod = (tick + a) % TickMod
<1>0. TickMod \in Nat \ {0} /\ tick \in 0..(TickMod - 1)
  BY TickType DEF TickMax
<1> DEFINE s == tick + 1
           x == s % TickMod
           y == x + (a - 1)
           z == tick + a
<1>1. /\ s \in -TickMod..(2 * TickMod - 1)
      /\ z \in -TickMod..(2 * TickMod - 1)
  BY <1>0
<1>2. s = tick + 1 /\ z = tick + a /\ x = s % TickMod /\ y = x + (a - 1)
  OBVIOUS
<1> HIDE DEF s, x, y, z
<1>3. /\ x = IF s < 0 THEN s + TickMod
             ELSE IF s < TickMod THEN s ELSE s - TickMod
      /\ z % TickMod = IF z < 0 THEN z + TickMod
                       ELSE IF z < TickMod THEN z ELSE z - TickMod
  BY <1>1, <1>2, Wraps
<1>4. x = IF tick = TickMod - 1 THEN 0 ELSE tick + 1
  BY <1>0, <1>2, <1>3
<1>5. y \in -TickMod..(2 * TickMod - 1)
  BY <1>0, <1>2, <1>4
<1>6. y % TickMod = IF y < 0 THEN y + TickMod
                    ELSE IF y < TickMod THEN y ELSE y - TickMod
  BY <1>5, Wraps
<1>7. y % TickMod = z % TickMod
  BY <1>0, <1>2, <1>3, <1>4, <1>6
<1> QED
  BY <1>7 DEF s, x, y, z

(* The time that is left to a timer whose time runs. *)
LEMMA RunningTimes ==
  ASSUME NEW K, Bounded(K), ControlInv, TickInv(K), HardInv, SoftInv(K),
         NEW u \in Running
  PROVE  /\ u \in Timers /\ left[u] \in Int
         /\ -(MaxLag + K) <= left[u] /\ left[u] <= K
         /\ timeout[u] = (tick + left[u]) % TickMod
<1>1. /\ TimerTypeOK /\ Lists(hard, soft) /\ CallerInv
  BY DEF ControlInv, ListInv
<1>2. u \in Timers /\ left[u] \in Int
  BY <1>1 DEF Running, TimerTypeOK
<1>3. left[u] <= K /\ timeout[u] = (tick + left[u]) % TickMod
  BY DEF TickInv
<1>4. K \in Nat \ {0} /\ MaxLag \in Nat /\ Late \in {0, 1}
  BY Bounds DEF Late
<1>5. CASE Linked(hard, u)
  BY <1>2, <1>3, <1>4, <1>5 DEF HardInv
<1>6. CASE Linked(soft, u)
  BY <1>1, <1>2, <1>3, <1>6, BothLists DEF SoftInv
<1>7. CASE \E c \in Caller : on[c] = u /\ op[c] = "link"
  BY <1>2, <1>3, <1>4, <1>7 DEF TickInv
<1> QED
  BY <1>5, <1>6, <1>7 DEF Running

(* rt_tick_increase. *)
LEMMA TickTime ==
  ASSUME NEW K, Bounded(K), TimeInv(K), ControlInv, Tick
  PROVE  TimeInv(K)'
<1>1. /\ TimerTypeOK /\ Lists(hard, soft) /\ (Linked(hard, Wake) => asleep)
      /\ CallerInv /\ StartInv /\ PlaceInv
      /\ TickInv(K) /\ HardInv /\ SoftInv(K) /\ ReadInv(K) /\ WakeInv
  BY DEF ControlInv, ListInv, TimeInv
<1>2. /\ irq = "off" /\ irq' = "check" /\ InTime
      /\ tick' = (tick + 1) % TickMod
      /\ left' = [u \in Timers |-> IF u \in Running THEN left[u] - 1 ELSE 0]
      /\ timeout' = [u \in Timers |->
                       IF u \in Running \union {n} THEN timeout[u] ELSE 0]
      /\ outdated' = (outdated \/ HasRead)
      /\ init' = init /\ hard' = hard /\ soft' = soft /\ op' = op /\ on' = on
      /\ at' = at /\ asleep' = asleep /\ cur' = cur /\ nxt' = nxt /\ n' = n
  BY DEF Tick, calls, thread
<1>3. /\ K \in Nat \ {0} /\ MaxLag \in Nat /\ Half \in Nat
      /\ K + MaxLag < Half /\ 2 * K + MaxLag <= TickMod - Half
      /\ TickMod \in Nat \ {0}
  BY Bounds
<1>4. tick \in 0..TickMax
  BY <1>1 DEF TimerTypeOK
<1>5. Running' = Running
  BY <1>2 DEF Running
<1>6. \A u \in Running : /\ u \in Timers /\ left[u] \in Int
                         /\ -(MaxLag + K) <= left[u] /\ left[u] <= K
                         /\ timeout[u] = (tick + left[u]) % TickMod
  BY <1>1, RunningTimes
<1>7. \A u \in Running : left'[u] = left[u] - 1 /\ timeout'[u] = timeout[u]
  BY <1>2, <1>6
<1>8. \A u : Linked(hard, u) \/ Linked(soft, u) => u \in Running
  BY <1>1, BothLists DEF Running, Timers, HardTimers, User
<1>9. TickInv(K)'
  <2>1. ASSUME NEW u \in Running
        PROVE  timeout'[u] = (tick' + left'[u]) % TickMod /\ left'[u] <= K
    <3>1. left[u] \in -(TickMod - 1)..(TickMod - 1)
      BY <1>3, <1>6
    <3>2. (tick' + (left[u] - 1)) % TickMod = (tick + left[u]) % TickMod
      BY <1>2, <1>4, <3>1, TickShift
    <3> QED
      BY <1>3, <1>6, <1>7, <3>2
  <2>2. ASSUME NEW c \in Caller, op'[c] = "link"
        PROVE  -MaxLag <= left'[on'[c]]
    <3>1. on[c] \in User /\ op[c] = "link"
      BY <1>1, <1>2, <2>2 DEF CallerInv, TimerTypeOK
    <3>2. on[c] \in Running /\ ~InList(on[c])
      BY <1>1, <3>1 DEF Running, Timers, StartInv, Engaged
    <3>3. -MaxLag < left[on[c]]
      BY <1>2, <3>2 DEF InTime, InList
    <3> QED
      BY <1>2, <1>3, <1>6, <1>7, <3>2, <3>3
  <2>3. \A u \in User : init'[u] <= K
    BY <1>1, <1>2 DEF TickInv
  <2> QED
    BY <1>5, <2>1, <2>2, <2>3 DEF TickInv
<1>10. HardInv'
  <2>1. Sorted(hard, left')
    <3>1. \A u, v : Linked(hard, u) /\ Linked(hard, v) /\ left[u] <= left[v]
                      => left'[u] <= left'[v]
      BY <1>6, <1>7, <1>8
    <3> QED
      BY <1>1, <3>1, SortedKeys DEF HardInv
  <2>2. Late' = 1 /\ Late = 0
    BY <1>2 DEF Late
  <2>3. ASSUME NEW u \in Timers, Linked(hard, u)
        PROVE  -MaxLag - 1 <= left'[u]
    <3>1. -MaxLag - 0 <= left[u]
      BY <1>1, <2>2, <2>3 DEF HardInv
    <3> QED
      BY <1>3, <1>6, <1>7, <1>8, <2>3, <3>1
  <2>4. ASSUME Linked(hard, Wake)
        PROVE  -1 <= left'[Wake]
    <3>1. -0 <= left[Wake]
      BY <1>1, <2>2, <2>4 DEF HardInv
    <3> QED
      BY <1>3, <1>6, <1>7, <1>8, <2>4, <3>1
  <2> QED
    BY <1>2, <2>1, <2>2, <2>3, <2>4 DEF HardInv
<1>11. SoftInv(K)'
  <2>1. Sorted(soft, left')
    <3>1. \A u, v : Linked(soft, u) /\ Linked(soft, v) /\ left[u] <= left[v]
                      => left'[u] <= left'[v]
      BY <1>6, <1>7, <1>8
    <3> QED
      BY <1>1, <3>1, SortedKeys DEF SoftInv
  <2>2. ASSUME Linked(hard, Wake)
        PROVE  /\ Slept(K)' = IF left[Wake] > 0 THEN K - left[Wake] + 1 ELSE 1
               /\ Slept(K) = IF left[Wake] > 0 THEN K - left[Wake] ELSE 0
               /\ left[Wake] \in 0..K
    <3>1. left[Wake] \in Int /\ left[Wake] <= K /\ left'[Wake] = left[Wake] - 1
      BY <1>6, <1>7, <1>8, <2>2
    <3>2. -Late <= left[Wake] /\ Late = 0
      BY <1>1, <1>2, <2>2 DEF HardInv, Late
    <3>3. Slept(K)' = IF left'[Wake] >= 0 THEN K - left'[Wake] ELSE 1
      BY <1>2 DEF Slept
    <3> QED
      BY <1>2, <1>3, <3>1, <3>2, <3>3 DEF Slept
  <2>3. ASSUME NEW u \in Soft, Linked(soft, u)
        PROVE  /\ -(MaxLag + K) <= left'[u]
               /\ asleep /\ Linked(hard, Wake)
                    => -MaxLag - Slept(K)' <= left'[u]
    <3>1. u \in Running /\ left[u] \in Int /\ left'[u] = left[u] - 1
      BY <1>6, <1>7, <1>8, <2>3
    <3>2. \/ -MaxLag < left[u] \/ Linked(hard, u)
          \/ asleep /\ Linked(hard, Wake)
      BY <1>2, <3>1 DEF InTime
    <3>3. ~Linked(hard, u)
      BY <1>1, BothLists, Kinds DEF HardTimers, User
    <3>4. CASE asleep /\ Linked(hard, Wake)
      <4>1. -MaxLag - Slept(K) <= left[u]
        BY <1>1, <2>3, <3>4 DEF SoftInv
      <4> QED
        BY <1>3, <2>2, <3>1, <3>4, <4>1
    <3>5. CASE ~(asleep /\ Linked(hard, Wake))
      BY <1>3, <3>1, <3>2, <3>3, <3>5
    <3> QED
      BY <3>4, <3>5
  <2> QED
    BY <1>2, <2>1, <2>3 DEF SoftInv
<1>12. ASSUME at \in {"delay", "sleep", "suspend"}
       PROVE  /\ outdated'
              /\ \A u \in Soft : Linked(soft, u) => -MaxLag <= left'[u]
  <2>1. ~asleep /\ HasRead
    BY <1>1, <1>12 DEF PlaceInv, HasRead
  <2>2. ASSUME NEW u \in Soft, Linked(soft, u)
        PROVE  -MaxLag <= left'[u]
    <3>1. u \in Running /\ left[u] \in Int /\ left'[u] = left[u] - 1
      BY <1>6, <1>7, <1>8, <2>2
    <3>2. ~Linked(hard, u)
      BY <1>1, BothLists, Kinds DEF HardTimers, User
    <3>3. -MaxLag < left[u]
      BY <1>2, <2>1, <3>1, <3>2 DEF InTime
    <3> QED
      BY <1>3, <3>1, <3>3
  <2> QED
    BY <1>1, <1>2, <2>1, <2>2 DEF TimerTypeOK
<1>13. ReadInv(K)'
  <2>1. ASSUME at \in {"delay", "sleep"}, NEW d
        PROVE  NoneBefore(d)'
    BY <1>2, <1>12, <2>1 DEF NoneBefore
  <2>2. ASSUME at = "delay"
        PROVE  \E d \in -(MaxLag + K)..K :
                 nxt = (tick' + d) % TickMod /\ NoneBefore(d)'
    <3>1. PICK d \in -(MaxLag + K)..K : nxt = (tick + d) % TickMod
      BY <1>1, <2>2 DEF ReadInv
    <3>2. d - 1 \in -(MaxLag + K)..K
      <4>1. CASE d > 0
        BY <1>3, <4>1
      <4>2. CASE d <= 0
        <5>1. /\ 0 \in -TickMod..(TickMod - 1) /\ d \in -TickMod..(TickMod - 1)
              /\ 0 - d \in -TickMod..(TickMod - 1)
          BY <1>3, <4>2
        <5>2. Ahead((tick + 0) % TickMod, (tick + d) % TickMod)
                = IF 0 < d THEN 0 - d + TickMod ELSE 0 - d
          BY <1>4, <5>1, AheadOf
        <5>3. tick + 0 = tick - 0 /\ (tick - 0) % TickMod = tick
          BY <1>4, TickNow
        <5>4. Ahead(tick, nxt) = 0 - d
          BY <3>1, <4>2, <5>2, <5>3
        <5>5. Near(Ahead(tick, nxt))
          BY <1>3, <4>2, <5>4 DEF Near, Half
        <5>6. 0 - d < MaxLag
          BY <1>2, <2>2, <5>4, <5>5 DEF InTime
        <5> QED
          BY <1>3, <4>2, <5>6
      <4> QED
        BY <4>1, <4>2
    <3>3. nxt = (tick' + (d - 1)) % TickMod
      <4>1. d \in -(TickMod - 1)..(TickMod - 1)
        BY <1>3
      <4> QED
        BY <1>2, <1>4, <3>1, <4>1, TickShift
    <3> QED
      BY <2>1, <2>2, <3>2, <3>3
  <2>3. ASSUME at \in {"scan", "after"}, n # None
        PROVE  \E g \in 0..TickMod :
                 cur = (tick' - g) % TickMod /\ left'[n] + g <= K
    <3>1. PICK g \in 0..TickMod :
            cur = (tick - g) % TickMod /\ left[n] + g <= K
      BY <1>1, <2>3 DEF ReadInv
    <3>2. n \in Running
      BY <1>1, <1>8, <2>3 DEF PlaceInv
    <3>3. /\ left[n] \in Int /\ -(MaxLag + K) <= left[n]
          /\ left'[n] = left[n] - 1
      BY <1>6, <1>7, <3>2
    <3>4. g + 1 \in 0..TickMod /\ -g \in -(TickMod - 1)..(TickMod - 1)
      BY <1>3, <3>1, <3>3
    <3>5. (((tick + 1) % TickMod) + (-g - 1)) % TickMod
            = (tick + (-g)) % TickMod
      BY <1>4, <3>4, TickShift
    <3>6. tick' - (g + 1) = tick' + (-g - 1) /\ tick - g = tick + (-g)
      <4>1. tick \in Int /\ tick' \in Int
        BY <1>2, <1>4, TickType
      <4> QED
        BY <4>1
    <3>7. cur = (tick' - (g + 1)) % TickMod
      BY <1>2, <3>1, <3>5, <3>6
    <3>8. left'[n] + (g + 1) <= K
      BY <1>3, <3>1, <3>3
    <3> QED
      BY <3>4, <3>7, <3>8
  <2>4. at = "sleep" => nxt \in 0..K
    BY <1>1 DEF ReadInv
  <2> QED
    BY <1>2, <1>12, <2>1, <2>2, <2>3, <2>4 DEF ReadInv
<1>14. WakeInv'
  <2>1. asleep => outdated' = outdated
    BY <1>1, <1>2 DEF HasRead, TimerTypeOK
  <2>2. \A u \in Soft : Linked(soft, u) /\ Linked(hard, Wake)
                          /\ left[Wake] <= left[u] => left'[Wake] <= left'[u]
    BY <1>6, <1>7, <1>8
  <2> QED
    BY <1>1, <1>2, <2>1, <2>2 DEF WakeInv
<1> QED
  BY <1>9, <1>10, <1>11, <1>13, <1>14 DEF TimeInv

------------------------------------------------------------------------------
(* A timer is started in one step, by a callback or after its own.         *)
LEMMA RestartTime ==
  ASSUME NEW K, Bounded(K), TimeInv(K), ControlInv, TimerTypeOK',
         NEW u \in User, Link(u, timeout'[u]),
         timeout' = [timeout EXCEPT ![u] = (tick + init[u]) % TickMod],
         left' = [left EXCEPT ![u] = init[u]],
         tick' = tick, (irq' = "off") <=> (irq = "off"), init' = init,
         asleep' = asleep, op' = op, on' = on,
         \A c \in Caller : ~Engaged(c, u, {"link"})
  PROVE  /\ TickInv(K)' /\ HardInv' /\ SoftInv(K)'
         /\ \A v : v # u /\ (Linked(hard, v) \/ Linked(soft, v))
                     => left'[v] = left[v]
         /\ left'[Wake] = left[Wake]
         /\ Linked(hard, Wake) => Linked(hard', Wake)
         /\ \A v : Linked(soft', v)
                     <=> (Linked(soft, v) \/ (v = u /\ u \in Soft))
<1>1. /\ TimerTypeOK /\ Lists(hard, soft) /\ CallerInv
      /\ TickInv(K) /\ HardInv /\ SoftInv(K)
  BY DEF ControlInv, ListInv, TimeInv
<1>2. u \in Timers /\ u # Wake /\ Wake \in Timers
  BY Kinds DEF Timers
<1>3. /\ K \in Nat \ {0} /\ MaxLag \in Nat /\ init[u] \in 0..K
  BY <1>1, Bounds DEF TickInv, TimerTypeOK
<1>4. /\ timeout'[u] = (tick + init[u]) % TickMod /\ left'[u] = init[u]
      /\ \A v \in Timers : v # u => /\ timeout'[v] = timeout[v]
                                    /\ left'[v] = left[v]
  BY <1>1, <1>2 DEF TimerTypeOK
<1>5. timeout'[u] = (tick + left'[u]) % TickMod /\ left'[u] \in -MaxLag..K
  BY <1>3, <1>4
<1>6. \A c \in Caller : op'[c] = "link" =>
         op[c] = "link" /\ on'[c] = on[c] /\ on[c] # u /\ on[c] \in User
  BY <1>1 DEF Engaged, CallerInv, TimerTypeOK
<1>7. TickInv(K)' /\ HardInv' /\ SoftInv(K)'
  BY <1>1, <1>4, <1>5, <1>6, LinkTime
<1>8. \A v : Linked(hard, v) \/ Linked(soft, v) => v \in Timers
  BY <1>1, BothLists DEF Timers, HardTimers, User
<1>9. /\ \A v : Linked(hard', v) <=> (Linked(hard, v) \/ (v = u /\ u \in Hard))
      /\ \A v : Linked(soft', v) <=> (Linked(soft, v) \/ (v = u /\ u \in Soft))
  BY <1>1, LinkLists
<1> QED
  BY <1>2, <1>4, <1>7, <1>8, <1>9

(* rt_timer_start in the callback of a hard timer. *)
LEMMA CallbackStartTime ==
  ASSUME Tidy, NEW K, Bounded(K), TimeInv(K), ControlInv, ControlInv',
         NEW u \in User, CallbackStart(u)
  PROVE  TimeInv(K)'
<1>1. /\ TimerTypeOK /\ CallerInv /\ PlaceInv /\ StartInv /\ TimerTypeOK'
      /\ ReadInv(K) /\ WakeInv
  BY DEF ControlInv, ListInv, TimeInv
<1>2. /\ (<<Clock, u>> \in Starts /\ u \notin {t, n, cb}) \/ u = cb
      /\ timeout' = [timeout EXCEPT ![u] = (tick + init[u]) % TickMod]
      /\ left' = [left EXCEPT ![u] = init[u]] /\ Link(u, timeout'[u])
  BY DEF CallbackStart, KeepsOff, Tidy
<1>3. /\ tick' = tick /\ irq' = irq /\ init' = init /\ op' = op /\ on' = on
      /\ at' = at /\ asleep' = asleep /\ cur' = cur /\ nxt' = nxt /\ n' = n
      /\ outdated' = outdated
  BY DEF CallbackStart, interrupt, calls, thread
<1>4. u \in Hard /\ u \notin Soft /\ u # n
  <2>1. CASE <<Clock, u>> \in Starts /\ u \notin {t, n, cb}
    <3>1. <<Clock, u>> \in {Clock} \X Hard
      BY <2>1, TimerAssumption, PartyAssumption
    <3> QED
      BY <2>1, <3>1, Kinds
  <2>2. CASE u = cb
    BY <1>1, <2>2, Kinds DEF TimerTypeOK
  <2> QED
    BY <1>2, <2>1, <2>2
<1>5. \A c \in Caller : ~Engaged(c, u, {"link"})
  <2>1. CASE <<Clock, u>> \in Starts /\ u \notin {t, n, cb}
    <3>1. \A c \in Caller : c # Clock
      BY TimerAssumption
    <3> QED
      BY <1>1, <2>1, <3>1, StarterAlone DEF Engaged
  <2>2. CASE u = cb
    BY <1>1, <2>2 DEF StartInv, Engaged
  <2> QED
    BY <1>2, <2>1, <2>2
<1>6. /\ TickInv(K)' /\ HardInv' /\ SoftInv(K)'
      /\ \A v : v # u /\ (Linked(hard, v) \/ Linked(soft, v))
                  => left'[v] = left[v]
      /\ left'[Wake] = left[Wake]
      /\ Linked(hard, Wake) => Linked(hard', Wake)
      /\ \A v : Linked(soft', v)
                  <=> (Linked(soft, v) \/ (v = u /\ u \in Soft))
  BY <1>1, <1>2, <1>3, <1>5, RestartTime
<1>7. \A v : Linked(soft, v) => v # u
  BY <1>4, BothLists DEF ControlInv, ListInv
<1>8. n # None => left'[n] = left[n]
  BY <1>1, <1>4, <1>6 DEF PlaceInv
<1>9. \A v : Linked(soft', v) => Linked(soft, v) /\ left'[v] = left[v]
  BY <1>4, <1>6, <1>7
<1>10. ReadInv(K)' /\ WakeInv'
  BY <1>1, <1>3, <1>6, <1>8, <1>9, FewerRead
<1> QED
  BY <1>6, <1>10 DEF TimeInv

(* The callback of a hard timer returns. *)
LEMMA CallbackReturnTime ==
  ASSUME NEW K, Bounded(K), TimeInv(K), ControlInv, ControlInv',
         CallbackReturn
  PROVE  TimeInv(K)'
<1>1. /\ TimerTypeOK /\ Lists(hard, soft) /\ PlaceInv /\ StartInv
      /\ TimerTypeOK' /\ TickInv(K) /\ HardInv /\ SoftInv(K)
      /\ ReadInv(K) /\ WakeInv
  BY DEF ControlInv, ListInv, TimeInv
<1>2. /\ irq = "callback" /\ irq' = "check" /\ Rearm(cb)
      /\ tick' = tick /\ init' = init /\ op' = op /\ on' = on
      /\ at' = at /\ asleep' = asleep /\ cur' = cur /\ nxt' = nxt /\ n' = n
      /\ outdated' = outdated
  BY DEF CallbackReturn, calls, thread
<1>3. cb \in Hard /\ cb \in User /\ cb \notin Soft /\ cb # n
  BY <1>1, <1>2, Kinds DEF PlaceInv, TimerTypeOK, User
<1>4. CASE cb \in periodic /\ cb \in active
  <2>1. /\ timeout' = [timeout EXCEPT ![cb] = (tick + init[cb]) % TickMod]
        /\ left' = [left EXCEPT ![cb] = init[cb]] /\ Link(cb, timeout'[cb])
    BY <1>2, <1>4 DEF Rearm
  <2>2. \A c \in Caller : ~Engaged(c, cb, {"link"})
    BY <1>1, <1>3 DEF StartInv, Engaged
  <2>3. /\ TickInv(K)' /\ HardInv' /\ SoftInv(K)'
        /\ \A v : v # cb /\ (Linked(hard, v) \/ Linked(soft, v))
                    => left'[v] = left[v]
        /\ left'[Wake] = left[Wake]
        /\ Linked(hard, Wake) => Linked(hard', Wake)
        /\ \A v : Linked(soft', v)
                    <=> (Linked(soft, v) \/ (v = cb /\ cb \in Soft))
    BY <1>1, <1>2, <1>3, <2>1, <2>2, RestartTime
  <2>4. \A v : Linked(soft, v) => v # cb
    BY <1>1, <1>3, BothLists
  <2>5. /\ n # None => left'[n] = left[n]
        /\ \A v : Linked(soft', v) => Linked(soft, v) /\ left'[v] = left[v]
    BY <1>1, <1>3, <2>3, <2>4 DEF PlaceInv
  <2>6. ReadInv(K)' /\ WakeInv'
    BY <1>1, <1>2, <2>3, <2>5, FewerRead
  <2> QED
    BY <2>3, <2>6 DEF TimeInv
<1>5. CASE ~(cb \in periodic /\ cb \in active)
  <2>1. timeout' = timeout /\ left' = left /\ hard' = hard /\ soft' = soft
    BY <1>2, <1>5 DEF Rearm
  <2>2. Sorted(hard', left) /\ Sorted(soft', left)
    BY <1>1, <2>1 DEF HardInv, SoftInv
  <2>3. \A v \in User : init'[v] <= K
    BY <1>1, <1>2 DEF TickInv
  <2>4. /\ \A v : Linked(hard', v) <=> Linked(hard, v)
        /\ \A v : Linked(soft', v) <=> Linked(soft, v)
    BY <2>1
  <2>5. TickInv(K)' /\ HardInv' /\ SoftInv(K)'
    BY <1>1, <1>2, <2>1, <2>2, <2>3, <2>4, FewerTime
  <2>6. ReadInv(K)' /\ WakeInv'
    BY <1>1, <1>2, <2>1, <2>4, FewerRead
  <2> QED
    BY <2>5, <2>6 DEF TimeInv
<1> QED
  BY <1>4, <1>5

(* After the callback of a soft timer. *)
LEMMA SoftAfterTime ==
  ASSUME NEW K, Bounded(K), TimeInv(K), ControlInv, ControlInv', SoftAfter
  PROVE  TimeInv(K)'
<1>1. /\ TimerTypeOK /\ Lists(hard, soft) /\ PlaceInv /\ StartInv
      /\ TimerTypeOK' /\ TickInv(K) /\ HardInv /\ SoftInv(K)
      /\ ReadInv(K) /\ WakeInv
  BY DEF ControlInv, ListInv, TimeInv
<1>2. /\ irq = "off" /\ irq' = irq /\ Rearm(t) /\ at = "after" /\ at' = "scan"
      /\ tick' = tick /\ init' = init /\ op' = op /\ on' = on
      /\ ~asleep /\ asleep' = asleep /\ cur' = cur /\ nxt' = nxt /\ n' = n
      /\ outdated' = outdated
  BY DEF SoftAfter, TimerThreadAt, interrupt, calls
<1>3. t \in Soft /\ t \in User /\ (n # None => n # t)
  BY <1>1, <1>2 DEF PlaceInv, TimerTypeOK, User
<1>4. /\ TickInv(K)' /\ HardInv' /\ SoftInv(K)'
      /\ n # None => left'[n] = left[n]
  <2>1. CASE t \in periodic /\ t \in active
    <3>1. /\ timeout' = [timeout EXCEPT ![t] = (tick + init[t]) % TickMod]
          /\ left' = [left EXCEPT ![t] = init[t]] /\ Link(t, timeout'[t])
      BY <1>2, <2>1 DEF Rearm
    <3>2. \A c \in Caller : ~Engaged(c, t, {"link"})
      BY <1>1, <1>3 DEF StartInv, Engaged
    <3> DEFINE u == t
    <3> HIDE DEF u
    <3>3. /\ u \in User /\ Link(u, timeout'[u])
          /\ timeout' = [timeout EXCEPT ![u] = (tick + init[u]) % TickMod]
          /\ left' = [left EXCEPT ![u] = init[u]]
          /\ \A c \in Caller : ~Engaged(c, u, {"link"})
      BY <1>3, <3>1, <3>2 DEF u
    <3>4. /\ TickInv(K)' /\ HardInv' /\ SoftInv(K)'
          /\ \A v : v # u /\ (Linked(hard, v) \/ Linked(soft, v))
                      => left'[v] = left[v]
      BY <1>1, <1>2, <3>3, RestartTime
    <3> QED
      BY <1>1, <1>3, <3>4 DEF u, PlaceInv
  <2>2. CASE ~(t \in periodic /\ t \in active)
    <3>1. timeout' = timeout /\ left' = left /\ hard' = hard /\ soft' = soft
      BY <1>2, <2>2 DEF Rearm
    <3>2. Sorted(hard', left) /\ Sorted(soft', left)
      BY <1>1, <3>1 DEF HardInv, SoftInv
    <3>3. \A v \in User : init'[v] <= K
      BY <1>1, <1>2 DEF TickInv
    <3>4. /\ \A v : Linked(hard', v) <=> Linked(hard, v)
          /\ \A v : Linked(soft', v) <=> Linked(soft, v)
      BY <3>1
    <3>5. TickInv(K)' /\ HardInv' /\ SoftInv(K)'
      BY <1>1, <1>2, <3>1, <3>2, <3>3, <3>4, FewerTime
    <3> QED
      BY <3>1, <3>5
  <2> QED
    BY <2>1, <2>2
<1>5. ReadInv(K)'
  BY <1>1, <1>2, <1>4 DEF ReadInv
<1>6. WakeInv'
  BY <1>2 DEF WakeInv
<1> QED
  BY <1>4, <1>5, <1>6 DEF TimeInv

------------------------------------------------------------------------------
(* The steps of the timer thread.                                          *)

(* What the invariant says of the soft timers that are linked.             *)
LEMMA SoftTimes ==
  ASSUME NEW K, Bounded(K), TimeInv(K), ControlInv,
         NEW u, Linked(soft, u)
  PROVE  /\ u \in Soft /\ left[u] \in Int
         /\ -(MaxLag + K) <= left[u] /\ left[u] <= K
         /\ timeout[u] = (tick + left[u]) % TickMod
         /\ soft # <<>> /\ Linked(soft, Head(soft))
         /\ left[Head(soft)] <= left[u]
<1>1. /\ TimerTypeOK /\ Lists(hard, soft) /\ soft \in Seq(Soft) /\ Once(soft)
      /\ TickInv(K) /\ HardInv /\ SoftInv(K)
  BY DEF ControlInv, ListInv, Lists, TimeInv
<1>2. u \in Soft /\ u \in Running /\ \A v \in Soft : left[v] \in Int
  BY <1>1, BothLists DEF Running, Timers, User, TimerTypeOK
<1>3. soft # <<>> /\ left[Head(soft)] <= left[u]
  BY <1>1, <1>2, HeadSmallest DEF SoftInv
<1>4. Linked(soft, Head(soft))
  BY <1>1, <1>3, TailLists
<1> QED
  BY <1>1, <1>2, <1>3, <1>4, RunningTimes

(* Steps of the timer thread that link no timer.                           *)
LEMMA ThreadTime ==
  ASSUME NEW K, TimeInv(K), ControlInv,
         tick' = tick, timeout' = timeout, left' = left, irq' = irq,
         init' = init, hard' = hard, op' = op, on' = on,
         soft' = soft \/ \E u : soft' = Unlink(soft, u)
  PROVE  /\ TickInv(K)' /\ HardInv' /\ SoftInv(K)'
         /\ \A v : Linked(soft', v) => Linked(soft, v)
<1>1. /\ Lists(hard, soft) /\ (Linked(hard, Wake) => asleep)
      /\ TickInv(K) /\ HardInv /\ SoftInv(K)
  BY DEF ControlInv, ListInv, TimeInv
<1>2. /\ \A v : Linked(soft', v) => Linked(soft, v)
      /\ Sorted(soft', left)
  <2>1. CASE soft' = soft
    BY <1>1, <2>1 DEF SoftInv
  <2>2. ASSUME NEW u, soft' = Unlink(soft, u)
        PROVE  /\ \A v : Linked(soft', v) => Linked(soft, v)
               /\ Sorted(soft', left)
    <3>1. Sorted(soft', left)
      BY <1>1, <2>2, UnlinkSorted DEF Lists, SoftInv
    <3>2. CASE Linked(soft, u)
      <4>1. u \in Soft
        BY <1>1, <3>2, BothLists
      <4> QED
        BY <1>1, <2>2, <3>1, <4>1, RemoveLinked DEF Lists
    <3>3. CASE ~Linked(soft, u)
      BY <2>2, <3>1, <3>3, RemoveOther
    <3> QED
      BY <3>2, <3>3
  <2> QED
    BY <2>1, <2>2
<1>3. Sorted(hard', left) /\ \A v : Linked(hard', v) => Linked(hard, v)
  BY <1>1 DEF HardInv
<1>4. asleep' /\ Linked(hard', Wake) => asleep
  BY <1>1
<1>5. \A u \in User : init'[u] <= K
  BY <1>1 DEF TickInv
<1> QED
  BY <1>1, <1>2, <1>3, <1>4, <1>5, FewerTime

(* rt_timer_list_next_timeout. *)
LEMMA ReadNextTime ==
  ASSUME NEW K, Bounded(K), TimeInv(K), ControlInv, ReadNext
  PROVE  TimeInv(K)'
<1>1. /\ TimerTypeOK /\ Lists(hard, soft) /\ TickInv(K) /\ soft \in Seq(Soft)
      /\ Once(soft)
  BY DEF ControlInv, ListInv, Lists, TimeInv
<1>2. /\ at' = IF nxt' = TickMax THEN "suspend" ELSE "delay"
      /\ nxt' = IF soft = <<>> THEN TickMax ELSE timeout[Head(soft)]
      /\ outdated' = (soft # <<>> /\ nxt' = TickMax)
      /\ ~asleep /\ asleep' = asleep
  BY DEF ReadNext, TimerThreadAt
<1>3. /\ tick' = tick /\ timeout' = timeout /\ left' = left /\ irq' = irq
      /\ init' = init /\ hard' = hard /\ soft' = soft /\ op' = op /\ on' = on
  BY DEF ReadNext, fields, interrupt, calls
<1>4. TickInv(K)' /\ HardInv' /\ SoftInv(K)'
  BY <1>3, ThreadTime
<1>5. CASE soft = <<>>
  <2>1. nxt' = TickMax /\ at' = "suspend"
    BY <1>2, <1>5
  <2>2. \A u \in Soft : ~Linked(soft', u)
    BY <1>3, <1>5 DEF Linked
  <2>3. ReadInv(K)'
    BY <2>1, <2>2 DEF ReadInv
  <2> QED
    BY <1>2, <1>4, <2>3 DEF TimeInv, WakeInv
<1>6. CASE soft # <<>>
  <2> DEFINE d == left[Head(soft)]
  <2>1. Linked(soft, Head(soft))
    BY <1>1, <1>6, TailLists
  <2>2. /\ Head(soft) \in Soft /\ d \in Int /\ -(MaxLag + K) <= d /\ d <= K
        /\ timeout[Head(soft)] = (tick + d) % TickMod
    BY <2>1, SoftTimes
  <2>3. \A u \in Soft : Linked(soft, u) => d <= left[u]
    BY SoftTimes
  <2>4. d \in -(MaxLag + K)..K /\ nxt' = (tick + d) % TickMod
    BY <1>2, <1>6, <2>2, Bounds
  <2> DEFINE NoneSooner == \A u \in Soft : Linked(soft', u) => d <= left'[u]
  <2>5. NoneSooner
    BY <1>3, <2>3
  <2>6. at' = "delay" => \E e \in -(MaxLag + K)..K :
            nxt' = (tick' + e) % TickMod /\ NoneBefore(e)'
    <3>1. PICK e \in -(MaxLag + K)..K :
             /\ nxt' = (tick' + e) % TickMod
             /\ \A u \in Soft : Linked(soft', u) => e <= left'[u]
      BY <1>3, <2>4, <2>5
    <3>2. NoneBefore(e)'
      BY <3>1 DEF NoneBefore
    <3> QED
      BY <3>1, <3>2
  <2>7. at' = "suspend" => outdated'
    BY <1>2, <1>6
  <2>8. at' \in {"delay", "suspend"}
    BY <1>2
  <2>9. ReadInv(K)'
    BY <2>6, <2>7, <2>8 DEF ReadInv
  <2> QED
    BY <1>2, <1>4, <2>9 DEF TimeInv, WakeInv
<1> QED
  BY <1>5, <1>6

(* rt_thread_suspend: there are no soft timers, or there are new ones.     *)
LEMMA SuspendSelfTime ==
  ASSUME NEW K, TimeInv(K), ControlInv, SuspendSelf
  PROVE  TimeInv(K)'
<1>1. /\ at = "suspend" /\ at' = "check" /\ outdated' = outdated
      /\ tick' = tick /\ timeout' = timeout /\ left' = left /\ irq' = irq
      /\ init' = init /\ hard' = hard /\ soft' = soft /\ op' = op /\ on' = on
  BY DEF SuspendSelf, TimerThreadAt, fields, interrupt, calls
<1>2. TickInv(K)' /\ HardInv' /\ SoftInv(K)'
  BY <1>1, ThreadTime
<1>3. outdated \/ \A u \in Soft : ~Linked(soft, u)
  BY <1>1 DEF TimeInv, ReadInv
<1>4. ReadInv(K)' /\ WakeInv'
  BY <1>1, <1>3 DEF ReadInv, WakeInv
<1> QED
  BY <1>2, <1>4 DEF TimeInv

(* The time to sleep is the time left to the first soft timer.             *)
LEMMA ReadTickTime ==
  ASSUME NEW K, Bounded(K), TimeInv(K), ControlInv, ReadTick
  PROVE  TimeInv(K)'
<1>1. /\ at = "delay" /\ outdated' = outdated /\ ~asleep /\ asleep' = asleep
      /\ tick' = tick /\ timeout' = timeout /\ left' = left /\ irq' = irq
      /\ init' = init /\ hard' = hard /\ soft' = soft /\ op' = op /\ on' = on
      /\ IF Near(Ahead(nxt, tick))
         THEN at' = "sleep" /\ nxt' = Ahead(nxt, tick)
         ELSE at' = "check" /\ nxt' = 0
  BY DEF ReadTick, TimerThreadAt, fields, interrupt, calls
<1>2. TickInv(K)' /\ HardInv' /\ SoftInv(K)'
  BY <1>1, ThreadTime
<1>3. WakeInv'
  BY <1>1 DEF WakeInv
<1>4. PICK d \in -(MaxLag + K)..K : nxt = (tick + d) % TickMod /\ NoneBefore(d)
  BY <1>1 DEF TimeInv, ReadInv
<1>5. CASE Near(Ahead(nxt, tick))
  <2>0. tick \in 0..TickMax
    BY DEF ControlInv, ListInv, TimerTypeOK
  <2>1. /\ d \in -TickMod..(TickMod - 1) /\ 0 \in -TickMod..(TickMod - 1)
        /\ d - 0 \in -TickMod..(TickMod - 1)
    BY Bounds
  <2>2. Ahead((tick + d) % TickMod, (tick + 0) % TickMod)
          = IF d < 0 THEN d - 0 + TickMod ELSE d - 0
    BY <2>0, <2>1, AheadOf
  <2>3. (tick + 0) % TickMod = tick
    <3>1. tick + 0 = tick - 0
      BY <2>0, TickType
    <3> QED
      BY <2>0, <3>1, TickNow
  <2>4. Ahead(nxt, tick) = IF d < 0 THEN d + TickMod ELSE d
    BY <1>4, <2>2, <2>3, Bounds
  <2>5. ~(d < 0) /\ Ahead(nxt, tick) = d
    BY <1>4, <1>5, <2>4, Bounds DEF Near, Half
  <2>6. at' = "sleep" /\ nxt' = d /\ d \in 0..K
    BY <1>1, <1>5, <2>5, Bounds
  <2>7. NoneBefore(d)'
    BY <1>1, <1>4 DEF NoneBefore
  <2>8. NoneBefore(nxt)'
    BY <2>6, <2>7 DEF NoneBefore
  <2>9. ReadInv(K)'
    BY <2>6, <2>8 DEF ReadInv
  <2> QED
    BY <1>2, <1>3, <2>9 DEF TimeInv
<1>6. CASE ~Near(Ahead(nxt, tick))
  <2>1. ReadInv(K)'
    BY <1>1, <1>6 DEF ReadInv
  <2> QED
    BY <1>2, <1>3, <2>1 DEF TimeInv
<1> QED
  BY <1>5, <1>6

(* rt_thread_delay. *)
LEMMA SleepTime ==
  ASSUME NEW K, Bounded(K), TimeInv(K), ControlInv, ControlInv', Sleep
  PROVE  TimeInv(K)'
<1>1. /\ TimerTypeOK /\ Lists(hard, soft) /\ (Linked(hard, Wake) => asleep)
      /\ TickInv(K) /\ HardInv /\ SoftInv(K) /\ ReadInv(K)
  BY DEF ControlInv, ListInv, TimeInv
<1>2. /\ at = "sleep" /\ at' = "check" /\ ~asleep /\ asleep' = TRUE
      /\ irq = "off"
      /\ timeout' = [timeout EXCEPT ![Wake] = (tick + nxt) % TickMod]
      /\ left' = [left EXCEPT ![Wake] = nxt]
      /\ hard' = Insert(hard, Wake, timeout'[Wake])
      /\ soft' = soft /\ tick' = tick /\ init' = init /\ irq' = irq
      /\ op' = op /\ on' = on /\ outdated' = outdated
  BY DEF Sleep, TimerThreadAt, interrupt, calls
<1>3. /\ K \in Nat \ {0} /\ MaxLag \in Nat /\ nxt \in 0..K /\ NoneBefore(nxt)
  BY <1>1, <1>2, Bounds DEF ReadInv
<1>4. /\ Wake \in Timers /\ Wake \in HardTimers /\ ~Linked(hard, Wake)
      /\ Wake \notin Soft /\ HardTimers \subseteq Timers
      /\ Soft \subseteq Timers
  BY <1>1, <1>2, Kinds DEF Timers, HardTimers, User
<1>5. /\ timeout'[Wake] = (tick + nxt) % TickMod /\ left'[Wake] = nxt
      /\ \A v \in Timers : v # Wake => /\ timeout'[v] = timeout[v]
                                       /\ left'[v] = left[v]
  BY <1>1, <1>2, <1>4 DEF TimerTypeOK
<1>6. \A v : Linked(hard', v) <=> (Linked(hard, v) \/ v = Wake)
  BY <1>1, <1>2, <1>4, InsertLinked DEF Lists
<1>7. \A v : Linked(hard, v) =>
         v \in Running /\ v # Wake /\ left'[v] = left[v] /\ v \in HardTimers
  BY <1>1, <1>4, <1>5, BothLists DEF Running
<1>8. \A v : Linked(soft, v) => v \in Soft /\ left'[v] = left[v]
  BY <1>1, <1>4, <1>5, BothLists
<1>9. TickInv(K)'
  <2>1. ASSUME NEW v \in Running'
        PROVE  timeout'[v] = (tick' + left'[v]) % TickMod /\ left'[v] <= K
    <3>1. v \in Timers /\ (v = Wake \/ v \in Running)
      BY <1>2, <1>6 DEF Running
    <3>2. CASE v = Wake
      BY <1>2, <1>3, <1>5, <3>2
    <3>3. CASE v # Wake
      BY <1>1, <1>2, <1>5, <3>1, <3>3 DEF TickInv
    <3> QED
      BY <3>2, <3>3
  <2>2. ASSUME NEW c \in Caller, op'[c] = "link"
        PROVE  -MaxLag <= left'[on'[c]]
    <3>1. on[c] \in User /\ op[c] = "link"
      BY <1>2, <2>2 DEF ControlInv, CallerInv, ListInv, TimerTypeOK
    <3>2. on[c] \in Timers /\ on[c] # Wake
      BY <3>1, Kinds DEF Timers
    <3> QED
      BY <1>1, <1>2, <1>5, <3>1, <3>2 DEF TickInv
  <2>3. \A u \in User : init'[u] <= K
    BY <1>1, <1>2 DEF TickInv
  <2> QED
    BY <2>1, <2>2, <2>3 DEF TickInv
<1>10. HardInv'
  <2> DEFINE key == left'
  <2>1. Sorted(hard, key)
    BY <1>1, <1>7, SortedKeys DEF HardInv
  <2>2. \A v \in HardTimers : key[v] \in Int
    <3>1. left' \in [Timers -> Int]
      BY DEF ControlInv, ListInv, TimerTypeOK
    <3> QED
      BY <1>4, <3>1
  <2>3. Late = 0 /\ Late' = 0
    BY <1>2 DEF Late
  <2>4. ASSUME NEW v, Linked(hard, v)
        PROVE  /\ timeout[v] = (tick + key[v]) % TickMod
               /\ key[v] \in -(MaxLag + K)..K
    <3>1. v \in Running /\ left[v] = key[v] /\ key[v] \in Int /\ v \in Timers
      BY <1>4, <1>7, <2>2, <2>4
    <3>2. timeout[v] = (tick + left[v]) % TickMod /\ left[v] <= K
      BY <1>1, <3>1 DEF TickInv
    <3>3. -MaxLag - Late <= left[v]
      BY <1>1, <2>4, <3>1 DEF HardInv
    <3> QED
      BY <1>3, <2>3, <3>1, <3>2, <3>3
  <2>5. key[Wake] \in -MaxLag..K /\ key[Wake] = nxt
    BY <1>3, <1>5
  <2>6. tick \in 0..TickMax /\ hard \in Seq(HardTimers)
    BY <1>1 DEF TimerTypeOK, Lists
  <2> HIDE DEF key
  <2>7. Sorted(Insert(hard, Wake, (tick + key[Wake]) % TickMod), key)
    BY <1>4, <2>1, <2>2, <2>4, <2>5, <2>6, InsertSorted
  <2>8. Sorted(hard', left')
    BY <1>2, <1>5, <2>5, <2>7 DEF key
  <2>9. \A v \in Timers : Linked(hard', v) => -MaxLag <= left'[v]
    <3>1. \A v : Linked(hard, v) => -MaxLag - Late <= left[v]
      BY <1>1, <1>4, <1>7 DEF HardInv
    <3> QED
      BY <1>3, <1>5, <1>6, <1>7, <2>3, <3>1
  <2> QED
    BY <1>3, <1>5, <2>3, <2>8, <2>9 DEF HardInv
<1>11. SoftInv(K)'
  <2>1. Sorted(soft', left')
    BY <1>1, <1>2, <1>8, SortedKeys DEF SoftInv
  <2>2. Slept(K)' = IF nxt > 0 THEN K - nxt ELSE 0
    BY <1>2, <1>5 DEF Slept
  <2>3. \A v \in Soft : Linked(soft, v) =>
           -(MaxLag + K) <= left[v] /\ -MaxLag <= left[v]
    <3>1. \A v \in Soft : left[v] \in Int
      BY <1>1, <1>4 DEF TimerTypeOK
    <3> QED
      BY <1>1, <1>3, <3>1 DEF NoneBefore, SoftInv
  <2>4. \A v \in Soft : left[v] \in Int
    BY <1>1, <1>4 DEF TimerTypeOK
  <2>5. ASSUME NEW v \in Soft, Linked(soft', v)
        PROVE  /\ -(MaxLag + K) <= left'[v] /\ -MaxLag - Slept(K)' <= left'[v]
    BY <1>2, <1>3, <1>8, <2>2, <2>3, <2>4, <2>5
  <2> QED
    BY <2>1, <2>5 DEF SoftInv
<1>12. ReadInv(K)'
  BY <1>2 DEF ReadInv
<1>13. WakeInv'
  <2>1. ~outdated => \A u \in Soft : Linked(soft, u) => nxt <= left[u]
    BY <1>3 DEF NoneBefore
  <2> QED
    BY <1>2, <1>5, <1>6, <1>8, <2>1 DEF WakeInv
<1> QED
  BY <1>9, <1>10, <1>11, <1>12, <1>13 DEF TimeInv

(* The tick and the first timer are read: nothing has gone by since.       *)
LEMMA CheckSoftTime ==
  ASSUME NEW K, Bounded(K), TimeInv(K), ControlInv, CheckSoft \/ SoftReturn
  PROVE  TimeInv(K)'
<1>1. /\ at' \in {"scan", "after"} /\ cur' = tick /\ ~asleep
      /\ asleep' = asleep
      /\ tick' = tick /\ timeout' = timeout /\ left' = left /\ irq' = irq
      /\ init' = init /\ hard' = hard /\ soft' = soft /\ op' = op /\ on' = on
      /\ n' = n \/ n' = IF soft = <<>> THEN None ELSE Head(soft)
  BY DEF CheckSoft, SoftReturn, TimerThreadAt, fields, interrupt, calls
<1>2. TickInv(K)' /\ HardInv' /\ SoftInv(K)'
  BY <1>1, ThreadTime
<1>3. n' # None => Linked(soft, n')
  <2>1. soft # <<>> => Linked(soft, Head(soft))
    BY TailLists DEF ControlInv, ListInv, Lists
  <2> QED
    BY <1>1, <2>1 DEF ControlInv, PlaceInv
<1>4. n' # None => left[n'] \in Int /\ left[n'] <= K
  BY <1>3, SoftTimes
<1>5. cur' = (tick' - 0) % TickMod /\ 0 \in 0..TickMod
  BY <1>1, TickNow, Bounds DEF ControlInv, ListInv, TimerTypeOK
<1>6. n' # None => left'[n'] + 0 <= K
  BY <1>1, <1>4
<1>7. ReadInv(K)'
  BY <1>1, <1>5, <1>6 DEF ReadInv
<1>8. WakeInv'
  BY <1>1 DEF WakeInv
<1> QED
  BY <1>2, <1>7, <1>8 DEF TimeInv

(* A due timer is removed, or the loop ends. *)
LEMMA ScanTime ==
  ASSUME NEW K, TimeInv(K), ControlInv, ScanExpire \/ ScanEnd
  PROVE  TimeInv(K)'
<1>1. /\ at' \in {"callback", "next"} /\ ~asleep /\ asleep' = asleep
      /\ tick' = tick /\ timeout' = timeout /\ left' = left /\ irq' = irq
      /\ init' = init /\ hard' = hard /\ op' = op /\ on' = on
      /\ soft' = soft \/ soft' = Unlink(soft, n)
  BY DEF ScanExpire, ScanEnd, TimerThreadAt, fields, interrupt, calls
<1>2. TickInv(K)' /\ HardInv' /\ SoftInv(K)'
  BY <1>1, ThreadTime
<1>3. ReadInv(K)' /\ WakeInv'
  BY <1>1 DEF ReadInv, WakeInv
<1> QED
  BY <1>2, <1>3 DEF TimeInv

(* At the start no time runs. *)
LEMMA InitTime ==
  ASSUME NEW K, Bounded(K)
  PROVE  TimerInit => TimeInv(K)
<1> SUFFICES ASSUME TimerInit PROVE TimeInv(K)
  OBVIOUS
<1>1. Len(hard) = 0 /\ Len(soft) = 0
  BY DEF TimerInit
<1>2. \A v : ~Linked(hard, v) /\ ~Linked(soft, v)
  BY <1>1 DEF Linked
<1>3. Sorted(hard, left) /\ Sorted(soft, left)
  BY <1>1 DEF Sorted
<1>4. \A c \in Caller : op[c] # "link"
  BY DEF TimerInit
<1>5. init = InitTick /\ at = "next" /\ asleep = FALSE
  BY DEF TimerInit
<1>6. TickInv(K)
  BY <1>2, <1>4, <1>5 DEF TickInv, Running, Bounded
<1>7. HardInv /\ SoftInv(K)
  BY <1>2, <1>3 DEF HardInv, SoftInv
<1>8. ReadInv(K) /\ WakeInv
  BY <1>5 DEF ReadInv, WakeInv
<1> QED
  BY <1>6, <1>7, <1>8 DEF TimeInv

(* Every step keeps the times as they should be.                           *)
LEMMA NextTime ==
  ASSUME Tidy, NEW K, Bounded(K), ControlInv, ControlInv', TimeInv(K),
         [TimerNext]_timerVars
  PROVE  TimeInv(K)'
<1>1. CASE UNCHANGED timerVars
  <2>1. /\ tick' = tick /\ timeout' = timeout /\ left' = left /\ irq' = irq
        /\ init' = init /\ hard' = hard /\ soft' = soft /\ at' = at
        /\ nxt' = nxt /\ cur' = cur /\ n' = n /\ outdated' = outdated
        /\ asleep' = asleep /\ op' = op /\ on' = on
    BY <1>1 DEF timerVars
  <2>2. \A u \in User : init'[u] <= K
    BY <2>1 DEF TimeInv, TickInv
  <2> QED
    BY <2>1, <2>2, StillTime
<1>2. CASE Tick \/ ClockStep
  BY <1>2, TickTime, CheckExpireTime, CallbackReturnTime, CheckEndTime
     DEF ClockStep
<1>3. CASE ThreadStep
  BY <1>3, ReadNextTime, SuspendSelfTime, ReadTickTime, SleepTime,
     CheckSoftTime, ScanTime, SoftAfterTime DEF ThreadStep
<1>4. ASSUME NEW u \in User,
             CallbackStart(u) \/ CallbackStop(u) \/ Control(Clock, u)
      PROVE  TimeInv(K)'
  BY <1>4, CallbackStartTime, DetachTime, SetUpTime
<1>5. ASSUME NEW u \in User, NEW c \in Caller,
             \/ StartUnlink(c, u) \/ StopTest(c, u)
             \/ Control(c, u) \/ Detach(c, u)
      PROVE  TimeInv(K)'
  BY <1>5, StartUnlinkTime, StopTime, SetUpTime, DetachTime
<1>6. ASSUME NEW c \in Caller, CallerStep(c)
      PROVE  TimeInv(K)'
  <2>1. CASE StopFlag(c)
    <3>1. on[c] \in User
      BY <2>1 DEF StopFlag, ControlInv, ListInv, TimerTypeOK, CallerInv
    <3> QED
      BY <2>1, <3>1, StopTime
  <2>2. CASE ~StopFlag(c)
    BY <1>6, <2>2, StartTickTime, StartLinkTime, StartTestTime,
       StartResumeTime, StopUnlinkTime DEF CallerStep
  <2> QED
    BY <2>1, <2>2
<1> QED
  BY <1>1, <1>2, <1>3, <1>4, <1>5, <1>6 DEF TimerNext

(* The lists, what was read from them and the tick counter agree on the    *)
(* times that are left.                                                    *)
THEOREM TimerTimes ==
  ASSUME NEW K, Bounded(K)
  PROVE  Tidy /\ TimerSpec => [](ControlInv /\ TimeInv(K))
<1> SUFFICES ASSUME Tidy PROVE TimerSpec => [](ControlInv /\ TimeInv(K))
  OBVIOUS
<1>1. TimerInit => ControlInv /\ TimeInv(K)
  BY InitControl, InitTime
<1>2. ControlInv /\ TimeInv(K) /\ [TimerNext]_timerVars
        => (ControlInv /\ TimeInv(K))'
  <2> SUFFICES ASSUME ControlInv, TimeInv(K), [TimerNext]_timerVars
               PROVE  ControlInv' /\ TimeInv(K)'
    OBVIOUS
  <2>1. ControlInv'
    BY NextControl
  <2> QED
    BY <2>1, NextTime
<1> QED
  BY <1>1, <1>2, PTL DEF TimerSpec

(* Both lists stay sorted by the time that is left, whatever the tick      *)
(* counter shows.                                                          *)
THEOREM TimerListsInOrder ==
  ASSUME NEW K, Bounded(K)
  PROVE  Tidy /\ TimerSpec => []ListsInOrder
<1>1. ControlInv /\ TimeInv(K) => ListsInOrder
  BY DEF ControlInv, ListInv, Lists, TimeInv, HardInv, SoftInv, ListsInOrder
<1> QED
  BY <1>1, TimerTimes, PTL

(* The timer thread never sleeps past the first soft timer.                *)
THEOREM SleeperIsWokenInTime ==
  ASSUME NEW K, Bounded(K)
  PROVE  Tidy /\ TimerSpec => []WokenInTime
<1>1. ControlInv /\ TimeInv(K) => WokenInTime
  <2> SUFFICES ASSUME ControlInv, TimeInv(K), asleep, soft # <<>>, ~outdated
               PROVE  \/ Linked(hard, Wake) /\ left[Wake] <= left[Head(soft)]
                      \/ \E c \in Caller : op[c] \in {"test", "resume"}
    BY DEF WokenInTime
  <2>1. Head(soft) \in Soft /\ Linked(soft, Head(soft))
    BY TailLists DEF ControlInv, ListInv, Lists
  <2> QED
    BY <2>1 DEF TimeInv, WakeInv
<1> QED
  BY <1>1, TimerTimes, PTL

(* A callback runs in the tick its timer asked for, never early, and no    *)
(* hard timer that was due when an interrupt began is linked when it ends. *)
THEOREM TimersExpireOnTheirTick ==
  ASSUME NEW K, Bounded(K)
  PROVE  Tidy /\ TimerSpec => ExpiresOnItsTick
<1>1. ControlInv /\ TimeInv(K) /\ [TimerNext]_timerVars =>
        [/\ CheckExpire => left[Head(hard)] <= 0
         /\ ScanExpire => left[n] <= 0
         /\ CheckEnd => \A u \in Range(hard) : left[u] > 0]_timerVars
  <2> SUFFICES ASSUME ControlInv, TimeInv(K)
               PROVE  /\ CheckExpire => left[Head(hard)] <= 0
                      /\ ScanExpire => left[n] <= 0
                      /\ CheckEnd => \A u \in Range(hard) : left[u] > 0
    OBVIOUS
  <2>1. /\ TimerTypeOK /\ Lists(hard, soft) /\ PlaceInv
        /\ TickInv(K) /\ HardInv /\ SoftInv(K) /\ ReadInv(K)
    BY DEF ControlInv, ListInv, TimeInv
  <2>2. ASSUME CheckExpire
        PROVE  left[Head(hard)] <= 0
    <3>1. Linked(hard, Head(hard)) /\ Due(tick, Head(hard))
      BY <2>1, <2>2, TailLists DEF CheckExpire, Lists
    <3> QED
      BY <2>1, <3>1, HardTimes
  <2>3. ASSUME ScanExpire
        PROVE  left[n] <= 0
    <3>1. at = "scan" /\ n # None /\ Due(cur, n) /\ Linked(soft, n)
      BY <2>1, <2>3 DEF ScanExpire, TimerThreadAt, PlaceInv
    <3>2. PICK g \in 0..TickMod :
            cur = (tick - g) % TickMod /\ left[n] + g <= K
      BY <2>1, <3>1 DEF ReadInv
    <3>3. /\ left[n] \in Int /\ -(MaxLag + K) <= left[n] /\ left[n] <= K
          /\ timeout[n] = (tick + left[n]) % TickMod
      BY <3>1, SoftTimes
    <3>4. /\ g \in Nat /\ g <= TickMod - 1 /\ -Half < left[n] + g
      BY <3>2, <3>3, Bounds
    <3>5. tick \in 0..TickMax
      BY <2>1 DEF TimerTypeOK
    <3>6. Due((tick - g) % TickMod, n) <=> left[n] + g <= 0
      BY <3>2, <3>3, <3>4, <3>5, DueIff
    <3>7. left[n] + g <= 0
      BY <3>1, <3>2, <3>6
    <3> QED
      BY <3>3, <3>4, <3>7
  <2>4. ASSUME CheckEnd, NEW u \in Range(hard)
        PROVE  left[u] > 0
    <3>1. Linked(hard, u)
      <4>1. PICK i \in DOMAIN hard : u = hard[i]
        BY <2>4 DEF Range
      <4>2. DOMAIN hard = 1..Len(hard)
        BY <2>1, LenProperties DEF Lists
      <4> QED
        BY <4>1, <4>2 DEF Linked
    <3>2. left[u] \in Nat \ {0}
      BY <2>4, <3>1, NoneLeft
    <3> QED
      BY <3>2
  <2> QED
    BY <2>2, <2>3, <2>4
<1> QED
  BY <1>1, TimerTimes, PTL DEF TimerSpec, ExpiresOnItsTick

==============================================================================
