---------------------------- MODULE IpcListProofs ----------------------------
(***************************************************************************)
(* What the operators of module IpcList do to a list of threads.           *)
(***************************************************************************)
EXTENDS IpcList, SequenceTheorems, FiniteSetTheorems, WellFoundedInduction,
        TLAPS

(* A set of naturals that is not empty has a least element.                *)
LEMMA SmallestNat ==
  ASSUME NEW S \in SUBSET Nat, S # {}
  PROVE  \E i \in S : \A j \in S : i <= j
<1> DEFINE R == {ss \in Nat \X Nat : ss[1] < ss[2]}
<1>1. IsWellFoundedOn(R, Nat)
  BY NatLessThanWellFounded DEF OpToRel
<1> HIDE DEF R
<1>2. \E i \in S : \A j \in S : ~(<<j, i>> \in R)
  BY <1>1, WFMin
<1>3. \A i, j \in Nat : j < i => <<j, i>> \in R
  BY DEF R
<1>4. \A i, j \in S : ~(<<j, i>> \in R) => i <= j
  BY <1>3
<1> QED
  BY <1>2, <1>4

(* InsertAt shifts the elements from position i on by one.                 *)
LEMMA InsertElements ==
  ASSUME NEW T, NEW s \in Seq(T), NEW t \in T, NEW i \in 1..(Len(s) + 1)
  PROVE  /\ InsertAt(s, i, t) \in Seq(T)
         /\ Len(InsertAt(s, i, t)) = Len(s) + 1
         /\ \A k \in 1..(Len(s) + 1) :
              InsertAt(s, i, t)[k] = IF k < i THEN s[k]
                                     ELSE IF k = i THEN t ELSE s[k - 1]
<1> DEFINE a == SubSeq(s, 1, i - 1)
           b == SubSeq(s, i, Len(s))
<1>0. Len(s) \in Nat
  BY LenProperties
<1>1. /\ a \in Seq(T) /\ Len(a) = i - 1
      /\ \A k \in 1..(i - 1) : a[k] = s[k]
  <2>1. \A k \in 1..(i - 1) : s[k] \in T
    BY <1>0, ElementOfSeq
  <2> QED
    BY <1>0, <2>1, SubSeqProperties
<1>2. /\ b \in Seq(T) /\ Len(b) = Len(s) + 1 - i
      /\ \A k \in 1..(Len(s) + 1 - i) : b[k] = s[i + k - 1]
  <2>1. \A k \in i..Len(s) : s[k] \in T
    BY <1>0, ElementOfSeq
  <2> QED
    BY <1>0, <2>1, SubSeqProperties
<1>3. <<t>> \in Seq(T) /\ Len(<<t>>) = 1 /\ <<t>>[1] = t
  OBVIOUS
<1> HIDE DEF a, b
<1>4. /\ a \o <<t>> \in Seq(T) /\ Len(a \o <<t>>) = i
      /\ \A k \in 1..i : (a \o <<t>>)[k] = IF k < i THEN s[k] ELSE t
  BY <1>0, <1>1, <1>3, ConcatProperties
<1>5. /\ (a \o <<t>>) \o b \in Seq(T)
      /\ Len((a \o <<t>>) \o b) = Len(s) + 1
      /\ \A k \in 1..(Len(s) + 1) :
           ((a \o <<t>>) \o b)[k] = IF k <= i THEN (a \o <<t>>)[k] ELSE b[k - i]
  BY <1>0, <1>2, <1>4, ConcatProperties
<1>6. InsertAt(s, i, t) = (a \o <<t>>) \o b
  BY DEF InsertAt, a, b
<1> QED
  BY <1>0, <1>2, <1>4, <1>5, <1>6

(* RemoveAt closes the gap at position i.                                  *)
LEMMA RemoveElements ==
  ASSUME NEW T, NEW s \in Seq(T), NEW i \in 1..Len(s)
  PROVE  /\ RemoveAt(s, i) \in Seq(T)
         /\ Len(RemoveAt(s, i)) = Len(s) - 1
         /\ \A k \in 1..(Len(s) - 1) :
              RemoveAt(s, i)[k] = IF k < i THEN s[k] ELSE s[k + 1]
<1> DEFINE a == SubSeq(s, 1, i - 1)
           b == SubSeq(s, i + 1, Len(s))
<1>0. Len(s) \in Nat
  BY LenProperties
<1>1. /\ a \in Seq(T) /\ Len(a) = i - 1
      /\ \A k \in 1..(i - 1) : a[k] = s[k]
  <2>1. \A k \in 1..(i - 1) : s[k] \in T
    BY <1>0, ElementOfSeq
  <2> QED
    BY <1>0, <2>1, SubSeqProperties
<1>2. /\ b \in Seq(T) /\ Len(b) = Len(s) - i
      /\ \A k \in 1..(Len(s) - i) : b[k] = s[i + k]
  <2>1. \A k \in (i + 1)..Len(s) : s[k] \in T
    BY <1>0, ElementOfSeq
  <2> QED
    BY <1>0, <2>1, SubSeqProperties
<1> HIDE DEF a, b
<1>3. /\ a \o b \in Seq(T)
      /\ Len(a \o b) = Len(a) + Len(b)
      /\ \A k \in 1..(Len(a) + Len(b)) :
           (a \o b)[k] = IF k <= Len(a) THEN a[k] ELSE b[k - Len(a)]
  BY <1>1, <1>2, ConcatProperties
<1>4. RemoveAt(s, i) = a \o b
  BY DEF RemoveAt, a, b
<1>5. Len(a) + Len(b) = Len(s) - 1
  BY <1>0, <1>1, <1>2
<1>6. ASSUME NEW k \in 1..(Len(s) - 1)
      PROVE  (a \o b)[k] = IF k < i THEN s[k] ELSE s[k + 1]
  <2>0. k < i \/ k >= i
    BY <1>0
  <2>1. CASE k < i
    <3>1. k \in 1..(i - 1) /\ k <= Len(a) /\ k \in 1..(Len(a) + Len(b))
      BY <1>0, <1>1, <1>5, <2>1
    <3> QED
      BY <1>1, <1>3, <2>1, <3>1
  <2>2. CASE k >= i
    <3>1. /\ k - Len(a) \in 1..(Len(s) - i) /\ i + (k - Len(a)) = k + 1
          /\ ~(k <= Len(a)) /\ k \in 1..(Len(a) + Len(b))
      BY <1>0, <1>1, <1>5, <2>2
    <3>2. (a \o b)[k] = b[k - Len(a)]
      BY <1>3, <3>1
    <3>3. b[k - Len(a)] = s[k + 1]
      BY <1>2, <3>1
    <3> QED
      BY <1>0, <2>2, <3>2, <3>3
  <2> QED
    BY <2>0, <2>1, <2>2
<1> QED
  BY <1>3, <1>4, <1>5, <1>6

------------------------------------------------------------------------------
(* The place rt_ipc_list_suspend finds is one of the list or just past it, *)
(* nobody before it is less urgent than t and everybody from it on is.     *)
LEMMA PlaceProperties ==
  ASSUME NEW T, NEW list \in Seq(T), NEW t \in T, NEW prio \in [T -> Nat]
  PROVE  LET p == PlaceOf(list, t, prio) IN
         /\ p \in 1..(Len(list) + 1)
         /\ \A i \in 1..Len(list) : i < p => prio[list[i]] <= prio[t]
         /\ p <= Len(list) => prio[t] < prio[list[p]]
<1> DEFINE L == LessUrgent(list, t, prio)
           p == PlaceOf(list, t, prio)
<1>0. Len(list) \in Nat /\ \A i \in 1..Len(list) : list[i] \in T
  BY LenProperties, ElementOfSeq
<1>1. CASE L = {}
  <2>1. p = Len(list) + 1
    BY <1>1 DEF PlaceOf
  <2>2. \A i \in 1..Len(list) : prio[list[i]] <= prio[t]
    BY <1>0, <1>1 DEF LessUrgent
  <2> QED
    BY <1>0, <2>1, <2>2
<1>2. CASE L # {}
  <2>1. \E i \in L : \A j \in L : i <= j
    <3>1. L \subseteq Nat
      BY <1>0 DEF LessUrgent
    <3> QED
      BY <1>2, <3>1, SmallestNat
  <2>2. p \in L /\ \A j \in L : p <= j
    BY <1>2, <2>1 DEF PlaceOf
  <2>3. p \in 1..Len(list) /\ prio[t] < prio[list[p]]
    BY <2>2 DEF LessUrgent
  <2>4. ASSUME NEW i \in 1..Len(list), i < p
        PROVE  prio[list[i]] <= prio[t]
    <3>1. i \notin L
      BY <1>0, <2>2, <2>3, <2>4
    <3>2. ~(prio[t] < prio[list[i]])
      BY <3>1 DEF LessUrgent
    <3> QED
      BY <1>0, <3>2
  <2> QED
    BY <1>0, <2>3, <2>4
<1> QED
  BY <1>1, <1>2

------------------------------------------------------------------------------
(* e is the list with t inserted at position p.                            *)
IsInsertion(e, list, p, t) ==
    /\ p \in 1..(Len(list) + 1)
    /\ Len(e) = Len(list) + 1
    /\ \A k \in 1..(Len(list) + 1) :
         e[k] = IF k < p THEN list[k] ELSE IF k = p THEN t ELSE list[k - 1]

(* rt_ipc_list_suspend links the thread somewhere and shifts what follows. *)
LEMMA EnqueueElements ==
  ASSUME NEW T, NEW list \in Seq(T), NEW t \in T, NEW prio \in [T -> Nat],
         NEW flag
  PROVE  /\ Enqueue(list, t, flag, prio) \in Seq(T)
         /\ \E p \in Nat :
              /\ IsInsertion(Enqueue(list, t, flag, prio), list, p, t)
              /\ flag = PRIO => p = PlaceOf(list, t, prio)
<1>0. Len(list) \in Nat
  BY LenProperties
<1>1. CASE flag = PRIO
  <2> DEFINE p == PlaceOf(list, t, prio)
  <2>1. Enqueue(list, t, flag, prio) = InsertAt(list, p, t)
    BY <1>1 DEF Enqueue
  <2>2. p \in 1..(Len(list) + 1)
    BY PlaceProperties
  <2> HIDE DEF p
  <2>3. InsertAt(list, p, t) \in Seq(T)
    BY <2>2, InsertElements
  <2>4. IsInsertion(InsertAt(list, p, t), list, p, t)
    BY <2>2, InsertElements DEF IsInsertion
  <2> QED
    BY <1>0, <2>1, <2>2, <2>3, <2>4 DEF p
<1>2. CASE flag # PRIO
  <2>1. Enqueue(list, t, flag, prio) = Append(list, t)
    BY <1>2 DEF Enqueue
  <2>2. Append(list, t) \in Seq(T)
    BY AppendProperties
  <2>3. IsInsertion(Append(list, t), list, Len(list) + 1, t)
    BY <1>0, AppendProperties DEF IsInsertion
  <2> QED
    BY <1>0, <1>2, <2>1, <2>2, <2>3
<1> QED
  BY <1>1, <1>2

(* Insertion links one more element and keeps the others, once each.       *)
LEMMA InsertionLinked ==
  ASSUME NEW T, NEW list \in Seq(T), NEW t, NEW p \in Nat, NEW e,
         IsInsertion(e, list, p, t)
  PROVE  /\ \A u : Linked(e, u) <=> (Linked(list, u) \/ u = t)
         /\ Once(list) /\ ~Linked(list, t) => Once(e)
<1>0. Len(list) \in Nat
  BY LenProperties
<1>2. /\ p \in 1..(Len(list) + 1) /\ Len(e) = Len(list) + 1
      /\ \A k \in 1..(Len(list) + 1) :
           e[k] = IF k < p THEN list[k] ELSE IF k = p THEN t ELSE list[k - 1]
  BY DEF IsInsertion
<1>3. ASSUME NEW k \in 1..Len(list)
      PROVE  \E j \in 1..Len(e) : e[j] = list[k]
  <2>1. CASE k < p
    BY <1>0, <1>2, <2>1
  <2>2. CASE ~(k < p)
    <3>1. k + 1 \in 1..Len(e) /\ ~(k + 1 < p) /\ k + 1 # p /\ (k + 1) - 1 = k
      BY <1>0, <1>2, <2>2
    <3> QED
      BY <1>2, <3>1
  <2> QED
    BY <2>1, <2>2
<1>4. e[p] = t /\ p \in 1..Len(e)
  BY <1>0, <1>2
<1>5. ASSUME NEW k \in 1..Len(e), k # p
      PROVE  \E j \in 1..Len(list) :
               e[k] = list[j] /\ j = IF k < p THEN k ELSE k - 1
  BY <1>0, <1>2, <1>5
<1>6. ASSUME NEW u
      PROVE  Linked(e, u) <=> (Linked(list, u) \/ u = t)
  BY <1>3, <1>4, <1>5 DEF Linked
<1>7. ASSUME Once(list), ~Linked(list, t), NEW i \in 1..Len(e),
             NEW j \in 1..Len(e), e[i] = e[j]
      PROVE  i = j
  <2>1. CASE i = p \/ j = p
    BY <1>4, <1>5, <1>7, <2>1 DEF Linked
  <2>2. CASE i # p /\ j # p
    <3>1. PICK a \in 1..Len(list) :
            e[i] = list[a] /\ a = IF i < p THEN i ELSE i - 1
      BY <1>5, <2>2
    <3>2. PICK b \in 1..Len(list) :
            e[j] = list[b] /\ b = IF j < p THEN j ELSE j - 1
      BY <1>5, <2>2
    <3>3. a = b
      BY <1>7, <3>1, <3>2 DEF Once
    <3> QED
      BY <1>0, <1>2, <2>2, <3>1, <3>2, <3>3
  <2> QED
    BY <2>1, <2>2
<1> QED
  BY <1>6, <1>7 DEF Once

(* Insertion behind the smaller keys and before the larger ones keeps the  *)
(* order.                                                                  *)
LEMMA InsertionSorted ==
  ASSUME NEW T, NEW list \in Seq(T), NEW t \in T, NEW p \in Nat, NEW e,
         IsInsertion(e, list, p, t), NEW key,
         \A u \in T : key[u] \in Int, Sorted(list, key),
         \A k \in 1..Len(list) : /\ k < p => key[list[k]] <= key[t]
                                 /\ k >= p => key[t] <= key[list[k]]
  PROVE  Sorted(e, key)
<1>0. Len(list) \in Nat /\ \A k \in 1..Len(list) : list[k] \in T
  BY LenProperties, ElementOfSeq
<1>2. \A k \in 1..Len(list) : k < p => key[list[k]] <= key[t]
  OBVIOUS
<1>3. /\ p \in 1..(Len(list) + 1) /\ Len(e) = Len(list) + 1
      /\ \A k \in 1..(Len(list) + 1) :
           e[k] = IF k < p THEN list[k] ELSE IF k = p THEN t ELSE list[k - 1]
  BY DEF IsInsertion
<1>4. \A k \in 1..Len(list) : k >= p => key[t] <= key[list[k]]
  OBVIOUS
<1>5. ASSUME NEW i \in 1..Len(e), NEW j \in 1..Len(e), i < j
      PROVE  key[e[i]] <= key[e[j]]
  <2>1. CASE j < p
    BY <1>0, <1>3, <1>5, <2>1 DEF Sorted
  <2>2. CASE j = p
    <3>1. e[j] = t
      BY <1>3, <2>2
    <3>2. i \in 1..Len(list) /\ i < p /\ e[i] = list[i]
      BY <1>0, <1>3, <1>5, <2>2
    <3> QED
      BY <1>2, <3>1, <3>2
  <2>3. CASE j > p
    <3>0. /\ j - 1 \in 1..Len(list) /\ e[j] = list[j - 1]
      BY <1>0, <1>3, <1>5, <2>3
    <3>1. CASE i < p
      <4>1. i \in 1..Len(list) /\ i < j - 1 /\ e[i] = list[i]
        BY <1>0, <1>3, <1>5, <2>3, <3>1
      <4> QED
        BY <3>0, <4>1 DEF Sorted
    <3>2. CASE i = p
      <4>1. j - 1 >= p /\ e[i] = t
        BY <1>0, <1>3, <1>5, <2>3, <3>2
      <4> QED
        BY <1>4, <3>0, <4>1
    <3>3. CASE i > p
      <4>1. i - 1 \in 1..Len(list) /\ i - 1 < j - 1 /\ e[i] = list[i - 1]
        BY <1>0, <1>3, <1>5, <2>3, <3>3
      <4> QED
        BY <3>0, <4>1 DEF Sorted
    <3> QED
      BY <1>0, <1>3, <1>5, <3>1, <3>2, <3>3
  <2> QED
    BY <1>0, <1>3, <2>1, <2>2, <2>3
<1> QED
  BY <1>5 DEF Sorted

(* The waiters after rt_ipc_list_suspend are those before and the caller,  *)
(* each linked once.                                                       *)
LEMMA EnqueueLinked ==
  ASSUME NEW T, NEW list \in Seq(T), NEW t \in T, NEW prio \in [T -> Nat],
         NEW flag
  PROVE  /\ \A u : Linked(Enqueue(list, t, flag, prio), u)
                    <=> (Linked(list, u) \/ u = t)
         /\ Once(list) /\ ~Linked(list, t) => Once(Enqueue(list, t, flag, prio))
<1> DEFINE e == Enqueue(list, t, flag, prio)
<1>1. PICK p \in Nat : IsInsertion(e, list, p, t)
  BY EnqueueElements
<1> HIDE DEF e
<1>2. /\ \A u : Linked(e, u) <=> (Linked(list, u) \/ u = t)
      /\ Once(list) /\ ~Linked(list, t) => Once(e)
  BY <1>1, InsertionLinked
<1> QED
  BY <1>2 DEF e

(* Keeping the list by priority: linking one more thread with              *)
(* RT_IPC_FLAG_PRIO leaves the most urgent thread first.                   *)
LEMMA EnqueueSorted ==
  ASSUME NEW T, NEW list \in Seq(T), NEW t \in T, NEW prio \in [T -> Nat],
         Sorted(list, prio)
  PROVE  Sorted(Enqueue(list, t, PRIO, prio), prio)
<1> DEFINE e == Enqueue(list, t, PRIO, prio)
           p == PlaceOf(list, t, prio)
<1>0. Len(list) \in Nat /\ \A k \in 1..Len(list) : list[k] \in T
  BY LenProperties, ElementOfSeq
<1>1. IsInsertion(e, list, p, t)
  BY EnqueueElements
<1>2. /\ \A k \in 1..Len(list) : k < p => prio[list[k]] <= prio[t]
      /\ p <= Len(list) => prio[t] < prio[list[p]]
  BY PlaceProperties
<1>3. p \in Nat /\ \A u \in T : prio[u] \in Int
  BY <1>0, <1>1 DEF IsInsertion
<1> HIDE DEF e, p
<1>4. \A k \in 1..Len(list) : k >= p => prio[t] <= prio[list[k]]
  <2> SUFFICES ASSUME NEW k \in 1..Len(list), k >= p
               PROVE  prio[t] <= prio[list[k]]
    OBVIOUS
  <2>1. p \in 1..Len(list) /\ p <= k /\ p <= Len(list)
    BY <1>0, <1>1 DEF IsInsertion
  <2>2. prio[list[p]] <= prio[list[k]]
    <3>1. CASE p = k
      BY <1>0, <2>1, <3>1
    <3>2. CASE p < k
      BY <2>1, <3>2 DEF Sorted
    <3> QED
      BY <1>0, <2>1, <3>1, <3>2
  <2>3. prio[t] \in Nat /\ prio[list[p]] \in Nat /\ prio[list[k]] \in Nat
    BY <1>0, <2>1
  <2> QED
    BY <1>2, <2>1, <2>2, <2>3
<1>5. Sorted(e, prio)
  BY <1>1, <1>2, <1>3, <1>4, InsertionSorted
<1> QED
  BY <1>5 DEF e

------------------------------------------------------------------------------
(* Taking out the element at position i, which is how both the head and a  *)
(* thread anywhere in the list leave it.                                   *)
IsRemoval(r, list, i) ==
    /\ i \in 1..Len(list)
    /\ Len(r) = Len(list) - 1
    /\ \A k \in 1..(Len(list) - 1) :
         r[k] = IF k < i THEN list[k] ELSE list[k + 1]

(* Removing one position keeps the rest, once each and in order. *)
LEMMA RemovalProperties ==
  ASSUME NEW T, NEW list \in Seq(T), NEW r \in Seq(T), NEW i \in Nat,
         IsRemoval(r, list, i), NEW prio \in [T -> Nat]
  PROVE  /\ Once(list) =>
              /\ Once(r)
              /\ \A u : Linked(r, u) <=> (Linked(list, u) /\ u # list[i])
         /\ Sorted(list, prio) => Sorted(r, prio)
<1>0. Len(list) \in Nat
  BY LenProperties
<1>1. /\ i \in 1..Len(list) /\ Len(r) = Len(list) - 1
      /\ \A k \in 1..(Len(list) - 1) :
           r[k] = IF k < i THEN list[k] ELSE list[k + 1]
  BY DEF IsRemoval
<1>2. ASSUME NEW k \in 1..Len(r)
      PROVE  \E j \in 1..Len(list) :
               /\ r[k] = list[j] /\ j # i
               /\ j = IF k < i THEN k ELSE k + 1
  BY <1>0, <1>1
<1>3. ASSUME NEW j \in 1..Len(list), j # i
      PROVE  \E k \in 1..Len(r) : r[k] = list[j]
  <2>1. CASE j < i
    <3>1. j \in 1..Len(r) /\ j \in 1..(Len(list) - 1)
      BY <1>0, <1>1, <2>1
    <3> QED
      BY <1>1, <2>1, <3>1
  <2>2. CASE j > i
    <3>1. j - 1 \in 1..Len(r) /\ ~(j - 1 < i) /\ (j - 1) + 1 = j
      BY <1>0, <1>1, <2>2
    <3> QED
      BY <1>1, <3>1
  <2> QED
    BY <1>0, <1>1, <1>3, <2>1, <2>2
<1>4. ASSUME NEW a \in Int, NEW b \in Int
      PROVE  LET x == IF a < i THEN a ELSE a + 1
                 y == IF b < i THEN b ELSE b + 1
             IN  (x = y => a = b) /\ (a < b => x < y)
  OBVIOUS
<1>5. \A a \in 1..Len(r) : a \in Int
  OBVIOUS
<1>6. ASSUME Once(list)
      PROVE  Once(r)
  <2> SUFFICES ASSUME NEW a \in 1..Len(r), NEW b \in 1..Len(r), r[a] = r[b]
               PROVE  a = b
    BY DEF Once
  <2>1. PICK x \in 1..Len(list) :
          r[a] = list[x] /\ x # i /\ x = IF a < i THEN a ELSE a + 1
    BY <1>2
  <2>2. PICK y \in 1..Len(list) :
          r[b] = list[y] /\ y # i /\ y = IF b < i THEN b ELSE b + 1
    BY <1>2
  <2>3. x = y
    BY <1>6, <2>1, <2>2 DEF Once
  <2> QED
    BY <1>4, <1>5, <2>1, <2>2, <2>3
<1>7. ASSUME Once(list), NEW u
      PROVE  Linked(r, u) <=> (Linked(list, u) /\ u # list[i])
  <2>1. ASSUME Linked(r, u)
        PROVE  Linked(list, u) /\ u # list[i]
    <3>1. PICK k \in 1..Len(r) : r[k] = u
      BY <2>1 DEF Linked
    <3>2. PICK j \in 1..Len(list) : r[k] = list[j] /\ j # i
      BY <1>2
    <3> QED
      BY <1>1, <1>7, <3>1, <3>2 DEF Linked, Once
  <2>2. ASSUME Linked(list, u), u # list[i]
        PROVE  Linked(r, u)
    BY <1>3, <2>2 DEF Linked
  <2> QED
    BY <2>1, <2>2
<1>8. ASSUME Sorted(list, prio)
      PROVE  Sorted(r, prio)
  <2> SUFFICES ASSUME NEW a \in 1..Len(r), NEW b \in 1..Len(r), a < b
               PROVE  prio[r[a]] <= prio[r[b]]
    BY DEF Sorted
  <2>1. PICK x \in 1..Len(list) :
          r[a] = list[x] /\ x # i /\ x = IF a < i THEN a ELSE a + 1
    BY <1>2
  <2>2. PICK y \in 1..Len(list) :
          r[b] = list[y] /\ y # i /\ y = IF b < i THEN b ELSE b + 1
    BY <1>2
  <2>3. x < y
    BY <1>4, <1>5, <2>1, <2>2
  <2> QED
    BY <1>8, <2>1, <2>2, <2>3 DEF Sorted
<1> QED
  BY <1>6, <1>7, <1>8

(* Removing one position keeps the order, whatever the keys. *)
LEMMA RemovalSorted ==
  ASSUME NEW T, NEW list \in Seq(T), NEW r, NEW i \in Nat,
         IsRemoval(r, list, i), NEW key, Sorted(list, key)
  PROVE  Sorted(r, key)
<1>0. Len(list) \in Nat
  BY LenProperties
<1> SUFFICES ASSUME NEW a \in 1..Len(r), NEW b \in 1..Len(r), a < b
             PROVE  key[r[a]] <= key[r[b]]
  BY DEF Sorted
<1>1. PICK x \in 1..Len(list) :
        r[a] = list[x] /\ x = IF a < i THEN a ELSE a + 1
  BY <1>0 DEF IsRemoval
<1>2. PICK y \in 1..Len(list) :
        r[b] = list[y] /\ y = IF b < i THEN b ELSE b + 1
  BY <1>0 DEF IsRemoval
<1>3. x < y
  BY <1>1, <1>2
<1> QED
  BY <1>1, <1>2, <1>3 DEF Sorted

(* The first waiter leaves.                                                *)
LEMMA TailProperties ==
  ASSUME NEW T, NEW list \in Seq(T), list # <<>>, NEW prio \in [T -> Nat]
  PROVE  /\ Tail(list) \in Seq(T)
         /\ Head(list) \in T /\ Linked(list, Head(list))
         /\ Once(list) =>
              /\ Once(Tail(list))
              /\ \A u : Linked(Tail(list), u)
                          <=> (Linked(list, u) /\ u # Head(list))
         /\ Sorted(list, prio) => Sorted(Tail(list), prio)
<1>1. Len(list) \in Nat \ {0} /\ Head(list) = list[1]
  BY EmptySeq
<1>2. IsRemoval(Tail(list), list, 1)
  BY <1>1, HeadTailProperties DEF IsRemoval
<1>3. Linked(list, Head(list))
  BY <1>1 DEF Linked
<1>4. Tail(list) \in Seq(T) /\ Head(list) \in T
  BY HeadTailProperties
<1>5. /\ Once(list) =>
           /\ Once(Tail(list))
           /\ \A u : Linked(Tail(list), u) <=> (Linked(list, u) /\ u # list[1])
      /\ Sorted(list, prio) => Sorted(Tail(list), prio)
  BY <1>2, <1>4, RemovalProperties
<1> QED
  BY <1>1, <1>3, <1>4, <1>5

(* rt_list_remove: the thread is linked no more, the others are.           *)
LEMMA UnlinkProperties ==
  ASSUME NEW T, NEW list \in Seq(T), NEW t \in T, NEW prio \in [T -> Nat]
  PROVE  /\ Unlink(list, t) \in Seq(T)
         /\ Once(list) =>
              /\ Once(Unlink(list, t))
              /\ \A u : Linked(Unlink(list, t), u)
                          <=> (Linked(list, u) /\ u # t)
         /\ Sorted(list, prio) => Sorted(Unlink(list, t), prio)
<1>1. CASE Linked(list, t)
  <2> DEFINE i == CHOOSE k \in 1..Len(list) : list[k] = t
  <2>1. i \in 1..Len(list) /\ list[i] = t
    BY <1>1 DEF Linked
  <2>2. Unlink(list, t) = RemoveAt(list, i)
    BY <1>1 DEF Unlink
  <2> HIDE DEF i
  <2>3. RemoveAt(list, i) \in Seq(T) /\ IsRemoval(RemoveAt(list, i), list, i)
    BY <2>1, RemoveElements DEF IsRemoval
  <2>4. i \in Nat
    BY <2>1, LenProperties
  <2> QED
    BY <2>1, <2>2, <2>3, <2>4, RemovalProperties
<1>2. CASE ~Linked(list, t)
  BY <1>2 DEF Unlink
<1> QED
  BY <1>1, <1>2

(* rt_list_remove keeps the order, whatever the keys. *)
LEMMA UnlinkSorted ==
  ASSUME NEW T, NEW list \in Seq(T), NEW t, NEW key, Sorted(list, key)
  PROVE  Sorted(Unlink(list, t), key)
<1>1. CASE Linked(list, t)
  <2> DEFINE i == CHOOSE k \in 1..Len(list) : list[k] = t
  <2>1. i \in 1..Len(list)
    BY <1>1 DEF Linked
  <2>2. Unlink(list, t) = RemoveAt(list, i)
    BY <1>1 DEF Unlink
  <2> HIDE DEF i
  <2>3. IsRemoval(RemoveAt(list, i), list, i)
    BY <2>1, RemoveElements DEF IsRemoval
  <2>4. i \in Nat
    BY <2>1, LenProperties
  <2> QED
    BY <2>2, <2>3, <2>4, RemovalSorted
<1>2. CASE ~Linked(list, t)
  BY <1>2 DEF Unlink
<1> QED
  BY <1>1, <1>2

(* The tail of a list in order is in order, whatever the keys.             *)
LEMMA TailSorted ==
  ASSUME NEW T, NEW list \in Seq(T), list # <<>>, NEW key, Sorted(list, key)
  PROVE  Sorted(Tail(list), key)
<1>1. Len(list) \in Nat \ {0}
  BY EmptySeq
<1>2. IsRemoval(Tail(list), list, 1)
  BY <1>1, HeadTailProperties DEF IsRemoval
<1> QED
  BY <1>2, RemovalSorted

(* rt_list_remove of a thread that is linked shortens the list by one.     *)
LEMMA UnlinkLength ==
  ASSUME NEW T, NEW list \in Seq(T), NEW t, Linked(list, t)
  PROVE  Len(Unlink(list, t)) = Len(list) - 1
<1> DEFINE i == CHOOSE k \in 1..Len(list) : list[k] = t
<1>1. i \in 1..Len(list)
  BY DEF Linked
<1>2. Unlink(list, t) = RemoveAt(list, i)
  BY DEF Unlink
<1> HIDE DEF i
<1> QED
  BY <1>1, <1>2, RemoveElements

(* rt_list_insert_after the head: the list begins with the new node.       *)
LEMMA PrependProperties ==
  ASSUME NEW T, NEW list \in Seq(T), NEW t \in T
  PROVE  /\ <<t>> \o list \in Seq(T)
         /\ Len(<<t>> \o list) = Len(list) + 1
         /\ \A u : Linked(<<t>> \o list, u) <=> (Linked(list, u) \/ u = t)
         /\ Once(list) /\ ~Linked(list, t) => Once(<<t>> \o list)
<1> DEFINE e == <<t>> \o list
<1>0. Len(list) \in Nat
  BY LenProperties
<1>1. <<t>> \in Seq(T) /\ Len(<<t>>) = 1 /\ <<t>>[1] = t
  OBVIOUS
<1>2. /\ e \in Seq(T) /\ Len(e) = Len(list) + 1
      /\ \A k \in 1..(Len(list) + 1) : e[k] = IF k <= 1 THEN t ELSE list[k - 1]
  BY <1>0, <1>1, ConcatProperties
<1> HIDE DEF e
<1>3. ASSUME NEW k \in 1..Len(list)
      PROVE  k + 1 \in 1..Len(e) /\ e[k + 1] = list[k]
  BY <1>0, <1>2
<1>4. ASSUME NEW k \in 1..Len(e)
      PROVE  \/ k = 1 /\ e[k] = t
             \/ k - 1 \in 1..Len(list) /\ e[k] = list[k - 1]
  BY <1>0, <1>2
<1>5. 1 \in 1..Len(e) /\ e[1] = t
  BY <1>0, <1>2
<1>6. ASSUME NEW u
      PROVE  Linked(e, u) <=> (Linked(list, u) \/ u = t)
  <2>1. ASSUME Linked(e, u)
        PROVE  Linked(list, u) \/ u = t
    <3>1. PICK k \in 1..Len(e) : e[k] = u
      BY <2>1 DEF Linked
    <3> QED
      BY <1>4, <3>1 DEF Linked
  <2>2. ASSUME Linked(list, u)
        PROVE  Linked(e, u)
    <3>1. PICK k \in 1..Len(list) : list[k] = u
      BY <2>2 DEF Linked
    <3>2. k + 1 \in 1..Len(e) /\ e[k + 1] = u
      BY <1>3, <3>1
    <3> QED
      BY <3>2 DEF Linked
  <2>3. Linked(e, t)
    BY <1>5 DEF Linked
  <2> QED
    BY <2>1, <2>2, <2>3
<1>7. ASSUME Once(list), ~Linked(list, t), NEW i \in 1..Len(e),
             NEW j \in 1..Len(e), e[i] = e[j]
      PROVE  i = j
  <2>0. \A k \in 1..Len(list) : list[k] # t
    BY <1>7 DEF Linked
  <2>1. CASE i = 1 \/ j = 1
    BY <1>4, <1>5, <1>7, <2>0, <2>1
  <2>2. CASE i # 1 /\ j # 1
    <3>1. /\ i - 1 \in 1..Len(list) /\ j - 1 \in 1..Len(list)
          /\ list[i - 1] = list[j - 1]
      BY <1>4, <1>7, <2>2
    <3> QED
      BY <1>0, <1>2, <1>7, <3>1 DEF Once
  <2> QED
    BY <2>1, <2>2
<1> QED
  BY <1>2, <1>6, <1>7 DEF e, Once

(* How many members a set of threads has before and after a step: none     *)
(* leaves it, at most one does, or one joins it and none leaves.           *)
LEMMA SubsetCounts ==
  ASSUME NEW T, IsFiniteSet(T), NEW L \in SUBSET T, NEW M \in SUBSET T
  PROVE  /\ Cardinality(L) \in Nat /\ Cardinality(M) \in Nat
         /\ L \subseteq M => Cardinality(L) <= Cardinality(M)
         /\ \A t : L \ {t} \subseteq M => Cardinality(L) <= Cardinality(M) + 1
         /\ \A t : t \notin L /\ L \union {t} \subseteq M
                  => Cardinality(L) + 1 <= Cardinality(M)
<1>1. IsFiniteSet(L) /\ IsFiniteSet(M)
  BY FS_Subset
<1>2. Cardinality(L) \in Nat /\ Cardinality(M) \in Nat
  BY <1>1, FS_CardinalityType
<1>3. L \subseteq M => Cardinality(L) <= Cardinality(M)
  BY <1>1, FS_Subset
<1>4. ASSUME NEW t, L \ {t} \subseteq M
      PROVE  Cardinality(L) <= Cardinality(M) + 1
  <2>1. Cardinality(L \ {t}) <= Cardinality(M)
    BY <1>1, <1>4, FS_Subset
  <2>2. Cardinality(L \ {t}) = IF t \in L THEN Cardinality(L) - 1
                                         ELSE Cardinality(L)
    BY <1>1, FS_RemoveElement
  <2> QED
    BY <1>2, <2>1, <2>2
<1>5. ASSUME NEW t, t \notin L, L \union {t} \subseteq M
      PROVE  Cardinality(L) + 1 <= Cardinality(M)
  <2>1. Cardinality(L \union {t}) <= Cardinality(M)
    BY <1>1, <1>5, FS_Subset
  <2>2. Cardinality(L \union {t}) = Cardinality(L) + 1
    BY <1>1, <1>5, FS_AddElement
  <2> QED
    BY <2>1, <2>2
<1> QED
  BY <1>2, <1>3, <1>4, <1>5
==============================================================================
