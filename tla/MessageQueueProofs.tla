-------------------------- MODULE MessageQueueProofs --------------------------
(***************************************************************************)
(* Theorems about module MessageQueue, for every set of threads and        *)
(* messages, every number of slots and every choice of who waits with a    *)
(* timeout, resets, detaches and is signalled.                             *)
(***************************************************************************)
EXTENDS MessageQueue, IpcListProofs, FunctionTheorems

(* The pointers nx link the slots of s from first to the end, once each.   *)
Represents(nx, first, s) ==
    /\ s \in Seq(Slot) /\ Once(s)
    /\ first = IF s = <<>> THEN Null ELSE s[1]
    /\ \A i \in 1..Len(s) : nx[s[i]] = IF i = Len(s) THEN Null ELSE s[i + 1]

(* Null is no slot, so a chain is empty exactly when its pointer is Null.  *)
LEMMA ChainBegins ==
  ASSUME NEW nx, NEW first, NEW s, Represents(nx, first, s)
  PROVE  /\ Len(s) \in Nat
         /\ s = <<>> <=> first = Null
         /\ s # <<>> => /\ Len(s) > 0 /\ first = s[1] /\ first \in Slot
                        /\ first = Head(s) /\ Linked(s, first)
         /\ \A x : Linked(s, x) => x \in Slot /\ x # Null
<1>1. s \in Seq(Slot) /\ Len(s) \in Nat
  BY LenProperties DEF Represents
<1>2. ASSUME s # <<>>
      PROVE  Len(s) > 0 /\ first = s[1] /\ first \in Slot /\ first = Head(s)
             /\ Linked(s, first)
  <2>1. Len(s) > 0
    BY <1>1, <1>2, EmptySeq
  <2>2. first = s[1] /\ s[1] \in Slot
    BY <1>1, <1>2, <2>1, ElementOfSeq DEF Represents
  <2>3. Head(s) = s[1]
    BY <1>1, <1>2, HeadTailProperties
  <2>4. 1 \in 1..Len(s)
    BY <1>1, <2>1
  <2> QED
    BY <2>1, <2>2, <2>3, <2>4 DEF Linked
<1>3. \A x \in Slot : x # Null
  BY SizeAssumption DEF Slot
<1>4. s = <<>> => first = Null
  BY DEF Represents
<1>5. \A x : Linked(s, x) => x \in Slot
  BY <1>1, ElementOfSeq DEF Linked
<1> QED
  BY <1>1, <1>2, <1>3, <1>4, <1>5

(* Pointers outside a chain do not matter to it. *)
LEMMA ChainElsewhere ==
  ASSUME NEW nx, NEW ny, NEW first, NEW s, Represents(nx, first, s),
         \A x : Linked(s, x) => ny[x] = nx[x]
  PROVE  Represents(ny, first, s)
BY DEF Represents, Linked

(* Unlinking the first slot moves the pointer to the second.               *)
LEMMA ChainTail ==
  ASSUME NEW nx, NEW first, NEW s, Represents(nx, first, s), s # <<>>
  PROVE  /\ Represents(nx, nx[first], Tail(s))
         /\ Len(Tail(s)) = Len(s) - 1
         /\ \A x : Linked(Tail(s), x) <=> (Linked(s, x) /\ x # first)
<1> DEFINE r == Tail(s)
<1>1. /\ s \in Seq(Slot) /\ Once(s) /\ Len(s) \in Nat /\ Len(s) > 0
      /\ first = s[1] /\ first = Head(s)
      /\ \A i \in 1..Len(s) : nx[s[i]] = IF i = Len(s) THEN Null ELSE s[i + 1]
  BY ChainBegins DEF Represents
<1>2. /\ r \in Seq(Slot) /\ Len(r) = Len(s) - 1
      /\ \A i \in 1..(Len(s) - 1) : r[i] = s[i + 1]
  BY <1>1, HeadTailProperties
<1>3. Once(r) /\ \A x : Linked(r, x) <=> (Linked(s, x) /\ x # first)
  <2> DEFINE p == [x \in Slot |-> 0]
  <2>1. p \in [Slot -> Nat]
    OBVIOUS
  <2> QED
    BY <1>1, <2>1, TailProperties
<1> HIDE DEF r
<1>4. nx[first] = IF r = <<>> THEN Null ELSE r[1]
  <2>1. CASE Len(s) = 1
    <3>1. Len(r) = 0
      BY <1>2, <2>1
    <3>2. r = <<>>
      BY <1>2, <3>1, EmptySeq
    <3> QED
      BY <1>1, <2>1, <3>2
  <2>2. CASE Len(s) # 1
    <3>1. Len(r) > 0 /\ 1 \in 1..(Len(s) - 1)
      BY <1>1, <1>2, <2>2
    <3>2. r # <<>> /\ r[1] = s[2]
      BY <1>2, <3>1, EmptySeq
    <3>3. nx[s[1]] = s[2]
      <4>1. 1 \in 1..Len(s) /\ 1 + 1 = 2
        BY <1>1
      <4>2. nx[s[1]] = IF 1 = Len(s) THEN Null ELSE s[1 + 1]
        BY <1>1, <4>1
      <4> QED
        BY <2>2, <4>1, <4>2
    <3> QED
      BY <1>1, <3>2, <3>3
  <2> QED
    BY <2>1, <2>2
<1>5. ASSUME NEW i \in 1..Len(r)
      PROVE  nx[r[i]] = IF i = Len(r) THEN Null ELSE r[i + 1]
  <2>1. i + 1 \in 1..Len(s) /\ r[i] = s[i + 1]
    BY <1>1, <1>2
  <2>2. nx[s[i + 1]] = IF i + 1 = Len(s) THEN Null ELSE s[(i + 1) + 1]
    BY <1>1, <2>1
  <2>3. i # Len(r) => r[i + 1] = s[(i + 1) + 1]
    BY <1>1, <1>2
  <2> QED
    BY <1>1, <1>2, <2>1, <2>2, <2>3
<1> QED
  BY <1>2, <1>3, <1>4, <1>5 DEF Represents, r

(* Linking a slot before the first one.                                    *)
LEMMA ChainPrepend ==
  ASSUME NEW nx \in [Slot -> Slot \union {Null}], NEW first, NEW s,
         Represents(nx, first, s), NEW x \in Slot, ~Linked(s, x)
  PROVE  /\ Represents([nx EXCEPT ![x] = first], x, <<x>> \o s)
         /\ Len(<<x>> \o s) = Len(s) + 1
         /\ \A y : Linked(<<x>> \o s, y) <=> (Linked(s, y) \/ y = x)
<1> DEFINE r == <<x>> \o s
           ny == [nx EXCEPT ![x] = first]
<1>1. s \in Seq(Slot) /\ Once(s) /\ Len(s) \in Nat
  BY ChainBegins DEF Represents
<1>2. /\ r \in Seq(Slot) /\ Len(r) = Len(s) + 1 /\ Once(r)
      /\ \A y : Linked(r, y) <=> (Linked(s, y) \/ y = x)
  BY <1>1, PrependProperties
<1>3. \A i \in 1..(Len(s) + 1) : r[i] = IF i = 1 THEN x ELSE s[i - 1]
  <2>1. <<x>> \in Seq(Slot) /\ Len(<<x>>) = 1 /\ <<x>>[1] = x
    OBVIOUS
  <2>2. \A i \in 1..(Len(s) + 1) : r[i] = IF i <= 1 THEN <<x>>[i] ELSE s[i - 1]
    BY <1>1, <2>1, ConcatProperties
  <2> QED
    BY <1>1, <2>1, <2>2
<1>4. r # <<>> /\ r[1] = x
  BY <1>1, <1>2, <1>3, EmptySeq
<1> HIDE DEF r
<1>5. ASSUME NEW i \in 1..Len(r)
      PROVE  ny[r[i]] = IF i = Len(r) THEN Null ELSE r[i + 1]
  <2>1. CASE i = 1
    <3>1. ny[r[i]] = first
      BY <1>4, <2>1
    <3>2. CASE s = <<>>
      <4>1. Len(r) = 1 /\ first = Null
        BY <1>2, <3>2, EmptySeq DEF Represents
      <4> QED
        BY <2>1, <3>1, <4>1
    <3>3. CASE s # <<>>
      <4>1. Len(s) > 0 /\ first = s[1]
        BY <3>3, ChainBegins
      <4>2. Len(r) # 1 /\ r[2] = s[1]
        BY <1>1, <1>2, <1>3, <4>1
      <4> QED
        BY <2>1, <3>1, <4>1, <4>2
    <3> QED
      BY <3>2, <3>3
  <2>2. CASE i # 1
    <3>1. i - 1 \in 1..Len(s) /\ r[i] = s[i - 1]
      BY <1>1, <1>2, <1>3, <2>2
    <3>2. s[i - 1] # x
      BY <3>1 DEF Linked
    <3>3. ny[s[i - 1]] = nx[s[i - 1]]
      BY <3>2
    <3>4. nx[s[i - 1]] = IF i - 1 = Len(s) THEN Null ELSE s[(i - 1) + 1]
      BY <3>1 DEF Represents
    <3>5. i # Len(r) => r[i + 1] = s[(i - 1) + 1]
      BY <1>1, <1>2, <1>3, <2>2
    <3> QED
      BY <1>1, <1>2, <3>1, <3>3, <3>4, <3>5
  <2> QED
    BY <2>1, <2>2
<1> QED
  BY <1>2, <1>4, <1>5 DEF Represents, r

(* The last slot of a chain; the pointers after x is linked behind it or   *)
(* before the first one; the tail then, and the tail after x has left the  *)
(* front.                                                                  *)
LastOf(s) == IF s = <<>> THEN Null ELSE s[Len(s)]
PointLast(nx, last, x) ==
    IF last # Null THEN [nx EXCEPT ![last] = x] ELSE nx
PointFirst(nx, x, first) == [nx EXCEPT ![x] = first]
TailAfter(tail, x) == IF tail = Null THEN x ELSE tail
TailWithout(tail, x) == IF tail = x THEN Null ELSE tail

(* Linking a slot behind the last one: only the pointer of that one moves. *)
LEMMA ChainAppend ==
  ASSUME NEW nx \in [Slot -> Slot \union {Null}], NEW first, NEW s,
         Represents(nx, first, s), NEW x \in Slot, ~Linked(s, x),
         nx[x] = Null
  PROVE  /\ Represents(PointLast(nx, LastOf(s), x),
                       IF first = Null THEN x ELSE first, Append(s, x))
         /\ Len(Append(s, x)) = Len(s) + 1
         /\ x = Append(s, x)[Len(s) + 1]
         /\ \A y : Linked(Append(s, x), y) <=> (Linked(s, y) \/ y = x)
<1> DEFINE r == Append(s, x)
           last == LastOf(s)
           ny == PointLast(nx, last, x)
<1>0. /\ last = IF s = <<>> THEN Null ELSE s[Len(s)]
      /\ ny = IF last # Null THEN [nx EXCEPT ![last] = x] ELSE nx
  BY DEF LastOf, PointLast
<1>1. s \in Seq(Slot) /\ Once(s) /\ Len(s) \in Nat
  BY ChainBegins DEF Represents
<1>2. /\ r \in Seq(Slot) /\ Len(r) = Len(s) + 1
      /\ \A i \in 1..Len(s) : r[i] = s[i]
      /\ r[Len(s) + 1] = x /\ r # <<>>
  BY <1>1, AppendProperties
<1> HIDE DEF r, last, ny
<1>3. ASSUME NEW i \in 1..Len(r)
      PROVE  (i \in 1..Len(s) /\ r[i] = s[i]) \/ (i = Len(s) + 1 /\ r[i] = x)
  BY <1>1, <1>2
<1>4. \A y : Linked(r, y) <=> (Linked(s, y) \/ y = x)
  <2>1. ASSUME NEW y, Linked(r, y) PROVE Linked(s, y) \/ y = x
    BY <1>3, <2>1 DEF Linked
  <2>2. ASSUME NEW y, Linked(s, y) PROVE Linked(r, y)
    BY <1>1, <1>2, <2>2 DEF Linked
  <2>3. Linked(r, x)
    BY <1>1, <1>2 DEF Linked
  <2> QED
    BY <2>1, <2>2, <2>3
<1>5. Once(r)
  <2> SUFFICES ASSUME NEW i \in 1..Len(r), NEW j \in 1..Len(r), r[i] = r[j]
               PROVE  i = j
    BY DEF Once
  <2>1. \A k \in 1..Len(s) : s[k] # x
    BY DEF Linked
  <2> QED
    BY <1>1, <1>3, <2>1 DEF Once
<1>6. ASSUME s = <<>>
      PROVE  Represents(ny, IF first = Null THEN x ELSE first, r)
  <2>1. first = Null /\ ny = nx /\ Len(s) = 0
    BY <1>0, <1>6, EmptySeq DEF Represents
  <2>2. Len(r) = 1 /\ r[1] = x
    BY <1>2, <2>1
  <2> QED
    BY <1>2, <1>5, <2>1, <2>2 DEF Represents
<1>7. ASSUME s # <<>>
      PROVE  Represents(ny, IF first = Null THEN x ELSE first, r)
  <2>1. first = s[1] /\ first # Null /\ Len(s) > 0
    BY <1>7, ChainBegins
  <2>2. last = s[Len(s)] /\ Len(s) \in 1..Len(s)
    BY <1>0, <1>1, <1>7, <2>1
  <2>3. last \in Slot /\ last # Null /\ last # x
    <3>1. Linked(s, last)
      BY <2>2 DEF Linked
    <3> QED
      BY <3>1, ChainBegins
  <2>4. ny = [nx EXCEPT ![last] = x]
    BY <1>0, <2>3
  <2>5. r[1] = s[1]
    BY <1>1, <1>2, <2>1
  <2>6. ASSUME NEW i \in 1..Len(r)
        PROVE  ny[r[i]] = IF i = Len(r) THEN Null ELSE r[i + 1]
    <3>1. CASE i = Len(s) + 1
      BY <1>2, <2>3, <2>4, <3>1
    <3>2. CASE i = Len(s)
      BY <1>1, <1>2, <2>2, <2>3, <2>4, <3>2
    <3>3. CASE i # Len(s) /\ i # Len(s) + 1
      <4>1. i \in 1..Len(s) /\ i + 1 \in 1..Len(s) /\ i # Len(r)
        BY <1>1, <1>2, <3>3
      <4>2. s[i] # last
        BY <1>1, <2>2, <3>3, <4>1 DEF Once
      <4>3. nx[s[i]] = s[i + 1]
        BY <3>3, <4>1 DEF Represents
      <4> QED
        BY <1>2, <2>4, <4>1, <4>2, <4>3
    <3> QED
      BY <3>1, <3>2, <3>3
  <2> QED
    BY <1>2, <1>5, <2>1, <2>5, <2>6 DEF Represents
<1> QED
  BY <1>2, <1>4, <1>6, <1>7 DEF r, last, ny

(* Moving a whole chain, first slot first, in front of another one: the    *)
(* moved slots end up in the reverse order.                                *)
Moved(q, f) == [i \in 1..(Len(q) + Len(f)) |->
                  IF i <= Len(q) THEN q[Len(q) + 1 - i] ELSE f[i - Len(q)]]

(* Reset relinks the queue, reversed, before the free list.                *)
LEMMA ChainMove ==
  ASSUME NEW nx \in [Slot -> Slot \union {Null}],
         NEW head, NEW q, Represents(nx, head, q),
         NEW free, NEW f, Represents(nx, free, f),
         \A x : ~(Linked(q, x) /\ Linked(f, x)),
         NEW ny,
         \A k \in 1..Len(q) : ny[q[k]] = IF k = 1 THEN free ELSE q[k - 1],
         \A x : Linked(f, x) => ny[x] = nx[x]
  PROVE  /\ Represents(ny, IF q = <<>> THEN free ELSE q[Len(q)], Moved(q, f))
         /\ Len(Moved(q, f)) = Len(q) + Len(f)
         /\ \A x : Linked(Moved(q, f), x) <=> (Linked(q, x) \/ Linked(f, x))
<1> DEFINE r == Moved(q, f)
           m == Len(q)
           n == Len(f)
<1>1. /\ q \in Seq(Slot) /\ f \in Seq(Slot) /\ Once(q) /\ Once(f)
      /\ m \in Nat /\ n \in Nat
  BY ChainBegins DEF Represents
<1>2. \A i \in 1..(m + n) :
        r[i] = IF i <= m THEN q[m + 1 - i] ELSE f[i - m]
  BY DEF Moved
<1>3. r \in Seq(Slot) /\ Len(r) = m + n
  <2>1. ASSUME NEW i \in 1..(m + n) PROVE r[i] \in Slot
    <3>1. CASE i <= m
      <4>1. m + 1 - i \in 1..m
        BY <1>1, <3>1
      <4> QED
        BY <1>1, <1>2, <3>1, <4>1, ElementOfSeq
    <3>2. CASE ~(i <= m)
      <4>1. i - m \in 1..n
        BY <1>1, <3>2
      <4> QED
        BY <1>1, <1>2, <3>2, <4>1, ElementOfSeq
    <3> QED
      BY <3>1, <3>2
  <2>2. r \in [1..(m + n) -> Slot] /\ m + n \in Nat
    BY <1>1, <2>1 DEF Moved
  <2> QED
    BY <2>2, SeqDef, LenProperties
<1> HIDE DEF r, m, n
<1>4. \A i \in 1..m : m + 1 - i \in 1..(m + n) /\ r[m + 1 - i] = q[i]
  <2> TAKE i \in 1..m
  <2>1. m + 1 - i \in 1..(m + n) /\ m + 1 - i <= m /\ m + 1 - (m + 1 - i) = i
    BY <1>1
  <2> QED
    BY <1>2, <2>1
<1>5. \A i \in 1..n : m + i \in 1..(m + n) /\ r[m + i] = f[i]
  <2> TAKE i \in 1..n
  <2>1. PICK j \in 1..(m + n) : j = m + i /\ ~(j <= m) /\ j - m = i
    BY <1>1
  <2>2. r[j] = f[j - m]
    BY <1>2, <2>1
  <2> QED
    BY <2>1, <2>2
<1>6. \A x : Linked(r, x) <=> (Linked(q, x) \/ Linked(f, x))
  <2>1. ASSUME NEW x, Linked(q, x) \/ Linked(f, x) PROVE Linked(r, x)
    BY <1>3, <1>4, <1>5, <2>1 DEF Linked, m, n
  <2>2. ASSUME NEW x, Linked(r, x) PROVE Linked(q, x) \/ Linked(f, x)
    <3>1. PICK i \in 1..(m + n) : r[i] = x
      BY <1>3, <2>2 DEF Linked
    <3>2. CASE i <= m
      <4>1. m + 1 - i \in 1..m /\ r[i] = q[m + 1 - i]
        BY <1>1, <1>2, <3>2
      <4> QED
        BY <3>1, <4>1 DEF Linked, m
    <3>3. CASE ~(i <= m)
      <4>1. i - m \in 1..n /\ r[i] = f[i - m]
        BY <1>1, <1>2, <3>3
      <4> QED
        BY <3>1, <4>1 DEF Linked, n
    <3> QED
      BY <3>2, <3>3
  <2> QED
    BY <2>1, <2>2
<1>7. Once(r)
  <2> SUFFICES ASSUME NEW i \in 1..(m + n), NEW j \in 1..(m + n), r[i] = r[j]
               PROVE  i = j
    BY <1>3 DEF Once
  <2>1. CASE i <= m /\ j <= m
    <3>1. /\ m + 1 - i \in 1..m /\ r[i] = q[m + 1 - i]
          /\ m + 1 - j \in 1..m /\ r[j] = q[m + 1 - j]
      BY <1>1, <1>2, <2>1
    <3>2. m + 1 - i = m + 1 - j
      BY <1>1, <3>1 DEF Once, m
    <3> QED
      BY <1>1, <3>2
  <2>2. CASE ~(i <= m) /\ ~(j <= m)
    <3>1. /\ i - m \in 1..n /\ r[i] = f[i - m]
          /\ j - m \in 1..n /\ r[j] = f[j - m]
      BY <1>1, <1>2, <2>2
    <3>2. i - m = j - m
      BY <1>1, <3>1 DEF Once, n
    <3> QED
      BY <1>1, <3>2
  <2>3. CASE i <= m /\ ~(j <= m)
    <3>1. /\ m + 1 - i \in 1..m /\ r[i] = q[m + 1 - i]
          /\ j - m \in 1..n /\ r[j] = f[j - m]
      BY <1>1, <1>2, <2>3
    <3> QED
      BY <3>1 DEF Linked, m, n
  <2>4. CASE ~(i <= m) /\ j <= m
    <3>1. /\ m + 1 - j \in 1..m /\ r[j] = q[m + 1 - j]
          /\ i - m \in 1..n /\ r[i] = f[i - m]
      BY <1>1, <1>2, <2>4
    <3> QED
      BY <3>1 DEF Linked, m, n
  <2> QED
    BY <2>1, <2>2, <2>3, <2>4
<1>8. (IF q = <<>> THEN free ELSE q[m]) = IF r = <<>> THEN Null ELSE r[1]
  <2>1. CASE q = <<>> /\ f = <<>>
    <3>1. m = 0 /\ n = 0
      BY <2>1, EmptySeq DEF m, n
    <3>2. r = <<>>
      BY <1>3, <3>1, EmptySeq
    <3> QED
      BY <2>1, <3>2 DEF Represents
  <2>2. CASE q = <<>> /\ f # <<>>
    <3>1. m = 0 /\ n > 0 /\ free = f[1]
      BY <2>2, EmptySeq, ChainBegins DEF m, n
    <3>2. r[1] = f[1] /\ Len(r) # 0
      BY <1>1, <1>3, <1>5, <3>1
    <3> QED
      BY <2>2, <3>1, <3>2, EmptySeq
  <2>3. CASE q # <<>>
    <3>1. m > 0
      BY <2>3, ChainBegins DEF m
    <3>2. m \in 1..m /\ m + 1 - m = 1
      BY <1>1, <3>1
    <3>3. r[1] = q[m] /\ Len(r) # 0
      BY <1>1, <1>3, <1>4, <3>1, <3>2
    <3> QED
      BY <2>3, <3>3, EmptySeq
  <2> QED
    BY <2>1, <2>2, <2>3
<1>9. ASSUME NEW i \in 1..(m + n)
      PROVE  ny[r[i]] = IF i = m + n THEN Null ELSE r[i + 1]
  <2>1. CASE i < m
    <3>1. /\ m + 1 - i \in 1..m /\ m + 1 - i # 1 /\ i # m + n
          /\ (m + 1 - i) - 1 = m + 1 - (i + 1)
          /\ i <= m /\ i + 1 <= m /\ i + 1 \in 1..(m + n)
      BY <1>1, <2>1
    <3>2. r[i] = q[m + 1 - i] /\ r[i + 1] = q[m + 1 - (i + 1)]
      BY <1>2, <3>1
    <3>3. ny[q[m + 1 - i]] = q[(m + 1 - i) - 1]
      BY <3>1 DEF m
    <3> QED
      BY <3>1, <3>2, <3>3
  <2>2. CASE i = m
    <3>1. m + 1 - i = 1 /\ 1 \in 1..m
      BY <1>1, <2>2
    <3>2. r[i] = q[1]
      BY <1>2, <2>2, <3>1
    <3>3. ny[q[1]] = free
      BY <3>1 DEF m
    <3>4. CASE f = <<>>
      <4>1. n = 0 /\ free = Null
        BY <3>4, EmptySeq DEF n, Represents
      <4> QED
        BY <1>1, <2>2, <3>2, <3>3, <4>1
    <3>5. CASE f # <<>>
      <4>1. n > 0 /\ free = f[1]
        BY <3>5, ChainBegins DEF n
      <4>2. 1 \in 1..n /\ m + n # m
        BY <1>1, <4>1
      <4> QED
        BY <1>5, <2>2, <3>2, <3>3, <4>1, <4>2
    <3> QED
      BY <3>4, <3>5
  <2>3. CASE i > m
    <3>1. i - m \in 1..n /\ m + (i - m) = i
      BY <1>1, <2>3
    <3>2. r[i] = f[i - m]
      BY <1>5, <3>1
    <3>3. ny[f[i - m]] = nx[f[i - m]]
      BY <3>1 DEF Linked, n
    <3>4. nx[f[i - m]] = IF i - m = n THEN Null ELSE f[(i - m) + 1]
      BY <3>1 DEF Represents, n
    <3>5. CASE i = m + n
      <4>1. i - m = n
        BY <1>1, <3>5
      <4> QED
        BY <3>2, <3>3, <3>4, <3>5, <4>1
    <3>6. CASE i # m + n
      <4>1. /\ i - m # n /\ (i - m) + 1 \in 1..n
            /\ m + ((i - m) + 1) = i + 1
        BY <1>1, <3>1, <3>6
      <4> QED
        BY <1>5, <3>2, <3>3, <3>4, <3>6, <4>1
    <3> QED
      BY <3>5, <3>6
  <2> QED
    BY <1>1, <2>1, <2>2, <2>3
<1>10. Represents(ny, IF q = <<>> THEN free ELSE q[m], r)
  BY <1>3, <1>7, <1>8, <1>9 DEF Represents
<1> QED
  BY <1>3, <1>6, <1>10 DEF r, m, n

------------------------------------------------------------------------------
(* The operator Chain reads a chain of pointers slot by slot and then only *)
(* Null.                                                                   *)
LEMMA ChainReads ==
  ASSUME NEW first, NEW s, Represents(next, first, s), Len(s) <= MaxMsgs
  PROVE  \A k \in 0..MaxMsgs :
            Chain(first)[k] = IF k < Len(s) THEN s[k + 1] ELSE Null
<1> DEFINE Sol(at) ==
             at = [k \in 0..MaxMsgs |->
                     IF k = 0 THEN first
                     ELSE IF at[k - 1] = Null THEN Null ELSE next[at[k - 1]]]
           g == [k \in 0..MaxMsgs |-> IF k < Len(s) THEN s[k + 1] ELSE Null]
<1>1. /\ s \in Seq(Slot) /\ Len(s) \in Nat /\ MaxMsgs \in Nat
      /\ \A x \in Slot : x # Null
      /\ first = IF 0 < Len(s) THEN s[1] ELSE Null
      /\ \A i \in 1..Len(s) :
           next[s[i]] = IF i = Len(s) THEN Null ELSE s[i + 1]
  BY ChainBegins, SizeAssumption, EmptySeq DEF Represents, Slot
<1>2. ASSUME NEW k \in 0..MaxMsgs, k # 0
      PROVE  g[k] = IF g[k - 1] = Null THEN Null ELSE next[g[k - 1]]
  <2>1. k - 1 \in 0..MaxMsgs /\ k \in 0..MaxMsgs /\ (k - 1) + 1 = k
    BY <1>1, <1>2
  <2>2. /\ g[k] = IF k < Len(s) THEN s[k + 1] ELSE Null
        /\ g[k - 1] = IF k - 1 < Len(s) THEN s[k] ELSE Null
    BY <2>1
  <2>3. CASE k - 1 < Len(s)
    <3>1. k \in 1..Len(s)
      BY <1>1, <1>2, <2>3
    <3>2. g[k - 1] = s[k] /\ s[k] # Null
      BY <1>1, <2>2, <2>3, <3>1, ElementOfSeq
    <3>3. next[s[k]] = IF k = Len(s) THEN Null ELSE s[k + 1]
      BY <1>1, <3>1
    <3>4. k = Len(s) <=> ~(k < Len(s))
      BY <1>1, <3>1
    <3> QED
      BY <2>2, <3>2, <3>3, <3>4
  <2>4. CASE ~(k - 1 < Len(s))
    <3>1. ~(k < Len(s))
      BY <1>1, <2>1, <2>4
    <3> QED
      BY <2>2, <2>4, <3>1
  <2> QED
    BY <2>3, <2>4
<1>3. g[0] = first
  <2>1. 0 \in 0..MaxMsgs /\ 0 + 1 = 1
    BY <1>1
  <2> QED
    BY <1>1, <2>1
<1>4. Sol(g)
  <2> DEFINE h == [k \in 0..MaxMsgs |->
                     IF k = 0 THEN first
                     ELSE IF g[k - 1] = Null THEN Null ELSE next[g[k - 1]]]
  <2>1. \A k \in 0..MaxMsgs : h[k] = g[k]
    <3> HIDE DEF g
    <3> QED
      BY <1>2, <1>3
  <2>2. g = [k \in 0..MaxMsgs |-> g[k]]
    OBVIOUS
  <2>3. h = [k \in 0..MaxMsgs |-> h[k]]
    OBVIOUS
  <2> HIDE DEF g, h
  <2>4. g = h
    BY <2>1, <2>2, <2>3
  <2> QED
    BY <2>4 DEF h
<1>5. Sol(Chain(first))
  <2>1. Chain(first) = CHOOSE at : Sol(at)
    BY DEF Chain
  <2> HIDE DEF Sol, g
  <2> QED
    BY <1>4, <2>1
<1> DEFINE c == Chain(first)
<1>6. /\ \A k \in 0..MaxMsgs :
           c[k] = IF k = 0 THEN first
                  ELSE IF c[k - 1] = Null THEN Null ELSE next[c[k - 1]]
  BY <1>5
<1> HIDE DEF c, g
<1>7. \A k \in 0..MaxMsgs : c[k] = g[k]
  <2> DEFINE B == {k \in 0..MaxMsgs : c[k] # g[k]}
  <2> SUFFICES ASSUME B # {} PROVE FALSE
    OBVIOUS
  <2>1. B \in SUBSET Nat
    BY <1>1
  <2>2. PICK k \in B : \A j \in B : k <= j
    BY <2>1, SmallestNat
  <2>3. k \in 0..MaxMsgs /\ c[k] # g[k]
    BY <2>2
  <2>4. k # 0
    <3>1. c[0] = first
      BY <1>1, <1>6
    <3> QED
      BY <1>3, <2>3, <3>1
  <2>5. k - 1 \in 0..MaxMsgs /\ ~(k <= k - 1)
    BY <1>1, <2>3, <2>4
  <2>6. c[k - 1] = g[k - 1]
    BY <2>2, <2>5
  <2> QED
    BY <1>2, <1>6, <2>3, <2>4, <2>6
<1> QED
  BY <1>7 DEF c, g

(* The slots of a chain are those of its sequence, and it ends.            *)
LEMMA ChainCounts ==
  ASSUME NEW first, NEW s, Represents(next, first, s), Len(s) <= MaxMsgs
  PROVE  /\ Ends(first)
         /\ \A x : x \in OnChain(first) <=> Linked(s, x)
         /\ Cardinality(OnChain(first)) = Len(s)
<1> DEFINE n == Len(s)
           D == OnChain(first)
<1>1. /\ s \in Seq(Slot) /\ Once(s) /\ n \in Nat /\ MaxMsgs \in Nat
      /\ n <= MaxMsgs
  BY ChainBegins, SizeAssumption DEF Represents
<1>2. \A k \in 0..MaxMsgs :
         Chain(first)[k] = IF k < n THEN s[k + 1] ELSE Null
  BY ChainReads
<1> HIDE DEF n
<1>3. Ends(first)
  BY <1>1, <1>2 DEF Ends
<1>4. ASSUME NEW x, x \in D PROVE Linked(s, x)
  <2>1. PICK k \in 0..MaxMsgs : x = Chain(first)[k] /\ x # Null
    BY <1>4 DEF OnChain
  <2>2. k < n /\ x = s[k + 1]
    BY <1>2, <2>1
  <2>3. k + 1 \in 1..n
    BY <1>1, <2>1, <2>2
  <2> QED
    BY <2>2, <2>3 DEF Linked, n
<1>5. ASSUME NEW x, Linked(s, x) PROVE x \in D
  <2>1. PICK i \in 1..n : s[i] = x
    BY <1>5 DEF Linked, n
  <2>2. i - 1 \in 0..MaxMsgs /\ i - 1 < n /\ (i - 1) + 1 = i
    BY <1>1, <2>1
  <2>3. Chain(first)[i - 1] = x
    BY <1>2, <2>1, <2>2
  <2>4. x # Null
    BY <1>5, ChainBegins
  <2> QED
    BY <2>2, <2>3, <2>4 DEF OnChain
<1> HIDE DEF D
<1>6. s \in Bijection(1..n, D)
  <2>1. s \in [1..n -> D]
    <3>1. DOMAIN s = 1..n /\ s \in [1..n -> Slot]
      BY <1>1, LenProperties DEF n
    <3>2. \A i \in 1..n : Linked(s, s[i])
      BY DEF Linked, n
    <3> QED
      BY <1>5, <3>1, <3>2
  <2>2. \A i, j \in 1..n : s[i] = s[j] => i = j
    BY <1>1 DEF Once, n
  <2>3. \A x \in D : \E i \in 1..n : s[i] = x
    BY <1>4 DEF Linked, n
  <2> QED
    BY <2>1, <2>2, <2>3, Fun_IsBij
<1>7. Cardinality(D) = n
  BY <1>1, <1>6, FS_CountingElements DEF ExistsBijection
<1> QED
  BY <1>3, <1>4, <1>5, <1>7 DEF D, n

------------------------------------------------------------------------------
(* Where the slots are: f is the free list and q the queue, first slot     *)
(* first, and each thread of H has the slot that m gives for it.           *)
Placed(nx, free, head, tail, f, q, H, m) ==
    /\ nx \in [Slot -> Slot \union {Null}]
    /\ Represents(nx, free, f) /\ Represents(nx, head, q)
    /\ tail = LastOf(q)
    /\ \A x : ~(Linked(f, x) /\ Linked(q, x))
    /\ H \in SUBSET Thread
    /\ \A t \in H : m[t] \in Slot /\ ~Linked(f, m[t]) /\ ~Linked(q, m[t])
    /\ \A t, u \in H : m[t] = m[u] => t = u
    /\ \A x \in Slot :
         Linked(f, x) \/ Linked(q, x) \/ \E t \in H : m[t] = x
    /\ Len(f) + Len(q) + Cardinality(H) = MaxMsgs

(* The threads of H keep the slots they have, and t gets the slot x.       *)
Agree(mm, m, H) == \A u \in H : mm[u] = m[u]
Gets(mm, m, H, t, x) == Agree(mm, m, H) /\ mm[t] = x

(* Sets of threads are counted one by one. *)
LEMMA HandCounts ==
  ASSUME NEW H \in SUBSET Thread, NEW t \in Thread
  PROVE  /\ Cardinality(H) \in Nat
         /\ t \notin H => Cardinality(H \union {t}) = Cardinality(H) + 1
         /\ t \in H => Cardinality(H \ {t}) = Cardinality(H) - 1
<1>1. IsFiniteSet(H)
  BY ThreadAssumption, FS_Subset
<1> QED
  BY <1>1, FS_CardinalityType, FS_AddElement, FS_RemoveElement

(* A chain is never longer than there are slots. *)
LEMMA PlacedLengths ==
  ASSUME NEW nx, NEW free, NEW head, NEW tail, NEW f, NEW q, NEW H, NEW m,
         Placed(nx, free, head, tail, f, q, H, m)
  PROVE  /\ Len(f) \in Nat /\ Len(q) \in Nat /\ Cardinality(H) \in Nat
         /\ Len(f) <= MaxMsgs /\ Len(q) <= MaxMsgs
         /\ \A t : t \in H => Len(q) < MaxMsgs
<1>1. Len(f) \in Nat /\ Len(q) \in Nat
  BY ChainBegins DEF Placed
<1>2. H \in SUBSET Thread /\ IsFiniteSet(H)
  BY ThreadAssumption, FS_Subset DEF Placed
<1>3. Cardinality(H) \in Nat /\ (H # {} => Cardinality(H) # 0)
  BY <1>2, FS_CardinalityType, FS_EmptySet
<1>4. Len(f) + Len(q) + Cardinality(H) = MaxMsgs /\ MaxMsgs \in Nat
  BY SizeAssumption DEF Placed
<1> QED
  BY <1>1, <1>3, <1>4

(* A thread takes the first free slot. *)
LEMMA TakeFree ==
  ASSUME NEW nx, NEW free, NEW head, NEW tail, NEW f, NEW q, NEW H, NEW m,
         Placed(nx, free, head, tail, f, q, H, m),
         free # Null, NEW t \in Thread, t \notin H,
         NEW mm, Gets(mm, m, H, t, free)
  PROVE  Placed(nx, nx[free], head, tail, Tail(f), q, H \union {t}, mm)
<1> USE DEF Agree, Gets
<1>1. Represents(nx, free, f) /\ f # <<>>
  BY ChainBegins DEF Placed
<1>2. /\ Represents(nx, nx[free], Tail(f)) /\ Len(Tail(f)) = Len(f) - 1
      /\ \A x : Linked(Tail(f), x) <=> (Linked(f, x) /\ x # free)
  BY <1>1, ChainTail
<1>3. free \in Slot /\ Linked(f, free)
  BY <1>1, ChainBegins
<1>4. /\ Len(f) \in Nat /\ Len(q) \in Nat /\ Cardinality(H) \in Nat
      /\ Cardinality(H \union {t}) = Cardinality(H) + 1
  BY PlacedLengths, HandCounts DEF Placed
<1>5. Len(Tail(f)) + Len(q) + Cardinality(H \union {t}) = MaxMsgs
  <2>1. Len(f) + Len(q) + Cardinality(H) = MaxMsgs
    BY DEF Placed
  <2> DEFINE a == Len(f)
             b == Len(Tail(f))
             c == Cardinality(H \union {t})
  <2>2. b = a - 1 /\ a \in Nat /\ c = Cardinality(H) + 1
    BY <1>2, <1>4
  <2> HIDE DEF a, b, c
  <2>3. b + Len(q) + c = a + Len(q) + Cardinality(H)
    BY <1>4, <2>2
  <2> QED
    BY <2>1, <2>3 DEF a, b, c
<1>6. \A u \in H \union {t} :
         mm[u] \in Slot /\ ~Linked(Tail(f), mm[u]) /\ ~Linked(q, mm[u])
  BY <1>2, <1>3 DEF Placed
<1>7. \A u, w \in H \union {t} : mm[u] = mm[w] => u = w
  BY <1>3 DEF Placed
<1>8. \A x \in Slot : Linked(Tail(f), x) \/ Linked(q, x)
                        \/ \E u \in H \union {t} : mm[u] = x
  BY <1>2 DEF Placed
<1> QED
  BY <1>2, <1>5, <1>6, <1>7, <1>8 DEF Placed

(* A receiver unlinks the first slot of the queue. *)
LEMMA TakeHead ==
  ASSUME NEW nx, NEW free, NEW head, NEW tail, NEW f, NEW q, NEW H, NEW m,
         Placed(nx, free, head, tail, f, q, H, m),
         q # <<>>, NEW t \in Thread, t \notin H,
         NEW mm, Gets(mm, m, H, t, head)
  PROVE  Placed(nx, free, nx[head], TailWithout(tail, head),
                f, Tail(q), H \union {t}, mm)
<1> USE DEF Agree, Gets, TailWithout
<1>1. Represents(nx, head, q)
  BY DEF Placed
<1>2. /\ Represents(nx, nx[head], Tail(q)) /\ Len(Tail(q)) = Len(q) - 1
      /\ \A x : Linked(Tail(q), x) <=> (Linked(q, x) /\ x # head)
  BY <1>1, ChainTail
<1>3. head \in Slot /\ Linked(q, head) /\ head = q[1] /\ Len(q) > 0
  BY <1>1, ChainBegins
<1>4. /\ Len(f) \in Nat /\ Len(q) \in Nat /\ Cardinality(H) \in Nat
      /\ Cardinality(H \union {t}) = Cardinality(H) + 1
  BY PlacedLengths, HandCounts DEF Placed
<1>5. Len(f) + Len(Tail(q)) + Cardinality(H \union {t}) = MaxMsgs
  BY <1>2, <1>4 DEF Placed
<1>6. \A u \in H \union {t} :
         mm[u] \in Slot /\ ~Linked(f, mm[u]) /\ ~Linked(Tail(q), mm[u])
  BY <1>2, <1>3 DEF Placed
<1>7. \A u, w \in H \union {t} : mm[u] = mm[w] => u = w
  BY <1>3 DEF Placed
<1>8. \A x \in Slot : Linked(f, x) \/ Linked(Tail(q), x)
                        \/ \E u \in H \union {t} : mm[u] = x
  BY <1>2 DEF Placed
<1>9. (IF tail = head THEN Null ELSE tail)
        = LastOf(Tail(q))
  <2>1. q \in Seq(Slot) /\ Once(q) /\ tail = q[Len(q)]
    BY <1>1, <1>3, EmptySeq DEF Placed, Represents, LastOf
  <2>2. /\ Tail(q) \in Seq(Slot)
        /\ \A i \in 1..(Len(q) - 1) : Tail(q)[i] = q[i + 1]
    BY <2>1, HeadTailProperties
  <2>3. CASE Len(q) = 1
    <3>1. Len(Tail(q)) = 0
      BY <1>2, <2>3
    <3>2. Tail(q) = <<>>
      BY <2>2, <3>1, EmptySeq
    <3> QED
      BY <1>3, <2>1, <2>3, <3>2 DEF LastOf
  <2>4. CASE Len(q) # 1
    <3>1. /\ Len(q) \in 1..Len(q) /\ 1 \in 1..Len(q)
          /\ Len(q) - 1 \in 1..(Len(q) - 1) /\ (Len(q) - 1) + 1 = Len(q)
          /\ Len(q) - 1 # 0
      <4>1. PICK n \in Nat : n = Len(q) /\ n > 0 /\ n # 1
        BY <1>3, <1>4, <2>4
      <4>2. /\ n \in 1..n /\ 1 \in 1..n
            /\ n - 1 \in 1..(n - 1) /\ (n - 1) + 1 = n /\ n - 1 # 0
        BY <4>1
      <4> QED
        BY <4>1, <4>2
    <3>2. q[Len(q)] # q[1]
      BY <2>1, <2>4, <3>1 DEF Once
    <3>3. Tail(q)[Len(q) - 1] = q[Len(q)]
      BY <2>2, <3>1
    <3>4. Tail(q) # <<>>
      BY <1>2, <3>1, EmptySeq
    <3> QED
      BY <1>2, <1>3, <2>1, <3>2, <3>3, <3>4 DEF LastOf
  <2> QED
    BY <2>3, <2>4
<1> QED
  BY <1>2, <1>5, <1>6, <1>7, <1>8, <1>9 DEF Placed

(* A thread writes the pointer of a slot it has. *)
LEMMA WriteInHand ==
  ASSUME NEW nx, NEW free, NEW head, NEW tail, NEW f, NEW q, NEW H, NEW m,
         Placed(nx, free, head, tail, f, q, H, m),
         NEW t \in H, NEW p \in Slot \union {Null}
  PROVE  Placed([nx EXCEPT ![m[t]] = p], free, head, tail, f, q, H, m)
<1> DEFINE ny == [nx EXCEPT ![m[t]] = p]
<1>1. /\ \A x : Linked(f, x) => ny[x] = nx[x]
      /\ \A x : Linked(q, x) => ny[x] = nx[x]
  <2>1. nx \in [Slot -> Slot \union {Null}]
    BY DEF Placed
  <2>2. /\ \A x : Linked(f, x) => x \in Slot /\ x # m[t]
        /\ \A x : Linked(q, x) => x \in Slot /\ x # m[t]
    BY ChainBegins DEF Placed
  <2> QED
    BY <2>1, <2>2
<1>2. ny \in [Slot -> Slot \union {Null}]
  BY DEF Placed
<1> HIDE DEF ny
<1>3. Represents(ny, free, f) /\ Represents(ny, head, q)
  BY <1>1, ChainElsewhere DEF Placed
<1>4. Placed(ny, free, head, tail, f, q, H, m)
  BY <1>2, <1>3 DEF Placed
<1> QED
  BY <1>4 DEF ny

(* A receiver puts the slot it has read in front of the free list.         *)
LEMMA GiveFree ==
  ASSUME NEW nx, NEW free, NEW head, NEW tail, NEW f, NEW q, NEW H, NEW m,
         Placed(nx, free, head, tail, f, q, H, m),
         NEW t \in H, NEW mm, Agree(mm, m, H \ {t})
  PROVE  Placed(PointFirst(nx, m[t], free), m[t], head, tail,
                <<m[t]>> \o f, q, H \ {t}, mm)
<1> DEFINE x == m[t]
           ny == [nx EXCEPT ![m[t]] = free]
           r == <<x>> \o f
<1> USE DEF Agree, PointFirst
<1>1. /\ nx \in [Slot -> Slot \union {Null}] /\ Represents(nx, free, f)
      /\ x \in Slot /\ ~Linked(f, x) /\ ~Linked(q, x)
  BY DEF Placed
<1>2. /\ Represents(ny, x, r) /\ Len(r) = Len(f) + 1
      /\ \A y : Linked(r, y) <=> (Linked(f, y) \/ y = x)
  BY <1>1, ChainPrepend
<1>3. free \in Slot \union {Null}
  BY <1>1, ChainBegins
<1>4. Represents(ny, head, q) /\ ny \in [Slot -> Slot \union {Null}]
  <2>1. Placed(ny, free, head, tail, f, q, H, m)
    BY <1>3, WriteInHand
  <2> QED
    BY <2>1 DEF Placed
<1> HIDE DEF ny, r
<1>5. /\ Len(f) \in Nat /\ Len(q) \in Nat /\ Cardinality(H) \in Nat
      /\ Cardinality(H \ {t}) = Cardinality(H) - 1
  BY PlacedLengths, HandCounts DEF Placed
<1>6. Len(r) + Len(q) + Cardinality(H \ {t}) = MaxMsgs
  BY <1>2, <1>5 DEF Placed
<1>7. \A u \in H \ {t} :
         mm[u] \in Slot /\ ~Linked(r, mm[u]) /\ ~Linked(q, mm[u])
  BY <1>2 DEF Placed
<1>8. \A u, w \in H \ {t} : mm[u] = mm[w] => u = w
  BY DEF Placed
<1>9. \A y \in Slot : Linked(r, y) \/ Linked(q, y)
                        \/ \E u \in H \ {t} : mm[u] = y
  BY <1>2 DEF Placed
<1>10. \A y : ~(Linked(r, y) /\ Linked(q, y))
  BY <1>1, <1>2 DEF Placed
<1>11. Placed(ny, x, head, tail, r, q, H \ {t}, mm)
  BY <1>2, <1>4, <1>6, <1>7, <1>8, <1>9, <1>10 DEF Placed
<1> QED
  BY <1>11 DEF ny, r

(* A sender links its slot behind the last one of the queue.               *)
LEMMA LinkLast ==
  ASSUME NEW nx, NEW free, NEW head, NEW tail, NEW f, NEW q, NEW H, NEW m,
         Placed(nx, free, head, tail, f, q, H, m),
         NEW t \in H, nx[m[t]] = Null,
         NEW mm, Agree(mm, m, H \ {t})
  PROVE  /\ Placed(PointLast(nx, tail, m[t]), free,
                   IF head = Null THEN m[t] ELSE head, m[t],
                   f, Append(q, m[t]), H \ {t}, mm)
         /\ Len(Append(q, m[t])) = Len(q) + 1
         /\ \A u \in H : PointLast(nx, tail, m[t])[m[u]] = nx[m[u]]
<1> DEFINE x == m[t]
           r == Append(q, x)
           ny == PointLast(nx, tail, x)
<1>0. ny = IF tail # Null THEN [nx EXCEPT ![tail] = x] ELSE nx
  BY DEF PointLast
<1> USE DEF Agree
<1>1. /\ nx \in [Slot -> Slot \union {Null}]
      /\ Represents(nx, head, q) /\ Represents(nx, free, f)
      /\ x \in Slot /\ ~Linked(f, x) /\ ~Linked(q, x) /\ nx[x] = Null
      /\ tail = LastOf(q)
  BY DEF Placed
<1>2. /\ Represents(ny, IF head = Null THEN x ELSE head, r)
      /\ Len(r) = Len(q) + 1 /\ x = r[Len(q) + 1]
      /\ \A y : Linked(r, y) <=> (Linked(q, y) \/ y = x)
  BY <1>1, ChainAppend
<1>3. tail # Null => tail \in Slot /\ Linked(q, tail)
  <2> SUFFICES ASSUME tail # Null PROVE tail \in Slot /\ Linked(q, tail)
    OBVIOUS
  <2>1. q # <<>> /\ tail = q[Len(q)]
    BY <1>1 DEF LastOf
  <2>2. Len(q) \in Nat /\ Len(q) > 0
    BY <1>1, <2>1, ChainBegins
  <2>3. Len(q) \in 1..Len(q)
    BY <2>2
  <2>4. Linked(q, tail)
    BY <2>1, <2>3 DEF Linked
  <2> QED
    BY <1>1, <2>4, ChainBegins
<1>4. \A y \in Slot : ~Linked(q, y) => ny[y] = nx[y]
  BY <1>0, <1>1, <1>3
<1>5. ny \in [Slot -> Slot \union {Null}]
  BY <1>0, <1>1
<1>6. Represents(ny, free, f)
  <2>1. \A y : Linked(f, y) => y \in Slot /\ ~Linked(q, y)
    BY <1>1, ChainBegins DEF Placed
  <2>2. \A y : Linked(f, y) => ny[y] = nx[y]
    BY <1>4, <2>1
  <2> QED
    BY <1>1, <2>2, ChainElsewhere
<1> HIDE DEF r, ny
<1>7. /\ Len(f) \in Nat /\ Len(q) \in Nat /\ Cardinality(H) \in Nat
      /\ Cardinality(H \ {t}) = Cardinality(H) - 1
  BY PlacedLengths, HandCounts DEF Placed
<1>8. Len(f) + Len(r) + Cardinality(H \ {t}) = MaxMsgs
  BY <1>2, <1>7 DEF Placed
<1>9. \A u \in H \ {t} :
         mm[u] \in Slot /\ ~Linked(f, mm[u]) /\ ~Linked(r, mm[u])
  BY <1>2 DEF Placed
<1>10. \A u, w \in H \ {t} : mm[u] = mm[w] => u = w
  BY DEF Placed
<1>11. \A y \in Slot : Linked(f, y) \/ Linked(r, y)
                         \/ \E u \in H \ {t} : mm[u] = y
  BY <1>2 DEF Placed
<1>12. \A y : ~(Linked(f, y) /\ Linked(r, y))
  BY <1>1, <1>2 DEF Placed
<1>13. x = LastOf(r)
  <2>1. r # <<>>
    BY <1>2, <1>7, EmptySeq
  <2> QED
    BY <1>2, <2>1 DEF LastOf
<1>14. Placed(ny, free, IF head = Null THEN x ELSE head, x, f, r, H \ {t}, mm)
  BY <1>2, <1>5, <1>6, <1>8, <1>9, <1>10, <1>11, <1>12, <1>13 DEF Placed
<1>15. \A u \in H : ny[m[u]] = nx[m[u]]
  BY <1>4 DEF Placed
<1> QED
  BY <1>2, <1>14, <1>15 DEF r, ny

(* An urgent sender links its slot before the first one of the queue.      *)
LEMMA LinkFirst ==
  ASSUME NEW nx, NEW free, NEW head, NEW tail, NEW f, NEW q, NEW H, NEW m,
         Placed(nx, free, head, tail, f, q, H, m),
         NEW t \in H, NEW mm, Agree(mm, m, H \ {t})
  PROVE  /\ Placed(PointFirst(nx, m[t], head), free, m[t],
                   TailAfter(tail, m[t]),
                   f, <<m[t]>> \o q, H \ {t}, mm)
         /\ Len(<<m[t]>> \o q) = Len(q) + 1
<1> DEFINE x == m[t]
           ny == [nx EXCEPT ![m[t]] = head]
           r == <<x>> \o q
<1> USE DEF Agree, PointFirst, TailAfter
<1>1. /\ nx \in [Slot -> Slot \union {Null}]
      /\ Represents(nx, head, q) /\ q \in Seq(Slot)
      /\ x \in Slot /\ ~Linked(f, x) /\ ~Linked(q, x)
      /\ tail = IF q = <<>> THEN Null ELSE q[Len(q)]
  BY DEF Placed, Represents, LastOf
<1>2. /\ Represents(ny, x, r) /\ Len(r) = Len(q) + 1
      /\ \A y : Linked(r, y) <=> (Linked(q, y) \/ y = x)
  BY <1>1, ChainPrepend
<1>3. head \in Slot \union {Null}
  BY <1>1, ChainBegins
<1>4. Represents(ny, free, f) /\ ny \in [Slot -> Slot \union {Null}]
  <2>1. Placed(ny, free, head, tail, f, q, H, m)
    BY <1>3, WriteInHand
  <2> QED
    BY <2>1 DEF Placed
<1>5. /\ Len(f) \in Nat /\ Len(q) \in Nat /\ Cardinality(H) \in Nat
      /\ Cardinality(H \ {t}) = Cardinality(H) - 1
  BY PlacedLengths, HandCounts DEF Placed
<1>6. (IF tail = Null THEN x ELSE tail) = LastOf(r)
  <2>1. /\ <<x>> \in Seq(Slot) /\ Len(<<x>>) = 1 /\ <<x>>[1] = x
    BY <1>1
  <2>2. \A i \in 1..(Len(q) + 1) : r[i] = IF i <= 1 THEN <<x>>[i] ELSE q[i - 1]
    BY <1>1, <1>5, <2>1, ConcatProperties
  <2>3. r # <<>>
    BY <1>2, <1>5, EmptySeq
  <2>4. CASE q = <<>>
    <3>1. Len(q) = 0 /\ 1 \in 1..(Len(q) + 1)
      BY <2>4, EmptySeq
    <3>2. r[1] = x /\ Len(r) = 1
      BY <1>2, <2>1, <2>2, <3>1
    <3> QED
      BY <1>1, <2>3, <2>4, <3>2 DEF LastOf
  <2>5. CASE q # <<>>
    <3>1. Len(q) > 0
      BY <1>1, <2>5, ChainBegins
    <3>2. /\ Len(q) + 1 \in 1..(Len(q) + 1) /\ ~(Len(q) + 1 <= 1)
          /\ (Len(q) + 1) - 1 = Len(q) /\ Len(q) \in 1..Len(q)
      BY <1>5, <3>1
    <3>3. r[Len(q) + 1] = q[Len(q)]
      <4>1. PICK j \in 1..(Len(q) + 1) :
                j = Len(q) + 1 /\ ~(j <= 1) /\ j - 1 = Len(q)
        BY <3>2
      <4> QED
        BY <2>2, <4>1
    <3>4. q[Len(q)] # Null
      <4>1. Linked(q, q[Len(q)])
        BY <3>2 DEF Linked
      <4> QED
        BY <1>1, <4>1, ChainBegins
    <3> QED
      BY <1>1, <1>2, <2>3, <2>5, <3>3, <3>4 DEF LastOf
  <2> QED
    BY <2>4, <2>5
<1> HIDE DEF ny, r
<1>7. Len(f) + Len(r) + Cardinality(H \ {t}) = MaxMsgs
  BY <1>2, <1>5 DEF Placed
<1>8. \A u \in H \ {t} :
         mm[u] \in Slot /\ ~Linked(f, mm[u]) /\ ~Linked(r, mm[u])
  BY <1>2 DEF Placed
<1>9. \A u, w \in H \ {t} : mm[u] = mm[w] => u = w
  BY DEF Placed
<1>10. \A y \in Slot : Linked(f, y) \/ Linked(r, y)
                         \/ \E u \in H \ {t} : mm[u] = y
  BY <1>2 DEF Placed
<1>11. \A y : ~(Linked(f, y) /\ Linked(r, y))
  BY <1>1, <1>2 DEF Placed
<1>12. Placed(ny, free, x, IF tail = Null THEN x ELSE tail, f, r, H \ {t}, mm)
  BY <1>2, <1>4, <1>6, <1>7, <1>8, <1>9, <1>10, <1>11 DEF Placed
<1> QED
  BY <1>2, <1>12 DEF ny, r

(* A reset puts the slots of the queue in front of the free ones.          *)
LEMMA MoveAll ==
  ASSUME NEW nx, NEW free, NEW head, NEW tail, NEW f, NEW q, NEW H, NEW m,
         Placed(nx, free, head, tail, f, q, H, m),
         NEW ny, ny \in [Slot -> Slot \union {Null}],
         \A k \in 1..Len(q) : ny[q[k]] = IF k = 1 THEN free ELSE q[k - 1],
         \A x \in Slot : ~Linked(q, x) => ny[x] = nx[x]
  PROVE  /\ Placed(ny, IF q = <<>> THEN free ELSE q[Len(q)], Null, Null,
                   Moved(q, f), <<>>, H, m)
         /\ \A t \in H : ny[m[t]] = nx[m[t]]
<1>1. /\ nx \in [Slot -> Slot \union {Null}]
      /\ Represents(nx, head, q) /\ Represents(nx, free, f)
      /\ \A x : ~(Linked(q, x) /\ Linked(f, x))
  BY DEF Placed
<1>2. \A x : Linked(f, x) => ny[x] = nx[x]
  BY <1>1, ChainBegins
<1>3. /\ Represents(ny, IF q = <<>> THEN free ELSE q[Len(q)], Moved(q, f))
      /\ Len(Moved(q, f)) = Len(q) + Len(f)
      /\ \A x : Linked(Moved(q, f), x) <=> (Linked(q, x) \/ Linked(f, x))
  BY <1>1, <1>2, ChainMove
<1>4. Represents(ny, Null, <<>>) /\ Len(<<>>) = 0 /\ \A x : ~Linked(<<>>, x)
  BY EmptySeq DEF Represents, Linked, Once
<1>5. Len(f) \in Nat /\ Len(q) \in Nat /\ Cardinality(H) \in Nat
  BY PlacedLengths
<1>6. Len(Moved(q, f)) + Len(<<>>) + Cardinality(H) = MaxMsgs
  BY <1>3, <1>4, <1>5 DEF Placed
<1>7. Placed(ny, IF q = <<>> THEN free ELSE q[Len(q)], Null, Null,
             Moved(q, f), <<>>, H, m)
  BY <1>3, <1>4, <1>6 DEF Placed, LastOf
<1>8. \A t \in H : ny[m[t]] = nx[m[t]]
  BY DEF Placed
<1> QED
  BY <1>7, <1>8

------------------------------------------------------------------------------
(* The slots, the pointers and the locals of the calls, with the two       *)
(* chains as sequences.                                                    *)
Stored(f, q) ==
    /\ data \in [Slot -> Message]
    /\ msg \in [Thread -> Slot \union {Null}]
    /\ buffer \in [Thread -> Message \union {Null}]
    /\ Placed(next, msg_queue_free, msg_queue_head, msg_queue_tail,
              f, q, InHand, msg)
    /\ entry = Len(q)
    /\ \A t \in Thread : pc[t] = "filled" => next[msg[t]] = Null
    /\ \A t \in Thread :
         pc[t] \in {"send", "urgent", "copied"} => buffer[t] \in Message

(* The inductive invariant of the store. *)
StoreInv == \E f, q : Stored(f, q)

Holding == {"send", "urgent", "filled", "filled_urgent", "taken", "copied"}

(* Who holds a slot after one thread has moved. *)
LEMMA HandMoves ==
  ASSUME NEW t \in Thread, DOMAIN pc = Thread,
         NEW where, pc' = [pc EXCEPT ![t] = where]
  PROVE  /\ where \in Holding => InHand' = InHand \union {t}
         /\ where \notin Holding => InHand' = InHand \ {t}
         /\ \A u \in Thread : pc'[u] = IF u = t THEN where ELSE pc[u]
BY DEF InHand, Holding

(* rt_mq_send, rt_mq_urgent: a slot leaves the free list.                  *)
LEMMA SendTakeSlotStore ==
  ASSUME NEW f, NEW q, Stored(f, q), DOMAIN pc = Thread,
         NEW t \in Thread, NEW v \in Message, NEW how \in {"send", "urgent"},
         SendTakeSlot(t, v, how)
  PROVE  Stored(Tail(f), q)'
<1>1. /\ pc[t] = "idle" /\ msg_queue_free # Null
      /\ msg' = [msg EXCEPT ![t] = msg_queue_free]
      /\ msg_queue_free' = next[msg_queue_free]
      /\ buffer' = [buffer EXCEPT ![t] = v]
      /\ pc' = [pc EXCEPT ![t] = how]
      /\ UNCHANGED <<next, data, msg_queue_head, msg_queue_tail, entry>>
  BY DEF SendTakeSlot, Goto
<1>2. /\ InHand' = InHand \union {t} /\ t \notin InHand
      /\ \A u \in Thread : pc'[u] = IF u = t THEN how ELSE pc[u]
  BY <1>1, HandMoves DEF InHand, Holding
<1>3. /\ data \in [Slot -> Message]
      /\ msg \in [Thread -> Slot \union {Null}]
      /\ buffer \in [Thread -> Message \union {Null}]
      /\ Placed(next, msg_queue_free, msg_queue_head, msg_queue_tail,
                f, q, InHand, msg)
      /\ InHand \in SUBSET Thread
  BY DEF Stored, InHand
<1>4. Gets(msg', msg, InHand, t, msg_queue_free)
  BY <1>1, <1>2, <1>3 DEF Agree, Gets
<1>5. Placed(next, next[msg_queue_free], msg_queue_head, msg_queue_tail,
             Tail(f), q, InHand \union {t}, msg')
  BY <1>1, <1>2, <1>3, <1>4, TakeFree
<1>6. msg_queue_free \in Slot
  BY <1>1, <1>3, ChainBegins DEF Placed
<1>7. msg' \in [Thread -> Slot \union {Null}]
  BY <1>1, <1>3, <1>6
<1>8. Placed(next', msg_queue_free', msg_queue_head', msg_queue_tail',
             Tail(f), q, InHand', msg')
  BY <1>1, <1>2, <1>5
<1>9. \A u \in Thread : pc'[u] = "filled" => next'[msg'[u]] = Null
  BY <1>1, <1>2, <1>3 DEF Stored
<1>10. \A u \in Thread :
         pc'[u] \in {"send", "urgent", "copied"} => buffer'[u] \in Message
  BY <1>1, <1>2, <1>3 DEF Stored
<1>11. buffer' \in [Thread -> Message \union {Null}]
  BY <1>1, <1>3
<1>12. data' \in [Slot -> Message] /\ entry' = Len(q)
  BY <1>1 DEF Stored
<1> QED
  BY <1>7, <1>8, <1>9, <1>10, <1>11, <1>12 DEF Stored

(* The copy into the slot: nobody else has it and it is on no chain.       *)
LEMMA SendCopyStore ==
  ASSUME NEW f, NEW q, Stored(f, q), DOMAIN pc = Thread,
         NEW t \in Thread, SendCopy(t)
  PROVE  Stored(f, q)'
<1>1. /\ pc[t] \in {"send", "urgent"}
      /\ data' = [data EXCEPT ![msg[t]] = buffer[t]]
      /\ next' = IF pc[t] = "send" THEN [next EXCEPT ![msg[t]] = Null]
                 ELSE next
      /\ pc' = [pc EXCEPT ![t] = IF pc[t] = "send" THEN "filled"
                                 ELSE "filled_urgent"]
      /\ UNCHANGED <<msg_queue_head, msg_queue_tail, msg_queue_free, entry,
                     msg, buffer>>
  BY DEF SendCopy, Goto
<1>2. /\ data \in [Slot -> Message]
      /\ msg \in [Thread -> Slot \union {Null}]
      /\ buffer \in [Thread -> Message \union {Null}]
      /\ Placed(next, msg_queue_free, msg_queue_head, msg_queue_tail,
                f, q, InHand, msg)
      /\ t \in InHand /\ buffer[t] \in Message
  BY <1>1 DEF Stored, InHand
<1>3. /\ msg[t] \in Slot /\ next \in [Slot -> Slot \union {Null}]
      /\ \A u \in InHand : msg[u] = msg[t] => u = t
  BY <1>2 DEF Placed
<1>4. /\ InHand' = InHand
      /\ \A u \in Thread : u # t => pc'[u] = pc[u]
      /\ pc'[t] = IF pc[t] = "send" THEN "filled" ELSE "filled_urgent"
  <2> DEFINE where == IF pc[t] = "send" THEN "filled" ELSE "filled_urgent"
  <2>1. where \in Holding /\ pc' = [pc EXCEPT ![t] = where]
    BY <1>1 DEF Holding
  <2> HIDE DEF where
  <2>2. /\ InHand' = InHand \union {t}
        /\ \A u \in Thread : pc'[u] = IF u = t THEN where ELSE pc[u]
    BY <2>1, HandMoves
  <2> QED
    BY <1>2, <2>2 DEF where
<1>5. Placed(next', msg_queue_free, msg_queue_head, msg_queue_tail,
             f, q, InHand, msg)
  BY <1>1, <1>2, WriteInHand
<1>6. Placed(next', msg_queue_free', msg_queue_head', msg_queue_tail',
             f, q, InHand', msg')
  BY <1>1, <1>4, <1>5
<1>7. data' \in [Slot -> Message]
  BY <1>1, <1>2
<1>8. \A u \in Thread : pc'[u] = "filled" => next'[msg'[u]] = Null
  <2> SUFFICES ASSUME NEW u \in Thread, pc'[u] = "filled"
               PROVE  next'[msg[u]] = Null
    BY <1>1
  <2>1. CASE u = t
    <3>1. next' = [next EXCEPT ![msg[t]] = Null]
      BY <1>1, <1>4, <2>1
    <3> QED
      BY <1>3, <2>1, <3>1
  <2>2. CASE u # t
    <3>1. pc[u] = "filled" /\ u \in InHand
      BY <1>4, <2>2 DEF InHand
    <3>2. next[msg[u]] = Null /\ msg[u] # msg[t]
      BY <1>3, <2>2, <3>1 DEF Stored
    <3> QED
      BY <1>1, <3>2, <1>3
  <2> QED
    BY <2>1, <2>2
<1>9. \A u \in Thread :
        pc'[u] \in {"send", "urgent", "copied"} => buffer'[u] \in Message
  BY <1>1, <1>4 DEF Stored
<1> QED
  BY <1>1, <1>2, <1>6, <1>7, <1>8, <1>9 DEF Stored

(* What the end of a call leaves of the locals of the others.              *)
LEMMA LeaveStore ==
  ASSUME NEW f, NEW q, Stored(f, q), DOMAIN pc = Thread, NEW t \in Thread,
         Leave(t)
  PROVE  /\ InHand' = InHand \ {t}
         /\ \A u \in Thread : u # t => /\ msg'[u] = msg[u] /\ pc'[u] = pc[u]
                                       /\ buffer'[u] = buffer[u]
         /\ pc'[t] = "idle"
         /\ msg' \in [Thread -> Slot \union {Null}]
         /\ buffer' \in [Thread -> Message \union {Null}]
<1>1. /\ pc' = [pc EXCEPT ![t] = "idle"]
      /\ msg' = [msg EXCEPT ![t] = Null]
      /\ buffer' = [buffer EXCEPT ![t] = Null]
  BY DEF Leave, Goto
<1>2. InHand' = InHand \ {t}
  BY <1>1, HandMoves DEF Holding
<1> QED
  BY <1>1, <1>2 DEF Stored

(* rt_mq_send, second section: the slot becomes the last of the queue.     *)
LEMMA SendLinkStore ==
  ASSUME NEW f, NEW q, Stored(f, q), DOMAIN pc = Thread,
         NEW t \in Thread, SendLink(t), NEW x, x = msg[t]
  PROVE  Stored(f, Append(q, x))'
<1>1. /\ pc[t] = "filled" /\ Leave(t)
      /\ next' = PointLast(next, msg_queue_tail, x)
      /\ msg_queue_tail' = x /\ entry' = entry + 1
      /\ msg_queue_head' = IF msg_queue_head = Null THEN x ELSE msg_queue_head
      /\ UNCHANGED <<data, msg_queue_free>>
  BY DEF SendLink, PointLast
<1>2. /\ Placed(next, msg_queue_free, msg_queue_head, msg_queue_tail,
                f, q, InHand, msg)
      /\ t \in InHand /\ next[msg[t]] = Null
  BY <1>1 DEF Stored, InHand
<1>3. /\ InHand' = InHand \ {t}
      /\ \A u \in Thread : u # t => /\ msg'[u] = msg[u] /\ pc'[u] = pc[u]
                                    /\ buffer'[u] = buffer[u]
      /\ pc'[t] = "idle"
      /\ msg' \in [Thread -> Slot \union {Null}]
      /\ buffer' \in [Thread -> Message \union {Null}]
  BY <1>1, LeaveStore
<1>4. Agree(msg', msg, InHand \ {t})
  BY <1>3 DEF InHand, Agree
<1>5. /\ Placed(PointLast(next, msg_queue_tail, msg[t]), msg_queue_free,
                IF msg_queue_head = Null THEN msg[t] ELSE msg_queue_head,
                msg[t], f, Append(q, msg[t]), InHand \ {t}, msg')
      /\ Len(Append(q, msg[t])) = Len(q) + 1
      /\ \A u \in InHand : PointLast(next, msg_queue_tail, msg[t])[msg[u]]
                             = next[msg[u]]
  BY <1>2, <1>4, LinkLast
<1>6. Placed(next', msg_queue_free', msg_queue_head', msg_queue_tail',
             f, Append(q, x), InHand', msg')
  BY <1>1, <1>3, <1>5
<1>7. entry' = Len(Append(q, x))
  BY <1>1, <1>5 DEF Stored
<1>8. \A u \in Thread : pc'[u] = "filled" => next'[msg'[u]] = Null
  <2> SUFFICES ASSUME NEW u \in Thread, pc'[u] = "filled"
               PROVE  next'[msg'[u]] = Null
    OBVIOUS
  <2>1. u # t /\ pc[u] = "filled" /\ u \in InHand /\ msg'[u] = msg[u]
    BY <1>3 DEF InHand
  <2> QED
    BY <1>1, <1>5, <2>1 DEF Stored
<1>9. \A u \in Thread :
        pc'[u] \in {"send", "urgent", "copied"} => buffer'[u] \in Message
  BY <1>3 DEF Stored
<1> QED
  BY <1>1, <1>3, <1>6, <1>7, <1>8, <1>9 DEF Stored

(* rt_mq_urgent: the slot becomes the first of the queue.                  *)
LEMMA UrgentLinkStore ==
  ASSUME NEW f, NEW q, Stored(f, q), DOMAIN pc = Thread,
         NEW t \in Thread, UrgentLink(t), NEW x, x = msg[t]
  PROVE  Stored(f, <<x>> \o q)'
<1>1. /\ pc[t] = "filled_urgent" /\ Leave(t)
      /\ next' = PointFirst(next, msg[t], msg_queue_head)
      /\ msg_queue_head' = x /\ entry' = entry + 1
      /\ msg_queue_tail' = TailAfter(msg_queue_tail, x)
      /\ UNCHANGED <<data, msg_queue_free>>
  BY DEF UrgentLink, PointFirst, TailAfter
<1>2. /\ Placed(next, msg_queue_free, msg_queue_head, msg_queue_tail,
                f, q, InHand, msg)
      /\ t \in InHand
  BY <1>1 DEF Stored, InHand
<1>3. /\ InHand' = InHand \ {t}
      /\ \A u \in Thread : u # t => /\ msg'[u] = msg[u] /\ pc'[u] = pc[u]
                                    /\ buffer'[u] = buffer[u]
      /\ pc'[t] = "idle"
      /\ msg' \in [Thread -> Slot \union {Null}]
      /\ buffer' \in [Thread -> Message \union {Null}]
  BY <1>1, LeaveStore
<1>4. Agree(msg', msg, InHand \ {t})
  BY <1>3 DEF InHand, Agree
<1>5. /\ Placed(PointFirst(next, msg[t], msg_queue_head), msg_queue_free,
                msg[t], TailAfter(msg_queue_tail, msg[t]),
                f, <<msg[t]>> \o q, InHand \ {t}, msg')
      /\ Len(<<msg[t]>> \o q) = Len(q) + 1
  BY <1>2, <1>4, LinkFirst
<1>6. Placed(next', msg_queue_free', msg_queue_head', msg_queue_tail',
             f, <<x>> \o q, InHand', msg')
  BY <1>1, <1>3, <1>5
<1>7. entry' = Len(<<x>> \o q)
  BY <1>1, <1>5 DEF Stored
<1>8. \A u \in Thread : pc'[u] = "filled" => next'[msg'[u]] = Null
  <2> SUFFICES ASSUME NEW u \in Thread, pc'[u] = "filled"
               PROVE  next'[msg'[u]] = Null
    OBVIOUS
  <2>1. u # t /\ pc[u] = "filled" /\ u \in InHand /\ msg'[u] = msg[u]
    BY <1>3 DEF InHand
  <2>2. msg[u] # msg[t] /\ next[msg[u]] = Null /\ msg[u] \in Slot
    BY <1>2, <2>1 DEF Placed, Stored
  <2>3. next \in [Slot -> Slot \union {Null}]
    BY <1>2 DEF Placed
  <2> QED
    BY <1>1, <2>1, <2>2, <2>3 DEF PointFirst
<1>9. \A u \in Thread :
        pc'[u] \in {"send", "urgent", "copied"} => buffer'[u] \in Message
  BY <1>3 DEF Stored
<1> QED
  BY <1>1, <1>3, <1>6, <1>7, <1>8, <1>9 DEF Stored

(* rt_mq_recv, first section: the first slot of the queue is taken.        *)
LEMMA TakeStore ==
  ASSUME NEW f, NEW q, Stored(f, q), DOMAIN pc = Thread,
         NEW t \in Thread, pc[t] \notin Holding, entry # 0, Take(t)
  PROVE  Stored(f, Tail(q))' /\ q # <<>>
<1>1. /\ msg' = [msg EXCEPT ![t] = msg_queue_head]
      /\ msg_queue_head' = next[msg_queue_head]
      /\ msg_queue_tail' = TailWithout(msg_queue_tail, msg_queue_head)
      /\ entry' = entry - 1
      /\ pc' = [pc EXCEPT ![t] = "taken"]
      /\ UNCHANGED <<next, data, msg_queue_free, buffer>>
  BY DEF Take, Goto, TailWithout
<1>2. /\ InHand' = InHand \union {t} /\ t \notin InHand
      /\ \A u \in Thread : pc'[u] = IF u = t THEN "taken" ELSE pc[u]
  BY <1>1, HandMoves DEF InHand, Holding
<1>3. /\ msg \in [Thread -> Slot \union {Null}]
      /\ Placed(next, msg_queue_free, msg_queue_head, msg_queue_tail,
                f, q, InHand, msg)
      /\ entry = Len(q)
  BY DEF Stored
<1>4. q # <<>>
  BY <1>3, EmptySeq
<1>5. Gets(msg', msg, InHand, t, msg_queue_head)
  BY <1>1, <1>2, <1>3 DEF Agree, Gets, InHand
<1>6. /\ Placed(next, msg_queue_free, next[msg_queue_head],
                TailWithout(msg_queue_tail, msg_queue_head),
                f, Tail(q), InHand \union {t}, msg')
      /\ msg_queue_head \in Slot
      /\ Len(Tail(q)) = Len(q) - 1
  <2>1. Placed(next, msg_queue_free, next[msg_queue_head],
               TailWithout(msg_queue_tail, msg_queue_head),
               f, Tail(q), InHand \union {t}, msg')
    BY <1>2, <1>3, <1>4, <1>5, TakeHead
  <2>2. Represents(next, msg_queue_head, q)
    BY <1>3 DEF Placed
  <2>3. msg_queue_head \in Slot
    BY <1>4, <2>2, ChainBegins
  <2>4. Len(Tail(q)) = Len(q) - 1
    BY <1>4, <2>2, ChainTail
  <2> QED
    BY <2>1, <2>3, <2>4
<1>7. Placed(next', msg_queue_free', msg_queue_head', msg_queue_tail',
             f, Tail(q), InHand', msg')
  BY <1>1, <1>2, <1>6
<1>8. entry' = Len(Tail(q))
  BY <1>1, <1>3, <1>6
<1>9. msg' \in [Thread -> Slot \union {Null}]
  BY <1>1, <1>3, <1>6
<1>10. \A u \in Thread : pc'[u] = "filled" => next'[msg'[u]] = Null
  BY <1>1, <1>2, <1>3 DEF Stored
<1>11. \A u \in Thread :
         pc'[u] \in {"send", "urgent", "copied"} => buffer'[u] \in Message
  BY <1>1, <1>2 DEF Stored
<1>12. data' \in [Slot -> Message]
       /\ buffer' \in [Thread -> Message \union {Null}]
  BY <1>1 DEF Stored
<1> QED
  BY <1>4, <1>7, <1>8, <1>9, <1>10, <1>11, <1>12 DEF Stored

(* The copy out of the slot. *)
LEMMA RecvCopyStore ==
  ASSUME NEW f, NEW q, Stored(f, q), DOMAIN pc = Thread,
         NEW t \in Thread, RecvCopy(t)
  PROVE  Stored(f, q)'
<1>1. /\ pc[t] = "taken"
      /\ buffer' = [buffer EXCEPT ![t] = data[msg[t]]]
      /\ pc' = [pc EXCEPT ![t] = "copied"]
      /\ UNCHANGED <<lists, data, msg>>
  BY DEF RecvCopy, Goto
<1>2. /\ t \in InHand
      /\ Placed(next, msg_queue_free, msg_queue_head, msg_queue_tail,
                f, q, InHand, msg)
      /\ data \in [Slot -> Message]
      /\ buffer \in [Thread -> Message \union {Null}]
  BY <1>1 DEF Stored, InHand
<1>3. data[msg[t]] \in Message
  BY <1>2 DEF Placed
<1>4. /\ InHand' = InHand
      /\ \A u \in Thread : pc'[u] = IF u = t THEN "copied" ELSE pc[u]
  <2>1. InHand' = InHand \union {t}
        /\ \A u \in Thread : pc'[u] = IF u = t THEN "copied" ELSE pc[u]
    BY <1>1, HandMoves DEF Holding
  <2> QED
    BY <1>2, <2>1
<1>5. /\ next' = next /\ msg_queue_free' = msg_queue_free
      /\ msg_queue_head' = msg_queue_head /\ msg_queue_tail' = msg_queue_tail
      /\ entry' = entry /\ msg' = msg /\ data' = data
  BY <1>1 DEF lists
<1>6. Placed(next', msg_queue_free', msg_queue_head', msg_queue_tail',
             f, q, InHand', msg')
  BY <1>2, <1>4, <1>5
<1>7. \A u \in Thread : pc'[u] = "filled" => next'[msg'[u]] = Null
  BY <1>4, <1>5 DEF Stored
<1>8. /\ buffer' \in [Thread -> Message \union {Null}]
      /\ \A u \in Thread :
           pc'[u] \in {"send", "urgent", "copied"} => buffer'[u] \in Message
  BY <1>1, <1>2, <1>3, <1>4 DEF Stored
<1> QED
  BY <1>5, <1>6, <1>7, <1>8 DEF Stored

(* rt_mq_recv, second section: the slot goes to the front of the free list. *)
LEMMA RecvFreeSlotStore ==
  ASSUME NEW f, NEW q, Stored(f, q), DOMAIN pc = Thread,
         NEW t \in Thread, RecvFreeSlot(t), NEW x, x = msg[t]
  PROVE  Stored(<<x>> \o f, q)'
<1>1. /\ pc[t] = "copied" /\ Leave(t)
      /\ next' = [next EXCEPT ![x] = msg_queue_free]
      /\ msg_queue_free' = x
      /\ UNCHANGED <<data, msg_queue_head, msg_queue_tail, entry>>
  BY DEF RecvFreeSlot
<1>2. /\ Placed(next, msg_queue_free, msg_queue_head, msg_queue_tail,
                f, q, InHand, msg)
      /\ t \in InHand
  BY <1>1 DEF Stored, InHand
<1>3. /\ InHand' = InHand \ {t}
      /\ \A u \in Thread : u # t => /\ msg'[u] = msg[u] /\ pc'[u] = pc[u]
                                    /\ buffer'[u] = buffer[u]
      /\ pc'[t] = "idle"
      /\ msg' \in [Thread -> Slot \union {Null}]
      /\ buffer' \in [Thread -> Message \union {Null}]
  BY <1>1, LeaveStore
<1>4. Agree(msg', msg, InHand \ {t})
  BY <1>3 DEF InHand, Agree
<1>5. Placed(PointFirst(next, msg[t], msg_queue_free), msg[t],
             msg_queue_head, msg_queue_tail,
             <<msg[t]>> \o f, q, InHand \ {t}, msg')
  BY <1>2, <1>4, GiveFree
<1>6. Placed(next', msg_queue_free', msg_queue_head', msg_queue_tail',
             <<x>> \o f, q, InHand', msg')
  BY <1>1, <1>3, <1>5 DEF PointFirst
<1>7. \A u \in Thread : pc'[u] = "filled" => next'[msg'[u]] = Null
  <2> SUFFICES ASSUME NEW u \in Thread, pc'[u] = "filled"
               PROVE  next'[msg'[u]] = Null
    OBVIOUS
  <2>1. u # t /\ pc[u] = "filled" /\ u \in InHand /\ msg'[u] = msg[u]
    BY <1>3 DEF InHand
  <2>2. msg[u] # msg[t] /\ next[msg[u]] = Null /\ msg[u] \in Slot
    BY <1>2, <2>1 DEF Placed, Stored
  <2>3. next \in [Slot -> Slot \union {Null}]
    BY <1>2 DEF Placed
  <2> QED
    BY <1>1, <2>1, <2>2, <2>3
<1>8. \A u \in Thread :
        pc'[u] \in {"send", "urgent", "copied"} => buffer'[u] \in Message
  BY <1>3 DEF Stored
<1> QED
  BY <1>1, <1>3, <1>6, <1>7, <1>8 DEF Stored

(* rt_mq_control(RESET): the queue is moved to the free list.              *)
LEMMA ResetStore ==
  ASSUME NEW f, NEW q, Stored(f, q), NEW t \in Thread, Reset(t)
  PROVE  Stored(Moved(q, f), <<>>)'
<1> DEFINE queued == Chain(msg_queue_head)
           n == Cardinality(OnChain(msg_queue_head))
<1>1. /\ next' = [s \in Slot |->
                    IF \E k \in 0..(n - 1) : queued[k] = s
                    THEN LET k == CHOOSE k \in 0..(n - 1) : queued[k] = s
                         IN  IF k = 0 THEN msg_queue_free ELSE queued[k - 1]
                    ELSE next[s]]
      /\ msg_queue_free' = IF n = 0 THEN msg_queue_free ELSE queued[n - 1]
      /\ msg_queue_head' = Null
      /\ msg_queue_tail' = IF msg_queue_tail \in OnChain(msg_queue_head)
                           THEN Null ELSE msg_queue_tail
      /\ entry' = 0
      /\ UNCHANGED <<data, pc, msg, buffer>>
  BY DEF Reset
<1>2. /\ Placed(next, msg_queue_free, msg_queue_head, msg_queue_tail,
                f, q, InHand, msg)
      /\ Represents(next, msg_queue_head, q)
      /\ Represents(next, msg_queue_free, f)
      /\ msg_queue_tail = LastOf(q)
      /\ next \in [Slot -> Slot \union {Null}]
  BY DEF Stored, Placed
<1>3. Len(q) \in Nat /\ Len(q) <= MaxMsgs /\ MaxMsgs \in Nat
  BY <1>2, PlacedLengths, SizeAssumption
<1>4. /\ n = Len(q)
      /\ \A x : x \in OnChain(msg_queue_head) <=> Linked(q, x)
      /\ \A k \in 0..MaxMsgs : queued[k] = IF k < Len(q) THEN q[k + 1] ELSE Null
  BY <1>2, <1>3, ChainCounts, ChainReads
<1> HIDE DEF n, queued
<1>5. q \in Seq(Slot) /\ Once(q)
  BY <1>2 DEF Represents
<1>6. \A k \in 0..(n - 1) :
         k \in Nat /\ k + 1 \in 1..Len(q) /\ queued[k] = q[k + 1]
  BY <1>3, <1>4
<1>7. ASSUME NEW i \in 1..Len(q)
      PROVE  next'[q[i]] = IF i = 1 THEN msg_queue_free ELSE q[i - 1]
  <2>1. i - 1 \in 0..(n - 1) /\ (i - 1) + 1 = i /\ i \in Nat
    BY <1>3, <1>4
  <2>2. queued[i - 1] = q[i] /\ q[i] \in Slot
    BY <1>5, <1>6, <2>1, ElementOfSeq
  <2> DEFINE c == CHOOSE k \in 0..(n - 1) : queued[k] = q[i]
  <2>3. c \in 0..(n - 1) /\ queued[c] = q[i]
    BY <2>1, <2>2
  <2>4. next'[q[i]] = IF c = 0 THEN msg_queue_free ELSE queued[c - 1]
    BY <1>1, <2>1, <2>2
  <2> HIDE DEF c
  <2>5. q[c + 1] = q[i] /\ c + 1 \in 1..Len(q) /\ c \in Nat
    BY <1>6, <2>3
  <2>6. c + 1 = i
    BY <1>5, <2>5 DEF Once
  <2>7. c = i - 1
    BY <2>1, <2>5, <2>6
  <2>8. CASE i = 1
    BY <2>4, <2>7, <2>8
  <2>9. CASE i # 1
    <3>1. i - 2 \in 0..(n - 1) /\ c - 1 = i - 2 /\ (i - 2) + 1 = i - 1 /\ c # 0
      BY <1>3, <1>4, <2>1, <2>7, <2>9
    <3>2. queued[i - 2] = q[i - 1]
      BY <1>6, <3>1
    <3> QED
      BY <2>4, <2>9, <3>1, <3>2
  <2> QED
    BY <2>8, <2>9
<1>8. \A x \in Slot : ~Linked(q, x) => next'[x] = next[x]
  <2> SUFFICES ASSUME NEW x \in Slot, ~Linked(q, x) PROVE next'[x] = next[x]
    OBVIOUS
  <2>1. ~\E k \in 0..(n - 1) : queued[k] = x
    BY <1>6 DEF Linked
  <2> QED
    BY <1>1, <2>1
<1>9. next' \in [Slot -> Slot \union {Null}]
  <2>1. ASSUME NEW x \in Slot PROVE next'[x] \in Slot \union {Null}
    <3>1. CASE Linked(q, x)
      <4>1. PICK i \in 1..Len(q) : q[i] = x
        BY <3>1 DEF Linked
      <4>2. msg_queue_free \in Slot \union {Null}
        BY <1>2, ChainBegins
      <4>3. i # 1 => q[i - 1] \in Slot
        <5>1. i # 1 => i - 1 \in 1..Len(q)
          BY <1>3
        <5> QED
          BY <1>5, <5>1, ElementOfSeq
      <4> QED
        BY <1>7, <4>1, <4>2, <4>3
    <3>2. CASE ~Linked(q, x)
      BY <1>2, <1>8, <3>2
    <3> QED
      BY <3>1, <3>2
  <2>2. next' = [x \in Slot |-> next'[x]]
    BY <1>1
  <2> QED
    BY <2>1, <2>2
<1>10. msg_queue_free' = IF q = <<>> THEN msg_queue_free ELSE q[Len(q)]
  <2>1. CASE q = <<>>
    <3>1. n = 0
      BY <1>4, <2>1, EmptySeq
    <3> QED
      BY <1>1, <2>1, <3>1
  <2>2. CASE q # <<>>
    <3>1. n > 0 /\ n \in Nat
      BY <1>2, <1>3, <1>4, <2>2, ChainBegins
    <3>2. n - 1 \in 0..(n - 1) /\ (n - 1) + 1 = n /\ n # 0
      BY <3>1
    <3>3. queued[n - 1] = q[Len(q)]
      BY <1>4, <1>6, <3>2
    <3> QED
      BY <1>1, <2>2, <3>2, <3>3
  <2> QED
    BY <2>1, <2>2
<1>11. msg_queue_tail' = Null
  <2>1. CASE q = <<>>
    <3>1. msg_queue_tail = Null
      BY <1>2, <2>1 DEF LastOf
    <3> QED
      BY <1>1, <3>1
  <2>2. CASE q # <<>>
    <3>1. Len(q) > 0 /\ msg_queue_tail = q[Len(q)]
      BY <1>2, <2>2, ChainBegins DEF LastOf
    <3>2. Len(q) \in 1..Len(q)
      BY <1>3, <3>1
    <3>3. Linked(q, msg_queue_tail)
      BY <3>1, <3>2 DEF Linked
    <3> QED
      BY <1>1, <1>4, <3>3
  <2> QED
    BY <2>1, <2>2
<1>12. /\ Placed(next', IF q = <<>> THEN msg_queue_free ELSE q[Len(q)],
                 Null, Null, Moved(q, f), <<>>, InHand, msg)
       /\ \A u \in InHand : next'[msg[u]] = next[msg[u]]
  BY <1>2, <1>7, <1>8, <1>9, MoveAll
<1>13. InHand' = InHand
  BY <1>1 DEF InHand
<1>14. Placed(next', msg_queue_free', msg_queue_head', msg_queue_tail',
              Moved(q, f), <<>>, InHand', msg')
  BY <1>1, <1>10, <1>11, <1>12, <1>13
<1>15. \A u \in Thread : pc'[u] = "filled" => next'[msg'[u]] = Null
  BY <1>1, <1>12 DEF Stored, InHand
<1>16. entry' = Len(<<>>)
  BY <1>1
<1> QED
  BY <1>1, <1>14, <1>15, <1>16 DEF Stored

(* The steps that touch no slot, no pointer and no call with a slot.       *)
LEMMA StoreElsewhere ==
  ASSUME NEW f, NEW q, Stored(f, q), UNCHANGED <<lists, data>>,
         InHand' = InHand,
         msg' \in [Thread -> Slot \union {Null}],
         buffer' \in [Thread -> Message \union {Null}],
         \A u \in InHand : /\ msg'[u] = msg[u] /\ buffer'[u] = buffer[u]
                           /\ pc'[u] = pc[u]
  PROVE  Stored(f, q)'
<1>1. /\ next' = next /\ msg_queue_free' = msg_queue_free
      /\ msg_queue_head' = msg_queue_head /\ msg_queue_tail' = msg_queue_tail
      /\ entry' = entry /\ data' = data
  BY DEF lists
<1>2. Placed(next, msg_queue_free, msg_queue_head, msg_queue_tail,
             f, q, InHand, msg)
  BY DEF Stored
<1>3. Placed(next, msg_queue_free, msg_queue_head, msg_queue_tail,
             f, q, InHand, msg')
  <2>1. /\ \A u \in InHand : msg'[u] \in Slot /\ ~Linked(f, msg'[u])
                             /\ ~Linked(q, msg'[u])
        /\ \A u, w \in InHand : msg'[u] = msg'[w] => u = w
        /\ \A x \in Slot :
             Linked(f, x) \/ Linked(q, x) \/ \E u \in InHand : msg'[u] = x
    BY <1>2 DEF Placed
  <2> QED
    BY <1>2, <2>1 DEF Placed
<1>4. Placed(next', msg_queue_free', msg_queue_head', msg_queue_tail',
             f, q, InHand', msg')
  BY <1>1, <1>3
<1>5. \A u \in Thread :
         pc'[u] \in Holding => u \in InHand /\ pc[u] = pc'[u]
  <2>1. \A u \in Thread : pc'[u] \in Holding => u \in InHand'
    BY DEF InHand, Holding
  <2> QED
    BY <2>1
<1>6. /\ \A u \in Thread : pc'[u] = "filled" => next'[msg'[u]] = Null
      /\ \A u \in Thread :
           pc'[u] \in {"send", "urgent", "copied"} => buffer'[u] \in Message
  BY <1>1, <1>5 DEF Stored, Holding
<1> QED
  BY <1>1, <1>4, <1>6 DEF Stored

------------------------------------------------------------------------------
(* The types of the variables that the slots do not depend on.             *)
ControlOK ==
    /\ receivers \in Seq(Thread) /\ timer \subseteq Thread
    /\ error \in [Thread -> Errors]
    /\ pc \in [Thread -> Locations]
    /\ live \in BOOLEAN
    /\ left \in [Thread -> {"none", "ticks", "forever"}]
    /\ kills \in 0..MaxKills

(* The head of a list is a thread and the rest is a list.                  *)
LEMMA ListTypes ==
  ASSUME NEW list \in Seq(Thread)
  PROVE  /\ list # <<>> => Head(list) \in Thread /\ Tail(list) \in Seq(Thread)
         /\ \A t \in Thread :
              /\ Unlink(list, t) \in Seq(Thread)
              /\ Enqueue(list, t, Flag, Priority) \in Seq(Thread)
<1>1. ASSUME NEW t \in Thread
      PROVE  /\ Unlink(list, t) \in Seq(Thread)
             /\ Enqueue(list, t, Flag, Priority) \in Seq(Thread)
  BY PriorityAssumption, UnlinkProperties, EnqueueElements
<1> QED
  BY <1>1

(* A thread that finds the queue empty again waits on with the ticks that  *)
(* are left or gives up.                                                   *)
WaitsAgain(t) ==
    \E time \in Recomputed(left[t]) :
       /\ IF time = "none"
          THEN /\ Leave(t)
               /\ error' = [error EXCEPT ![t] = "ETIMEOUT"]
               /\ UNCHANGED <<receivers, timer>>
          ELSE /\ receivers' = Enqueue(receivers, t, Flag, Priority)
               /\ Arm(t, time)
               /\ left' = [left EXCEPT ![t] = time]
               /\ UNCHANGED <<pc, error, msg, buffer>>
       /\ UNCHANGED <<lists, data, live, kills>>

(* The two ways of RecvRetry. *)
LEMMA RetryWays ==
  ASSUME NEW t \in Thread, RecvRetry(t)
  PROVE  /\ pc[t] = "receiving" /\ ~Suspended(t) /\ error[t] = "EOK"
         /\ (entry # 0 /\ Take(t)) \/ (entry = 0 /\ WaitsAgain(t))
BY DEF RecvRetry, WaitsAgain, Resumed

(* Every step keeps the types of these variables. *)
LEMMA NextControlOK == ControlOK /\ [Next]_vars => ControlOK'
<1> SUFFICES ASSUME ControlOK, [Next]_vars PROVE ControlOK'
  OBVIOUS
<1> USE DEF waits, Goto
<1>0. /\ receivers \in Seq(Thread) /\ timer \subseteq Thread
      /\ error \in [Thread -> Errors] /\ pc \in [Thread -> Locations]
      /\ left \in [Thread -> {"none", "ticks", "forever"}]
  BY DEF ControlOK
<1>1. ASSUME NEW t \in Thread, NEW v \in Message,
             SendTakeSlot(t, v, "send") \/ SendTakeSlot(t, v, "urgent")
      PROVE  ControlOK'
  BY <1>1 DEF SendTakeSlot, ControlOK, Locations
<1>2. ASSUME NEW t \in Thread, SendCopy(t) PROVE ControlOK'
  BY <1>2 DEF SendCopy, ControlOK, Locations
<1>3. ASSUME NEW t \in Thread, SendLink(t) \/ UrgentLink(t) PROVE ControlOK'
  <2>1. receivers' \in Seq(Thread) /\ timer' \subseteq Thread
    BY <1>0, <1>3, ListTypes DEF SendLink, UrgentLink, ResumeReceiver
  <2> QED
    BY <1>3, <2>1
       DEF SendLink, UrgentLink, ResumeReceiver, Leave, ControlOK, Locations
<1>4. ASSUME NEW t \in Thread, Take(t) PROVE ControlOK'
  BY <1>4 DEF Take, ControlOK, Locations
<1>5. ASSUME NEW t \in Thread, RecvNow(t) PROVE ControlOK'
  BY <1>4, <1>5 DEF RecvNow
<1>6. ASSUME NEW t \in Thread, RecvSuspend(t) PROVE ControlOK'
  <2>1. receivers' \in Seq(Thread) /\ timer' \subseteq Thread
    BY <1>0, <1>6, ListTypes DEF RecvSuspend, Arm
  <2>2. TimeoutOf(t) \in {"none", "ticks", "forever"}
    BY DEF TimeoutOf
  <2> QED
    BY <1>6, <2>1, <2>2 DEF RecvSuspend, ControlOK, Locations, Errors
<1>7. ASSUME NEW t \in Thread, RecvFails(t) \/ RecvFreeSlot(t)
      PROVE  ControlOK'
  BY <1>7 DEF RecvFails, RecvFreeSlot, Leave, ControlOK, Locations
<1>8. ASSUME NEW t \in Thread, RecvRetry(t) PROVE ControlOK'
  <2>1. CASE Take(t)
    BY <1>4, <2>1
  <2>2. CASE WaitsAgain(t)
    <3>1. PICK time \in Recomputed(left[t]) :
            /\ IF time = "none"
               THEN /\ Leave(t)
                    /\ error' = [error EXCEPT ![t] = "ETIMEOUT"]
                    /\ UNCHANGED <<receivers, timer>>
               ELSE /\ receivers' = Enqueue(receivers, t, Flag, Priority)
                    /\ Arm(t, time)
                    /\ left' = [left EXCEPT ![t] = time]
                    /\ UNCHANGED <<pc, error, msg, buffer>>
            /\ UNCHANGED <<lists, data, live, kills>>
      BY <2>2 DEF WaitsAgain
    <3>2. receivers' \in Seq(Thread) /\ timer' \subseteq Thread
      BY <1>0, <3>1, ListTypes DEF Arm
    <3>3. time \in {"none", "ticks", "forever"}
      BY <1>0 DEF Recomputed
    <3>4. CASE time = "none"
      BY <3>1, <3>2, <3>4 DEF Leave, ControlOK, Locations, Errors
    <3>5. CASE time # "none"
      BY <3>1, <3>2, <3>3, <3>5 DEF ControlOK
    <3> QED
      BY <3>4, <3>5
  <2> QED
    BY <1>8, <2>1, <2>2, RetryWays
<1>9. ASSUME NEW t \in Thread, RecvCopy(t) PROVE ControlOK'
  BY <1>9 DEF RecvCopy, ControlOK, Locations
<1>10. ASSUME NEW t \in Thread, Timeout(t) PROVE ControlOK'
  BY <1>0, <1>10, ListTypes DEF Timeout, ControlOK, Errors
<1>11. ASSUME NEW t \in Thread, Signal(t) PROVE ControlOK'
  <2>1. error' \in [Thread -> Errors]
    BY <1>0, <1>11 DEF Signal, Errors
  <2>2. kills' \in 0..MaxKills
    BY <1>11, KillAssumption DEF Signal, ControlOK
  <2> QED
    BY <1>0, <1>11, <2>1, <2>2, ListTypes DEF Signal, ControlOK
<1>12. ASSUME NEW t \in Thread, Reset(t) PROVE ControlOK'
  <2>1. error' \in [Thread -> Errors] /\ <<>> \in Seq(Thread)
    BY <1>0, <1>12 DEF Reset, Errors
  <2>2. receivers' = <<>> /\ timer' \subseteq timer
        /\ UNCHANGED <<pc, live, left, kills>>
    BY <1>12 DEF Reset
  <2> QED
    BY <2>1, <2>2 DEF ControlOK
<1>13. ASSUME NEW t \in Thread,
              DetachBegin(t) \/ ResumeAllTest(t) \/ Unregister(t)
       PROVE  ControlOK'
  BY <1>13 DEF DetachBegin, ResumeAllTest, Unregister, ControlOK, Locations,
               Detaching
<1>14. ASSUME NEW t \in Thread, ResumeAllTake(t) PROVE ControlOK'
  <2>1. CASE receivers = <<>>
    BY <1>14, <2>1 DEF ResumeAllTake, ControlOK, Locations, Detaching
  <2>2. CASE receivers # <<>>
    <3>1. PICK w \in Thread : w = Head(receivers)
      BY <1>0, <2>2, ListTypes
    <3>2. Tail(receivers) \in Seq(Thread)
      BY <1>0, <2>2, ListTypes
    <3> QED
      BY <1>14, <2>2, <3>1, <3>2
         DEF ResumeAllTake, ControlOK, Locations, Detaching, Errors
  <2> QED
    BY <2>1, <2>2
<1>15. CASE UNCHANGED vars
  BY <1>15 DEF vars, ControlOK
<1> QED
  BY <1>1, <1>2, <1>3, <1>5, <1>6, <1>7, <1>8, <1>9, <1>10, <1>11, <1>12,
     <1>13, <1>14, <1>15 DEF Next, Step

(* What being on the list means: the thread is in the loop of rt_mq_recv   *)
(* and has no error yet.                                                   *)
Receives(t) == pc[t] = "receiving" /\ error[t] = "EOK"

(* The inductive invariant of the list. *)
WaitInv ==
    /\ ControlOK
    /\ \A t \in timer : Suspended(t)
    /\ Once(receivers)
    /\ \A t \in Thread : Suspended(t) => Receives(t)

(* The steps that take threads off the list, and their timers with them,   *)
(* and leave those that stay where they were.                              *)
LEMMA Waking ==
  ASSUME WaitInv, ControlOK', NEW gone \in SUBSET Thread, Once(receivers'),
         \A u \in Thread : Suspended(u)' <=> (Suspended(u) /\ u \notin gone),
         timer' \subseteq timer \ gone,
         \A u \in Thread :
            Suspended(u) /\ u \notin gone => /\ pc'[u] = pc[u]
                                             /\ error'[u] = error[u]
  PROVE  WaitInv'
<1>1. \A u \in timer' : Suspended(u)'
  BY DEF WaitInv, ControlOK
<1>2. \A u \in Thread : Suspended(u)' => Receives(u)'
  BY DEF WaitInv, Receives
<1> QED
  BY <1>1, <1>2 DEF WaitInv

(* A thread that is not on the list enqueues.                              *)
LEMMA Receiving ==
  ASSUME WaitInv, ControlOK', NEW t \in Thread, ~Suspended(t),
         receivers' = Enqueue(receivers, t, Flag, Priority),
         timer' \subseteq timer \union {t},
         Receives(t)',
         \A u \in Thread : u # t => pc'[u] = pc[u] /\ error'[u] = error[u]
  PROVE  /\ WaitInv'
         /\ \A u \in Thread : Suspended(u)' <=> (Suspended(u) \/ u = t)
<1>1. /\ Once(receivers')
      /\ \A u : Linked(receivers', u) <=> (Linked(receivers, u) \/ u = t)
  BY EnqueueLinked, PriorityAssumption DEF WaitInv, ControlOK, Suspended
<1>2. \A u \in timer' : Suspended(u)'
  BY <1>1 DEF WaitInv, ControlOK, Suspended
<1>3. \A u \in Thread : Suspended(u)' <=> (Suspended(u) \/ u = t)
  BY <1>1 DEF Suspended
<1>4. \A u \in Thread : Suspended(u)' => Receives(u)'
  BY <1>3 DEF WaitInv, Receives
<1> QED
  BY <1>1, <1>2, <1>3, <1>4 DEF WaitInv

(* The head of the list leaves it. *)
LEMMA HeadLeaves ==
  ASSUME WaitInv, receivers # <<>>
  PROVE  \E w \in Thread :
           /\ w = Head(receivers) /\ Suspended(w)
           /\ Once(Tail(receivers))
           /\ \A u : Linked(Tail(receivers), u)
                       <=> (Linked(receivers, u) /\ u # w)
BY TailProperties, PriorityAssumption DEF WaitInv, ControlOK, Suspended

(* A thread is unlinked if it is on the list. *)
LEMMA OneLeaves ==
  ASSUME WaitInv, NEW t \in Thread
  PROVE  /\ Once(Unlink(receivers, t))
         /\ \A u : Linked(Unlink(receivers, t), u)
                     <=> (Linked(receivers, u) /\ u # t)
BY UnlinkProperties, PriorityAssumption DEF WaitInv, ControlOK

(* The second section of a send wakes the first receiver.                  *)
LEMMA ResumeWaits ==
  ASSUME WaitInv, ControlOK', ResumeReceiver,
         \A u \in Thread : Suspended(u) => pc'[u] = pc[u]
  PROVE  WaitInv'
<1>1. error' = error
  BY DEF ResumeReceiver
<1>2. CASE receivers = <<>>
  <2>1. receivers' = receivers /\ timer' = timer
    BY <1>2 DEF ResumeReceiver
  <2> QED
    BY <1>1, <2>1, Waking, {} \in SUBSET Thread DEF WaitInv, Suspended
<1>3. CASE receivers # <<>>
  <2>1. PICK w \in Thread :
           /\ w = Head(receivers) /\ Suspended(w)
           /\ Once(Tail(receivers))
           /\ \A u : Linked(Tail(receivers), u)
                       <=> (Linked(receivers, u) /\ u # w)
    BY <1>3, HeadLeaves
  <2>2. receivers' = Tail(receivers) /\ timer' = timer \ {w}
    BY <1>3, <2>1 DEF ResumeReceiver
  <2>3. \A u \in Thread : Suspended(u)' <=> (Suspended(u) /\ u \notin {w})
    BY <2>1, <2>2 DEF Suspended
  <2> QED
    BY <1>1, <2>1, <2>2, <2>3, Waking, {w} \in SUBSET Thread
<1> QED
  BY <1>2, <1>3

(* A timeout, a signal: the thread is unlinked, whatever error it is given. *)
LEMMA UnlinkWaits ==
  ASSUME WaitInv, ControlOK', NEW t \in Thread,
         receivers' = Unlink(receivers, t), timer' = timer \ {t},
         \A u \in Thread : Suspended(u) /\ u # t => /\ pc'[u] = pc[u]
                                                    /\ error'[u] = error[u]
  PROVE  WaitInv'
<1>1. /\ Once(receivers')
      /\ \A u \in Thread : Suspended(u)' <=> (Suspended(u) /\ u \notin {t})
  BY OneLeaves DEF Suspended
<1> QED
  BY <1>1, Waking, {t} \in SUBSET Thread

(* A step that leaves the list and the threads on it alone.                *)
LEMMA NobodyMoves ==
  ASSUME WaitInv, ControlOK', UNCHANGED <<receivers, timer, error>>,
         \A u \in Thread : Suspended(u) => pc'[u] = pc[u]
  PROVE  WaitInv'
BY Waking, {} \in SUBSET Thread DEF WaitInv, Suspended

(* Only a thread in rt_mq_recv is suspended. *)
LEMMA OthersAreOff ==
  ASSUME WaitInv, NEW t \in Thread, pc[t] # "receiving" \/ error[t] # "EOK"
  PROVE  ~Suspended(t)
BY DEF WaitInv, Receives

(* Every step keeps the timers, the list and the places of the threads on  *)
(* it in agreement.                                                        *)
LEMMA NextWaitInv == WaitInv /\ [Next]_vars => WaitInv'
<1> SUFFICES ASSUME WaitInv, [Next]_vars PROVE WaitInv'
  OBVIOUS
<1> USE DEF waits, Goto
<1>1. ControlOK /\ ControlOK'
  BY NextControlOK DEF WaitInv
<1>2. /\ pc \in [Thread -> Locations] /\ error \in [Thread -> Errors]
      /\ receivers \in Seq(Thread) /\ timer \subseteq Thread
  BY <1>1 DEF ControlOK
<1>3. ASSUME NEW t \in Thread, pc[t] # "receiving" \/ ~Suspended(t),
             UNCHANGED <<receivers, timer, error>>,
             \A u \in Thread : u # t => pc'[u] = pc[u]
      PROVE  WaitInv'
  BY <1>1, <1>3, NobodyMoves, OthersAreOff
<1>4. ASSUME NEW t \in Thread, NEW v \in Message,
             SendTakeSlot(t, v, "send") \/ SendTakeSlot(t, v, "urgent")
      PROVE  WaitInv'
  BY <1>2, <1>3, <1>4 DEF SendTakeSlot
<1>5. ASSUME NEW t \in Thread,
             SendCopy(t) \/ RecvCopy(t) \/ RecvFreeSlot(t) \/ DetachBegin(t)
               \/ ResumeAllTest(t) \/ Unregister(t)
      PROVE  WaitInv'
  <2>1. pc[t] # "receiving"
    BY <1>5 DEF SendCopy, RecvCopy, RecvFreeSlot, DetachBegin, ResumeAllTest,
                Unregister
  <2>2. UNCHANGED <<receivers, timer, error>>
    BY <1>5 DEF SendCopy, RecvCopy, RecvFreeSlot, DetachBegin, ResumeAllTest,
                Unregister
  <2>3. \E l : pc' = [pc EXCEPT ![t] = l]
    BY <1>5 DEF SendCopy, RecvCopy, RecvFreeSlot, Leave, DetachBegin,
                ResumeAllTest, Unregister
  <2>4. \A u \in Thread : u # t => pc'[u] = pc[u]
    BY <1>2, <2>3
  <2> QED
    BY <1>3, <2>1, <2>2, <2>4
<1>6. ASSUME NEW t \in Thread, SendLink(t) \/ UrgentLink(t) PROVE WaitInv'
  <2>1. ResumeReceiver /\ pc' = [pc EXCEPT ![t] = "idle"] /\ ~Suspended(t)
    BY <1>6, OthersAreOff DEF SendLink, UrgentLink, Leave
  <2> QED
    BY <1>1, <1>2, <2>1, ResumeWaits
<1>7. ASSUME NEW t \in Thread, ~Suspended(t), Take(t) PROVE WaitInv'
  BY <1>2, <1>3, <1>7 DEF Take
<1>8. ASSUME NEW t \in Thread, RecvNow(t) PROVE WaitInv'
  BY <1>7, <1>8, OthersAreOff DEF RecvNow
<1>9. ASSUME NEW t \in Thread, RecvSuspend(t) PROVE WaitInv'
  <2>1. ~Suspended(t)
    BY <1>9, OthersAreOff DEF RecvSuspend
  <2>2. /\ Receives(t)'
        /\ \A u \in Thread : u # t => pc'[u] = pc[u] /\ error'[u] = error[u]
    BY <1>2, <1>9 DEF RecvSuspend, Receives
  <2>3. /\ timer' \subseteq timer \union {t}
        /\ receivers' = Enqueue(receivers, t, Flag, Priority)
    BY <1>9 DEF RecvSuspend, Arm
  <2> QED
    BY <1>1, <2>1, <2>2, <2>3, Receiving
<1>10. ASSUME NEW t \in Thread, RecvFails(t) PROVE WaitInv'
  BY <1>2, <1>3, <1>10 DEF RecvFails, Resumed, Leave
<1>11. ASSUME NEW t \in Thread, RecvRetry(t) PROVE WaitInv'
  <2>1. ~Suspended(t) /\ Receives(t)
    BY <1>11, RetryWays DEF Receives
  <2>2. CASE Take(t)
    BY <1>7, <2>1, <2>2
  <2>3. CASE WaitsAgain(t)
    <3>1. PICK time \in Recomputed(left[t]) :
            IF time = "none"
            THEN /\ Leave(t)
                 /\ error' = [error EXCEPT ![t] = "ETIMEOUT"]
                 /\ UNCHANGED <<receivers, timer>>
            ELSE /\ receivers' = Enqueue(receivers, t, Flag, Priority)
                 /\ Arm(t, time)
                 /\ UNCHANGED <<pc, error>>
      BY <2>3 DEF WaitsAgain
    <3>2. CASE time = "none"
      <4>1. /\ receivers' = receivers /\ timer' = timer
            /\ \A u \in Thread : u # t => pc'[u] = pc[u] /\ error'[u] = error[u]
        BY <1>2, <3>1, <3>2 DEF Leave
      <4>2. \A u \in Thread : Suspended(u)' <=> (Suspended(u) /\ u \notin {})
        BY <4>1 DEF Suspended
      <4>3. Once(receivers')
        BY <4>1 DEF WaitInv
      <4> QED
        BY <1>1, <2>1, <4>1, <4>2, <4>3, Waking, {} \in SUBSET Thread
    <3>3. CASE time # "none"
      BY <1>1, <2>1, <3>1, <3>3, Receiving DEF Arm, Receives
    <3> QED
      BY <3>2, <3>3
  <2> QED
    BY <1>11, <2>2, <2>3, RetryWays
<1>12. ASSUME NEW t \in Thread, Timeout(t) PROVE WaitInv'
  BY <1>1, <1>2, <1>12, UnlinkWaits DEF Timeout
<1>13. ASSUME NEW t \in Thread, Signal(t) PROVE WaitInv'
  <2>1. PICK e : error' = [error EXCEPT ![t] = e]
    BY <1>13 DEF Signal
  <2> QED
    BY <1>1, <1>2, <1>13, <2>1, UnlinkWaits DEF Signal
<1>14. ASSUME NEW t \in Thread, Reset(t) PROVE WaitInv'
  <2>1. receivers' = <<>> /\ timer' = {u \in timer : ~Suspended(u)}
    BY <1>14 DEF Reset
  <2>2. timer' = {}
    BY <2>1 DEF WaitInv
  <2>3. Once(<<>>) /\ \A u : ~Linked(<<>>, u)
    BY DEF Linked, Once
  <2> QED
    BY <1>1, <2>1, <2>2, <2>3 DEF WaitInv, Suspended
<1>15. ASSUME NEW t \in Thread, ResumeAllTake(t) PROVE WaitInv'
  <2>1. ~Suspended(t)
    BY <1>15, OthersAreOff DEF ResumeAllTake
  <2>2. CASE receivers = <<>>
    BY <1>2, <1>3, <1>15, <2>1, <2>2 DEF ResumeAllTake
  <2>3. CASE receivers # <<>>
    <3>1. PICK w \in Thread :
             /\ w = Head(receivers) /\ Suspended(w)
             /\ Once(Tail(receivers))
             /\ \A u : Linked(Tail(receivers), u)
                         <=> (Linked(receivers, u) /\ u # w)
      BY <2>3, HeadLeaves
    <3>2. /\ error' = [error EXCEPT ![w] = "ERROR"]
          /\ receivers' = Tail(receivers) /\ timer' = timer \ {w}
          /\ pc' = [pc EXCEPT ![t] = "resume_all"]
      BY <1>15, <2>3, <3>1 DEF ResumeAllTake
    <3>3. \A u \in Thread : Suspended(u)' <=> (Suspended(u) /\ u \notin {w})
      BY <3>1, <3>2 DEF Suspended
    <3>4. \A u \in Thread :
             Suspended(u) /\ u \notin {w} => /\ pc'[u] = pc[u]
                                             /\ error'[u] = error[u]
      BY <1>2, <2>1, <3>2
    <3> QED
      BY <1>1, <3>1, <3>2, <3>3, <3>4, Waking, {w} \in SUBSET Thread
  <2> QED
    BY <2>2, <2>3
<1>16. CASE UNCHANGED vars
  BY <1>1, <1>16, NobodyMoves DEF vars
<1> QED
  BY <1>4, <1>5, <1>6, <1>8, <1>9, <1>10, <1>11, <1>12, <1>13, <1>14, <1>15,
     <1>16 DEF Next, Step

------------------------------------------------------------------------------
(* A step that touches no slot, no pointer and no call with a slot.        *)
Quiet ==
    /\ UNCHANGED <<lists, data>>
    /\ InHand' = InHand
    /\ msg' \in [Thread -> Slot \union {Null}]
    /\ buffer' \in [Thread -> Message \union {Null}]
    /\ \A u \in InHand : /\ msg'[u] = msg[u] /\ buffer'[u] = buffer[u]
                         /\ pc'[u] = pc[u]

(* One thread outside a slot moves to another place outside a slot.        *)
LEMMA QuietMove ==
  ASSUME ControlOK, NEW f, NEW q, Stored(f, q), NEW t \in Thread,
         pc[t] \notin Holding, UNCHANGED <<lists, data>>,
         \/ Leave(t)
         \/ UNCHANGED <<msg, buffer>> /\
            \E where : where \notin Holding /\ pc' = [pc EXCEPT ![t] = where]
  PROVE  Quiet
<1>1. /\ msg \in [Thread -> Slot \union {Null}]
      /\ buffer \in [Thread -> Message \union {Null}]
      /\ DOMAIN pc = Thread /\ t \notin InHand
  BY DEF Stored, ControlOK, InHand, Holding
<1>2. CASE Leave(t)
  BY <1>1, <1>2, LeaveStore DEF Quiet, InHand
<1>3. ASSUME UNCHANGED <<msg, buffer>>, NEW where, where \notin Holding,
             pc' = [pc EXCEPT ![t] = where]
      PROVE  Quiet
  <2>1. /\ InHand' = InHand \ {t}
        /\ \A u \in Thread : pc'[u] = IF u = t THEN where ELSE pc[u]
    BY <1>1, <1>3, HandMoves
  <2> QED
    BY <1>1, <1>3, <2>1 DEF Quiet, InHand
<1> QED
  BY <1>2, <1>3

(* What a step does to the store. *)
LEMMA StoreSteps ==
  ASSUME ControlOK, NEW f, NEW q, Stored(f, q), [Next]_vars
  PROVE  \/ \E t \in Thread, v \in Message, how \in {"send", "urgent"} :
              SendTakeSlot(t, v, how)
         \/ \E t \in Thread : pc[t] \notin Holding /\ entry # 0 /\ Take(t)
         \/ \E t \in Thread :
              \/ SendCopy(t) \/ SendLink(t) \/ UrgentLink(t)
              \/ RecvCopy(t) \/ RecvFreeSlot(t) \/ Reset(t)
         \/ Quiet
<1>1. /\ msg \in [Thread -> Slot \union {Null}]
      /\ buffer \in [Thread -> Message \union {Null}]
      /\ pc \in [Thread -> Locations]
  BY DEF Stored, ControlOK
<1>2. ASSUME UNCHANGED <<lists, data, pc, msg, buffer>> PROVE Quiet
  BY <1>1, <1>2 DEF Quiet, InHand
<1>3. ASSUME NEW t \in Thread, RecvNow(t)
      PROVE  pc[t] \notin Holding /\ entry # 0 /\ Take(t)
  BY <1>3 DEF RecvNow, Holding
<1>4. ASSUME NEW t \in Thread, RecvSuspend(t) PROVE Quiet
  <2>1. pc[t] \notin Holding /\ "receiving" \notin Holding
    BY <1>4 DEF RecvSuspend, Holding
  <2> QED
    BY <1>4, <2>1, QuietMove DEF RecvSuspend, Goto
<1>5. ASSUME NEW t \in Thread, RecvFails(t) PROVE Quiet
  BY <1>5, QuietMove DEF RecvFails, Resumed, Holding
<1>6. ASSUME NEW t \in Thread, RecvRetry(t)
      PROVE  (pc[t] \notin Holding /\ entry # 0 /\ Take(t)) \/ Quiet
  <2>1. pc[t] \notin Holding
    BY <1>6, RetryWays DEF Holding
  <2>2. CASE WaitsAgain(t)
    <3>1. /\ UNCHANGED <<lists, data>>
          /\ Leave(t) \/ UNCHANGED <<pc, msg, buffer>>
      BY <2>2 DEF WaitsAgain
    <3> QED
      BY <1>2, <2>1, <3>1, QuietMove
  <2> QED
    BY <1>6, <2>1, <2>2, RetryWays
<1>7. ASSUME NEW t \in Thread, Timeout(t) \/ Signal(t) PROVE Quiet
  BY <1>2, <1>7 DEF Timeout, Signal
<1>8. ASSUME NEW t \in Thread,
             DetachBegin(t) \/ ResumeAllTest(t) \/ ResumeAllTake(t)
               \/ Unregister(t)
      PROVE  Quiet
  <2>1. /\ pc[t] \notin Holding /\ UNCHANGED <<lists, data, msg, buffer>>
    BY <1>8 DEF DetachBegin, ResumeAllTest, ResumeAllTake, Unregister, Holding
  <2>2. \E where : where \notin Holding /\ pc' = [pc EXCEPT ![t] = where]
    BY <1>8 DEF DetachBegin, ResumeAllTest, ResumeAllTake, Unregister, Goto,
                Holding
  <2> QED
    BY <2>1, <2>2, QuietMove
<1>9. CASE UNCHANGED vars
  BY <1>2, <1>9 DEF vars, lists
<1> QED
  BY <1>3, <1>4, <1>5, <1>6, <1>7, <1>8, <1>9 DEF Next, Step

(* Every step keeps the slots in their places. *)
LEMMA NextStoreInv == ControlOK /\ StoreInv /\ [Next]_vars => StoreInv'
<1> SUFFICES ASSUME ControlOK, StoreInv, [Next]_vars PROVE StoreInv'
  OBVIOUS
<1>1. PICK f, q : Stored(f, q)
  BY DEF StoreInv
<1>2. DOMAIN pc = Thread
  BY DEF ControlOK
<1>3. ASSUME NEW g, NEW r, Stored(g, r)' PROVE StoreInv'
  BY <1>3 DEF StoreInv
<1>4. ASSUME NEW t \in Thread, NEW v \in Message,
             NEW how \in {"send", "urgent"}, SendTakeSlot(t, v, how)
      PROVE  StoreInv'
  <2>1. Stored(Tail(f), q)'
    BY <1>1, <1>2, <1>4, SendTakeSlotStore
  <2> QED
    BY <1>3, <2>1
<1>5. ASSUME NEW t \in Thread, pc[t] \notin Holding, entry # 0, Take(t)
      PROVE  StoreInv'
  <2>1. Stored(f, Tail(q))'
    BY <1>1, <1>2, <1>5, TakeStore
  <2> QED
    BY <1>3, <2>1
<1>6. ASSUME NEW t \in Thread, SendCopy(t) \/ RecvCopy(t)
      PROVE  StoreInv'
  <2>1. Stored(f, q)'
    BY <1>1, <1>2, <1>6, SendCopyStore, RecvCopyStore
  <2> QED
    BY <1>3, <2>1
<1>7. ASSUME NEW t \in Thread, SendLink(t) PROVE StoreInv'
  <2>1. PICK x : x = msg[t]
    OBVIOUS
  <2>2. Stored(f, Append(q, x))'
    BY <1>1, <1>2, <1>7, <2>1, SendLinkStore
  <2> QED
    BY <1>3, <2>2
<1>8. ASSUME NEW t \in Thread, UrgentLink(t) PROVE StoreInv'
  <2>1. PICK x : x = msg[t]
    OBVIOUS
  <2>2. Stored(f, <<x>> \o q)'
    BY <1>1, <1>2, <1>8, <2>1, UrgentLinkStore
  <2> QED
    BY <1>3, <2>2
<1>9. ASSUME NEW t \in Thread, RecvFreeSlot(t) PROVE StoreInv'
  <2>1. PICK x : x = msg[t]
    OBVIOUS
  <2>2. Stored(<<x>> \o f, q)'
    BY <1>1, <1>2, <1>9, <2>1, RecvFreeSlotStore
  <2> QED
    BY <1>3, <2>2
<1>10. ASSUME NEW t \in Thread, Reset(t) PROVE StoreInv'
  <2>1. Stored(Moved(q, f), <<>>)'
    BY <1>1, <1>10, ResetStore
  <2> QED
    BY <1>3, <2>1
<1>11. CASE Quiet
  <2>1. Stored(f, q)'
    BY <1>1, <1>11, StoreElsewhere DEF Quiet
  <2> QED
    BY <1>3, <2>1
<1> QED
  BY <1>1, <1>4, <1>5, <1>6, <1>7, <1>8, <1>9, <1>10, <1>11, StoreSteps

(* rt_mq_init links every slot on the free list. *)
LEMMA InitStoreInv == Init => StoreInv
<1> SUFFICES ASSUME Init PROVE StoreInv
  OBVIOUS
<1> DEFINE f == [i \in 1..MaxMsgs |-> MaxMsgs + 1 - i]
<1>1. MaxMsgs \in Nat /\ MaxMsgs > 0 /\ Slot = 1..MaxMsgs
  BY SizeAssumption DEF Slot
<1>2. f \in Seq(Slot) /\ Len(f) = MaxMsgs
  <2>1. \A i \in 1..MaxMsgs : MaxMsgs + 1 - i \in Slot
    BY <1>1
  <2>2. f \in [1..MaxMsgs -> Slot]
    BY <2>1
  <2> QED
    BY <1>1, <2>2, SeqDef, LenProperties
<1>3. \A i \in 1..MaxMsgs : f[i] = MaxMsgs + 1 - i
  OBVIOUS
<1> HIDE DEF f
<1>4. Once(f)
  BY <1>1, <1>2, <1>3 DEF Once
<1>5. /\ next = [s \in Slot |-> IF s = 1 THEN Null ELSE s - 1]
      /\ msg_queue_head = Null /\ msg_queue_tail = Null
      /\ msg_queue_free = MaxMsgs /\ entry = 0
      /\ msg = [t \in Thread |-> Null] /\ buffer = [t \in Thread |-> Null]
      /\ pc = [t \in Thread |-> "idle"]
      /\ data \in [Slot -> Message]
  BY DEF Init
<1>6. \A i \in 1..Len(f) : next[f[i]] = IF i = Len(f) THEN Null ELSE f[i + 1]
  <2> SUFFICES ASSUME NEW i \in 1..MaxMsgs
               PROVE  next[f[i]] = IF i = MaxMsgs THEN Null ELSE f[i + 1]
    BY <1>2
  <2>1. f[i] \in Slot /\ f[i] = MaxMsgs + 1 - i
    BY <1>1, <1>3
  <2>2. f[i] = 1 <=> i = MaxMsgs
    BY <1>1, <2>1
  <2>3. i # MaxMsgs => i + 1 \in 1..MaxMsgs
    BY <1>1
  <2>4. i # MaxMsgs => f[i + 1] = f[i] - 1
    BY <1>1, <1>3, <2>1, <2>3
  <2> QED
    BY <1>5, <2>1, <2>2, <2>4
<1>7. f # <<>> /\ f[1] = MaxMsgs
  <2>1. 1 \in 1..MaxMsgs /\ MaxMsgs + 1 - 1 = MaxMsgs
    BY <1>1
  <2> QED
    BY <1>1, <1>2, <1>3, <2>1, EmptySeq
<1>8. Represents(next, msg_queue_free, f)
  BY <1>2, <1>4, <1>5, <1>6, <1>7 DEF Represents
<1>9. /\ Represents(next, msg_queue_head, <<>>) /\ LastOf(<<>>) = Null
      /\ Len(<<>>) = 0 /\ \A x : ~Linked(<<>>, x)
  BY <1>5, EmptySeq DEF Represents, LastOf, Once, Linked
<1>10. InHand = {} /\ Cardinality({}) = 0
  BY <1>5, FS_EmptySet DEF InHand
<1>11. \A x \in Slot : Linked(f, x)
  <2> SUFFICES ASSUME NEW x \in Slot PROVE Linked(f, x)
    OBVIOUS
  <2>1. MaxMsgs + 1 - x \in 1..MaxMsgs /\ MaxMsgs + 1 - (MaxMsgs + 1 - x) = x
    BY <1>1
  <2>2. f[MaxMsgs + 1 - x] = x
    BY <1>3, <2>1
  <2> QED
    BY <1>2, <2>1, <2>2 DEF Linked
<1>12. next \in [Slot -> Slot \union {Null}]
  BY <1>1, <1>5
<1>13. Len(f) + Len(<<>>) + Cardinality({}) = MaxMsgs
  BY <1>1, <1>2, <1>9, <1>10
<1>14. Placed(next, msg_queue_free, msg_queue_head, msg_queue_tail,
              f, <<>>, InHand, msg)
  BY <1>5, <1>8, <1>9, <1>10, <1>11, <1>12, <1>13 DEF Placed
<1>15. Stored(f, <<>>)
  BY <1>5, <1>9, <1>14 DEF Stored
<1> QED
  BY <1>15 DEF StoreInv

(* Initially the list is empty. *)
LEMMA InitWaitInv == Init => WaitInv
<1> SUFFICES ASSUME Init PROVE WaitInv
  OBVIOUS
<1>1. ControlOK
  BY KillAssumption DEF Init, ControlOK, Errors, Locations
<1>2. Once(receivers) /\ \A t \in Thread : ~Linked(receivers, t)
  BY DEF Init, Once, Linked
<1> QED
  BY <1>1, <1>2 DEF Init, WaitInv, Suspended

(* What the inductive invariants say of the slots, the chains and the      *)
(* count.                                                                  *)
LEMMA InvStoreConsistent == WaitInv /\ StoreInv => StoreConsistent
<1> SUFFICES ASSUME WaitInv, StoreInv PROVE StoreConsistent
  OBVIOUS
<1>1. PICK f, q : Stored(f, q)
  BY DEF StoreInv
<1>2. /\ Placed(next, msg_queue_free, msg_queue_head, msg_queue_tail,
                f, q, InHand, msg)
      /\ Represents(next, msg_queue_free, f)
      /\ Represents(next, msg_queue_head, q)
      /\ next \in [Slot -> Slot \union {Null}]
      /\ msg_queue_tail = LastOf(q) /\ entry = Len(q)
  BY <1>1 DEF Stored, Placed
<1>3. /\ Len(f) \in Nat /\ Len(q) \in Nat /\ Cardinality(InHand) \in Nat
      /\ Len(f) <= MaxMsgs /\ Len(q) <= MaxMsgs
  BY <1>2, PlacedLengths
<1>4. /\ Ends(msg_queue_free) /\ Ends(msg_queue_head)
      /\ \A x : x \in OnChain(msg_queue_free) <=> Linked(f, x)
      /\ \A x : x \in OnChain(msg_queue_head) <=> Linked(q, x)
      /\ Cardinality(OnChain(msg_queue_free)) = Len(f)
      /\ Cardinality(OnChain(msg_queue_head)) = Len(q)
  BY <1>2, <1>3, ChainCounts
<1>5. TypeOK
  <2>1. /\ msg_queue_free \in Slot \union {Null}
        /\ msg_queue_head \in Slot \union {Null}
    BY <1>2, ChainBegins
  <2>2. msg_queue_tail \in Slot \union {Null}
    <3>1. CASE q = <<>>
      BY <1>2, <3>1 DEF LastOf
    <3>2. CASE q # <<>>
      <4>1. Len(q) > 0 /\ q \in Seq(Slot)
        BY <1>2, <3>2, ChainBegins DEF Represents
      <4>2. Len(q) \in 1..Len(q)
        BY <1>3, <4>1
      <4> QED
        BY <1>2, <3>2, <4>1, <4>2, ElementOfSeq DEF LastOf
    <3> QED
      BY <3>1, <3>2
  <2>3. entry \in 0..MaxMsgs
    BY <1>2, <1>3, SizeAssumption
  <2> QED
    BY <1>1, <1>2, <2>1, <2>2, <2>3 DEF TypeOK, Stored, WaitInv, ControlOK
<1>6. SlotsAccounted
  <2> DEFINE free == OnChain(msg_queue_free)
             queued == OnChain(msg_queue_head)
             inHand == {msg[t] : t \in InHand}
  <2>1. free \union queued \union inHand = Slot
    <3>1. ASSUME NEW x \in Slot PROVE x \in free \union queued \union inHand
      BY <1>2, <1>4 DEF Placed
    <3>2. ASSUME NEW x \in free \union queued \union inHand PROVE x \in Slot
      <4>1. \A y : Linked(f, y) \/ Linked(q, y) => y \in Slot
        BY <1>2, ChainBegins
      <4>2. \A t \in InHand : msg[t] \in Slot
        BY <1>2 DEF Placed
      <4> QED
        BY <1>4, <4>1, <4>2
    <3> QED
      BY <3>1, <3>2
  <2>2. Cardinality(free) + Cardinality(queued) + Cardinality(InHand)
          = MaxMsgs
    BY <1>2, <1>4 DEF Placed
  <2> QED
    BY <1>4, <2>1, <2>2 DEF SlotsAccounted
<1>7. QueueConsistent
  <2>1. entry = Cardinality(OnChain(msg_queue_head))
    BY <1>2, <1>4
  <2>2. CASE q = <<>>
    <3>1. entry = 0 /\ msg_queue_tail = Null
      BY <1>2, <2>2, EmptySeq DEF LastOf
    <3> QED
      BY <2>1, <3>1 DEF QueueConsistent
  <2>3. CASE q # <<>>
    <3>1. entry > 0 /\ msg_queue_tail = q[Len(q)]
      BY <1>2, <2>3, ChainBegins DEF LastOf
    <3>2. /\ entry - 1 \in 0..MaxMsgs /\ entry - 1 < Len(q)
          /\ (entry - 1) + 1 = Len(q) /\ entry # 0
      BY <1>2, <1>3, <3>1, SizeAssumption
    <3>3. Chain(msg_queue_head)[entry - 1] = q[(entry - 1) + 1]
      BY <1>2, <1>3, <3>2, ChainReads
    <3>4. Chain(msg_queue_head)[entry - 1] = q[Len(q)]
      BY <3>2, <3>3
    <3> QED
      BY <2>1, <3>1, <3>2, <3>4 DEF QueueConsistent
  <2> QED
    BY <2>2, <2>3
<1>8. TimerGuardsWait
  BY DEF WaitInv, TimerGuardsWait
<1> QED
  BY <1>5, <1>6, <1>7, <1>8 DEF StoreConsistent

(* No slot of a message queue is lost or used twice, and its head, its     *)
(* tail, its count and its chains agree after every section of rt_mq_send, *)
(* rt_mq_urgent, rt_mq_recv, rt_mq_control and rt_mq_detach, while others  *)
(* copy messages with the interrupts enabled.                              *)
THEOREM StoreAlwaysConsistent == Spec => []StoreConsistent
<1>1. Init => WaitInv /\ StoreInv
  BY InitWaitInv, InitStoreInv
<1>2. WaitInv /\ StoreInv /\ [Next]_vars => WaitInv' /\ StoreInv'
  BY NextWaitInv, NextStoreInv DEF WaitInv
<1> QED
  BY <1>1, <1>2, InvStoreConsistent, PTL DEF Spec


------------------------------------------------------------------------------
(* The numbers that NoStrandedReceiver compares. *)
LEMMA Numbers ==
  ControlOK /\ StoreInv => /\ entry \in Nat /\ kills \in Nat
                           /\ Looking \in SUBSET Thread
<1> SUFFICES ASSUME ControlOK, NEW f, NEW q, Stored(f, q)
             PROVE  /\ entry \in Nat /\ kills \in Nat
                    /\ Looking \in SUBSET Thread
  BY DEF StoreInv
<1>1. Len(q) \in Nat
  BY PlacedLengths DEF Stored
<1> QED
  BY <1>1, KillAssumption DEF Stored, ControlOK, Looking, Resumed

(* An untouched thread looks on, unless it is linked.                      *)
LEMMA LookersStay ==
  ASSUME NEW busy \in SUBSET Thread,
         \A u \in Thread : u \notin busy => /\ pc'[u] = pc[u]
                                            /\ error'[u] = error[u]
                                            /\ Suspended(u)' => Suspended(u)
  PROVE  Looking \ busy \subseteq Looking'
BY DEF Looking, Resumed

(* The steps that link no receiver: a message is taken by the one receiver *)
(* that stops looking, a message that is linked makes one receiver look,   *)
(* or one receiver stops looking because of a signal.                      *)
LEMMA EnoughLook ==
  ASSUME ControlOK, ControlOK', StoreInv, StoreInv', NoStrandedReceiver,
         receivers = <<>> => receivers' = <<>>,
         \/ entry' = entry /\ kills' = kills /\ Looking \subseteq Looking'
         \/ /\ entry' = entry - 1 /\ kills' = kills
            /\ \E t : Looking \ {t} \subseteq Looking'
         \/ /\ entry' = entry /\ kills' = kills + 1
            /\ \E t : Looking \ {t} \subseteq Looking'
         \/ /\ entry' = entry + 1 /\ kills' = kills
            /\ \E t : t \notin Looking /\ Looking \union {t} \subseteq Looking'
  PROVE  NoStrandedReceiver'
<1> DEFINE L == Looking
<1>1. /\ entry \in Nat /\ kills \in Nat /\ entry' \in Nat /\ kills' \in Nat
      /\ L \in SUBSET Thread /\ L' \in SUBSET Thread
  <2>1. /\ entry \in Nat /\ kills \in Nat /\ L \in SUBSET Thread
    BY Numbers
  <2>2. (ControlOK /\ StoreInv => /\ entry \in Nat /\ kills \in Nat
                                  /\ Looking \in SUBSET Thread)'
    BY Numbers, PTL
  <2> QED
    BY <2>1, <2>2
<1>2. Cardinality(L) \in Nat /\ Cardinality(L') \in Nat
  BY <1>1, ThreadAssumption, SubsetCounts
<1>3. L \subseteq L' => Cardinality(L) <= Cardinality(L')
  BY <1>1, ThreadAssumption, SubsetCounts
<1>4. (\E t : L \ {t} \subseteq L') => Cardinality(L) <= Cardinality(L') + 1
  BY <1>1, ThreadAssumption, SubsetCounts
<1>5. (\E t : t \notin L /\ L \union {t} \subseteq L')
         => Cardinality(L) + 1 <= Cardinality(L')
  BY <1>1, ThreadAssumption, SubsetCounts
<1>6. receivers # <<>> => entry <= Cardinality(L) + kills
  BY DEF NoStrandedReceiver
<1>7. \/ entry' = entry /\ kills' = kills /\ Cardinality(L) <= Cardinality(L')
      \/ /\ entry' = entry - 1 /\ kills' = kills
         /\ Cardinality(L) <= Cardinality(L') + 1
      \/ /\ entry' = entry /\ kills' = kills + 1
         /\ Cardinality(L) <= Cardinality(L') + 1
      \/ /\ entry' = entry + 1 /\ kills' = kills
         /\ Cardinality(L) + 1 <= Cardinality(L')
  BY <1>3, <1>4, <1>5
<1> HIDE DEF L
<1>8. receivers' # <<>> => entry' <= Cardinality(L') + kills'
  BY <1>1, <1>2, <1>6, <1>7
<1> QED
  BY <1>8 DEF NoStrandedReceiver, L

(* A send makes the first receiver look, if there is one.                  *)
LEMMA SendWakes ==
  ASSUME WaitInv, ControlOK', StoreInv, StoreInv', NoStrandedReceiver,
         ResumeReceiver, entry' = entry + 1,
         NEW t \in Thread, pc[t] # "receiving",
         \A u \in Thread : u # t => pc'[u] = pc[u]
  PROVE  NoStrandedReceiver'
<1>1. error' = error /\ kills' = kills /\ ControlOK
  BY DEF ResumeReceiver, WaitInv
<1>2. CASE receivers = <<>>
  BY <1>2 DEF ResumeReceiver, NoStrandedReceiver
<1>3. CASE receivers # <<>>
  <2>1. PICK w \in Thread :
           /\ w = Head(receivers) /\ Suspended(w)
           /\ Once(Tail(receivers))
           /\ \A u : Linked(Tail(receivers), u)
                       <=> (Linked(receivers, u) /\ u # w)
    BY <1>3, HeadLeaves
  <2>2. receivers' = Tail(receivers)
    BY <1>3 DEF ResumeReceiver
  <2>3. \A u \in Thread : Suspended(u)' <=> (Suspended(u) /\ u # w)
    BY <2>1, <2>2 DEF Suspended
  <2>4. w \notin Looking /\ w # t /\ t \notin Looking
    BY <2>1 DEF WaitInv, Receives, Looking, Resumed
  <2>5. w \in Looking'
    BY <1>1, <2>1, <2>3, <2>4 DEF WaitInv, Receives, Looking, Resumed
  <2>6. Looking \ {t} \subseteq Looking'
    BY <1>1, <2>3, LookersStay, {t} \in SUBSET Thread
  <2>7. Looking \union {w} \subseteq Looking'
    BY <2>4, <2>5, <2>6
  <2> QED
    BY <1>1, <1>3, <2>4, <2>7, EnoughLook
<1> QED
  BY <1>2, <1>3

(* A receiver takes one message and is at most one of those that looked.   *)
LEMMA TakerStops ==
  ASSUME WaitInv, ControlOK', StoreInv, StoreInv', NoStrandedReceiver,
         NEW t \in Thread, Take(t)
  PROVE  NoStrandedReceiver'
<1>1. /\ entry' = entry - 1 /\ receivers' = receivers /\ error' = error
      /\ kills' = kills /\ pc' = [pc EXCEPT ![t] = "taken"]
  BY DEF Take, Goto, waits
<1>2. ControlOK /\ \A u \in Thread : u # t => pc'[u] = pc[u]
  BY <1>1 DEF WaitInv, ControlOK
<1>3. Looking \ {t} \subseteq Looking'
  BY <1>1, <1>2, LookersStay, {t} \in SUBSET Thread DEF Suspended
<1> QED
  BY <1>1, <1>2, <1>3, EnoughLook

(* The steps of a thread that does not look, which move no message.        *)
LEMMA NoMessageMoves ==
  ASSUME WaitInv, ControlOK', StoreInv, StoreInv', NoStrandedReceiver,
         UNCHANGED <<entry, receivers, error, kills>>,
         NEW t \in Thread, t \notin Looking,
         \A u \in Thread : u # t => pc'[u] = pc[u]
  PROVE  NoStrandedReceiver'
<1>1. Looking \ {t} \subseteq Looking'
  BY LookersStay, {t} \in SUBSET Thread DEF Suspended
<1>2. Looking \subseteq Looking'
  BY <1>1
<1> QED
  BY <1>2, EnoughLook DEF WaitInv

(* Every step leaves enough receivers looking for the messages.            *)
LEMMA NextNoStranded ==
  ASSUME WaitInv, StoreInv, NoStrandedReceiver, [Next]_vars
  PROVE  NoStrandedReceiver'
<1> USE DEF waits, Goto
<1>1. /\ ControlOK /\ ControlOK' /\ StoreInv'
      /\ pc \in [Thread -> Locations] /\ error \in [Thread -> Errors]
      /\ receivers \in Seq(Thread)
  BY NextControlOK, NextStoreInv DEF WaitInv, ControlOK
<1>2. ASSUME entry = 0, entry' = entry PROVE NoStrandedReceiver'
  <2>1. (ControlOK /\ StoreInv => /\ entry \in Nat /\ kills \in Nat
                                  /\ Looking \in SUBSET Thread)'
    BY Numbers, PTL
  <2>2. kills' \in Nat /\ Looking' \in SUBSET Thread
    BY <1>1, <2>1
  <2>3. Cardinality(Looking') \in Nat
    BY <2>2, ThreadAssumption, SubsetCounts
  <2>4. entry' <= Cardinality(Looking') + kills'
    BY <1>2, <2>2, <2>3
  <2> QED
    BY <2>4 DEF NoStrandedReceiver
<1>3. ASSUME NEW t \in Thread, NEW v \in Message,
             SendTakeSlot(t, v, "send") \/ SendTakeSlot(t, v, "urgent")
      PROVE  NoStrandedReceiver'
  <2>1. /\ UNCHANGED <<entry, receivers, error, kills>> /\ pc[t] = "idle"
        /\ \A u \in Thread : u # t => pc'[u] = pc[u]
    BY <1>1, <1>3 DEF SendTakeSlot
  <2> QED
    BY <1>1, <2>1, NoMessageMoves DEF Looking, Resumed
<1>4. ASSUME NEW t \in Thread,
             SendCopy(t) \/ RecvCopy(t) \/ RecvFreeSlot(t) \/ DetachBegin(t)
               \/ ResumeAllTest(t) \/ Unregister(t)
      PROVE  NoStrandedReceiver'
  <2>1. pc[t] # "receiving"
    BY <1>4 DEF SendCopy, RecvCopy, RecvFreeSlot, DetachBegin, ResumeAllTest,
                Unregister
  <2>2. UNCHANGED <<entry, receivers, error, kills>>
    BY <1>4 DEF SendCopy, RecvCopy, RecvFreeSlot, DetachBegin, ResumeAllTest,
                Unregister, lists
  <2>3. \E l : pc' = [pc EXCEPT ![t] = l]
    BY <1>4 DEF SendCopy, RecvCopy, RecvFreeSlot, Leave, DetachBegin,
                ResumeAllTest, Unregister
  <2>4. \A u \in Thread : u # t => pc'[u] = pc[u]
    BY <1>1, <2>3
  <2> QED
    BY <1>1, <2>1, <2>2, <2>4, NoMessageMoves DEF Looking, Resumed
<1>5. ASSUME NEW t \in Thread, SendLink(t) \/ UrgentLink(t)
      PROVE  NoStrandedReceiver'
  <2>1. /\ ResumeReceiver /\ entry' = entry + 1 /\ pc[t] # "receiving"
        /\ pc' = [pc EXCEPT ![t] = "idle"]
    BY <1>5 DEF SendLink, UrgentLink, Leave
  <2> QED
    BY <1>1, <2>1, SendWakes
<1>6. ASSUME NEW t \in Thread, RecvNow(t) PROVE NoStrandedReceiver'
  BY <1>1, <1>6, TakerStops DEF RecvNow
<1>7. ASSUME NEW t \in Thread, RecvSuspend(t) PROVE NoStrandedReceiver'
  BY <1>2, <1>7 DEF RecvSuspend, lists
<1>8. ASSUME NEW t \in Thread, RecvFails(t) PROVE NoStrandedReceiver'
  <2>1. /\ UNCHANGED <<entry, receivers, error, kills>> /\ error[t] # "EOK"
        /\ pc' = [pc EXCEPT ![t] = "idle"]
    BY <1>8 DEF RecvFails, Leave, lists
  <2> QED
    BY <1>1, <2>1, NoMessageMoves DEF Looking
<1>9. ASSUME NEW t \in Thread, RecvRetry(t) PROVE NoStrandedReceiver'
  <2>1. CASE Take(t)
    BY <1>1, <2>1, TakerStops
  <2>2. CASE entry = 0 /\ WaitsAgain(t)
    BY <1>2, <2>2 DEF WaitsAgain, lists
  <2> QED
    BY <1>9, <2>1, <2>2, RetryWays
<1>10. ASSUME NEW t \in Thread, receivers' = Unlink(receivers, t)
       PROVE  /\ receivers = <<>> => receivers' = <<>>
              /\ \A u \in Thread : Suspended(u)' => Suspended(u)
  <2>1. Unlink(<<>>, t) = <<>>
    BY DEF Unlink, Linked
  <2> QED
    BY <1>10, <2>1, OneLeaves DEF Suspended
<1>11. ASSUME NEW t \in Thread, Timeout(t) PROVE NoStrandedReceiver'
  <2>1. /\ t \in timer /\ receivers' = Unlink(receivers, t) /\ pc' = pc
        /\ entry' = entry /\ kills' = kills
        /\ \A u \in Thread : u # t => error'[u] = error[u]
    BY <1>1, <1>11 DEF Timeout, lists
  <2>2. Looking \ {t} \subseteq Looking'
    BY <1>10, <2>1, LookersStay, {t} \in SUBSET Thread
  <2>3. t \notin Looking
    BY <2>1 DEF WaitInv, Looking, Resumed
  <2>4. Looking \subseteq Looking'
    BY <2>2, <2>3
  <2> QED
    BY <1>1, <1>10, <2>1, <2>4, EnoughLook
<1>12. ASSUME NEW t \in Thread, Signal(t) PROVE NoStrandedReceiver'
  <2>1. /\ receivers' = Unlink(receivers, t) /\ pc' = pc
        /\ entry' = entry /\ kills' = kills + 1
        /\ \E e : error' = [error EXCEPT ![t] = e]
    BY <1>12 DEF Signal, lists
  <2>2. \A u \in Thread : u # t => error'[u] = error[u]
    BY <1>1, <2>1
  <2>3. Looking \ {t} \subseteq Looking'
    BY <1>10, <2>1, <2>2, LookersStay, {t} \in SUBSET Thread
  <2> QED
    BY <1>1, <1>10, <2>1, <2>3, EnoughLook
<1>13. ASSUME NEW t \in Thread, Reset(t) PROVE NoStrandedReceiver'
  BY <1>13 DEF Reset, NoStrandedReceiver
<1>14. ASSUME NEW t \in Thread, ResumeAllTake(t) PROVE NoStrandedReceiver'
  <2>1. /\ pc[t] = "resume_one" /\ entry' = entry /\ kills' = kills
        /\ t \notin Looking
    BY <1>14 DEF ResumeAllTake, lists, Looking, Resumed
  <2>2. CASE receivers = <<>>
    BY <1>1, <1>14, <2>1, <2>2, NoMessageMoves DEF ResumeAllTake
  <2>3. CASE receivers # <<>>
    <3>1. PICK w \in Thread :
             /\ w = Head(receivers) /\ Suspended(w)
             /\ Once(Tail(receivers))
             /\ \A u : Linked(Tail(receivers), u)
                         <=> (Linked(receivers, u) /\ u # w)
      BY <2>3, HeadLeaves
    <3>2. /\ error' = [error EXCEPT ![w] = "ERROR"]
          /\ receivers' = Tail(receivers)
          /\ pc' = [pc EXCEPT ![t] = "resume_all"]
      BY <1>14, <2>3, <3>1 DEF ResumeAllTake
    <3>3. \A u \in Thread : Suspended(u)' => Suspended(u)
      BY <3>1, <3>2 DEF Suspended
    <3>4. Looking \ {t, w} \subseteq Looking'
      BY <1>1, <3>2, <3>3, LookersStay, {t, w} \in SUBSET Thread
    <3>5. Looking \subseteq Looking'
      BY <2>1, <3>1, <3>4 DEF Looking, Resumed
    <3> QED
      BY <1>1, <2>1, <2>3, <3>5, EnoughLook
  <2> QED
    BY <2>2, <2>3
<1>15. CASE UNCHANGED vars
  BY <1>15 DEF vars, NoStrandedReceiver, Looking, Resumed, Suspended
<1> QED
  BY <1>3, <1>4, <1>5, <1>6, <1>7, <1>8, <1>9, <1>11, <1>12, <1>13, <1>14,
     <1>15 DEF Next, Step

(* No message is stranded beside a suspended receiver: a send makes one    *)
(* receiver look for each message it links, a thread that overtakes takes  *)
(* as many as it removes, and only a signal to a receiver that was resumed *)
(* can lose one.                                                           *)
THEOREM NoReceiverStranded == Spec => []NoStrandedReceiver
<1> DEFINE Inv == WaitInv /\ StoreInv /\ NoStrandedReceiver
<1>1. Init => Inv
  BY InitWaitInv, InitStoreInv DEF Init, NoStrandedReceiver
<1>2. Inv /\ [Next]_vars => Inv'
  BY NextWaitInv, NextStoreInv, NextNoStranded DEF WaitInv
<1> QED
  BY <1>1, <1>2, PTL DEF Spec


------------------------------------------------------------------------------
(* The messages of the slots of s. *)
DataOf(d, s) == [i \in 1..Len(s) |-> d[s[i]]]

(* The state of the channel that a state of the queue stands for.          *)
Messages == [i \in 1..entry |-> data[Chain(msg_queue_head)[i - 1]]]
Sent(t) ==
    CASE pc[t] = "send" -> <<"filled", buffer[t]>>
      [] pc[t] = "urgent" -> <<"filled_urgent", buffer[t]>>
      [] pc[t] \in {"filled", "filled_urgent"} -> <<pc[t], data[msg[t]]>>
      [] OTHER -> <<>>
Read(t) ==
    CASE pc[t] = "taken" -> <<data[msg[t]]>>
      [] pc[t] = "copied" -> <<buffer[t]>>
      [] OTHER -> <<>>
Writing == [t \in Thread |-> Sent(t)]
Reading == [t \in Thread |-> Read(t)]

(* The messages of a chain form a sequence. *)
LEMMA DataElements ==
  ASSUME NEW s \in Seq(Slot), NEW d \in [Slot -> Message]
  PROVE  /\ DataOf(d, s) \in Seq(Message) /\ Len(DataOf(d, s)) = Len(s)
         /\ \A i \in 1..Len(s) : DataOf(d, s)[i] = d[s[i]]
         /\ DataOf(d, s) = <<>> <=> s = <<>>
<1>1. Len(s) \in Nat /\ \A i \in 1..Len(s) : s[i] \in Slot
  BY LenProperties, ElementOfSeq
<1>2. DataOf(d, s) \in [1..Len(s) -> Message]
  BY <1>1 DEF DataOf
<1>3. DataOf(d, s) \in Seq(Message) /\ Len(DataOf(d, s)) = Len(s)
  BY <1>1, <1>2, SeqDef, LenProperties
<1> QED
  BY <1>1, <1>2, <1>3, EmptySeq DEF DataOf

(* Operations on the slots are operations on their messages.               *)
LEMMA DataAppend ==
  ASSUME NEW s \in Seq(Slot), NEW d \in [Slot -> Message], NEW x \in Slot
  PROVE  DataOf(d, Append(s, x)) = Append(DataOf(d, s), d[x])
<1> DEFINE a == DataOf(d, Append(s, x))
           b == Append(DataOf(d, s), d[x])
           n == Len(s)
<1>1. /\ n \in Nat /\ Append(s, x) \in Seq(Slot) /\ Len(Append(s, x)) = n + 1
      /\ \A i \in 1..n : Append(s, x)[i] = s[i]
      /\ Append(s, x)[n + 1] = x
  BY LenProperties, AppendProperties
<1>2. /\ a \in Seq(Message) /\ Len(a) = n + 1
      /\ \A i \in 1..(n + 1) : a[i] = d[Append(s, x)[i]]
  BY <1>1, DataElements
<1>3. /\ DataOf(d, s) \in Seq(Message) /\ Len(DataOf(d, s)) = n
      /\ \A i \in 1..n : DataOf(d, s)[i] = d[s[i]]
      /\ d[x] \in Message
  BY DataElements
<1>4. /\ b \in Seq(Message) /\ Len(b) = n + 1
      /\ \A i \in 1..n : b[i] = DataOf(d, s)[i]
      /\ b[n + 1] = d[x]
  BY <1>3, AppendProperties
<1> HIDE DEF a, b, n
<1>5. \A i \in 1..(n + 1) : i \in 1..n \/ i = n + 1
  BY <1>1
<1>6. \A i \in 1..Len(a) : a[i] = b[i]
  BY <1>1, <1>2, <1>3, <1>4, <1>5
<1>7. a = b
  BY <1>2, <1>4, <1>6, SeqEqual
<1> QED
  BY <1>7 DEF a, b

(* The same for a slot linked before the first. *)
LEMMA DataPrepend ==
  ASSUME NEW s \in Seq(Slot), NEW d \in [Slot -> Message], NEW x \in Slot
  PROVE  DataOf(d, <<x>> \o s) = <<d[x]>> \o DataOf(d, s)
<1> DEFINE a == DataOf(d, <<x>> \o s)
           e == DataOf(d, s)
           b == <<d[x]>> \o e
           n == Len(s)
<1>1. /\ <<x>> \in Seq(Slot) /\ Len(<<x>>) = 1 /\ <<x>>[1] = x
      /\ <<d[x]>> \in Seq(Message) /\ Len(<<d[x]>>) = 1 /\ <<d[x]>>[1] = d[x]
  OBVIOUS
<1>2. /\ n \in Nat /\ <<x>> \o s \in Seq(Slot) /\ Len(<<x>> \o s) = 1 + n
      /\ \A i \in 1..(1 + n) :
           (<<x>> \o s)[i] = IF i <= 1 THEN <<x>>[i] ELSE s[i - 1]
  BY <1>1, LenProperties, ConcatProperties
<1>3. /\ a \in Seq(Message) /\ Len(a) = 1 + n
      /\ \A i \in 1..(1 + n) : a[i] = d[(<<x>> \o s)[i]]
  BY <1>2, DataElements
<1>4. /\ e \in Seq(Message) /\ Len(e) = n
      /\ \A i \in 1..n : e[i] = d[s[i]]
  BY DataElements
<1>5. /\ b \in Seq(Message) /\ Len(b) = 1 + n
      /\ \A i \in 1..(1 + n) :
           b[i] = IF i <= 1 THEN <<d[x]>>[i] ELSE e[i - 1]
  BY <1>1, <1>4, ConcatProperties
<1>6. ASSUME NEW i \in 1..(1 + n) PROVE a[i] = b[i]
  <2>1. CASE i = 1
    BY <1>1, <1>2, <1>3, <1>5, <2>1
  <2>2. CASE i # 1
    <3>1. i - 1 \in 1..n /\ ~(i <= 1)
      BY <1>2, <2>2
    <3> HIDE DEF a, b, e, n
    <3>2. a[i] = d[s[i - 1]]
      BY <1>2, <1>3, <3>1
    <3>3. b[i] = d[s[i - 1]]
      BY <1>4, <1>5, <3>1
    <3> QED
      BY <3>2, <3>3
  <2> QED
    BY <2>1, <2>2
<1> HIDE DEF a, b, n
<1>7. a = b
  BY <1>3, <1>5, <1>6, SeqEqual
<1> QED
  BY <1>7 DEF a, b

(* The same for the first slot that is unlinked. *)
LEMMA DataTail ==
  ASSUME NEW s \in Seq(Slot), NEW d \in [Slot -> Message], s # <<>>
  PROVE  /\ DataOf(d, s) # <<>>
         /\ DataOf(d, Tail(s)) = Tail(DataOf(d, s))
         /\ Head(DataOf(d, s)) = d[s[1]]
<1> DEFINE e == DataOf(d, s)
           a == DataOf(d, Tail(s))
           n == Len(s)
<1>1. /\ n \in Nat /\ n > 0 /\ Tail(s) \in Seq(Slot) /\ Len(Tail(s)) = n - 1
      /\ \A i \in 1..(n - 1) : Tail(s)[i] = s[i + 1]
  BY EmptySeq, HeadTailProperties
<1>2. /\ e \in Seq(Message) /\ Len(e) = n /\ e # <<>>
      /\ \A i \in 1..n : e[i] = d[s[i]]
  BY DataElements
<1>3. /\ Tail(e) \in Seq(Message) /\ Len(Tail(e)) = n - 1
      /\ \A i \in 1..(n - 1) : Tail(e)[i] = e[i + 1]
  BY <1>2, HeadTailProperties
<1>4. /\ a \in Seq(Message) /\ Len(a) = n - 1
      /\ \A i \in 1..(n - 1) : a[i] = d[Tail(s)[i]]
  BY <1>1, DataElements
<1>5. Head(e) = e[1] /\ 1 \in 1..n
  BY <1>1, <1>2
<1> HIDE DEF a, e, n
<1>6. \A i \in 1..(n - 1) : i + 1 \in 1..n
  BY <1>1
<1>7. \A i \in 1..Len(a) : a[i] = Tail(e)[i]
  BY <1>1, <1>2, <1>3, <1>4, <1>6
<1>8. a = Tail(e)
  BY <1>3, <1>4, <1>7, SeqEqual
<1> QED
  BY <1>2, <1>5, <1>8 DEF a, e

(* Bytes written into a slot that is not linked are not those of a message *)
(* of the queue.                                                           *)
LEMMA DataElsewhere ==
  ASSUME NEW s \in Seq(Slot), NEW d \in [Slot -> Message],
         NEW e \in [Slot -> Message],
         \A x : Linked(s, x) => e[x] = d[x]
  PROVE  DataOf(e, s) = DataOf(d, s)
BY DEF DataOf, Linked

(* The queue of the channel is read along the chain. *)
ReadAlong ==
  \A f, q : Stored(f, q) => /\ Messages = DataOf(data, q)
                            /\ q \in Seq(Slot) /\ data \in [Slot -> Message]

(* Every placement of the slots gives the same messages.                   *)
LEMMA MessagesRead == ReadAlong
<1> SUFFICES ASSUME NEW f, NEW q, Stored(f, q)
             PROVE  /\ Messages = DataOf(data, q)
                    /\ q \in Seq(Slot) /\ data \in [Slot -> Message]
  BY DEF ReadAlong
<1>1. /\ Represents(next, msg_queue_head, q) /\ q \in Seq(Slot)
      /\ Len(q) \in Nat /\ Len(q) <= MaxMsgs /\ entry = Len(q)
      /\ data \in [Slot -> Message]
  BY PlacedLengths DEF Stored, Placed, Represents
<1>2. \A k \in 0..MaxMsgs :
         Chain(msg_queue_head)[k] = IF k < Len(q) THEN q[k + 1] ELSE Null
  BY <1>1, ChainReads
<1> DEFINE c == Chain(msg_queue_head)
<1> HIDE DEF c
<1>3. ASSUME NEW i \in 1..Len(q) PROVE c[i - 1] = q[i]
  <2>1. i - 1 \in 0..MaxMsgs /\ i - 1 < Len(q) /\ (i - 1) + 1 = i
    BY <1>1, SizeAssumption
  <2> QED
    BY <1>2, <2>1 DEF c
<1>4. [i \in 1..entry |-> data[c[i - 1]]] = [i \in 1..Len(q) |-> data[q[i]]]
  BY <1>1, <1>3
<1> QED
  BY <1>1, <1>4 DEF Messages, DataOf, c


(* Who is sending, or reading. *)
Busy(w) == {t \in Thread : w[t] # <<>>}

(* Those who send and those who read have the slots that are in hand.      *)
LEMMA BusyAreInHand ==
  /\ \A t \in Thread :
       /\ Writing[t] = Sent(t) /\ Reading[t] = Read(t)
       /\ Sent(t) = <<>> <=> t \notin InHand \/ pc[t] \in {"taken", "copied"}
       /\ Read(t) = <<>> <=> pc[t] \notin {"taken", "copied"}
  /\ Cardinality(Busy(Writing)) \in Nat /\ Cardinality(Busy(Reading)) \in Nat
  /\ Cardinality(Busy(Writing)) + Cardinality(Busy(Reading))
       = Cardinality(InHand)
<1>1. ASSUME NEW t \in Thread
      PROVE  /\ Writing[t] = Sent(t) /\ Reading[t] = Read(t)
             /\ Sent(t) = <<>>
                  <=> t \notin InHand \/ pc[t] \in {"taken", "copied"}
             /\ Read(t) = <<>> <=> pc[t] \notin {"taken", "copied"}
  <2>1. Writing[t] = Sent(t) /\ Reading[t] = Read(t)
    BY DEF Writing, Reading
  <2>2. \A a, b : <<a, b>> # <<>> /\ <<a>> # <<>>
    OBVIOUS
  <2>3. Sent(t) = <<>> <=> t \notin InHand \/ pc[t] \in {"taken", "copied"}
    BY <2>2 DEF Sent, InHand
  <2>4. Read(t) = <<>> <=> pc[t] \notin {"taken", "copied"}
    BY <2>2 DEF Read
  <2> QED
    BY <2>1, <2>3, <2>4
<1> DEFINE W == Busy(Writing)
           R == Busy(Reading)
<1>2. W \union R = InHand /\ W \intersect R = {}
  BY <1>1 DEF Busy, InHand
<1>3. W \in SUBSET Thread /\ R \in SUBSET Thread
  BY DEF Busy
<1>4. IsFiniteSet(W) /\ IsFiniteSet(R)
  BY <1>3, ThreadAssumption, FS_Subset
<1> HIDE DEF W, R
<1>5. Cardinality(W) \in Nat /\ Cardinality(R) \in Nat
  BY <1>4, FS_CardinalityType
<1>6. Cardinality(W \union R)
        = Cardinality(W) + Cardinality(R) - Cardinality(W \intersect R)
  BY <1>4, FS_Union
<1>7. Cardinality(W \intersect R) = 0
  BY <1>2, FS_EmptySet
<1>8. Cardinality(W) + Cardinality(R) = Cardinality(InHand)
  <2>1. Cardinality(InHand) = Cardinality(W) + Cardinality(R) - 0
    BY <1>2, <1>6, <1>7
  <2> QED
    BY <1>5, <2>1
<1> QED
  BY <1>1, <1>5, <1>8 DEF W, R

(* Module MessageChannel counts as this one does. *)
LEMMA SameCount == \A S : Channel!Cardinality(S) = Cardinality(S)
BY DEF Channel!Cardinality, Cardinality

(* The steps of the channel in these terms. *)
LEMMA ChannelReserves ==
  ASSUME NEW t \in Thread, NEW how \in {"filled", "filled_urgent"},
         NEW v \in Message, Writing[t] = <<>>, Reading[t] = <<>>,
         Len(Messages) + Cardinality(Busy(Writing))
           + Cardinality(Busy(Reading)) < MaxMsgs,
         Writing' = [Writing EXCEPT ![t] = <<how, v>>],
         Messages' = Messages, Reading' = Reading
  PROVE  Channel!Next
<1>0. Len(Messages) + Channel!Cardinality(Busy(Writing))
        + Channel!Cardinality(Busy(Reading)) < MaxMsgs
  BY SameCount
<1>1. Channel!Reserve(t, how, v)
  BY <1>0 DEF Channel!Reserve, Channel!Idle, Channel!Busy, Busy, Messages,
              Writing, Reading, Sent, Read
<1> QED
  BY <1>1 DEF Channel!Next

(* A message is linked. *)
LEMMA ChannelEnters ==
  ASSUME NEW t \in Thread, Writing[t] # <<>>,
         Messages' = IF Writing[t][1] = "filled_urgent"
                     THEN <<Writing[t][2]>> \o Messages
                     ELSE Append(Messages, Writing[t][2]),
         Writing' = [Writing EXCEPT ![t] = <<>>], Reading' = Reading
  PROVE  Channel!Next
<1>1. Channel!Enter(t)
  BY DEF Channel!Enter, Messages, Writing, Reading, Sent, Read
<1> QED
  BY <1>1 DEF Channel!Next

(* A message is taken. *)
LEMMA ChannelLeaves ==
  ASSUME NEW t \in Thread, Writing[t] = <<>>, Reading[t] = <<>>,
         Messages # <<>>, Messages' = Tail(Messages),
         Reading' = [Reading EXCEPT ![t] = <<Head(Messages)>>],
         Writing' = Writing
  PROVE  Channel!Next
<1>1. Channel!Leave(t)
  BY DEF Channel!Leave, Channel!Idle, Messages, Writing, Reading, Sent, Read
<1> QED
  BY <1>1 DEF Channel!Next

(* A message has been read. *)
LEMMA ChannelGivesBack ==
  ASSUME NEW t \in Thread, Reading[t] # <<>>,
         Reading' = [Reading EXCEPT ![t] = <<>>],
         Messages' = Messages, Writing' = Writing
  PROVE  Channel!Next
<1>1. Channel!GiveBack(t)
  BY DEF Channel!GiveBack, Messages, Writing, Reading, Sent, Read
<1> QED
  BY <1>1 DEF Channel!Next

(* The queue is emptied. *)
LEMMA ChannelResets ==
  ASSUME Messages' = <<>>, Writing' = Writing, Reading' = Reading
  PROVE  Channel!Next
BY DEF Channel!Next, Channel!Reset, Messages, Writing, Reading, Sent, Read


(* The queue of the channel after a step. *)
LEMMA MessagesReadNext ==
  \A f, q : Stored(f, q)' => /\ Messages' = DataOf(data', q)
                             /\ q \in Seq(Slot) /\ data' \in [Slot -> Message]
<1>1. ReadAlong'
  BY MessagesRead, PTL
<1> QED
  BY <1>1 DEF ReadAlong

(* What one thread sends or reads changes, and nothing else does.          *)
LEMMA OneMoves ==
  ASSUME NEW t \in Thread, NEW a, NEW b, Sent(t)' = a, Read(t)' = b,
         \A u \in Thread : u # t => Sent(u)' = Sent(u) /\ Read(u)' = Read(u)
  PROVE  /\ Writing' = [Writing EXCEPT ![t] = a]
         /\ Reading' = [Reading EXCEPT ![t] = b]
         /\ Sent(t) = a => Writing' = Writing
         /\ Read(t) = b => Reading' = Reading
BY DEF Writing, Reading

(* A thread that keeps its place, and its slot if it has one, sends and    *)
(* reads what it did.                                                      *)
LEMMA OthersKeep ==
  ASSUME NEW u \in Thread,
         \/ u \notin InHand /\ u \notin InHand'
         \/ /\ pc'[u] = pc[u] /\ msg'[u] = msg[u] /\ buffer'[u] = buffer[u]
            /\ data'[msg[u]] = data[msg[u]]
  PROVE  Sent(u)' = Sent(u) /\ Read(u)' = Read(u)
<1>1. CASE u \notin InHand /\ u \notin InHand'
  <2>1. Sent(u) = <<>> /\ Read(u) = <<>>
    BY <1>1 DEF InHand, Sent, Read
  <2>2. Sent(u)' = <<>> /\ Read(u)' = <<>>
    BY <1>1 DEF InHand, Sent, Read
  <2> QED
    BY <2>1, <2>2
<1>2. CASE /\ pc'[u] = pc[u] /\ msg'[u] = msg[u] /\ buffer'[u] = buffer[u]
           /\ data'[msg[u]] = data[msg[u]]
  BY <1>2 DEF Sent, Read
<1> QED
  BY <1>1, <1>2

(* rt_mq_send, rt_mq_urgent: a free slot means that the channel has room.  *)
LEMMA SendTakeSlotChannel ==
  ASSUME ControlOK, NEW f, NEW q, Stored(f, q),
         NEW t \in Thread, NEW v \in Message, NEW how \in {"send", "urgent"},
         SendTakeSlot(t, v, how)
  PROVE  Channel!Next
<1>1. /\ pc[t] = "idle" /\ msg_queue_free # Null
      /\ msg' = [msg EXCEPT ![t] = msg_queue_free]
      /\ buffer' = [buffer EXCEPT ![t] = v]
      /\ pc' = [pc EXCEPT ![t] = how] /\ data' = data
  BY DEF SendTakeSlot, Goto
<1>2. DOMAIN pc = Thread /\ DOMAIN msg = Thread /\ DOMAIN buffer = Thread
  BY DEF ControlOK, Stored
<1>3. Stored(Tail(f), q)'
  BY <1>2, SendTakeSlotStore
<1>4. Messages = DataOf(data, q) /\ Messages' = DataOf(data', q)
      /\ q \in Seq(Slot) /\ data \in [Slot -> Message]
  BY <1>3, MessagesRead, MessagesReadNext DEF ReadAlong
<1>5. Messages' = Messages /\ Len(Messages) = Len(q)
  BY <1>1, <1>4, DataElements
<1>6. PICK kind \in {"filled", "filled_urgent"} :
         kind = IF how = "send" THEN "filled" ELSE "filled_urgent"
  OBVIOUS
<1>7. Sent(t)' = <<kind, v>> /\ Read(t)' = <<>>
  <2>1. pc'[t] = how /\ buffer'[t] = v
    BY <1>1, <1>2
  <2> QED
    BY <1>6, <2>1 DEF Sent, Read
<1>8. Writing[t] = <<>> /\ Reading[t] = <<>> /\ Read(t) = <<>>
  BY <1>1, BusyAreInHand DEF InHand
<1>9. \A u \in Thread : u # t => Sent(u)' = Sent(u) /\ Read(u)' = Read(u)
  BY <1>1, <1>2, OthersKeep
<1>10. Writing' = [Writing EXCEPT ![t] = <<kind, v>>] /\ Reading' = Reading
  BY <1>7, <1>8, <1>9, OneMoves
<1>11. Len(Messages) + Cardinality(Busy(Writing))
         + Cardinality(Busy(Reading)) < MaxMsgs
  <2>1. Placed(next, msg_queue_free, msg_queue_head, msg_queue_tail,
               f, q, InHand, msg)
    BY DEF Stored
  <2>2. Len(f) > 0
    BY <1>1, <2>1, ChainBegins DEF Placed
  <2>3. /\ Len(f) \in Nat /\ Len(q) \in Nat /\ Cardinality(InHand) \in Nat
        /\ Len(f) + Len(q) + Cardinality(InHand) = MaxMsgs
    BY <2>1, PlacedLengths DEF Placed
  <2>4. Len(q) + Cardinality(InHand) < MaxMsgs
    BY <2>2, <2>3
  <2> QED
    BY <1>5, <2>3, <2>4, BusyAreInHand
<1> QED
  BY <1>5, <1>8, <1>10, <1>11, ChannelReserves

(* The copy into the slot writes what is being sent where no one else      *)
(* reads.                                                                  *)
LEMMA SendCopyChannel ==
  ASSUME ControlOK, NEW f, NEW q, Stored(f, q), NEW t \in Thread, SendCopy(t)
  PROVE  Messages' = Messages /\ Writing' = Writing /\ Reading' = Reading
<1>1. /\ pc[t] \in {"send", "urgent"}
      /\ data' = [data EXCEPT ![msg[t]] = buffer[t]]
      /\ pc' = [pc EXCEPT ![t] = IF pc[t] = "send" THEN "filled"
                                 ELSE "filled_urgent"]
      /\ msg' = msg /\ buffer' = buffer
  BY DEF SendCopy, Goto
<1>2. DOMAIN pc = Thread /\ t \in InHand
  BY <1>1 DEF ControlOK, InHand
<1>3. Stored(f, q)'
  BY <1>2, SendCopyStore
<1>4. Messages = DataOf(data, q) /\ Messages' = DataOf(data', q)
      /\ q \in Seq(Slot) /\ data \in [Slot -> Message]
      /\ data' \in [Slot -> Message]
  BY <1>3, MessagesRead, MessagesReadNext DEF ReadAlong
<1>5. /\ msg[t] \in Slot /\ ~Linked(q, msg[t])
      /\ \A u \in InHand : u # t => msg[u] # msg[t] /\ msg[u] \in Slot
  BY <1>2 DEF Stored, Placed
<1>6. \A x : x # msg[t] => data'[x] = data[x]
  BY <1>1, <1>4, <1>5
<1>7. Messages' = Messages
  BY <1>4, <1>5, <1>6, DataElsewhere
<1>8. \A u \in Thread : u # t => Sent(u)' = Sent(u) /\ Read(u)' = Read(u)
  <2> SUFFICES ASSUME NEW u \in Thread, u # t
               PROVE  Sent(u)' = Sent(u) /\ Read(u)' = Read(u)
    OBVIOUS
  <2>1. pc'[u] = pc[u]
    BY <1>1, <1>2
  <2>2. u \in InHand => data'[msg[u]] = data[msg[u]]
    BY <1>5, <1>6
  <2>3. u \notin InHand => u \notin InHand'
    BY <2>1 DEF InHand
  <2> QED
    BY <1>1, <2>1, <2>2, <2>3, OthersKeep
<1>9. Sent(t)' = Sent(t) /\ Read(t)' = Read(t)
  <2>1. pc'[t] = IF pc[t] = "send" THEN "filled" ELSE "filled_urgent"
    BY <1>1, <1>2
  <2>2. data'[msg'[t]] = buffer[t]
    BY <1>1, <1>4, <1>5
  <2> QED
    BY <1>1, <2>1, <2>2 DEF Sent, Read
<1>10. Writing' = Writing /\ Reading' = Reading
  BY <1>8, <1>9, OneMoves
<1> QED
  BY <1>7, <1>10

(* A call ends: the other threads send and read what they did.             *)
LEMMA LeaveChannel ==
  ASSUME ControlOK, NEW f, NEW q, Stored(f, q), NEW t \in Thread, Leave(t),
         data' = data
  PROVE  /\ Sent(t)' = <<>> /\ Read(t)' = <<>>
         /\ \A u \in Thread : u # t => /\ Sent(u)' = Sent(u)
                                       /\ Read(u)' = Read(u)
<1>1. /\ InHand' = InHand \ {t}
      /\ \A u \in Thread : u # t => /\ msg'[u] = msg[u] /\ pc'[u] = pc[u]
                                    /\ buffer'[u] = buffer[u]
      /\ pc'[t] = "idle"
  BY LeaveStore DEF ControlOK
<1>2. Sent(t)' = <<>> /\ Read(t)' = <<>>
  BY <1>1 DEF Sent, Read
<1> QED
  BY <1>1, <1>2, OthersKeep

(* A message is linked behind the others or, when it is urgent, before     *)
(* them.                                                                   *)
LEMMA LinkChannel ==
  ASSUME ControlOK, NEW f, NEW q, Stored(f, q), NEW t \in Thread,
         SendLink(t) \/ UrgentLink(t)
  PROVE  Channel!Next
<1>1. /\ pc[t] \in {"filled", "filled_urgent"} /\ Leave(t) /\ data' = data
  BY DEF SendLink, UrgentLink
<1>2. PICK x : x = msg[t]
  OBVIOUS
<1>3. t \in InHand /\ x \in Slot /\ DOMAIN pc = Thread
  BY <1>1, <1>2 DEF InHand, Stored, Placed, ControlOK
<1>4. /\ Messages = DataOf(data, q) /\ q \in Seq(Slot)
      /\ data \in [Slot -> Message]
  BY MessagesRead DEF ReadAlong
<1>5. /\ Writing[t] = <<pc[t], data[x]>> /\ Writing[t] # <<>>
      /\ Read(t) = <<>>
  <2>1. Writing[t] = Sent(t) /\ Sent(t) # <<>> /\ Read(t) = <<>>
    BY <1>1, <1>3, BusyAreInHand
  <2>2. Sent(t) = <<pc[t], data[x]>>
    BY <1>1, <1>2 DEF Sent
  <2> QED
    BY <2>1, <2>2
<1>6. Writing' = [Writing EXCEPT ![t] = <<>>] /\ Reading' = Reading
  BY <1>1, <1>5, LeaveChannel, OneMoves
<1>7. Writing[t][1] = pc[t] /\ Writing[t][2] = data[x]
  BY <1>5
<1>8. CASE SendLink(t)
  <2>1. Stored(f, Append(q, x))' /\ pc[t] = "filled"
    BY <1>2, <1>3, <1>8, SendLinkStore DEF SendLink
  <2>2. Messages' = DataOf(data, Append(q, x))
    BY <1>1, <2>1, MessagesReadNext
  <2>3. Messages' = Append(Messages, data[x])
    BY <1>3, <1>4, <2>2, DataAppend
  <2> QED
    BY <1>5, <1>6, <1>7, <2>1, <2>3, ChannelEnters
<1>9. CASE UrgentLink(t)
  <2>1. Stored(f, <<x>> \o q)' /\ pc[t] = "filled_urgent"
    BY <1>2, <1>3, <1>9, UrgentLinkStore DEF UrgentLink
  <2>2. Messages' = DataOf(data, <<x>> \o q)
    BY <1>1, <2>1, MessagesReadNext
  <2>3. Messages' = <<data[x]>> \o Messages
    BY <1>3, <1>4, <2>2, DataPrepend
  <2> QED
    BY <1>5, <1>6, <1>7, <2>1, <2>3, ChannelEnters
<1> QED
  BY <1>8, <1>9


(* A receiver takes the first message. *)
LEMMA TakeChannel ==
  ASSUME ControlOK, NEW f, NEW q, Stored(f, q),
         NEW t \in Thread, pc[t] \notin Holding, entry # 0, Take(t)
  PROVE  Channel!Next
<1>1. /\ msg' = [msg EXCEPT ![t] = msg_queue_head]
      /\ pc' = [pc EXCEPT ![t] = "taken"] /\ data' = data /\ buffer' = buffer
  BY DEF Take, Goto
<1>2. /\ DOMAIN pc = Thread /\ DOMAIN msg = Thread /\ t \notin InHand
      /\ pc[t] \notin {"taken", "copied"}
  BY DEF ControlOK, Stored, InHand, Holding
<1>3. Stored(f, Tail(q))' /\ q # <<>>
  BY <1>2, TakeStore
<1>4. /\ Messages = DataOf(data, q) /\ q \in Seq(Slot)
      /\ data \in [Slot -> Message] /\ Messages' = DataOf(data, Tail(q))
  BY <1>1, <1>3, MessagesRead, MessagesReadNext DEF ReadAlong
<1>5. msg_queue_head = q[1]
  <2>1. Represents(next, msg_queue_head, q)
    BY DEF Stored, Placed
  <2> QED
    BY <1>3, <2>1, ChainBegins
<1>6. /\ Messages # <<>> /\ Messages' = Tail(Messages)
      /\ Head(Messages) = data[msg_queue_head]
  BY <1>3, <1>4, <1>5, DataTail
<1>7. /\ Writing[t] = <<>> /\ Reading[t] = <<>> /\ Sent(t) = <<>>
  BY <1>2, BusyAreInHand
<1>8. Sent(t)' = <<>> /\ Read(t)' = <<Head(Messages)>>
  <2>1. pc'[t] = "taken" /\ msg'[t] = msg_queue_head
    BY <1>1, <1>2
  <2> QED
    BY <1>1, <1>6, <2>1 DEF Sent, Read
<1>9. \A u \in Thread : u # t => Sent(u)' = Sent(u) /\ Read(u)' = Read(u)
  BY <1>1, <1>2, OthersKeep
<1>10. /\ Writing' = Writing
       /\ Reading' = [Reading EXCEPT ![t] = <<Head(Messages)>>]
  BY <1>7, <1>8, <1>9, OneMoves
<1> QED
  BY <1>6, <1>7, <1>10, ChannelLeaves

(* The copy out of the slot reads the message that was taken.              *)
LEMMA RecvCopyChannel ==
  ASSUME ControlOK, NEW f, NEW q, Stored(f, q), NEW t \in Thread, RecvCopy(t)
  PROVE  Messages' = Messages /\ Writing' = Writing /\ Reading' = Reading
<1>1. /\ pc[t] = "taken" /\ data' = data /\ msg' = msg
      /\ buffer' = [buffer EXCEPT ![t] = data[msg[t]]]
      /\ pc' = [pc EXCEPT ![t] = "copied"]
  BY DEF RecvCopy, Goto
<1>2. DOMAIN pc = Thread /\ DOMAIN buffer = Thread
  BY DEF ControlOK, Stored
<1>3. Stored(f, q)'
  BY <1>2, RecvCopyStore
<1>4. Messages' = Messages
  BY <1>1, <1>3, MessagesRead, MessagesReadNext DEF ReadAlong
<1>5. \A u \in Thread : u # t => Sent(u)' = Sent(u) /\ Read(u)' = Read(u)
  BY <1>1, <1>2, OthersKeep
<1>6. Sent(t)' = Sent(t) /\ Read(t)' = Read(t)
  <2>1. pc'[t] = "copied" /\ buffer'[t] = data[msg[t]]
    BY <1>1, <1>2
  <2> QED
    BY <1>1, <2>1 DEF Sent, Read
<1>7. Writing' = Writing /\ Reading' = Reading
  BY <1>5, <1>6, OneMoves
<1> QED
  BY <1>4, <1>7

(* The slot that was read is free. *)
LEMMA RecvFreeSlotChannel ==
  ASSUME ControlOK, NEW f, NEW q, Stored(f, q), NEW t \in Thread,
         RecvFreeSlot(t)
  PROVE  Channel!Next
<1>1. pc[t] = "copied" /\ Leave(t) /\ data' = data
  BY DEF RecvFreeSlot
<1>2. DOMAIN pc = Thread /\ t \in InHand
  BY <1>1 DEF ControlOK, InHand
<1>3. PICK x : x = msg[t]
  OBVIOUS
<1>4. Stored(<<x>> \o f, q)'
  BY <1>2, <1>3, RecvFreeSlotStore
<1>5. Messages' = Messages
  BY <1>1, <1>4, MessagesRead, MessagesReadNext DEF ReadAlong
<1>6. Reading[t] # <<>> /\ Sent(t) = <<>>
  BY <1>1, <1>2, BusyAreInHand
<1>7. Writing' = Writing /\ Reading' = [Reading EXCEPT ![t] = <<>>]
  BY <1>1, <1>6, LeaveChannel, OneMoves
<1> QED
  BY <1>5, <1>6, <1>7, ChannelGivesBack

(* A reset empties the channel and leaves those in a call alone.           *)
LEMMA ResetChannel ==
  ASSUME NEW f, NEW q, Stored(f, q), NEW t \in Thread, Reset(t)
  PROVE  Channel!Next
<1>1. UNCHANGED <<data, pc, msg, buffer>>
  BY DEF Reset
<1>2. Stored(Moved(q, f), <<>>)'
  BY ResetStore
<1>3. Messages' = DataOf(data', <<>>) /\ data' \in [Slot -> Message]
  BY <1>2, MessagesReadNext
<1>4. Messages' = <<>>
  BY <1>3, EmptySeq, DataElements
<1>5. Writing' = Writing /\ Reading' = Reading
  BY <1>1 DEF Writing, Reading, Sent, Read
<1> QED
  BY <1>4, <1>5, ChannelResets

(* The steps of threads without a slot are none of the channel.            *)
LEMMA QuietChannel ==
  ASSUME NEW f, NEW q, Stored(f, q), Quiet
  PROVE  Messages' = Messages /\ Writing' = Writing /\ Reading' = Reading
<1>1. Messages' = Messages
  <2>1. next' = next /\ entry' = entry /\ msg_queue_head' = msg_queue_head
        /\ data' = data
    BY DEF Quiet, lists
  <2>2. Chain(msg_queue_head)' = Chain(msg_queue_head)
    BY <2>1 DEF Chain
  <2> QED
    BY <2>1, <2>2 DEF Messages
<1>2. ASSUME NEW u \in Thread
      PROVE  Sent(u)' = Sent(u) /\ Read(u)' = Read(u)
  <2>1. CASE u \in InHand
    BY <2>1, OthersKeep DEF Quiet
  <2>2. CASE u \notin InHand
    BY <2>2, OthersKeep DEF Quiet
  <2> QED
    BY <2>1, <2>2
<1>3. Writing' = Writing /\ Reading' = Reading
  BY <1>2 DEF Writing, Reading
<1> QED
  BY <1>1, <1>3

(* Every step of the queue is a step of the channel or changes nothing of  *)
(* it.                                                                     *)
LEMMA StepIsChannelStep ==
  ASSUME ControlOK, StoreInv, [Next]_vars
  PROVE  Channel!Next \/ UNCHANGED <<Messages, Writing, Reading>>
<1>1. PICK f, q : Stored(f, q)
  BY DEF StoreInv
<1>2. ASSUME NEW t \in Thread, NEW v \in Message,
             NEW how \in {"send", "urgent"}, SendTakeSlot(t, v, how)
      PROVE  Channel!Next
  BY <1>1, <1>2, SendTakeSlotChannel
<1>3. ASSUME NEW t \in Thread, pc[t] \notin Holding, entry # 0, Take(t)
      PROVE  Channel!Next
  BY <1>1, <1>3, TakeChannel
<1>4. ASSUME NEW t \in Thread, SendCopy(t) \/ RecvCopy(t)
      PROVE  UNCHANGED <<Messages, Writing, Reading>>
  BY <1>1, <1>4, SendCopyChannel, RecvCopyChannel
<1>5. ASSUME NEW t \in Thread,
             SendLink(t) \/ UrgentLink(t) \/ RecvFreeSlot(t) \/ Reset(t)
      PROVE  Channel!Next
  BY <1>1, <1>5, LinkChannel, RecvFreeSlotChannel, ResetChannel
<1>6. ASSUME Quiet PROVE UNCHANGED <<Messages, Writing, Reading>>
  BY <1>1, <1>6, QuietChannel
<1> QED
  BY <1>1, <1>2, <1>3, <1>4, <1>5, <1>6, StoreSteps

(* The queue with its chains of slots, whose messages are copied with the  *)
(* interrupts enabled, is a channel of at most MaxMsgs messages: each one  *)
(* is delivered once, in the order in which it was linked and with the     *)
(* bytes that were sent, whoever else sends, receives, times out, resets   *)
(* or detaches the queue meanwhile.                                        *)
THEOREM QueueImplementsChannel == Spec => ImplementsChannel
<1> DEFINE Inv == ControlOK /\ StoreInv
           state == <<Messages, Writing, Reading>>
<1>1. Init => Inv
  BY InitWaitInv, InitStoreInv DEF WaitInv
<1>2. Inv /\ [Next]_vars => Inv'
  BY NextControlOK, NextStoreInv
<1>3. Init => Channel!Init
  <2> SUFFICES ASSUME Init
               PROVE  /\ Messages = <<>>
                      /\ Writing = [t \in Thread |-> <<>>]
                      /\ Reading = [t \in Thread |-> <<>>]
    BY DEF Channel!Init, Messages, Writing, Reading, Sent, Read
  <2>1. Writing = [t \in Thread |-> <<>>] /\ Reading = [t \in Thread |-> <<>>]
    BY DEF Init, Writing, Reading, Sent, Read
  <2>2. Messages = <<>>
    <3>1. PICK f, q : Stored(f, q)
      BY <1>1 DEF StoreInv
    <3>2. entry = 0 /\ entry = Len(q)
      BY <3>1 DEF Init, Stored
    <3>3. Messages = DataOf(data, q) /\ q \in Seq(Slot)
          /\ data \in [Slot -> Message]
      BY <3>1, MessagesRead DEF ReadAlong
    <3> QED
      BY <3>2, <3>3, EmptySeq, DataElements
  <2> QED
    BY <2>1, <2>2
<1>4. Inv /\ [Next]_vars => [Channel!Next]_state
  BY StepIsChannelStep
<1>5. [Channel!Next]_state
        => [Channel!Next]_<<[i \in 1..entry |->
                               data[Chain(msg_queue_head)[i - 1]]],
                            [t \in Thread |->
                               CASE pc[t] = "send" -> <<"filled", buffer[t]>>
                                 [] pc[t] = "urgent" ->
                                      <<"filled_urgent", buffer[t]>>
                                 [] pc[t] \in {"filled", "filled_urgent"} ->
                                      <<pc[t], data[msg[t]]>>
                                 [] OTHER -> <<>>],
                            [t \in Thread |->
                               CASE pc[t] = "taken" -> <<data[msg[t]]>>
                                 [] pc[t] = "copied" -> <<buffer[t]>>
                                 [] OTHER -> <<>>]>>
  BY DEF Messages, Writing, Reading, Sent, Read
<1> QED
  BY <1>1, <1>2, <1>3, <1>4, <1>5, PTL
     DEF Spec, ImplementsChannel, Channel!Spec
==============================================================================
