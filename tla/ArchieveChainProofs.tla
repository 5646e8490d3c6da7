------------------------- MODULE ArchieveChainProofs -------------------------
(***************************************************************************)
(* Theorems of ArchieveChain, for any tenants, queue depth and number of   *)
(* events.  A step acts on one tenant's line, the delivered events with    *)
(* the queued ones behind them: Log appends to it, DeliverOne permutes it, *)
(* Restart leaves it alone.  The lemmas of the first part say so, the      *)
(* invariants of the second part follow from them, and the third shows     *)
(* that the chain implements EventLog.                                     *)
(***************************************************************************)
EXTENDS ArchieveChain, SequenceTheorems, TLAPS

(***************************************************************************)
(* Sequences                                                               *)
(***************************************************************************)
\* The line of two sequences holds the elements of both, in order.
LEMMA LineElements ==
  ASSUME NEW S, NEW d \in Seq(S), NEW q \in Seq(S)
  PROVE  /\ d \o q \in Seq(S)
         /\ Len(d \o q) = Len(d) + Len(q)
         /\ DOMAIN (d \o q) = 1..(Len(d) + Len(q))
         /\ \A i \in 1..Len(d) : (d \o q)[i] = d[i]
         /\ \A i \in 1..Len(q) : (d \o q)[Len(d) + i] = q[i]
<1>1. d \o q \in Seq(S) /\ Len(d \o q) = Len(d) + Len(q)
  BY ConcatProperties
<1>2. \A i \in 1..(Len(d) + Len(q)) : (d \o q)[i] = IF i <= Len(d) THEN d[i] ELSE q[i - Len(d)]
  BY ConcatProperties
<1>3. Len(d) \in Nat /\ Len(q) \in Nat
  BY LenProperties
<1>4. DOMAIN (d \o q) = 1..(Len(d) + Len(q))
  BY <1>1, LenProperties
<1> QED
  BY <1>1, <1>2, <1>3, <1>4

\* Appending to the queue appends to the line.
LEMMA LineAppend ==
  ASSUME NEW S, NEW d \in Seq(S), NEW q \in Seq(S), NEW e \in S
  PROVE  d \o Append(q, e) = Append(d \o q, e)
<1>1. Append(q, e) \in Seq(S) /\ Len(Append(q, e)) = Len(q) + 1
      /\ (\A i \in 1..Len(q) : Append(q, e)[i] = q[i]) /\ Append(q, e)[Len(q) + 1] = e
  BY AppendProperties
<1>2. d \o q \in Seq(S) /\ Len(d \o q) = Len(d) + Len(q)
      /\ (\A i \in 1..Len(d) + Len(q) : (d \o q)[i] = IF i <= Len(d) THEN d[i] ELSE q[i - Len(d)])
  BY ConcatProperties
<1>3. d \o Append(q, e) \in Seq(S) /\ Len(d \o Append(q, e)) = Len(d) + Len(q) + 1
      /\ (\A i \in 1..Len(d) + Len(q) + 1 :
            (d \o Append(q, e))[i] = IF i <= Len(d) THEN d[i] ELSE Append(q, e)[i - Len(d)])
  BY <1>1, ConcatProperties, LenProperties
<1>4. Append(d \o q, e) \in Seq(S) /\ Len(Append(d \o q, e)) = Len(d) + Len(q) + 1
      /\ (\A i \in 1..Len(d) + Len(q) : Append(d \o q, e)[i] = (d \o q)[i])
      /\ Append(d \o q, e)[Len(d) + Len(q) + 1] = e
  BY <1>2, AppendProperties
<1>5. Len(d) \in Nat /\ Len(q) \in Nat
  BY LenProperties
<1>6. ASSUME NEW i \in 1..Len(d) + Len(q) + 1
      PROVE  (d \o Append(q, e))[i] = Append(d \o q, e)[i]
  BY <1>1, <1>2, <1>3, <1>4, <1>5
<1> QED
  BY <1>3, <1>4, <1>6, SeqEqual

\* RemoveAt drops one entry and shifts the ones behind it.
LEMMA RemoveAtElements ==
  ASSUME NEW S, NEW q \in Seq(S), NEW i \in 1..Len(q)
  PROVE  /\ RemoveAt(q, i) \in Seq(S)
         /\ Len(RemoveAt(q, i)) = Len(q) - 1
         /\ \A j \in 1..(Len(q) - 1) : RemoveAt(q, i)[j] = IF j < i THEN q[j] ELSE q[j + 1]
<1> DEFINE left == SubSeq(q, 1, i - 1)
           right == SubSeq(q, i + 1, Len(q))
<1>1. Len(q) \in Nat /\ \A j \in 1..Len(q) : q[j] \in S
  BY LenProperties, ElementOfSeq
<1>2. left \in Seq(S) /\ Len(left) = i - 1 /\ \A j \in 1..(i - 1) : left[j] = q[j]
  <2>1. \A j \in 1..(i - 1) : q[j] \in S
    BY <1>1
  <2> QED
    BY <1>1, <2>1, SubSeqProperties
<1>3. right \in Seq(S) /\ Len(right) = Len(q) - i /\ \A j \in 1..(Len(q) - i) : right[j] = q[i + j]
  <2>1. \A j \in (i + 1)..Len(q) : q[j] \in S
    BY <1>1
  <2>2. /\ right \in Seq(S)
        /\ Len(right) = IF i + 1 <= Len(q) THEN Len(q) - (i + 1) + 1 ELSE 0
        /\ \A j \in 1..(Len(q) - (i + 1) + 1) : right[j] = q[i + 1 + j - 1]
    BY <1>1, <2>1, SubSeqProperties
  <2> QED
    BY <1>1, <2>2
<1>4. RemoveAt(q, i) = left \o right
  BY DEF RemoveAt
<1> HIDE DEF left, right
<1>5. /\ left \o right \in Seq(S)
      /\ Len(left \o right) = Len(left) + Len(right)
      /\ \A j \in 1..Len(left) + Len(right) :
           (left \o right)[j] = IF j <= Len(left) THEN left[j] ELSE right[j - Len(left)]
  BY <1>2, <1>3, ConcatProperties
<1>6. ASSUME NEW j \in 1..(Len(q) - 1)
      PROVE  (left \o right)[j] = IF j < i THEN q[j] ELSE q[j + 1]
  BY <1>1, <1>2, <1>3, <1>5
<1> QED
  BY <1>1, <1>2, <1>3, <1>4, <1>5, <1>6

\* Where entry k of the line stood before entry i of the queue was delivered.
Source(n, i, k) == IF k <= n THEN k ELSE IF k = n + 1 THEN n + i ELSE IF k <= n + i THEN k - 1 ELSE k

\* Delivering an entry permutes the line, and delivering the oldest leaves it.
LEMMA LineDelivery ==
  ASSUME NEW S, NEW d \in Seq(S), NEW q \in Seq(S), NEW i \in 1..Len(q)
  PROVE  LET before == d \o q
             after == Append(d, q[i]) \o RemoveAt(q, i)
         IN /\ after \in Seq(S)
            /\ Len(after) = Len(before)
            /\ \A k \in 1..Len(before) : after[k] = before[Source(Len(d), i, k)]
            /\ i = 1 => after = before
<1> DEFINE before == d \o q
           after == Append(d, q[i]) \o RemoveAt(q, i)
<1>1. Len(d) \in Nat /\ Len(q) \in Nat /\ q[i] \in S
  BY LenProperties, ElementOfSeq
<1>2. /\ before \in Seq(S) /\ Len(before) = Len(d) + Len(q)
      /\ \A k \in 1..Len(d) : before[k] = d[k]
      /\ \A k \in 1..Len(q) : before[Len(d) + k] = q[k]
  BY LineElements
<1>3. /\ Append(d, q[i]) \in Seq(S) /\ Len(Append(d, q[i])) = Len(d) + 1
      /\ \A k \in 1..Len(d) : Append(d, q[i])[k] = d[k]
      /\ Append(d, q[i])[Len(d) + 1] = q[i]
  BY <1>1, AppendProperties
<1>4. /\ RemoveAt(q, i) \in Seq(S) /\ Len(RemoveAt(q, i)) = Len(q) - 1
      /\ \A k \in 1..(Len(q) - 1) : RemoveAt(q, i)[k] = IF k < i THEN q[k] ELSE q[k + 1]
  BY RemoveAtElements
<1>5. /\ after \in Seq(S) /\ Len(after) = Len(d) + 1 + Len(q) - 1
      /\ \A k \in 1..(Len(d) + 1) : after[k] = Append(d, q[i])[k]
      /\ \A k \in 1..(Len(q) - 1) : after[Len(d) + 1 + k] = RemoveAt(q, i)[k]
  <2>1. \A a, b \in Seq(S) :
          /\ a \o b \in Seq(S)
          /\ Len(a \o b) = Len(a) + Len(b)
          /\ \A k \in 1..Len(a) : (a \o b)[k] = a[k]
          /\ \A k \in 1..Len(b) : (a \o b)[Len(a) + k] = b[k]
    BY LineElements
  <2>2. /\ after \in Seq(S)
        /\ Len(after) = Len(Append(d, q[i])) + Len(RemoveAt(q, i))
        /\ \A k \in 1..Len(Append(d, q[i])) : after[k] = Append(d, q[i])[k]
        /\ \A k \in 1..Len(RemoveAt(q, i)) :
             after[Len(Append(d, q[i])) + k] = RemoveAt(q, i)[k]
    BY <1>3, <1>4, <2>1
  <2> QED
    BY <1>1, <1>3, <1>4, <2>2
<1> HIDE DEF before, after
<1>6. ASSUME NEW k \in 1..Len(before)
      PROVE  after[k] = before[Source(Len(d), i, k)]
  <2>0. k \in Nat
    BY <1>1, <1>2
  <2>1. CASE k <= Len(d)
    BY <1>1, <1>2, <1>3, <1>5, <2>1 DEF Source
  <2>2. CASE k = Len(d) + 1
    BY <1>1, <1>2, <1>3, <1>5, <2>2 DEF Source
  <2>3. CASE k > Len(d) + 1
    <3>1. PICK j \in 1..(Len(q) - 1) : k = Len(d) + 1 + j
      <4>1. k - Len(d) - 1 \in 1..(Len(q) - 1)
        BY <1>1, <1>2, <2>3
      <4>2. k = Len(d) + 1 + (k - Len(d) - 1)
        BY <1>1, <1>2
      <4> QED
        BY <4>1, <4>2
    <3>2. after[k] = IF j < i THEN q[j] ELSE q[j + 1]
      BY <1>4, <1>5, <3>1
    <3>3. CASE j < i
      <4>1. j \in 1..Len(q) /\ Source(Len(d), i, k) = Len(d) + j
        BY <1>1, <2>3, <3>1, <3>3 DEF Source
      <4> QED
        BY <1>2, <3>2, <3>3, <4>1
    <3>4. CASE j >= i
      <4>1. j + 1 \in 1..Len(q) /\ Source(Len(d), i, k) = Len(d) + (j + 1)
        BY <1>1, <2>3, <3>1, <3>4 DEF Source
      <4> QED
        BY <1>1, <1>2, <3>1, <3>2, <3>4, <4>1
    <3> QED
      BY <1>1, <3>1, <3>3, <3>4
  <2>4. k <= Len(d) \/ k = Len(d) + 1 \/ k > Len(d) + 1
    BY <1>1, <2>0
  <2> QED
    BY <2>1, <2>2, <2>3, <2>4
<1>7. ASSUME i = 1
      PROVE  after = before
  <2>1. \A k \in 1..Len(before) : Source(Len(d), i, k) = k
    BY <1>1, <1>2, <1>7 DEF Source
  <2>2. \A k \in 1..Len(after) : after[k] = before[k]
    BY <1>1, <1>2, <1>5, <1>6, <2>1
  <2>3. Len(after) = Len(before) /\ after \in Seq(S) /\ before \in Seq(S)
    BY <1>1, <1>2, <1>5
  <2> QED
    BY <2>2, <2>3, SeqEqual
<1>8. Len(after) = Len(before)
  BY <1>1, <1>2, <1>5
<1> QED
  BY <1>5, <1>6, <1>7, <1>8 DEF before, after

\* Source is a permutation of the line's positions.
LEMMA SourceIsPermutation ==
  ASSUME NEW n \in Nat, NEW m \in Nat, NEW i \in 1..m
  PROVE  /\ \A k \in 1..(n + m) : Source(n, i, k) \in 1..(n + m)
         /\ \A j, k \in 1..(n + m) : Source(n, i, j) = Source(n, i, k) => j = k
         /\ \A j \in 1..(n + m) : \E k \in 1..(n + m) : Source(n, i, k) = j
<1>1. \A k \in 1..(n + m) : Source(n, i, k) \in 1..(n + m)
  BY DEF Source
<1>2. \A j, k \in 1..(n + m) : Source(n, i, j) = Source(n, i, k) => j = k
  BY DEF Source
<1>3. ASSUME NEW j \in 1..(n + m)
      PROVE  \E k \in 1..(n + m) : Source(n, i, k) = j
  <2>1. CASE j <= n \/ j > n + i
    <3>1. Source(n, i, j) = j
      BY <2>1 DEF Source
    <3> QED
      BY <3>1
  <2>2. CASE j = n + i
    <3>1. n + 1 \in 1..(n + m) /\ Source(n, i, n + 1) = j
      BY <2>2 DEF Source
    <3> QED
      BY <3>1
  <2>3. CASE n < j /\ j < n + i
    <3>1. j + 1 \in 1..(n + m) /\ Source(n, i, j + 1) = j
      BY <2>3 DEF Source
    <3> QED
      BY <3>1
  <2> QED
    BY <2>1, <2>2, <2>3
<1> QED
  BY <1>1, <1>2, <1>3

(***************************************************************************)
(* Types, and what each action does to the lines                           *)
(***************************************************************************)
LEMMA NewEventType ==
  ASSUME TypeOK, logged < MaxEvents, NEW t \in Tenants
  PROVE  /\ NewEvent(t) \in Events
         /\ NewEvent(t).id = logged + 1
         /\ NewEvent(t).chainPos = tail[t].length
         /\ NewEvent(t).prevHash = tail[t].hash
<1>1. logged + 1 \in EventIds
  BY BoundsAssumption DEF TypeOK, EventIds
<1>2. tail[t].hash \in Hashes /\ tail[t].length \in Nat
  BY DEF TypeOK
<1>3. [of |-> logged + 1, sealed |-> FALSE] \in Hashes
  BY <1>1 DEF Hashes
<1>4. NewEvent(t) = [id |-> logged + 1, chainPos |-> tail[t].length, prevHash |-> tail[t].hash,
                     hash |-> [of |-> logged + 1, sealed |-> FALSE], sealed |-> TRUE]
  BY DEF NewEvent, computeEventHash
<1> QED
  BY <1>1, <1>2, <1>3, <1>4 DEF Events

LEMMA LineType ==
  ASSUME TypeOK, NEW t \in Tenants
  PROVE  /\ Line(t) \in Seq(Events)
         /\ Len(Line(t)) \in Nat
         /\ DOMAIN Line(t) = 1..Len(Line(t))
         /\ \A i \in DOMAIN Line(t) : Line(t)[i] \in Events
<1>1. delivered[t] \in Seq(Events) /\ queue[t] \in Seq(Events)
  BY DEF TypeOK
<1>2. Line(t) \in Seq(Events)
  BY <1>1, ConcatProperties DEF Line
<1> QED
  BY <1>2, LenProperties, ElementOfSeq

LEMMA LogLines ==
  ASSUME TypeOK, NEW t \in Tenants, Log(t)
  PROVE  /\ Line(t)' = Append(Line(t), NewEvent(t))
         /\ \A u \in Tenants \ {t} : Line(u)' = Line(u)
<1>1. delivered[t] \in Seq(Events) /\ queue[t] \in Seq(Events) /\ NewEvent(t) \in Events
  BY NewEventType DEF TypeOK, Log
<1>2. queue' = [queue EXCEPT ![t] = Append(queue[t], NewEvent(t))] /\ delivered' = delivered
  BY DEF Log
<1>3. queue'[t] = Append(queue[t], NewEvent(t)) /\ \A u \in Tenants \ {t} : queue'[u] = queue[u]
  BY <1>2 DEF TypeOK
<1>4. delivered[t] \o Append(queue[t], NewEvent(t)) = Append(delivered[t] \o queue[t], NewEvent(t))
  <2>1. \A d, q \in Seq(Events), e \in Events : d \o Append(q, e) = Append(d \o q, e)
    BY LineAppend
  <2> QED
    BY <1>1, <2>1
<1> QED
  BY <1>2, <1>3, <1>4 DEF Line

LEMMA DeliveryLines ==
  ASSUME TypeOK, NEW t \in Tenants, NEW i, DeliverOne(t, i)
  PROVE  /\ Len(queue[t]) \in Nat /\ i \in 1..Len(queue[t])
         /\ Len(Line(t)') = Len(Line(t))
         /\ Len(Line(t)) = Len(delivered[t]) + Len(queue[t])
         /\ \A k \in 1..Len(Line(t)) : Line(t)'[k] = Line(t)[Source(Len(delivered[t]), i, k)]
         /\ i = 1 => Line(t)' = Line(t)
         /\ Line(t)' \in Seq(Events)
         /\ \A u \in Tenants \ {t} : Line(u)' = Line(u)
<1>1. delivered[t] \in Seq(Events) /\ queue[t] \in Seq(Events)
  BY DEF TypeOK
<1>2. i \in 1..Len(queue[t]) /\ Len(queue[t]) \in Nat
  BY <1>1, LenProperties DEF DeliverOne
<1>3. /\ delivered' = [delivered EXCEPT ![t] = Append(delivered[t], queue[t][i])]
      /\ queue' = [queue EXCEPT ![t] = RemoveAt(queue[t], i)]
  BY DEF DeliverOne
<1>4. /\ delivered'[t] = Append(delivered[t], queue[t][i]) /\ queue'[t] = RemoveAt(queue[t], i)
      /\ \A u \in Tenants \ {t} : delivered'[u] = delivered[u] /\ queue'[u] = queue[u]
  BY <1>3 DEF TypeOK
<1>5. Len(Line(t)) = Len(delivered[t]) + Len(queue[t])
  BY <1>1, ConcatProperties DEF Line
<1>6. Line(t)' = Append(delivered[t], queue[t][i]) \o RemoveAt(queue[t], i)
  BY <1>4 DEF Line
<1>7. /\ Line(t)' \in Seq(Events)
      /\ Len(Line(t)') = Len(Line(t))
      /\ \A k \in 1..Len(Line(t)) : Line(t)'[k] = Line(t)[Source(Len(delivered[t]), i, k)]
      /\ i = 1 => Line(t)' = Line(t)
  <2>1. \A d, q \in Seq(Events) : \A j \in 1..Len(q) :
          /\ Append(d, q[j]) \o RemoveAt(q, j) \in Seq(Events)
          /\ Len(Append(d, q[j]) \o RemoveAt(q, j)) = Len(d \o q)
          /\ \A k \in 1..Len(d \o q) :
               (Append(d, q[j]) \o RemoveAt(q, j))[k] = (d \o q)[Source(Len(d), j, k)]
          /\ j = 1 => Append(d, q[j]) \o RemoveAt(q, j) = d \o q
    BY LineDelivery
  <2>2. Line(t) = delivered[t] \o queue[t]
    BY DEF Line
  <2>3. LET after == Append(delivered[t], queue[t][i]) \o RemoveAt(queue[t], i)
            before == delivered[t] \o queue[t]
        IN /\ after \in Seq(Events)
           /\ Len(after) = Len(before)
           /\ \A k \in 1..Len(before) : after[k] = before[Source(Len(delivered[t]), i, k)]
           /\ i = 1 => after = before
    BY <1>1, <1>2, <2>1, Zenon
  <2> QED
    BY <1>6, <2>2, <2>3
<1>8. \A u \in Tenants \ {t} : Line(u)' = Line(u)
  BY <1>4 DEF Line
<1> QED
  BY <1>2, <1>5, <1>7, <1>8

\* An event is on the line after a step if it was before, and the new one is.
LEMMA LogRange ==
  ASSUME TypeOK, NEW t \in Tenants, Log(t)
  PROVE  /\ Len(Line(t)') = Len(Line(t)) + 1
         /\ DOMAIN Line(t)' = 1..(Len(Line(t)) + 1)
         /\ \A i \in 1..Len(Line(t)) : Line(t)'[i] = Line(t)[i]
         /\ Line(t)'[Len(Line(t)) + 1] = NewEvent(t)
         /\ Range(Line(t))' = Range(Line(t)) \cup {NewEvent(t)}
         /\ \A u \in Tenants \ {t} : Line(u)' = Line(u)
<1>1. /\ Line(t)' = Append(Line(t), NewEvent(t))
      /\ \A u \in Tenants \ {t} : Line(u)' = Line(u)
  BY LogLines
<1>2. NewEvent(t) \in Events
  BY NewEventType DEF Log
<1>3. Line(t) \in Seq(Events) /\ Len(Line(t)) \in Nat /\ DOMAIN Line(t) = 1..Len(Line(t))
  BY LineType
<1>4. /\ Append(Line(t), NewEvent(t)) \in Seq(Events)
      /\ Len(Append(Line(t), NewEvent(t))) = Len(Line(t)) + 1
      /\ \A i \in 1..Len(Line(t)) : Append(Line(t), NewEvent(t))[i] = Line(t)[i]
      /\ Append(Line(t), NewEvent(t))[Len(Line(t)) + 1] = NewEvent(t)
  BY <1>2, <1>3, AppendProperties
<1>5. DOMAIN Append(Line(t), NewEvent(t)) = 1..(Len(Line(t)) + 1)
  BY <1>4, LenProperties
<1>6. Range(Line(t))' = Range(Line(t)) \cup {NewEvent(t)}
  BY <1>1, <1>3, <1>4, <1>5 DEF Range
<1> QED
  BY <1>1, <1>4, <1>5, <1>6

LEMMA DeliveryRange ==
  ASSUME TypeOK, NEW t \in Tenants, NEW i, DeliverOne(t, i)
  PROVE  \A u \in Tenants : /\ Range(Line(u))' = Range(Line(u))
                            /\ DOMAIN Line(u)' = DOMAIN Line(u)
<1> DEFINE n == Len(delivered[t])
           m == Len(queue[t])
<1>1. /\ m \in Nat /\ i \in 1..m
      /\ Len(Line(t)') = Len(Line(t)) /\ Len(Line(t)) = n + m
      /\ \A k \in 1..Len(Line(t)) : Line(t)'[k] = Line(t)[Source(n, i, k)]
      /\ Line(t)' \in Seq(Events)
      /\ \A u \in Tenants \ {t} : Line(u)' = Line(u)
  BY DeliveryLines
<1>2. n \in Nat
  BY LenProperties DEF TypeOK
<1>3. DOMAIN Line(t) = 1..(n + m) /\ DOMAIN Line(t)' = 1..(n + m)
  BY <1>1, LineType, LenProperties
<1> HIDE DEF n, m
<1>4. /\ \A k \in 1..(n + m) : Source(n, i, k) \in 1..(n + m)
      /\ \A j \in 1..(n + m) : \E k \in 1..(n + m) : Source(n, i, k) = j
  BY <1>1, <1>2, SourceIsPermutation
<1>5. Range(Line(t)') = Range(Line(t))
  BY <1>1, <1>3, <1>4 DEF Range
<1>6. Range(Line(t))' = Range(Line(t)')
  BY DEF Range
<1>7. \A u \in Tenants \ {t} : Range(Line(u))' = Range(Line(u)) /\ DOMAIN Line(u)' = DOMAIN Line(u)
  BY <1>1 DEF Range
<1> QED
  BY <1>3, <1>5, <1>6, <1>7

\* Restart and stuttering leave the lines alone.
LEMMA SameLines ==
  ASSUME UNCHANGED <<queue, delivered>>
  PROVE  \A t \in Tenants : Line(t)' = Line(t) /\ Range(Line(t))' = Range(Line(t))
BY DEF Line, Range

(***************************************************************************)
(* The inductive invariant                                                 *)
(***************************************************************************)
\* Ids on the lines were given out by a log call.
IdsGivenOut == \A t \in Tenants : \A event \in Range(Line(t)) : event.id \in 1..logged

\* The tail in memory is genesis or an event of the tenant's line: what the
\* next event will name as its predecessor is still held.
TailHeld ==
  \A t \in Tenants :
    \/ tail[t].hash = genesisHash
    \/ \E event \in Range(Line(t)) : event.hash = tail[t].hash

\* The variables keep their types: the positions log hands out stay naturals
\* and whatever queue and delivery do to an event, it stays one.
THEOREM ArchieveTypeCorrect == Spec => []TypeOK
<1>1. Init => TypeOK
  <2> SUFFICES ASSUME Init PROVE TypeOK
    OBVIOUS
  <2>1. genesisHash \in Hashes
    BY DEF genesisHash, Hashes
  <2>2. NoEventsYet \in [hash : Hashes, length : Nat]
    BY <2>1 DEF NoEventsYet
  <2>3. <<>> \in Seq(Events)
    BY EmptySeq
  <2> QED
    BY <2>2, <2>3, BoundsAssumption DEF Init, TypeOK
<1>2. TypeOK /\ [Next]_vars => TypeOK'
  <2> SUFFICES ASSUME TypeOK, [Next]_vars PROVE TypeOK'
    OBVIOUS
  <2>1. ASSUME NEW t \in Tenants, Log(t)
        PROVE  TypeOK'
    <3>1. NewEvent(t) \in Events /\ NewEvent(t).hash \in Hashes
      <4>1. NewEvent(t) \in Events
        BY <2>1, NewEventType DEF Log
      <4> QED
        BY <4>1 DEF Events
    <3>2. Append(queue[t], NewEvent(t)) \in Seq(Events)
      BY <3>1, AppendProperties DEF TypeOK
    <3>3. queue' \in [Tenants -> Seq(Events)]
      BY <2>1, <3>2 DEF Log, TypeOK
    <3>4. [hash |-> NewEvent(t).hash, length |-> tail[t].length + 1] \in [hash : Hashes, length : Nat]
      BY <3>1 DEF TypeOK
    <3>5. tail' \in [Tenants -> [hash : Hashes, length : Nat]]
      BY <2>1, <3>4 DEF Log, TypeOK
    <3>6. logged' \in 0..MaxEvents
      BY <2>1, BoundsAssumption DEF Log, TypeOK
    <3> QED
      BY <2>1, <3>3, <3>5, <3>6 DEF Log, TypeOK
  <2>2. ASSUME NEW t \in Tenants, NEW i, DeliverOne(t, i)
        PROVE  TypeOK'
    <3>1. delivered[t] \in Seq(Events) /\ queue[t] \in Seq(Events) /\ i \in 1..Len(queue[t])
      BY <2>2, DeliveryLines DEF TypeOK
    <3>2. queue[t][i] \in Events
      BY <3>1, ElementOfSeq
    <3>3. Append(delivered[t], queue[t][i]) \in Seq(Events)
      BY <3>1, <3>2, AppendProperties
    <3>4. RemoveAt(queue[t], i) \in Seq(Events)
      BY <3>1, RemoveAtElements
    <3>5. queue' \in [Tenants -> Seq(Events)]
      BY <2>2, <3>4 DEF DeliverOne, TypeOK
    <3>6. delivered' \in [Tenants -> Seq(Events)]
      BY <2>2, <3>3 DEF DeliverOne, TypeOK
    <3> QED
      BY <2>2, <3>5, <3>6 DEF DeliverOne, TypeOK
  <2>3. ASSUME Restart
        PROVE  TypeOK'
    <3>1. ASSUME NEW t \in Tenants
          PROVE  RestoredTail(t) \in [hash : Hashes, length : Nat]
      <4>1. CASE delivered[t] = <<>>
        BY <4>1 DEF RestoredTail, NoEventsYet, genesisHash, Hashes
      <4>2. CASE delivered[t] # <<>>
        <5>1. delivered[t] \in Seq(Events)
          BY DEF TypeOK
        <5>2. Len(delivered[t]) \in Nat /\ Len(delivered[t]) \in 1..Len(delivered[t])
          BY <4>2, <5>1, EmptySeq, LenProperties
        <5>3. delivered[t][Len(delivered[t])] \in Events
          BY <5>1, <5>2, ElementOfSeq
        <5> QED
          BY <4>2, <5>2, <5>3 DEF RestoredTail, Last, Events
      <4> QED
        BY <4>1, <4>2
    <3> QED
      BY <2>3, <3>1 DEF Restart, TypeOK
  <2>4. CASE UNCHANGED vars
    BY <2>4 DEF vars, TypeOK
  <2> QED
    BY <2>1, <2>2, <2>3, <2>4 DEF Next
<1> QED
  BY <1>1, <1>2, PTL DEF Spec

\* After a restart the tail of a tenant is genesis or its last delivered event.
LEMMA RestoredTailHeld ==
  ASSUME TypeOK, NEW t \in Tenants
  PROVE  \/ delivered[t] = <<>> /\ RestoredTail(t) = NoEventsYet
         \/ /\ Len(delivered[t]) \in DOMAIN Line(t)
            /\ RestoredTail(t).hash = Line(t)[Len(delivered[t])].hash
            /\ RestoredTail(t).length = Len(delivered[t])
<1>1. delivered[t] \in Seq(Events) /\ queue[t] \in Seq(Events)
  BY DEF TypeOK
<1>2. Len(delivered[t]) \in Nat /\ Len(queue[t]) \in Nat
  BY <1>1, LenProperties
<1>3. CASE delivered[t] = <<>>
  BY <1>3 DEF RestoredTail
<1>4. CASE delivered[t] # <<>>
  <2>1. Len(delivered[t]) \in 1..Len(delivered[t])
    BY <1>1, <1>2, <1>4, EmptySeq, LenProperties
  <2>2. /\ DOMAIN Line(t) = 1..(Len(delivered[t]) + Len(queue[t]))
        /\ \A i \in 1..Len(delivered[t]) : Line(t)[i] = delivered[t][i]
    <3>1. \A d, q \in Seq(Events) :
            /\ DOMAIN (d \o q) = 1..(Len(d) + Len(q))
            /\ \A i \in 1..Len(d) : (d \o q)[i] = d[i]
      BY LineElements
    <3> QED
      BY <1>1, <3>1 DEF Line
  <2>3. RestoredTail(t) = [hash |-> delivered[t][Len(delivered[t])].hash, length |-> Len(delivered[t])]
    BY <1>4 DEF RestoredTail, Last
  <2>4. Len(delivered[t]) \in DOMAIN Line(t)
    <3>1. \A a, b \in Nat : a \in 1..a => a \in 1..(a + b)
      OBVIOUS
    <3> QED
      BY <1>2, <2>1, <2>2, <3>1, Zenon
  <2>5. Line(t)[Len(delivered[t])] = delivered[t][Len(delivered[t])]
    BY <2>1, <2>2
  <2> QED
    BY <2>3, <2>4, <2>5
<1> QED
  BY <1>3, <1>4

LEMMA TraceInvariant == Spec => [](IdsGivenOut /\ TailHeld /\ LeadsBackToGenesis)
<1> DEFINE Inv == IdsGivenOut /\ TailHeld /\ LeadsBackToGenesis
<1>1. Init => Inv
  <2> SUFFICES ASSUME Init PROVE Inv
    OBVIOUS
  <2>1. \A t \in Tenants : Line(t) = <<>>
    BY DEF Init, Line
  <2>2. \A t \in Tenants : Range(Line(t)) = {}
    BY <2>1 DEF Range
  <2>3. \A t \in Tenants : tail[t].hash = genesisHash
    BY DEF Init, NoEventsYet
  <2> QED
    BY <2>2, <2>3 DEF IdsGivenOut, TailHeld, LeadsBackToGenesis
<1>2. TypeOK /\ Inv /\ [Next]_vars => Inv'
  <2> SUFFICES ASSUME TypeOK, Inv, [Next]_vars PROVE Inv'
    OBVIOUS
  <2>1. ASSUME NEW t \in Tenants, Log(t)
        PROVE  Inv'
    <3>1. /\ logged \in Nat /\ logged' = logged + 1
          /\ NewEvent(t).id = logged + 1 /\ NewEvent(t).prevHash = tail[t].hash
          /\ \A u \in Tenants \ {t} : tail'[u] = tail[u]
          /\ tail'[t].hash = NewEvent(t).hash
      BY <2>1, NewEventType DEF Log, TypeOK
    <3>2. /\ Range(Line(t))' = Range(Line(t)) \cup {NewEvent(t)}
          /\ \A u \in Tenants \ {t} : Range(Line(u))' = Range(Line(u))
      BY <2>1, LogRange DEF Range
    <3>3. IdsGivenOut'
      BY <3>1, <3>2 DEF IdsGivenOut
    <3>4. TailHeld'
      BY <3>1, <3>2 DEF TailHeld
    <3>5. \/ NewEvent(t).prevHash = genesisHash
          \/ \E older \in Range(Line(t)) : older.hash = NewEvent(t).prevHash /\ older.id < NewEvent(t).id
      BY <3>1 DEF TailHeld, IdsGivenOut
    <3>6. LeadsBackToGenesis'
      BY <3>2, <3>5 DEF LeadsBackToGenesis
    <3> QED
      BY <3>3, <3>4, <3>6
  <2>2. ASSUME NEW t \in Tenants, NEW i, DeliverOne(t, i)
        PROVE  Inv'
    <3>1. \A u \in Tenants : Range(Line(u))' = Range(Line(u))
      BY <2>2, DeliveryRange
    <3>2. UNCHANGED <<tail, logged>>
      BY <2>2 DEF DeliverOne
    <3> QED
      BY <3>1, <3>2 DEF IdsGivenOut, TailHeld, LeadsBackToGenesis
  <2>3. ASSUME Restart
        PROVE  Inv'
    <3>1. \A u \in Tenants : Range(Line(u))' = Range(Line(u))
      BY <2>3, SameLines DEF Restart
    <3>2. \A u \in Tenants : tail'[u] = RestoredTail(u)
      BY <2>3 DEF Restart
    <3>3. logged' = logged
      BY <2>3 DEF Restart
    <3>4. ASSUME NEW u \in Tenants
          PROVE  \/ RestoredTail(u).hash = genesisHash
                 \/ \E event \in Range(Line(u)) : event.hash = RestoredTail(u).hash
      BY RestoredTailHeld DEF NoEventsYet, Range
    <3>5. TailHeld'
      BY <3>1, <3>2, <3>4 DEF TailHeld
    <3> QED
      BY <3>1, <3>3, <3>5 DEF IdsGivenOut, LeadsBackToGenesis
  <2>4. CASE UNCHANGED vars
    <3>1. UNCHANGED <<queue, delivered, tail, logged>>
      BY <2>4 DEF vars
    <3>2. \A u \in Tenants : Range(Line(u))' = Range(Line(u))
      BY <3>1, SameLines
    <3> QED
      BY <3>1, <3>2 DEF IdsGivenOut, TailHeld, LeadsBackToGenesis
  <2> QED
    BY <2>1, <2>2, <2>3, <2>4 DEF Next
<1> QED
  BY <1>1, <1>2, ArchieveTypeCorrect, PTL DEF Spec

\* Whatever fails, the predecessor an event names is an older event of its
\* tenant that log, delivery and restart have kept.
THEOREM LeadsBackToGenesisHolds == Spec => []LeadsBackToGenesis
BY TraceInvariant, PTL

\* A log call that returned has its event in the queue or delivered, and no
\* delivery doubles it.
THEOREM NoEventLostHolds == Spec => []NoEventLost
<1>1. Init => NoEventLost
  <2> SUFFICES ASSUME Init PROVE NoEventLost
    OBVIOUS
  <2>1. \A t \in Tenants : Line(t) = <<>>
    BY DEF Init, Line
  <2>2. 1..logged = {}
    BY DEF Init
  <2> QED
    BY <2>1, <2>2 DEF NoEventLost
<1>2. TypeOK /\ IdsGivenOut /\ NoEventLost /\ [Next]_vars => NoEventLost'
  <2> SUFFICES ASSUME TypeOK, IdsGivenOut, NoEventLost, [Next]_vars PROVE NoEventLost'
    OBVIOUS
  <2>1. ASSUME NEW t \in Tenants, Log(t)
        PROVE  NoEventLost'
    <3> DEFINE n == Len(Line(t))
    <3>1. /\ n \in Nat /\ DOMAIN Line(t) = 1..n
          /\ DOMAIN Line(t)' = 1..(n + 1)
          /\ \A i \in 1..n : Line(t)'[i] = Line(t)[i]
          /\ Line(t)'[n + 1] = NewEvent(t)
          /\ Range(Line(t))' = Range(Line(t)) \cup {NewEvent(t)}
          /\ \A u \in Tenants \ {t} : Line(u)' = Line(u)
      BY <2>1, LogRange, LineType
    <3>2. logged \in Nat /\ logged' = logged + 1 /\ NewEvent(t).id = logged + 1
      BY <2>1, NewEventType DEF Log, TypeOK
    <3> HIDE DEF n
    <3>3. \A u \in Tenants \ {t} : Range(Line(u))' = Range(Line(u))
      BY <3>1 DEF Range
    <3>4. \A id \in 1..logged' : \E u \in Tenants : \E event \in Range(Line(u))' : event.id = id
      BY <3>1, <3>2, <3>3 DEF NoEventLost
    <3>5. \A u \in Tenants : \A i \in DOMAIN Line(u) : Line(u)[i].id # logged + 1
      BY <3>2 DEF IdsGivenOut, Range
    <3>6. ASSUME NEW u \in Tenants, NEW v \in Tenants,
                 NEW i \in DOMAIN Line(u)', NEW j \in DOMAIN Line(v)',
                 Line(u)'[i].id = Line(v)'[j].id
          PROVE  u = v /\ i = j
      <4>1. CASE u = t /\ i = n + 1
        BY <3>1, <3>2, <3>5, <3>6, <4>1
      <4>2. CASE v = t /\ j = n + 1
        BY <3>1, <3>2, <3>5, <3>6, <4>2
      <4>3. CASE ~(u = t /\ i = n + 1) /\ ~(v = t /\ j = n + 1)
        <5>1. i \in DOMAIN Line(u) /\ Line(u)'[i] = Line(u)[i]
          BY <3>1, <4>3
        <5>2. j \in DOMAIN Line(v) /\ Line(v)'[j] = Line(v)[j]
          BY <3>1, <4>3
        <5> QED
          BY <3>6, <5>1, <5>2 DEF NoEventLost
      <4> QED
        BY <4>1, <4>2, <4>3
    <3> QED
      BY <3>4, <3>6 DEF NoEventLost
  <2>2. ASSUME NEW t \in Tenants, NEW i, DeliverOne(t, i)
        PROVE  NoEventLost'
    <3> DEFINE n == Len(delivered[t])
               m == Len(queue[t])
    <3>1. /\ m \in Nat /\ i \in 1..m
          /\ Len(Line(t)) = n + m
          /\ \A k \in 1..Len(Line(t)) : Line(t)'[k] = Line(t)[Source(n, i, k)]
          /\ \A u \in Tenants \ {t} : Line(u)' = Line(u)
      BY <2>2, DeliveryLines
    <3>2. n \in Nat
      BY LenProperties DEF TypeOK
    <3>3. \A u \in Tenants : Range(Line(u))' = Range(Line(u)) /\ DOMAIN Line(u)' = DOMAIN Line(u)
      BY <2>2, DeliveryRange
    <3>4. logged' = logged
      BY <2>2 DEF DeliverOne
    <3>5. DOMAIN Line(t) = 1..(n + m)
      BY <3>1, LineType
    <3> HIDE DEF n, m
    <3>6. /\ \A k \in 1..(n + m) : Source(n, i, k) \in 1..(n + m)
          /\ \A j, k \in 1..(n + m) : Source(n, i, j) = Source(n, i, k) => j = k
      BY <3>1, <3>2, SourceIsPermutation
    <3>7. ASSUME NEW u \in Tenants, NEW v \in Tenants,
                 NEW j \in DOMAIN Line(u)', NEW k \in DOMAIN Line(v)',
                 Line(u)'[j].id = Line(v)'[k].id
          PROVE  u = v /\ j = k
      <4> DEFINE before(w, p) == IF w = t THEN Source(n, i, p) ELSE p
      <4>1. before(u, j) \in DOMAIN Line(u) /\ Line(u)'[j] = Line(u)[before(u, j)]
        BY <3>1, <3>3, <3>5, <3>6
      <4>2. before(v, k) \in DOMAIN Line(v) /\ Line(v)'[k] = Line(v)[before(v, k)]
        BY <3>1, <3>3, <3>5, <3>6
      <4>3. u = v /\ before(u, j) = before(v, k)
        BY <3>7, <4>1, <4>2 DEF NoEventLost
      <4>4. CASE u = t
        BY <3>3, <3>5, <3>6, <4>3, <4>4
      <4>5. CASE u # t
        BY <4>3, <4>5
      <4> QED
        BY <4>4, <4>5
    <3> QED
      BY <3>3, <3>4, <3>7 DEF NoEventLost
  <2>3. ASSUME UNCHANGED <<queue, delivered, logged>>
        PROVE  NoEventLost'
    <3>1. \A t \in Tenants : Line(t)' = Line(t) /\ Range(Line(t))' = Range(Line(t))
      BY <2>3, SameLines
    <3> QED
      BY <2>3, <3>1 DEF NoEventLost
  <2> QED
    BY <2>1, <2>2, <2>3 DEF Next, Restart, vars
<1> QED
  BY <1>1, <1>2, ArchieveTypeCorrect, TraceInvariant, PTL DEF Spec

\* While no entry overtakes another and no restart meets a queued event, a
\* tenant's events are one chain without gaps that ends at the tail in memory.
THEOREM OneChainHolds == Spec => []OneChain
<1>1. Init => OneChain
  <2> SUFFICES ASSUME Init, NEW t \in Tenants PROVE InOneChain(Line(t), tail[t])
    BY DEF OneChain
  <2>1. Line(t) = <<>> /\ tail[t] = NoEventsYet
    BY DEF Init, Line
  <2> QED
    BY <2>1 DEF InOneChain, Linked, ExpectedPrevHash, NoEventsYet
<1>2. TypeOK /\ OneChain /\ [Next]_vars => OneChain'
  <2> SUFFICES ASSUME TypeOK, OneChain, [Next]_vars,
                      NEW t \in Tenants, t \notin forked', t \notin overtaken'
               PROVE  InOneChain(Line(t), tail[t])'
    BY DEF OneChain
  <2>1. t \notin forked /\ t \notin overtaken
    BY DEF Next, Log, DeliverOne, Restart, vars
  <2>2. InOneChain(Line(t), tail[t])
    BY <2>1 DEF OneChain
  <2> DEFINE n == Len(Line(t))
  <2>3. n \in Nat /\ DOMAIN Line(t) = 1..n
    BY LineType
  <2>4. ASSUME NEW u \in Tenants, Log(u)
        PROVE  InOneChain(Line(t), tail[t])'
    <3>1. CASE u = t
      <4>1. /\ Len(Line(t)') = n + 1 /\ DOMAIN Line(t)' = 1..(n + 1)
            /\ \A i \in 1..n : Line(t)'[i] = Line(t)[i]
            /\ Line(t)'[n + 1] = NewEvent(t)
        BY <2>4, <3>1, LogRange
      <4>2. /\ NewEvent(t).chainPos = tail[t].length /\ NewEvent(t).prevHash = tail[t].hash
            /\ tail'[t].hash = NewEvent(t).hash /\ tail'[t].length = tail[t].length + 1
        BY <2>4, <3>1, NewEventType DEF Log, TypeOK
      <4> HIDE DEF n
      <4>3. /\ \A i \in 1..n : Line(t)[i].prevHash = ExpectedPrevHash(Line(t), i)
            /\ \A i \in 1..n : Line(t)[i].chainPos = i - 1
            /\ tail[t].length = n
            /\ tail[t].hash = ExpectedPrevHash(Line(t), n + 1)
        BY <2>2, <2>3 DEF InOneChain, Linked, n
      <4>4. \A i \in 1..(n + 1) : ExpectedPrevHash(Line(t)', i) = ExpectedPrevHash(Line(t), i)
        BY <2>3, <4>1 DEF ExpectedPrevHash
      <4>5. \A i \in 1..(n + 1) : Line(t)'[i].prevHash = ExpectedPrevHash(Line(t)', i)
        <5> TAKE i \in 1..(n + 1)
        <5>1. CASE i \in 1..n
          BY <4>1, <4>3, <4>4, <5>1
        <5>2. CASE i = n + 1
          BY <2>3, <4>1, <4>2, <4>3, <4>4, <5>2
        <5> QED
          BY <2>3, <5>1, <5>2
      <4>6. \A i \in 1..(n + 1) : Line(t)'[i].chainPos = i - 1
        BY <2>3, <4>1, <4>2, <4>3
      <4>7. tail'[t].length = n + 1
        BY <4>2, <4>3
      <4>8. tail'[t].hash = ExpectedPrevHash(Line(t)', n + 2)
        BY <2>3, <4>1, <4>2 DEF ExpectedPrevHash
      <4> QED
        BY <2>3, <4>1, <4>5, <4>6, <4>7, <4>8 DEF InOneChain, Linked, ExpectedPrevHash
    <3>2. CASE u # t
      <4>1. Line(t)' = Line(t)
        BY <2>4, <3>2, LogLines
      <4>2. tail'[t] = tail[t]
        BY <2>4, <3>2 DEF Log, TypeOK
      <4> QED
        BY <2>2, <4>1, <4>2 DEF InOneChain, Linked, ExpectedPrevHash
    <3> QED
      BY <3>1, <3>2
  <2>5. ASSUME NEW u \in Tenants, NEW i, DeliverOne(u, i)
        PROVE  InOneChain(Line(t), tail[t])'
    <3>1. u = t => i = 1
      BY <2>5 DEF DeliverOne
    <3>2. Line(t)' = Line(t)
      BY <2>5, <3>1, DeliveryLines
    <3>3. tail' = tail
      BY <2>5 DEF DeliverOne
    <3> QED
      BY <2>2, <3>2, <3>3 DEF InOneChain, Linked, ExpectedPrevHash
  <2>6. ASSUME Restart
        PROVE  InOneChain(Line(t), tail[t])'
    <3>1. queue[t] = <<>> /\ UNCHANGED <<queue, delivered>> /\ tail'[t] = RestoredTail(t)
      BY <2>6 DEF Restart
    <3>2. Line(t) = delivered[t]
      BY <3>1, ConcatEmptySeq DEF Line, TypeOK
    <3>3. Line(t)' = Line(t)
      BY <3>1, SameLines
    <3>4. tail'[t].length = n /\ tail'[t].hash = ExpectedPrevHash(Line(t), n + 1)
      <4>1. CASE delivered[t] = <<>>
        BY <3>1, <3>2, <4>1 DEF RestoredTail, NoEventsYet, ExpectedPrevHash
      <4>2. CASE delivered[t] # <<>>
        <5>1. n # 0
          BY <3>2, <4>2, EmptySeq DEF TypeOK
        <5>2. RestoredTail(t) = [hash |-> Line(t)[n].hash, length |-> n]
          BY <3>2, <4>2 DEF RestoredTail, Last
        <5> QED
          BY <2>3, <3>1, <5>1, <5>2 DEF ExpectedPrevHash
      <4> QED
        BY <4>1, <4>2
    <3> QED
      BY <2>2, <3>3, <3>4 DEF InOneChain, Linked, ExpectedPrevHash
  <2>7. CASE UNCHANGED vars
    <3>1. Line(t)' = Line(t) /\ tail' = tail
      BY <2>7 DEF vars, Line
    <3> QED
      BY <2>2, <3>1 DEF InOneChain, Linked, ExpectedPrevHash
  <2> QED
    BY <2>4, <2>5, <2>6, <2>7 DEF Next
<1> QED
  BY <1>1, <1>2, ArchieveTypeCorrect, PTL DEF Spec

(***************************************************************************)
(* The log that was promised                                               *)
(***************************************************************************)
LEMMA LineOfTenant ==
  ASSUME TypeOK, NEW t \in Tenants
  PROVE  /\ Len(delivered[t]) \in Nat /\ Len(queue[t]) \in Nat
         /\ DOMAIN Line(t) = 1..(Len(delivered[t]) + Len(queue[t]))
         /\ \A i \in 1..Len(delivered[t]) : i \in DOMAIN Line(t) /\ Line(t)[i] = delivered[t][i]
         /\ \A i \in 1..Len(queue[t]) : /\ Len(delivered[t]) + i \in DOMAIN Line(t)
                                       /\ Line(t)[Len(delivered[t]) + i] = queue[t][i]
<1>1. delivered[t] \in Seq(Events) /\ queue[t] \in Seq(Events)
  BY DEF TypeOK
<1>2. Len(delivered[t]) \in Nat /\ Len(queue[t]) \in Nat
  BY <1>1, LenProperties
<1>3. \A d, q \in Seq(Events) :
        /\ DOMAIN (d \o q) = 1..(Len(d) + Len(q))
        /\ \A i \in 1..Len(d) : (d \o q)[i] = d[i]
        /\ \A i \in 1..Len(q) : (d \o q)[Len(d) + i] = q[i]
  BY LineElements
<1>4. /\ DOMAIN Line(t) = 1..(Len(delivered[t]) + Len(queue[t]))
      /\ \A i \in 1..Len(delivered[t]) : Line(t)[i] = delivered[t][i]
      /\ \A i \in 1..Len(queue[t]) : Line(t)[Len(delivered[t]) + i] = queue[t][i]
  BY <1>1, <1>3, Zenon DEF Line
<1>5. \A m, n \in Nat : /\ \A i \in 1..m : i \in 1..(m + n)
                        /\ \A i \in 1..n : m + i \in 1..(m + n)
  OBVIOUS
<1>6. /\ \A i \in 1..Len(delivered[t]) : i \in DOMAIN Line(t)
      /\ \A i \in 1..Len(queue[t]) : Len(delivered[t]) + i \in DOMAIN Line(t)
  BY <1>2, <1>4, <1>5, Zenon
<1>7. QED
  BY <1>2, <1>4, <1>6

\* What waits is what the rows of the queue hold.
LEMMA WaitingRows ==
  ASSUME TypeOK
  PROVE  /\ Waiting = [t \in Tenants |-> {queue[t][i] : i \in 1..Len(queue[t])}]
         /\ \A t \in Tenants : Waiting[t] \subseteq Range(Line(t))
         /\ \A t \in Tenants : Promised!Stored(t) \subseteq Range(Line(t))
<1>1. \A t \in Tenants : /\ delivered[t] \in Seq(Events) /\ queue[t] \in Seq(Events)
                         /\ DOMAIN queue[t] = 1..Len(queue[t]) /\ Len(queue[t]) \in Nat
                         /\ DOMAIN delivered[t] = 1..Len(delivered[t]) /\ Len(delivered[t]) \in Nat
  BY LenProperties DEF TypeOK
<1>2. Waiting = [t \in Tenants |-> {queue[t][i] : i \in 1..Len(queue[t])}]
  BY <1>1 DEF Waiting, Range
<1>3. ASSUME NEW t \in Tenants
      PROVE  Waiting[t] \subseteq Range(Line(t)) /\ Promised!Stored(t) \subseteq Range(Line(t))
  <2>1. \A i \in 1..Len(queue[t]) : queue[t][i] \in Range(Line(t))
    BY LineOfTenant DEF Range
  <2>2. \A i \in 1..Len(delivered[t]) : delivered[t][i] \in Range(Line(t))
    BY LineOfTenant DEF Range
  <2>3. Waiting[t] = {queue[t][i] : i \in 1..Len(queue[t])}
    BY <1>2
  <2>4. Promised!Stored(t) = {delivered[t][i] : i \in 1..Len(delivered[t])}
    BY <1>1 DEF Promised!Stored
  <2>5. QED
    BY <2>1, <2>2, <2>3, <2>4
<1>4. QED
  BY <1>2, <1>3

LEMMA WaitingAfter ==
  ASSUME TypeOK'
  PROVE  Waiting' = [t \in Tenants |-> {queue'[t][i] : i \in 1..Len(queue'[t])}]
<1>1. \A t \in Tenants : DOMAIN queue'[t] = 1..Len(queue'[t])
  BY LenProperties DEF TypeOK
<1>2. QED
  BY <1>1 DEF Waiting, Range

\* No two rows of a queue hold the same event.
LEMMA RowsDiffer ==
  ASSUME TypeOK, NoEventLost, NEW t \in Tenants,
         NEW i \in 1..Len(queue[t]), NEW j \in 1..Len(queue[t]), queue[t][i] = queue[t][j]
  PROVE  i = j
<1>1. /\ Len(delivered[t]) \in Nat
      /\ Len(delivered[t]) + i \in DOMAIN Line(t) /\ Line(t)[Len(delivered[t]) + i] = queue[t][i]
      /\ Len(delivered[t]) + j \in DOMAIN Line(t) /\ Line(t)[Len(delivered[t]) + j] = queue[t][j]
  BY LineOfTenant
<1>2. Line(t)[Len(delivered[t]) + i].id = Line(t)[Len(delivered[t]) + j].id
  BY <1>1
<1>3. Len(delivered[t]) + i = Len(delivered[t]) + j
  BY <1>1, <1>2 DEF NoEventLost
<1>4. QED
  BY <1>1, <1>3

\* A log call that returns has had its event accepted.
LEMMA LogAccepts ==
  ASSUME TypeOK, TypeOK', IdsGivenOut, NEW t \in Tenants, Log(t)
  PROVE  \E event \in Waiting'[t] : Promised!Accept(t, event)
<1>1. NewEvent(t) \in Events /\ NewEvent(t).id = logged + 1 /\ logged \in Nat
  BY NewEventType DEF Log, TypeOK
<1>2. queue' = [queue EXCEPT ![t] = Append(queue[t], NewEvent(t))] /\ delivered' = delivered
  BY DEF Log
<1>3. queue[t] \in Seq(Events) /\ Len(queue[t]) \in Nat
  BY LenProperties DEF TypeOK
<1>4. queue'[t] = Append(queue[t], NewEvent(t)) /\ \A u \in Tenants \ {t} : queue'[u] = queue[u]
  BY <1>2 DEF TypeOK
<1>5. /\ Len(queue'[t]) = Len(queue[t]) + 1 /\ queue'[t][Len(queue[t]) + 1] = NewEvent(t)
      /\ \A i \in 1..Len(queue[t]) : queue'[t][i] = queue[t][i]
  BY <1>1, <1>3, <1>4, AppendProperties
<1>6. {queue'[t][i] : i \in 1..Len(queue'[t])} = {queue[t][i] : i \in 1..Len(queue[t])} \union {NewEvent(t)}
  BY <1>3, <1>5
<1>7. /\ Waiting = [u \in Tenants |-> {queue[u][i] : i \in 1..Len(queue[u])}]
      /\ Waiting' = [u \in Tenants |-> {queue'[u][i] : i \in 1..Len(queue'[u])}]
  BY WaitingRows, WaitingAfter
<1>8. /\ Waiting'[t] = Waiting[t] \union {NewEvent(t)}
      /\ \A u \in Tenants \ {t} : Waiting'[u] = Waiting[u]
  <2>1. Waiting[t] = {queue[t][i] : i \in 1..Len(queue[t])}
    BY <1>7
  <2>2. Waiting'[t] = {queue'[t][i] : i \in 1..Len(queue'[t])}
    BY <1>7
  <2>3. \A u \in Tenants \ {t} : Waiting'[u] = Waiting[u]
    BY <1>4, <1>7
  <2>4. QED
    BY <1>6, <2>1, <2>2, <2>3
<1>9. Waiting' = [Waiting EXCEPT ![t] = @ \union {NewEvent(t)}]
  BY <1>7, <1>8
<1>10. \A u \in Tenants : \A other \in Promised!Stored(u) \union Waiting[u] : other.id # NewEvent(t).id
  BY <1>1, WaitingRows DEF IdsGivenOut
<1>11. NewEvent(t) \in Waiting'[t] /\ Promised!Accept(t, NewEvent(t))
  BY <1>2, <1>8, <1>9, <1>10 DEF Promised!Accept
<1>12. QED
  BY <1>11

\* A delivery stores one event that waits, and no other.
LEMMA DeliveryStores ==
  ASSUME TypeOK, TypeOK', NoEventLost, NEW t \in Tenants, NEW i, DeliverOne(t, i)
  PROVE  \E event \in Waiting[t] : Promised!Store(t, event)
<1>1. queue[t] \in Seq(Events) /\ Len(queue[t]) \in Nat /\ i \in 1..Len(queue[t])
  BY LenProperties, DeliveryLines DEF TypeOK
<1>2. /\ delivered' = [delivered EXCEPT ![t] = Append(delivered[t], queue[t][i])]
      /\ queue' = [queue EXCEPT ![t] = RemoveAt(queue[t], i)]
  BY DEF DeliverOne
<1>3. queue'[t] = RemoveAt(queue[t], i) /\ \A u \in Tenants \ {t} : queue'[u] = queue[u]
  BY <1>2 DEF TypeOK
<1>4. /\ Len(queue'[t]) = Len(queue[t]) - 1
      /\ \A j \in 1..(Len(queue[t]) - 1) : queue'[t][j] = IF j < i THEN queue[t][j] ELSE queue[t][j + 1]
  BY <1>1, <1>3, RemoveAtElements
<1>5. \A j \in 1..Len(queue[t]) : queue[t][j] = queue[t][i] => j = i
  BY <1>1, RowsDiffer
<1>6. {queue'[t][j] : j \in 1..Len(queue'[t])} = {queue[t][j] : j \in 1..Len(queue[t])} \ {queue[t][i]}
  <2>1. ASSUME NEW j \in 1..Len(queue'[t])
        PROVE  \E k \in 1..Len(queue[t]) : k # i /\ queue'[t][j] = queue[t][k]
    <3>1. CASE j < i
      <4>1. j \in 1..Len(queue[t]) /\ j # i /\ queue'[t][j] = queue[t][j]
        BY <1>1, <1>4, <3>1
      <4>2. QED
        BY <4>1
    <3>2. CASE ~(j < i)
      <4>1. j + 1 \in 1..Len(queue[t]) /\ j + 1 # i /\ queue'[t][j] = queue[t][j + 1]
        BY <1>1, <1>4, <3>2
      <4>2. QED
        BY <4>1
    <3>3. QED
      BY <3>1, <3>2
  <2>2. ASSUME NEW k \in 1..Len(queue[t]), k # i
        PROVE  \E j \in 1..Len(queue'[t]) : queue'[t][j] = queue[t][k]
    <3>1. CASE k < i
      <4>1. k \in 1..Len(queue'[t]) /\ queue'[t][k] = queue[t][k]
        BY <1>1, <1>4, <3>1
      <4>2. QED
        BY <4>1
    <3>2. CASE k > i
      <4>1. k - 1 \in 1..Len(queue'[t]) /\ queue'[t][k - 1] = queue[t][k]
        BY <1>1, <1>4, <3>2
      <4>2. QED
        BY <4>1
    <3>3. QED
      BY <1>1, <2>2, <3>1, <3>2
  <2>3. ASSUME NEW e PROVE e \in {queue'[t][j] : j \in 1..Len(queue'[t])}
                           <=> e \in {queue[t][j] : j \in 1..Len(queue[t])} \ {queue[t][i]}
    BY <1>5, <2>1, <2>2
  <2>4. QED
    BY <2>3
<1>7. /\ Waiting = [u \in Tenants |-> {queue[u][j] : j \in 1..Len(queue[u])}]
      /\ Waiting' = [u \in Tenants |-> {queue'[u][j] : j \in 1..Len(queue'[u])}]
  BY WaitingRows, WaitingAfter
<1>8. /\ Waiting'[t] = Waiting[t] \ {queue[t][i]}
      /\ \A u \in Tenants \ {t} : Waiting'[u] = Waiting[u]
  BY <1>3, <1>6, <1>7
<1>9. Waiting' = [Waiting EXCEPT ![t] = @ \ {queue[t][i]}]
  BY <1>7, <1>8
<1>10. queue[t][i] \in Waiting[t]
  BY <1>1, <1>7
<1>11. Promised!Store(t, queue[t][i])
  BY <1>2, <1>9, <1>10 DEF Promised!Store
<1>12. QED
  BY <1>10, <1>11

\* Every step accepts an event, stores one, or leaves the log as it is.
LEMMA LogSteps ==
  ASSUME TypeOK, TypeOK', IdsGivenOut, NoEventLost, [Next]_vars
  PROVE  [Promised!LogNext]_(Promised!logVars)
<1>1. ASSUME NEW t \in Tenants, Log(t) PROVE Promised!LogNext
  BY <1>1, LogAccepts DEF Promised!LogNext
<1>2. ASSUME NEW t \in Tenants, NEW i, DeliverOne(t, i) PROVE Promised!LogNext
  BY <1>2, DeliveryStores DEF Promised!LogNext
<1>3. ASSUME UNCHANGED <<queue, delivered>> PROVE UNCHANGED Promised!logVars
  BY <1>3 DEF Waiting, Range, Promised!logVars
<1>4. QED
  BY <1>1, <1>2, <1>3 DEF Next, Restart, vars

\* The queue and the delivered table, seen without the chain, are the log that was
\* promised, whatever deliveries fail, overtake each other or meet a restart.
THEOREM ChainKeepsTheLog == Spec => KeepsTheLog
<1>1. Init => Promised!LogInit
  <2>1. \A t \in Tenants : Range(<<>>) = {}
    BY DEF Range
  <2>2. QED
    BY <2>1 DEF Init, Promised!LogInit, Waiting
<1>2. Spec => [](TypeOK /\ IdsGivenOut /\ NoEventLost)
  BY ArchieveTypeCorrect, TraceInvariant, NoEventLostHolds, PTL
<1>3. QED
  BY <1>1, <1>2, LogSteps, PTL DEF Spec, KeepsTheLog, Promised!LogSpec
=============================================================================
