------------------------- MODULE WorkersProofs ---------------------------
(***************************************************************************)
(* Theorems about what the server works off beside its handlers: the       *)
(* requests and their notification worker (RequestDesk), for any requests, *)
(* retries, batches and passes; and the jobs of a feed (FeedSync), for any *)
(* records, sinks and jobs.  The two share nothing.                        *)
(***************************************************************************)
EXTENDS RequestDesk, FeedSync, FiniteSetTheorems, SequenceTheorems, WellFoundedInduction, TLAPS

Closed(r) == audit[r][Len(audit[r])].action = "close"
NotesOf(r) == {n \in DOMAIN notes : notes[n].request = r}

\* A request that was not taken in left nothing; one that was has a trail, which
\* ends with a close only in status closed.
Trails ==
  \A r \in Requests :
    /\ status[r] = "none" => audit[r] = <<>> /\ ~closedAt[r] /\ NotesOf(r) = {}
    /\ status[r] # "none" => audit[r] # <<>> /\ (Closed(r) => status[r] = "closed")

\* What may be claimed has a try left; what is delivered came due and was taken.
Rows ==
  \A n \in DOMAIN notes :
    /\ notes[n].status \in {"queued", "retry"} => notes[n].tries < MaxRetries
    /\ notes[n].status = "delivered" => notes[n].due /\ arrivals[n] > 0

\* Only a notification in hand is taken by the webhook, and none in hand is stranded.
Hands ==
  \A p \in Passes :
    /\ pass[p].taken => pass[p].batch # {} /\ arrivals[Current(p)] > 0
    /\ pass[p].batch \intersect stranded = {}

IInv == TypeOK /\ Trails /\ TrailAgrees /\ Rows /\ Hands /\ HeldOnce
-----------------------------------------------------------------------------
(* Numbers, notifications and transitions.                                 *)

LEMMA Smallest ==
  ASSUME NEW S, S \subseteq Nat, S # {}
  PROVE  \E n \in S : \A m \in S : n <= m
<1>1. PICK less : less = OpToRel(<, Nat)
  OBVIOUS
<1>2. IsWellFoundedOn(less, Nat)
  BY <1>1, NatLessThanWellFounded
<1>3. PICK n \in S : \A m \in S : <<m, n>> \notin less
  BY <1>2, WFMin
<1>4. \A m, k \in Nat : m < k => <<m, k>> \in less
  BY <1>1 DEF OpToRel
<1>5. \A m \in S : ~ (m < n)
  BY <1>3, <1>4
<1>6. QED
  BY <1>5

LEMMA Notes ==
  ASSUME TypeOK
  PROVE  /\ Len(notes) \in Nat /\ DOMAIN notes = 1..Len(notes)
         /\ \A n \in DOMAIN notes : notes[n] \in Note
         /\ arrivals \in Seq(Nat) /\ Len(arrivals) = Len(notes)
         /\ \A n \in DOMAIN notes : arrivals[n] \in Nat
<1>1. notes \in Seq(Note) /\ arrivals \in [DOMAIN notes -> Nat]
  BY DEF TypeOK
<1>2. Len(notes) \in Nat /\ DOMAIN notes = 1..Len(notes)
  BY <1>1
<1>3. \A n \in DOMAIN notes : notes[n] \in Note
  BY <1>1, <1>2, ElementOfSeq
<1>4. arrivals \in Seq(Nat) /\ Len(arrivals) = Len(notes)
  BY <1>1, <1>2
<1>5. QED
  BY <1>1, <1>2, <1>3, <1>4

\* What a pass posts is the first notification it still holds.
LEMMA CurrentHeld ==
  ASSUME TypeOK, NEW p \in Passes, pass[p].batch # {}
  PROVE  /\ Current(p) \in pass[p].batch /\ Current(p) \in DOMAIN notes
         /\ \A m \in pass[p].batch : Current(p) <= m
<1>1. pass[p].batch \subseteq DOMAIN notes /\ DOMAIN notes \subseteq Nat
  BY Notes DEF TypeOK
<1>2. \E n \in pass[p].batch : \A m \in pass[p].batch : n <= m
  BY <1>1, Smallest
<1>3. QED
  BY <1>1, <1>2 DEF Current

LEMMA Transitions ==
  ASSUME NEW r \in Requests
  PROVE  /\ {"received", "closed"} \subseteq StatusOf(r) /\ "none" \notin StatusOf(r)
         /\ StatusOf(r) \subseteq AllStatus /\ "none" \in AllStatus
         /\ \A s \in StatusOf(r) : Allowed(r, s) \subseteq StatusOf(r)
         /\ Allowed(r, "closed") = {}
<1>1. /\ DOMAIN RecordsAllowed = {"received", "acknowledged", "in_progress", "extended", "closed"}
      /\ DOMAIN AccessAllowed = {"received", "under_review", "approved", "provisioned", "denied", "revoked", "closed"}
  BY DEF RecordsAllowed, AccessAllowed
<1>2. /\ \A s \in DOMAIN RecordsAllowed : RecordsAllowed[s] \subseteq DOMAIN RecordsAllowed
      /\ RecordsAllowed["closed"] = {}
  BY DEF RecordsAllowed
<1>3. /\ \A s \in DOMAIN AccessAllowed : AccessAllowed[s] \subseteq DOMAIN AccessAllowed
      /\ AccessAllowed["closed"] = {}
  BY DEF AccessAllowed
<1>4. QED
  BY <1>1, <1>2, <1>3 DEF StatusOf, Allowed, AllStatus

-----------------------------------------------------------------------------
(* The requests.                                                           *)

\* A row of the audit is added, the others stay.
LEMMA Audited ==
  ASSUME TypeOK, NEW r \in Requests, NEW e \in Entries,
         audit' = [audit EXCEPT ![r] = Append(@, e)]
  PROVE  /\ audit' \in [Requests -> Seq(Entries)] /\ Len(audit[r]) \in Nat
         /\ Len(audit'[r]) = Len(audit[r]) + 1 /\ audit'[r][Len(audit[r]) + 1] = e
         /\ \A n \in 1..Len(audit[r]) : audit'[r][n] = audit[r][n]
         /\ audit'[r] # <<>>
         /\ \A s \in Requests : s # r => audit'[s] = audit[s]
<1>1. audit \in [Requests -> Seq(Entries)] /\ audit[r] \in Seq(Entries)
  BY DEF TypeOK
<1> DEFINE new == Append(audit[r], e)
<1>2. /\ new \in Seq(Entries) /\ Len(new) = Len(audit[r]) + 1 /\ new[Len(audit[r]) + 1] = e
      /\ Len(audit[r]) \in Nat /\ \A n \in 1..Len(audit[r]) : new[n] = audit[r][n]
  BY <1>1
<1>3. new # <<>>
  BY <1>2
<1>4. audit' = [audit EXCEPT ![r] = new]
  OBVIOUS
<1> HIDE DEF new
<1>5. QED
  BY <1>1, <1>2, <1>3, <1>4

\* A notification is added, or none.
LEMMA Notified ==
  ASSUME TypeOK, NEW r \in Requests, Notify(r)
  PROVE  /\ notes' \in Seq(Note) /\ arrivals' \in [DOMAIN notes' -> Nat]
         /\ \A n \in DOMAIN notes : n \in DOMAIN notes' /\ notes'[n] = notes[n] /\ arrivals'[n] = arrivals[n]
         /\ \A n \in DOMAIN notes' : n \in DOMAIN notes \/ (notes'[n] = NewNote(r) /\ arrivals'[n] = 0)
         /\ \A s \in Requests : NotesOf(s)' = IF s = r /\ r \in AccessRequests
                                              THEN NotesOf(s) \union {Len(notes) + 1} ELSE NotesOf(s)
<1>1. /\ notes \in Seq(Note) /\ arrivals \in Seq(Nat) /\ Len(arrivals) = Len(notes)
      /\ Len(notes) \in Nat /\ DOMAIN notes = 1..Len(notes)
  BY Notes DEF TypeOK
<1>2. CASE r \notin AccessRequests
  <2>1. notes' = notes /\ arrivals' = arrivals
    BY <1>2 DEF Notify
  <2>2. arrivals \in [DOMAIN notes -> Nat]
    BY DEF TypeOK
  <2>3. QED
    BY <1>1, <1>2, <2>1, <2>2 DEF NotesOf
<1>3. CASE r \in AccessRequests
  <2> DEFINE N == Len(notes) + 1
             new == NewNote(r)
  <2>1. notes' = Append(notes, new) /\ arrivals' = Append(arrivals, 0)
    BY <1>3 DEF Notify
  <2>2. new \in Note /\ new.request = r
    BY <1>3, DeskAssumption DEF NewNote, Note
  <2> HIDE DEF new
  <2>3. /\ notes' \in Seq(Note) /\ Len(notes') = N /\ notes'[N] = new
        /\ \A n \in 1..Len(notes) : notes'[n] = notes[n]
    BY <1>1, <2>1, <2>2
  <2>4. /\ arrivals' \in Seq(Nat) /\ Len(arrivals') = N /\ arrivals'[N] = 0
        /\ \A n \in 1..Len(notes) : arrivals'[n] = arrivals[n]
    BY <1>1, <2>1
  <2>5. DOMAIN notes' = DOMAIN notes \union {N} /\ N \notin DOMAIN notes /\ DOMAIN notes' = 1..N
    BY <1>1, <2>3
  <2>6. arrivals' \in [DOMAIN notes' -> Nat]
    BY <2>4, <2>5
  <2>7. ASSUME NEW s \in Requests
        PROVE  NotesOf(s)' = IF s = r THEN NotesOf(s) \union {N} ELSE NotesOf(s)
    BY <1>1, <2>2, <2>3, <2>5 DEF NotesOf
  <2>8. QED
    BY <1>1, <1>3, <2>3, <2>4, <2>5, <2>6, <2>7 DEF new
<1>4. QED
  BY <1>2, <1>3

\* How many notifications a request has, when one is added.
LEMMA CountedUp ==
  ASSUME TypeOK, NEW s
  PROVE  /\ IsFiniteSet(NotesOf(s)) /\ Cardinality(NotesOf(s)) \in Nat
         /\ Cardinality(NotesOf(s) \union {Len(notes) + 1}) = Cardinality(NotesOf(s)) + 1
         /\ NotesOf(s) = {} => Cardinality(NotesOf(s)) = 0
<1>1. /\ DOMAIN notes = 1..Len(notes) /\ Len(notes) \in Nat
  BY Notes
<1>2. IsFiniteSet(1..Len(notes))
  BY <1>1, FS_Interval
<1>3. IsFiniteSet(NotesOf(s))
  BY <1>1, <1>2, FS_Subset DEF NotesOf
<1>4. Len(notes) + 1 \notin NotesOf(s)
  BY <1>1 DEF NotesOf
<1>5. QED
  BY <1>3, <1>4, FS_CardinalityType, FS_AddElement, FS_EmptySet

\* The trail of one request.
TrailOf(r) ==
  /\ audit[r][1] = Entry("intake", "none", "received")
  /\ audit[r][Len(audit[r])].to = status[r]
  /\ \A n \in 2..Len(audit[r]) :
       /\ audit[r][n].from = audit[r][n - 1].to
       /\ audit[r][n].to \in Allowed(r, audit[r][n].from)
  /\ closedAt[r] = Closed(r)
  /\ r \in AccessRequests => Cardinality(NotesOf(r)) = IF Closed(r) THEN 2 ELSE 1

LEMMA TrailAgreesByRequest == TrailAgrees <=> \A r \in Requests : status[r] # "none" => TrailOf(r)
BY DEF TrailAgrees, TrailOf, Closed, NotesOf

\* What nothing was written about keeps its trail.
LEMMA TrailKept ==
  ASSUME NEW r, status'[r] = status[r], audit'[r] = audit[r], closedAt'[r] = closedAt[r],
         NotesOf(r)' = NotesOf(r)
  PROVE  (TrailOf(r)' <=> TrailOf(r)) /\ (Closed(r)' <=> Closed(r))
BY DEF TrailOf, Closed
\* What the three kinds of move have in common.
Moves(r, action, to) ==
  /\ Move(r, action, to) /\ to \in StatusOf(r)
  /\ IF action = "intake" THEN status[r] = "none" /\ to = "received"
     ELSE status[r] # "none" /\ to \in Allowed(r, status[r])
  /\ closedAt' = IF action = "close" THEN [closedAt EXCEPT ![r] = TRUE] ELSE closedAt
  /\ action = "close" => to = "closed"
  /\ IF action = "status_change" THEN UNCHANGED <<notes, arrivals>> ELSE Notify(r)
  /\ UNCHANGED <<pass, crashes, stranded>>

LEMMA MovedTypes ==
  ASSUME TypeOK, NEW r \in Requests, NEW action \in {"intake", "status_change", "close"}, NEW to,
         Moves(r, action, to)
  PROVE  TypeOK'
<1>1. /\ status \in [Requests -> AllStatus] /\ \A s \in Requests : status[s] \in StatusOf(s) \union {"none"}
      /\ closedAt \in [Requests -> BOOLEAN]
      /\ notes \in Seq(Note) /\ arrivals \in [DOMAIN notes -> Nat]
      /\ pass \in [Passes -> [batch : SUBSET (DOMAIN notes), taken : BOOLEAN]]
      /\ crashes \in 0..MaxCrashes /\ stranded \subseteq DOMAIN notes
  BY DEF TypeOK
<1>2. /\ to \in AllStatus /\ to \in StatusOf(r) /\ status' = [status EXCEPT ![r] = to]
  BY Transitions DEF Moves, Move
<1>3. status' \in [Requests -> AllStatus] /\ \A s \in Requests : status'[s] \in StatusOf(s) \union {"none"}
  BY <1>1, <1>2
<1>4. audit' \in [Requests -> Seq(Entries)]
  <2>1. Entry(action, status[r], to) \in Entries
    BY <1>1, <1>2 DEF Entry, Entries
  <2>2. audit' = [audit EXCEPT ![r] = Append(@, Entry(action, status[r], to))]
    BY DEF Moves, Move
  <2>3. QED
    BY <2>1, <2>2, Audited
<1>5. closedAt' \in [Requests -> BOOLEAN]
  BY <1>1 DEF Moves
<1>6. /\ notes' \in Seq(Note) /\ arrivals' \in [DOMAIN notes' -> Nat]
      /\ DOMAIN notes \subseteq DOMAIN notes'
  <2>1. CASE action = "status_change"
    BY <1>1, <2>1 DEF Moves
  <2>2. CASE action # "status_change"
    <3>1. Notify(r)
      BY <2>2 DEF Moves
    <3>2. QED
      BY <3>1, Notified
  <2>3. QED
    BY <2>1, <2>2
<1>7. pass' = pass /\ crashes' = crashes /\ stranded' = stranded
  BY DEF Moves
<1>8. pass' \in [Passes -> [batch : SUBSET (DOMAIN notes'), taken : BOOLEAN]]
  BY <1>1, <1>6, <1>7
<1>9. QED
  BY <1>1, <1>3, <1>4, <1>5, <1>6, <1>7, <1>8 DEF TypeOK

LEMMA MovedTrails ==
  ASSUME TypeOK, Trails, TrailAgrees, NEW r \in Requests,
         NEW action \in {"intake", "status_change", "close"}, NEW to, Moves(r, action, to)
  PROVE  Trails' /\ TrailAgrees'
<1> DEFINE e == Entry(action, status[r], to)
<1>1. /\ status' = [status EXCEPT ![r] = to] /\ audit' = [audit EXCEPT ![r] = Append(@, e)]
      /\ IF action = "intake" THEN status[r] = "none" /\ to = "received"
         ELSE status[r] # "none" /\ to \in Allowed(r, status[r])
      /\ to # "none" /\ to \in StatusOf(r)
      /\ action = "close" => to = "closed"
  BY Transitions DEF Moves, Move
<1>2. /\ status \in [Requests -> AllStatus] /\ closedAt \in [Requests -> BOOLEAN]
      /\ status[r] \in StatusOf(r) \union {"none"}
  BY DEF TypeOK
<1>3. e \in Entries /\ e.action = action /\ e.from = status[r] /\ e.to = to
  BY <1>1, <1>2, Transitions DEF Entry, Entries
<1>4. e = Entry(action, status[r], to)
  OBVIOUS
<1> HIDE DEF e
<1>5. PICK k : k = Len(audit[r])
  OBVIOUS
<1>6. /\ k \in Nat /\ Len(audit'[r]) = k + 1 /\ audit'[r][k + 1] = e
      /\ \A n \in 1..k : audit'[r][n] = audit[r][n]
      /\ audit'[r] # <<>> /\ audit[r] \in Seq(Entries)
      /\ \A s \in Requests : s # r => audit'[s] = audit[s]
  BY <1>1, <1>3, <1>5, Audited DEF TypeOK
<1>7. /\ status'[r] = to /\ \A s \in Requests : s # r => status'[s] = status[s]
      /\ closedAt'[r] = (IF action = "close" THEN TRUE ELSE closedAt[r])
      /\ \A s \in Requests : s # r => closedAt'[s] = closedAt[s]
  BY <1>1, <1>2 DEF Moves
<1>8. \A s \in Requests : NotesOf(s)' = IF s = r /\ r \in AccessRequests /\ action # "status_change"
                                        THEN NotesOf(s) \union {Len(notes) + 1} ELSE NotesOf(s)
  <2>1. CASE action = "status_change"
    BY <2>1 DEF Moves, NotesOf
  <2>2. CASE action # "status_change"
    <3>1. Notify(r)
      BY <2>2 DEF Moves
    <3>2. QED
      BY <2>2, <3>1, Notified
  <2>3. QED
    BY <2>1, <2>2
\* Nothing is written about other requests.
<1>9. \A s \in Requests : s # r => (TrailOf(s)' <=> TrailOf(s)) /\ (Closed(s)' <=> Closed(s))
  BY <1>6, <1>7, <1>8, TrailKept
<1>10. Closed(r)' <=> action = "close"
  BY <1>3, <1>6 DEF Closed
\* A request that can move was not closed: nothing is allowed after that.
<1>11. /\ status[r] = "none" => audit[r] = <<>> /\ ~closedAt[r] /\ NotesOf(r) = {}
       /\ status[r] # "none" => audit[r] # <<>> /\ ~Closed(r) /\ TrailOf(r)
  <2>1. status[r] # "closed"
    BY <1>1, Transitions
  <2>2. QED
    BY <2>1, TrailAgreesByRequest DEF Trails
<1>12. Trails'
  <2>1. ASSUME NEW s \in Requests, s # r
        PROVE  /\ status'[s] = "none" => audit'[s] = <<>> /\ ~closedAt'[s] /\ NotesOf(s)' = {}
               /\ status'[s] # "none" => audit'[s] # <<>> /\ (Closed(s)' => status'[s] = "closed")
    BY <1>6, <1>7, <1>8, <1>9, <2>1 DEF Trails
  <2>2. status'[r] # "none" /\ audit'[r] # <<>> /\ (Closed(r)' => status'[r] = "closed")
    BY <1>1, <1>6, <1>7, <1>10
  <2>3. QED
    BY <2>1, <2>2 DEF Trails
<1>13. TrailOf(r)'
  <2>1. audit'[r][Len(audit'[r])].to = status'[r]
    BY <1>3, <1>6, <1>7
  <2>2. CASE action = "intake"
    <3>1. audit[r] = <<>> /\ k = 0 /\ e = Entry("intake", "none", "received")
      BY <1>1, <1>4, <1>5, <1>11, <2>2
    <3>2. audit'[r][1] = Entry("intake", "none", "received")
      BY <1>6, <3>1
    <3>3. \A n \in 2..Len(audit'[r]) : FALSE
      BY <1>6, <3>1
    <3>4. closedAt'[r] = FALSE /\ ~Closed(r)' /\ closedAt'[r] = Closed(r)'
      BY <1>1, <1>2, <1>7, <1>10, <1>11, <2>2 DEF Closed
    <3>5. r \in AccessRequests => Cardinality(NotesOf(r)') = 1
      BY <1>1, <1>8, <1>11, <2>2, CountedUp
    <3>6. QED
      BY <2>1, <3>2, <3>3, <3>4, <3>5 DEF TrailOf
  <2>3. CASE action # "intake"
    <3>1. TrailOf(r) /\ ~Closed(r) /\ audit[r] # <<>> /\ k >= 1
      BY <1>1, <1>5, <1>6, <1>11, <2>3
    <3>2. audit'[r][1] = Entry("intake", "none", "received")
      BY <1>6, <3>1 DEF TrailOf
    <3>3. ASSUME NEW n \in 2..Len(audit'[r])
          PROVE  /\ audit'[r][n].from = audit'[r][n - 1].to
                 /\ audit'[r][n].to \in Allowed(r, audit'[r][n].from)
      <4>1. n \in 2..k \/ n = k + 1
        BY <1>6
      <4>2. CASE n \in 2..k
        <5>1. n \in 1..k /\ n - 1 \in 1..k
          BY <1>6, <4>2
        <5>2. QED
          BY <1>5, <1>6, <3>1, <4>2, <5>1 DEF TrailOf
      <4>3. CASE n = k + 1
        <5>1. audit'[r][n] = e /\ audit'[r][n - 1] = audit[r][k]
          BY <1>6, <3>1, <4>3
        <5>2. audit[r][k].to = status[r]
          BY <1>5, <3>1 DEF TrailOf
        <5>3. QED
          BY <1>1, <1>3, <2>3, <5>1, <5>2
      <4>4. QED
        BY <4>1, <4>2, <4>3
    <3>4. closedAt'[r] = Closed(r)'
      <4>1. closedAt[r] = FALSE
        BY <1>2, <3>1 DEF TrailOf
      <4>2. Closed(r)' = (action = "close")
        BY <1>3, <1>6 DEF Closed
      <4>3. QED
        BY <1>7, <4>1, <4>2
    <3>5. r \in AccessRequests => Cardinality(NotesOf(r)') = IF Closed(r)' THEN 2 ELSE 1
      <4>1. r \in AccessRequests => Cardinality(NotesOf(r)) = 1
        BY <3>1 DEF TrailOf
      <4>2. CASE action = "close"
        BY <1>8, <1>10, <4>1, <4>2, CountedUp
      <4>3. CASE action = "status_change"
        BY <1>8, <1>10, <4>1, <4>3
      <4>4. QED
        BY <2>3, <4>2, <4>3
    <3>6. QED
      BY <2>1, <3>2, <3>3, <3>4, <3>5 DEF TrailOf
  <2>4. QED
    BY <2>2, <2>3
<1>14. \A s \in Requests : status'[s] # "none" => TrailOf(s)'
  BY <1>7, <1>9, <1>13, TrailAgreesByRequest
<1>15. TrailAgrees'
  BY <1>14 DEF TrailAgrees, TrailOf, Closed, NotesOf
<1>16. QED
  BY <1>12, <1>15

LEMMA MovedWorker ==
  ASSUME IInv, NEW r \in Requests, NEW action \in {"intake", "status_change", "close"}, NEW to,
         Moves(r, action, to)
  PROVE  Rows' /\ Hands' /\ HeldOnce'
<1>1. /\ TypeOK /\ Rows /\ Hands /\ HeldOnce
      /\ pass' = pass /\ stranded' = stranded
  BY DEF IInv, Moves
<1>2. /\ \A n \in DOMAIN notes : n \in DOMAIN notes' /\ notes'[n] = notes[n] /\ arrivals'[n] = arrivals[n]
      /\ \A n \in DOMAIN notes' : n \in DOMAIN notes \/ (notes'[n] = NewNote(r) /\ arrivals'[n] = 0)
  <2>1. CASE action = "status_change"
    BY <2>1 DEF Moves
  <2>2. CASE action # "status_change"
    <3>1. Notify(r)
      BY <2>2 DEF Moves
    <3>2. QED
      BY <1>1, <3>1, Notified
  <2>3. QED
    BY <2>1, <2>2
<1>3. NewNote(r).status = "queued" /\ NewNote(r).tries = 0 /\ 0 < MaxRetries
  BY DeskAssumption DEF NewNote
<1>4. Rows'
  BY <1>1, <1>2, <1>3 DEF Rows
<1>5. Hands'
  <2>1. ASSUME NEW p \in Passes, pass[p].taken
        PROVE  pass[p].batch # {} /\ arrivals'[Current(p)] > 0
    BY <1>1, <1>2, <2>1, CurrentHeld DEF Hands
  <2>2. \A p \in Passes : Current(p)' = Current(p)
    BY <1>1 DEF Current
  <2>3. QED
    BY <1>1, <2>1, <2>2 DEF Hands
<1>6. HeldOnce'
  <2>1. stranded \subseteq DOMAIN notes /\ \A p \in Passes : pass[p].batch \subseteq DOMAIN notes
    BY <1>1 DEF TypeOK
  <2>2. ASSUME NEW n \in DOMAIN notes'
        PROVE  (notes'[n].status = "processing") <=> (n \in stranded \/ \E p \in Passes : n \in pass[p].batch)
    <3>1. CASE n \in DOMAIN notes
      BY <1>1, <1>2, <3>1 DEF HeldOnce
    <3>2. CASE n \notin DOMAIN notes
      BY <1>2, <1>3, <2>1, <3>2
    <3>3. QED
      BY <3>1, <3>2
  <2>3. QED
    BY <1>1, <2>2 DEF HeldOnce
<1>7. QED
  BY <1>4, <1>5, <1>6

LEMMA MoveKeeps ==
  ASSUME IInv, NEW r \in Requests, NEW to \in StatusOf(r), Intake(r) \/ Close(r) \/ Transition(r, to)
  PROVE  IInv'
<1>1. CASE Intake(r)
  <2>1. Moves(r, "intake", "received")
    BY <1>1, Transitions DEF Intake, Moves
  <2>2. QED
    BY <2>1, MovedTypes, MovedTrails, MovedWorker DEF IInv
<1>2. CASE Close(r)
  <2>1. Moves(r, "close", "closed")
    BY <1>2, Transitions DEF Close, Moves
  <2>2. QED
    BY <2>1, MovedTypes, MovedTrails, MovedWorker DEF IInv
<1>3. CASE Transition(r, to)
  <2>1. Moves(r, "status_change", to)
    BY <1>3, Transitions DEF Transition, Moves, workerVars
  <2>2. QED
    BY <2>1, MovedTypes, MovedTrails, MovedWorker DEF IInv
<1>4. QED
  BY <1>1, <1>2, <1>3
-----------------------------------------------------------------------------
(* The worker.                                                             *)

LEMMA TrailsKept ==
  ASSUME Trails, TrailAgrees, UNCHANGED requestVars, DOMAIN notes' = DOMAIN notes,
         \A n \in DOMAIN notes : notes'[n].request = notes[n].request
  PROVE  Trails' /\ TrailAgrees'
<1>1. status' = status /\ audit' = audit /\ closedAt' = closedAt
  BY DEF requestVars
<1>2. \A r \in Requests : NotesOf(r)' = NotesOf(r)
  BY DEF NotesOf
<1>3. \A r \in Requests : (TrailOf(r)' <=> TrailOf(r)) /\ (Closed(r)' <=> Closed(r))
  BY <1>1, <1>2, TrailKept
<1>4. Trails'
  BY <1>1, <1>2, <1>3 DEF Trails
<1>5. \A r \in Requests : status'[r] # "none" => TrailOf(r)'
  BY <1>1, <1>3, TrailAgreesByRequest
<1>6. QED
  BY <1>4, <1>5 DEF TrailAgrees, TrailOf, Closed, NotesOf

LEMMA StartPassKeeps ==
  ASSUME IInv, NEW p \in Passes, StartPass(p)
  PROVE  IInv'
<1> DEFINE row(n) == [notes[n] EXCEPT !.status = "processing", !.tries = @ + 1]
<1>1. PICK claimed :
        /\ claimed = {n \in Due : Cardinality({m \in Due : m < n}) < BatchSize}
        /\ pass' = [pass EXCEPT ![p] = [batch |-> claimed, taken |-> FALSE]]
        /\ notes' = [n \in DOMAIN notes |-> IF n \in claimed THEN row(n) ELSE notes[n]]
        /\ pass[p].batch = {}
        /\ UNCHANGED <<arrivals, crashes, stranded>> /\ UNCHANGED requestVars
  BY DEF StartPass
<1>2. /\ TypeOK /\ Trails /\ TrailAgrees /\ Rows /\ Hands /\ HeldOnce
      /\ DOMAIN notes = 1..Len(notes) /\ Len(notes) \in Nat /\ \A n \in DOMAIN notes : notes[n] \in Note
  BY Notes DEF IInv
<1>3. /\ claimed \subseteq DOMAIN notes
      /\ \A n \in claimed : notes[n].status \in {"queued", "retry"}
  BY <1>1 DEF Due
<1>4. \A n \in claimed : /\ row(n) \in Note /\ row(n).status = "processing"
                         /\ row(n).request = notes[n].request
  <2> SUFFICES ASSUME NEW n \in claimed
               PROVE  /\ row(n) \in Note /\ row(n).status = "processing"
                      /\ row(n).request = notes[n].request
    OBVIOUS
  <2>1. notes[n] \in Note /\ notes[n].tries < MaxRetries
    BY <1>2, <1>3 DEF Rows
  <2>2. notes[n].tries \in Nat /\ notes[n].tries + 1 \in 0..MaxRetries
    BY <2>1, DeskAssumption DEF Note
  <2>3. QED
    BY <2>1, <2>2 DEF Note
<1> HIDE DEF row
<1>5. /\ notes' \in Seq(Note) /\ DOMAIN notes' = DOMAIN notes
      /\ \A n \in DOMAIN notes : notes'[n] = IF n \in claimed THEN row(n) ELSE notes[n]
  <2>1. \A n \in 1..Len(notes) : (IF n \in claimed THEN row(n) ELSE notes[n]) \in Note
    BY <1>2, <1>4
  <2>2. notes' = [n \in 1..Len(notes) |-> IF n \in claimed THEN row(n) ELSE notes[n]]
    BY <1>1, <1>2
  <2>3. QED
    BY <1>2, <2>1, <2>2
<1>6. /\ pass' \in [Passes -> [batch : SUBSET (DOMAIN notes), taken : BOOLEAN]]
      /\ pass'[p].batch = claimed /\ pass'[p].taken = FALSE
      /\ \A q \in Passes : q # p => pass'[q] = pass[q]
  BY <1>1, <1>2, <1>3 DEF TypeOK
<1>7. TypeOK'
  <2>1. UNCHANGED <<status, closedAt, audit, arrivals, crashes, stranded>>
    BY <1>1 DEF requestVars
  <2>2. QED
    BY <1>2, <1>5, <1>6, <2>1 DEF TypeOK
<1>8. Trails' /\ TrailAgrees'
  BY <1>1, <1>2, <1>4, <1>5, TrailsKept
<1>9. Rows'
  BY <1>1, <1>2, <1>4, <1>5 DEF Rows
\* What is claimed was in nobody's hands and is not stranded.
<1>10. \A n \in claimed : n \notin stranded /\ \A q \in Passes : n \notin pass[q].batch
  BY <1>2, <1>3 DEF HeldOnce
<1>11. Hands'
  <2>1. ASSUME NEW q \in Passes
        PROVE  /\ pass'[q].taken => pass'[q].batch # {} /\ arrivals[Current(q)'] > 0
               /\ pass'[q].batch \intersect stranded = {}
    <3>1. CASE q = p
      BY <1>6, <1>10, <3>1
    <3>2. CASE q # p
      BY <1>2, <1>6, <3>2 DEF Hands, Current
    <3>3. QED
      BY <3>1, <3>2
  <2>2. QED
    BY <1>1, <2>1 DEF Hands
<1>12. HeldOnce'
  <2>1. \A q, r \in Passes : q # r => pass'[q].batch \intersect pass'[r].batch = {}
    BY <1>2, <1>6, <1>10 DEF HeldOnce
  <2>2. ASSUME NEW n \in DOMAIN notes
        PROVE  (notes'[n].status = "processing") <=> (n \in stranded \/ \E q \in Passes : n \in pass'[q].batch)
    <3>1. CASE n \in claimed
      BY <1>4, <1>5, <1>6, <3>1
    <3>2. CASE n \notin claimed
      <4>1. (\E q \in Passes : n \in pass'[q].batch) <=> (\E q \in Passes : n \in pass[q].batch)
        BY <1>1, <1>6, <3>2
      <4>2. QED
        BY <1>2, <1>5, <3>2, <4>1 DEF HeldOnce
    <3>3. QED
      BY <3>1, <3>2
  <2>3. QED
    BY <1>1, <1>5, <2>1, <2>2 DEF HeldOnce
<1>13. QED
  BY <1>7, <1>8, <1>9, <1>11, <1>12 DEF IInv

LEMMA ArriveKeeps ==
  ASSUME IInv, NEW p \in Passes, Arrive(p)
  PROVE  IInv'
<1>1. PICK n : n = Current(p)
  OBVIOUS
<1>2. /\ pass[p].batch # {} /\ pass' = [pass EXCEPT ![p].taken = TRUE]
      /\ arrivals' = [arrivals EXCEPT ![n] = @ + 1]
      /\ UNCHANGED <<notes, crashes, stranded>> /\ UNCHANGED requestVars
  BY <1>1 DEF Arrive
<1>3. TypeOK /\ Trails /\ TrailAgrees /\ Rows /\ Hands /\ HeldOnce
  BY DEF IInv
<1>4. n \in DOMAIN notes
  BY <1>1, <1>2, <1>3, CurrentHeld
<1>5. /\ arrivals' \in [DOMAIN notes -> Nat] /\ arrivals'[n] > 0
      /\ \A m \in DOMAIN notes : arrivals[m] > 0 => arrivals'[m] > 0
  <2>1. arrivals \in [DOMAIN notes -> Nat]
    BY <1>3 DEF TypeOK
  <2>2. QED
    BY <1>2, <1>4, <2>1
<1>6. /\ pass' \in [Passes -> [batch : SUBSET (DOMAIN notes), taken : BOOLEAN]]
      /\ \A q \in Passes : pass'[q].batch = pass[q].batch /\ (q # p => pass'[q] = pass[q])
  BY <1>2, <1>3 DEF TypeOK
<1>7. TypeOK'
  <2>1. UNCHANGED <<status, closedAt, audit, notes, crashes, stranded>>
    BY <1>2 DEF requestVars
  <2>2. QED
    BY <1>3, <1>5, <1>6, <2>1 DEF TypeOK
<1>8. Trails' /\ TrailAgrees'
  BY <1>2, <1>3, TrailsKept
<1>9. Rows'
  BY <1>2, <1>3, <1>5 DEF Rows
<1>10. Hands'
  <2>1. \A q \in Passes : Current(q)' = Current(q)
    BY <1>6 DEF Current
  <2>2. ASSUME NEW q \in Passes, pass'[q].taken
        PROVE  pass'[q].batch # {} /\ arrivals'[Current(q)] > 0
    <3>1. CASE q = p
      BY <1>1, <1>2, <1>5, <1>6, <3>1
    <3>2. CASE q # p
      <4>1. pass[q].taken /\ pass[q].batch # {} /\ arrivals[Current(q)] > 0
        BY <1>3, <1>6, <2>2, <3>2 DEF Hands
      <4>2. Current(q) \in DOMAIN notes
        BY <1>3, <4>1, CurrentHeld
      <4>3. QED
        BY <1>5, <1>6, <4>1, <4>2
    <3>3. QED
      BY <3>1, <3>2
  <2>3. QED
    BY <1>2, <1>3, <1>6, <2>1, <2>2 DEF Hands
<1>11. HeldOnce'
  BY <1>2, <1>3, <1>6 DEF HeldOnce
<1>12. QED
  BY <1>7, <1>8, <1>9, <1>10, <1>11 DEF IInv

\* The row a pass writes when it is done with a notification.
LEMMA SettledRow ==
  ASSUME IInv, NEW p \in Passes, pass[p].batch # {}, NEW n, n = Current(p), NEW row \in Note,
         row.request = notes[n].request, row.status # "processing",
         row.status \in {"queued", "retry"} => row.tries < MaxRetries,
         row.status = "delivered" => row.due /\ arrivals[n] > 0,
         notes' = [notes EXCEPT ![n] = row], Proceed(p),
         UNCHANGED <<arrivals, crashes, stranded>>, UNCHANGED requestVars
  PROVE  IInv'
<1>1. TypeOK /\ Trails /\ TrailAgrees /\ Rows /\ Hands /\ HeldOnce
  BY DEF IInv
<1>2. n \in DOMAIN notes /\ n \in pass[p].batch
  BY <1>1, CurrentHeld
<1>3. /\ notes' \in Seq(Note) /\ DOMAIN notes' = DOMAIN notes
      /\ notes'[n] = row /\ \A m \in DOMAIN notes : m # n => notes'[m] = notes[m]
  BY <1>1, <1>2 DEF TypeOK
<1>4. /\ pass' \in [Passes -> [batch : SUBSET (DOMAIN notes), taken : BOOLEAN]]
      /\ pass'[p].batch = pass[p].batch \ {n} /\ pass'[p].taken = FALSE
      /\ \A q \in Passes : q # p => pass'[q] = pass[q]
  <2>1. pass' = [pass EXCEPT ![p] = [batch |-> pass[p].batch \ {n}, taken |-> FALSE]]
    BY DEF Proceed
  <2>2. pass \in [Passes -> [batch : SUBSET (DOMAIN notes), taken : BOOLEAN]]
    BY <1>1 DEF TypeOK
  <2>3. QED
    BY <2>1, <2>2
<1>5. TypeOK'
  <2>1. UNCHANGED <<status, closedAt, audit, arrivals, crashes, stranded>>
    BY DEF requestVars
  <2>2. QED
    BY <1>1, <1>3, <1>4, <2>1 DEF TypeOK
<1>6. Trails' /\ TrailAgrees'
  BY <1>1, <1>3, TrailsKept
<1>7. Rows'
  BY <1>1, <1>3 DEF Rows
<1>8. Hands'
  <2>1. ASSUME NEW q \in Passes
        PROVE  /\ pass'[q].taken => pass'[q].batch # {} /\ arrivals[Current(q)'] > 0
               /\ pass'[q].batch \intersect stranded = {}
    <3>1. CASE q = p
      BY <1>1, <1>4, <3>1 DEF Hands
    <3>2. CASE q # p
      BY <1>1, <1>4, <3>2 DEF Hands, Current
    <3>3. QED
      BY <3>1, <3>2
  <2>2. QED
    BY <2>1 DEF Hands
<1>9. HeldOnce'
  <2>1. \A q \in Passes : pass'[q].batch \subseteq pass[q].batch
    BY <1>4
  <2>2. \A q \in Passes : n \notin pass'[q].batch
    BY <1>1, <1>2, <1>4 DEF HeldOnce
  <2>3. n \notin stranded
    BY <1>1, <1>2 DEF Hands
  <2>4. ASSUME NEW m \in DOMAIN notes
        PROVE  (notes'[m].status = "processing") <=> (m \in stranded \/ \E q \in Passes : m \in pass'[q].batch)
    <3>1. CASE m = n
      BY <1>3, <2>2, <2>3, <3>1
    <3>2. CASE m # n
      <4>1. \A q \in Passes : m \in pass'[q].batch <=> m \in pass[q].batch
        BY <1>4, <3>2
      <4>2. QED
        BY <1>1, <1>3, <3>2, <4>1 DEF HeldOnce
    <3>3. QED
      BY <3>1, <3>2
  <2>5. \A q, r \in Passes : q # r => pass'[q].batch \intersect pass'[r].batch = {}
    BY <1>1, <2>1 DEF HeldOnce
  <2>6. QED
    BY <1>3, <2>4, <2>5 DEF HeldOnce
<1>10. QED
  BY <1>5, <1>6, <1>7, <1>8, <1>9 DEF IInv

LEMMA DeliverKeeps ==
  ASSUME IInv, NEW p \in Passes, Deliver(p)
  PROVE  IInv'
<1>1. PICK n : n = Current(p)
  OBVIOUS
<1>2. TypeOK /\ pass[p].batch # {} /\ arrivals[n] > 0
  BY <1>1 DEF IInv, Hands, Deliver
<1>3. n \in DOMAIN notes /\ notes[n] \in Note
  BY <1>1, <1>2, CurrentHeld, Notes
<1>4. PICK row : row = [notes[n] EXCEPT !.status = "delivered", !.sent = TRUE, !.due = TRUE]
  OBVIOUS
<1>5. row \in Note /\ row.request = notes[n].request /\ row.status = "delivered" /\ row.due
  BY <1>3, <1>4 DEF Note
<1>6. notes' = [notes EXCEPT ![n] = row]
  <2>1. notes' = [notes EXCEPT ![n].status = "delivered", ![n].sent = TRUE, ![n].due = TRUE]
    BY <1>1 DEF Deliver
  <2>2. notes \in [DOMAIN notes -> Note]
    BY <1>2, Notes DEF TypeOK
  <2>3. QED
    BY <1>3, <1>4, <2>1, <2>2
<1>7. Proceed(p) /\ UNCHANGED <<arrivals, crashes, stranded>> /\ UNCHANGED requestVars
  BY DEF Deliver
<1>8. QED
  BY <1>1, <1>2, <1>5, <1>6, <1>7, SettledRow

LEMMA FailKeeps ==
  ASSUME IInv, NEW p \in Passes, Fail(p)
  PROVE  IInv'
<1>1. PICK n : n = Current(p)
  OBVIOUS
<1> DEFINE out == notes[n].tries >= MaxRetries
<1>2. TypeOK /\ pass[p].batch # {}
  BY DEF IInv, Fail
<1>3. n \in DOMAIN notes /\ notes[n] \in Note
  BY <1>1, <1>2, CurrentHeld, Notes
<1>4. PICK row : row = [notes[n] EXCEPT !.status = IF out THEN "failed" ELSE "retry", !.due = out]
  OBVIOUS
<1>5. /\ row \in Note /\ row.request = notes[n].request /\ row.status \in {"failed", "retry"}
      /\ row.status = "retry" => row.tries < MaxRetries
  <2>1. notes[n].tries \in Nat /\ MaxRetries \in Nat /\ out \in BOOLEAN
    BY <1>1, <1>3, DeskAssumption DEF Note
  <2>2. row \in Note /\ row.request = notes[n].request /\ row.tries = notes[n].tries
    BY <1>3, <1>4, <2>1 DEF Note
  <2>3. row.status = IF out THEN "failed" ELSE "retry"
    BY <1>3, <1>4 DEF Note
  <2>4. row.status = "retry" => ~out
    BY <2>3
  <2>5. ~out => notes[n].tries < MaxRetries
    BY <2>1
  <2>6. row.status \in {"failed", "retry"}
    BY <2>3
  <2>7. QED
    BY <2>2, <2>4, <2>5, <2>6
<1>6. notes' = [notes EXCEPT ![n] = row]
  <2>1. notes' = [notes EXCEPT ![n].status = IF out THEN "failed" ELSE "retry", ![n].due = out]
    BY <1>1 DEF Fail
  <2>2. notes \in [DOMAIN notes -> Note]
    BY <1>2, Notes DEF TypeOK
  <2>3. QED
    BY <1>3, <1>4, <2>1, <2>2
<1>7. Proceed(p) /\ UNCHANGED <<arrivals, crashes, stranded>> /\ UNCHANGED requestVars
  BY DEF Fail
<1>8. QED
  BY <1>1, <1>2, <1>5, <1>6, <1>7, SettledRow

\* Passes that end before their time leave what they held in processing.
LEMMA AbandonKeeps ==
  ASSUME IInv, NEW gone, gone \subseteq Passes,
         pass' = [p \in Passes |-> IF p \in gone THEN IdlePass ELSE pass[p]],
         stranded' = stranded \union UNION {pass[p].batch : p \in gone},
         crashes' \in 0..MaxCrashes, UNCHANGED <<notes, arrivals>>, UNCHANGED requestVars
  PROVE  IInv'
<1>1. TypeOK /\ Trails /\ TrailAgrees /\ Rows /\ Hands /\ HeldOnce
  BY DEF IInv
<1>2. /\ pass \in [Passes -> [batch : SUBSET (DOMAIN notes), taken : BOOLEAN]]
      /\ stranded \subseteq DOMAIN notes
  BY <1>1 DEF TypeOK
<1>3. \A p \in Passes : pass'[p] = IF p \in gone THEN IdlePass ELSE pass[p]
  OBVIOUS
<1>4. /\ IdlePass \in [batch : SUBSET (DOMAIN notes), taken : BOOLEAN]
      /\ IdlePass.batch = {} /\ IdlePass.taken = FALSE
  BY DEF IdlePass
<1>5. TypeOK'
  <2>1. UNCHANGED <<status, closedAt, audit, notes, arrivals>>
    BY DEF requestVars
  <2>2. pass' \in [Passes -> [batch : SUBSET (DOMAIN notes), taken : BOOLEAN]]
    BY <1>2, <1>4
  <2>3. stranded' \subseteq DOMAIN notes
    BY <1>2
  <2>4. QED
    BY <1>1, <2>1, <2>2, <2>3 DEF TypeOK
<1>6. Trails' /\ TrailAgrees'
  BY <1>1, TrailsKept
<1>7. Rows'
  BY <1>1 DEF Rows
<1>8. Hands'
  <2>1. ASSUME NEW q \in Passes
        PROVE  /\ pass'[q].taken => pass'[q].batch # {} /\ arrivals[Current(q)'] > 0
               /\ pass'[q].batch \intersect stranded' = {}
    <3>1. CASE q \in gone
      BY <1>3, <1>4, <3>1
    <3>2. CASE q \notin gone
      <4>1. pass'[q] = pass[q] /\ \A p \in gone : p # q
        BY <1>3, <3>2
      <4>2. pass[q].batch \intersect stranded' = {}
        BY <1>1, <4>1 DEF Hands, HeldOnce
      <4>3. QED
        BY <1>1, <4>1, <4>2 DEF Hands, Current
    <3>3. QED
      BY <3>1, <3>2
  <2>2. QED
    BY <2>1 DEF Hands
<1>9. HeldOnce'
  <2>1. \A q, r \in Passes : q # r => pass'[q].batch \intersect pass'[r].batch = {}
    BY <1>1, <1>3, <1>4 DEF HeldOnce
  <2>2. ASSUME NEW n
        PROVE  (n \in stranded' \/ \E p \in Passes : n \in pass'[p].batch)
               <=> (n \in stranded \/ \E p \in Passes : n \in pass[p].batch)
    <3>1. n \in stranded' <=> (n \in stranded \/ \E p \in gone : n \in pass[p].batch)
      OBVIOUS
    <3>2. (\E p \in Passes : n \in pass'[p].batch) <=> (\E p \in Passes \ gone : n \in pass[p].batch)
      BY <1>3, <1>4
    <3>3. QED
      BY <3>1, <3>2
  <2>3. QED
    BY <1>1, <2>1, <2>2 DEF HeldOnce
<1>10. QED
  BY <1>5, <1>6, <1>7, <1>8, <1>9 DEF IInv

LEMMA GiveUpKeeps ==
  ASSUME IInv, NEW p \in Passes, GiveUp(p)
  PROVE  IInv'
<1>1. /\ stranded' = stranded \union pass[p].batch /\ pass' = [pass EXCEPT ![p] = IdlePass]
      /\ UNCHANGED <<notes, arrivals, crashes>> /\ UNCHANGED requestVars
  BY DEF GiveUp
<1>2. /\ pass \in [Passes -> [batch : SUBSET (DOMAIN notes), taken : BOOLEAN]]
      /\ crashes' \in 0..MaxCrashes
  BY <1>1 DEF IInv, TypeOK
<1>3. PICK gone : gone = {p}
  OBVIOUS
<1>4. /\ gone \subseteq Passes /\ pass' = [q \in Passes |-> IF q \in gone THEN IdlePass ELSE pass[q]]
      /\ stranded' = stranded \union UNION {pass[q].batch : q \in gone}
  BY <1>1, <1>2, <1>3
<1>5. QED
  BY <1>1, <1>2, <1>4, AbandonKeeps

LEMMA CrashKeeps ==
  ASSUME IInv, Crash
  PROVE  IInv'
<1>1. /\ stranded' = stranded \union UNION {pass[p].batch : p \in Passes}
      /\ pass' = [p \in Passes |-> IdlePass]
      /\ crashes < MaxCrashes /\ crashes' = crashes + 1
      /\ UNCHANGED <<notes, arrivals>> /\ UNCHANGED requestVars
  BY DEF Crash
<1>2. crashes \in 0..MaxCrashes /\ MaxCrashes \in Nat
  BY DeskAssumption DEF IInv, TypeOK
<1>3. crashes' \in 0..MaxCrashes
  BY <1>1, <1>2
<1>4. pass' = [p \in Passes |-> IF p \in Passes THEN IdlePass ELSE pass[p]]
  BY <1>1
<1>5. QED
  BY <1>1, <1>3, <1>4, AbandonKeeps

LEMMA ComeDueKeeps ==
  ASSUME IInv, NEW n \in DOMAIN notes, ComeDue(n)
  PROVE  IInv'
<1>1. TypeOK /\ Trails /\ TrailAgrees /\ Rows /\ Hands /\ HeldOnce
  BY DEF IInv
<1>2. PICK row : row = [notes[n] EXCEPT !.due = TRUE]
  OBVIOUS
<1>3. notes[n] \in Note /\ notes \in Seq(Note)
  BY <1>1, Notes DEF TypeOK
<1>4. /\ row \in Note /\ row.request = notes[n].request /\ row.status = notes[n].status
      /\ row.tries = notes[n].tries /\ row.due
  BY <1>2, <1>3 DEF Note
<1>5. notes' = [notes EXCEPT ![n] = row]
  BY <1>2 DEF ComeDue
<1>6. UNCHANGED <<pass, arrivals, crashes, stranded>> /\ UNCHANGED requestVars
  BY DEF ComeDue, workerVars
<1>7. /\ notes' \in Seq(Note) /\ DOMAIN notes' = DOMAIN notes
      /\ notes'[n] = row /\ \A m \in DOMAIN notes : m # n => notes'[m] = notes[m]
  BY <1>3, <1>4, <1>5
<1>8. TypeOK'
  <2>1. UNCHANGED <<status, closedAt, audit, pass, arrivals, crashes, stranded>>
    BY <1>6 DEF requestVars
  <2>2. QED
    BY <1>1, <1>7, <2>1 DEF TypeOK
<1>9. Trails' /\ TrailAgrees'
  BY <1>1, <1>4, <1>6, <1>7, TrailsKept
<1>10. Rows'
  BY <1>1, <1>4, <1>6, <1>7 DEF Rows
<1>11. Hands'
  <2>1. \A p \in Passes : Current(p)' = Current(p)
    BY <1>6 DEF Current
  <2>2. QED
    BY <1>1, <1>6, <2>1 DEF Hands
<1>12. HeldOnce'
  BY <1>1, <1>4, <1>6, <1>7 DEF HeldOnce
<1>13. QED
  BY <1>8, <1>9, <1>10, <1>11, <1>12 DEF IInv
-----------------------------------------------------------------------------
(* The desk.                                                               *)

LEMMA Opened == Init => IInv
<1> SUFFICES ASSUME Init PROVE IInv
  OBVIOUS
<1>1. /\ status = [r \in Requests |-> "none"] /\ closedAt = [r \in Requests |-> FALSE]
      /\ audit = [r \in Requests |-> <<>>] /\ notes = <<>> /\ arrivals = <<>>
      /\ pass = [p \in Passes |-> IdlePass] /\ crashes = 0 /\ stranded = {}
  BY DEF Init
<1>2. DOMAIN notes = {} /\ DOMAIN arrivals = {} /\ notes \in Seq(Note)
  BY <1>1
<1>3. /\ \A p \in Passes : pass[p].batch = {} /\ pass[p].taken = FALSE
      /\ pass \in [Passes -> [batch : SUBSET (DOMAIN notes), taken : BOOLEAN]]
  BY <1>1, <1>2 DEF IdlePass
<1>4. TypeOK
  <2>1. status \in [Requests -> AllStatus] /\ \A r \in Requests : status[r] \in StatusOf(r) \union {"none"}
    BY <1>1 DEF AllStatus
  <2>2. closedAt \in [Requests -> BOOLEAN] /\ audit \in [Requests -> Seq(Entries)]
    BY <1>1
  <2>3. arrivals \in [DOMAIN notes -> Nat]
    BY <1>1, <1>2
  <2>4. crashes \in 0..MaxCrashes /\ stranded \subseteq DOMAIN notes
    BY <1>1, DeskAssumption
  <2>5. QED
    BY <1>2, <1>3, <2>1, <2>2, <2>3, <2>4 DEF TypeOK
<1>5. \A r \in Requests : status[r] = "none" /\ audit[r] = <<>> /\ ~closedAt[r] /\ NotesOf(r) = {}
  BY <1>1, <1>2 DEF NotesOf
<1>6. Trails /\ TrailAgrees
  BY <1>5 DEF Trails, TrailAgrees
<1>7. Rows /\ Hands /\ HeldOnce
  BY <1>2, <1>3 DEF Rows, Hands, HeldOnce
<1>8. QED
  BY <1>4, <1>6, <1>7 DEF IInv

LEMMA Stepped == IInv /\ [Next]_vars => IInv'
<1> SUFFICES ASSUME IInv, [Next]_vars PROVE IInv'
  OBVIOUS
<1>1. ASSUME NEW r \in Requests, Intake(r) \/ Close(r) PROVE IInv'
  <2>1. "received" \in StatusOf(r)
    BY Transitions
  <2>2. QED
    BY <1>1, <2>1, MoveKeeps
<1>2. ASSUME NEW r \in Requests, NEW to \in StatusOf(r), Transition(r, to) PROVE IInv'
  BY <1>2, MoveKeeps
<1>3. ASSUME NEW p \in Passes, StartPass(p) \/ Arrive(p) \/ Settle(p) PROVE IInv'
  BY <1>3, StartPassKeeps, ArriveKeeps, DeliverKeeps, FailKeeps, GiveUpKeeps DEF Settle
<1>4. ASSUME NEW n \in DOMAIN notes, ComeDue(n) PROVE IInv'
  BY <1>4, ComeDueKeeps
<1>5. CASE Crash
  BY <1>5, CrashKeeps
<1>6. CASE UNCHANGED vars
  <2>1. UNCHANGED <<status, closedAt, audit, notes, pass, arrivals, crashes, stranded>>
    BY <1>6 DEF vars
  <2>2. TypeOK'
    BY <2>1 DEF IInv, TypeOK
  <2>3. Trails'
    BY <2>1 DEF IInv, Trails, Closed, NotesOf
  <2>4. TrailAgrees'
    BY <2>1 DEF IInv, TrailAgrees
  <2>5. Rows' /\ HeldOnce'
    BY <2>1 DEF IInv, Rows, HeldOnce
  <2>6. Hands'
    <3>1. \A p \in Passes : Current(p)' = Current(p)
      BY <2>1 DEF Current
    <3>2. QED
      BY <2>1, <3>1 DEF IInv, Hands
  <2>7. QED
    BY <2>2, <2>3, <2>4, <2>5, <2>6 DEF IInv
<1>7. QED
  BY <1>1, <1>2, <1>3, <1>4, <1>5, <1>6 DEF Next

\* The desk and its worker are as IInv says, whatever is decided, answered, lost or
\* crashes.
THEOREM Invariant == Spec => []IInv
<1>1. Init => IInv
  BY Opened
<1>2. IInv /\ [Next]_vars => IInv'
  BY Stepped
<1>3. QED
  BY <1>1, <1>2, PTL DEF Spec

\* The tables of prrStore.ts stay well-formed, and markProcessing, which counts the
\* tries without looking at the limit, never takes one past it.
THEOREM TypesHold == Spec => []TypeOK
<1>1. IInv => TypeOK
  BY DEF IInv
<1>2. QED
  BY <1>1, Invariant, PTL

\* The audit trail of a request is a walk along the allowed transitions to its
\* status; closed_at and the notifications written with it follow from the trail.
THEOREM TrailsAlwaysAgree == Spec => []TrailAgrees
<1>1. IInv => TrailAgrees
  BY DEF IInv
<1>2. QED
  BY <1>1, Invariant, PTL

\* claimPendingAccessRequestNotifications gives a notification to one pass only, for
\* any number of passes that overlap.
THEOREM NotesAreHeldOnce == Spec => []HeldOnce
<1>1. IInv => HeldOnce
  BY DEF IInv
<1>2. QED
  BY <1>1, Invariant, PTL

\* No step but those of the pass that holds it touches a notification.
LEMMA DeliveredUntouched ==
  IInv /\ [Next]_vars =>
    \A n \in DOMAIN notes : notes[n].status = "delivered" =>
      arrivals[n] > 0 /\ notes'[n] = notes[n] /\ arrivals'[n] = arrivals[n]
<1> SUFFICES ASSUME IInv, [Next]_vars, NEW n \in DOMAIN notes, notes[n].status = "delivered"
             PROVE  arrivals[n] > 0 /\ notes'[n] = notes[n] /\ arrivals'[n] = arrivals[n]
  OBVIOUS
<1>1. TypeOK /\ Rows /\ HeldOnce
  BY DEF IInv
<1>2. arrivals[n] > 0 /\ notes[n].due
  BY <1>1 DEF Rows
<1>3. \A p \in Passes : pass[p].batch # {} => Current(p) # n
  <2>1. \A p \in Passes : n \notin pass[p].batch
    BY <1>1 DEF HeldOnce
  <2>2. QED
    BY <1>1, <2>1, CurrentHeld
<1>4. notes \in Seq(Note) /\ arrivals \in [DOMAIN notes -> Nat]
  BY <1>1 DEF TypeOK
<1>5. ASSUME NEW r \in Requests, Intake(r) \/ Close(r) PROVE notes'[n] = notes[n] /\ arrivals'[n] = arrivals[n]
  <2>1. Notify(r)
    BY <1>5 DEF Intake, Close
  <2>2. QED
    BY <1>1, <2>1, Notified
<1>6. ASSUME NEW r \in Requests, NEW to \in StatusOf(r), Transition(r, to)
      PROVE  notes'[n] = notes[n] /\ arrivals'[n] = arrivals[n]
  BY <1>6 DEF Transition, workerVars
<1>7. ASSUME NEW p \in Passes, StartPass(p) PROVE notes'[n] = notes[n] /\ arrivals'[n] = arrivals[n]
  <2>1. n \notin Due
    BY DEF Due
  <2>2. QED
    BY <1>7, <2>1 DEF StartPass
<1>8. ASSUME NEW p \in Passes, Arrive(p) PROVE notes'[n] = notes[n] /\ arrivals'[n] = arrivals[n]
  BY <1>3, <1>4, <1>8 DEF Arrive
<1>9. ASSUME NEW p \in Passes, Settle(p) PROVE notes'[n] = notes[n] /\ arrivals'[n] = arrivals[n]
  <2>1. pass[p].batch # {}
    BY <1>9 DEF Settle, Deliver, Fail, GiveUp, IInv, Hands
  <2>2. PICK c : c = Current(p)
    OBVIOUS
  <2>3. c # n
    BY <1>3, <2>1, <2>2
  <2>4. CASE Deliver(p)
    <3>1. /\ notes' = [notes EXCEPT ![c].status = "delivered", ![c].sent = TRUE, ![c].due = TRUE]
          /\ arrivals' = arrivals
      BY <2>2, <2>4 DEF Deliver
    <3>2. QED
      BY <1>4, <2>3, <3>1
  <2>5. CASE Fail(p)
    <3>1. PICK to, due : notes' = [notes EXCEPT ![c].status = to, ![c].due = due]
      BY <2>2, <2>5 DEF Fail
    <3>2. arrivals' = arrivals
      BY <2>5 DEF Fail
    <3>3. QED
      BY <1>4, <2>3, <3>1, <3>2
  <2>6. CASE GiveUp(p)
    BY <2>6 DEF GiveUp
  <2>7. QED
    BY <1>9, <2>4, <2>5, <2>6 DEF Settle
<1>10. ASSUME NEW m \in DOMAIN notes, ComeDue(m) PROVE notes'[n] = notes[n] /\ arrivals'[n] = arrivals[n]
  BY <1>2, <1>4, <1>10 DEF ComeDue, workerVars
<1>11. CASE Crash
  BY <1>2, <1>11 DEF Crash
<1>12. CASE UNCHANGED vars
  BY <1>2, <1>12 DEF vars
<1>13. QED
  BY <1>2, <1>5, <1>6, <1>7, <1>8, <1>9, <1>10, <1>11, <1>12 DEF Next

\* What markAccessRequestNotificationDelivered writes is never written again: the
\* webhook had taken it, and no late pass, backoff or restart touches it.
THEOREM DeliveredStaysDelivered == Spec => DeliveredIsFinal
<1>1. IInv /\ [Next]_vars =>
        [\A n \in DOMAIN notes : notes[n].status = "delivered" =>
           arrivals[n] > 0 /\ notes'[n] = notes[n] /\ arrivals'[n] = arrivals[n]]_vars
  BY DeliveredUntouched
<1>2. QED
  BY <1>1, Invariant, PTL DEF Spec, DeliveredIsFinal
-----------------------------------------------------------------------------
(* The tries.                                                              *)

\* A pass has a try in hand for each notification it holds, but for the one the
\* webhook has already taken from it.
Unused(n, p) == arrivals[n] < notes[n].tries \/ (pass[p].taken /\ n = Current(p))
Counted == NoTryUncounted /\ \A p \in Passes : \A n \in pass[p].batch : Unused(n, p)

LEMMA TriesAreNumbers ==
  ASSUME TypeOK
  PROVE  \A n \in DOMAIN notes : notes[n].tries \in 0..MaxRetries /\ arrivals[n] \in Nat
BY Notes DEF Note

\* While no row loses a try or gains a failure, all that can go wrong is an arrival.
LEMMA CountedKept ==
  ASSUME IInv, Counted, arrivals' = arrivals, DOMAIN notes' = DOMAIN notes,
         \A n \in DOMAIN notes : notes'[n].tries = notes[n].tries /\
           (notes'[n].status = "failed" => notes[n].status = "failed" \/ notes[n].tries = MaxRetries),
         \A p \in Passes : \/ pass'[p] = pass[p]
                           \/ pass'[p].batch \subseteq pass[p].batch
                              /\ \A n \in pass'[p].batch : arrivals[n] < notes[n].tries
  PROVE  Counted'
<1>1. NoTryUncounted'
  BY DEF Counted, NoTryUncounted
<1>2. ASSUME NEW p \in Passes, NEW n \in pass'[p].batch
      PROVE  arrivals'[n] < notes'[n].tries \/ (pass'[p].taken /\ n = Current(p)')
  <2>1. pass[p].batch \subseteq DOMAIN notes
    BY DEF IInv, TypeOK
  <2>2. CASE pass'[p] = pass[p]
    <3>1. Current(p)' = Current(p)
      BY <2>2 DEF Current
    <3>2. Unused(n, p) /\ n \in DOMAIN notes
      BY <1>2, <2>1, <2>2 DEF Counted
    <3>3. QED
      BY <2>2, <3>1, <3>2 DEF Unused
  <2>3. CASE pass'[p].batch \subseteq pass[p].batch /\ \A m \in pass'[p].batch : arrivals[m] < notes[m].tries
    BY <1>2, <2>1, <2>3
  <2>4. QED
    BY <2>2, <2>3
<1>3. QED
  BY <1>1, <1>2 DEF Counted, Unused

\* What a pass settles leaves its hands; what it still holds it has not posted yet.
LEMMA ProceedHands ==
  ASSUME IInv, Counted, NEW p \in Passes, pass[p].batch # {}, Proceed(p)
  PROVE  /\ pass'[p].batch \subseteq pass[p].batch
         /\ \A n \in pass'[p].batch : arrivals[n] < notes[n].tries
         /\ \A q \in Passes : q # p => pass'[q] = pass[q]
<1>1. pass' = [pass EXCEPT ![p] = [batch |-> pass[p].batch \ {Current(p)}, taken |-> FALSE]]
  BY DEF Proceed
<1>2. pass \in [Passes -> [batch : SUBSET (DOMAIN notes), taken : BOOLEAN]]
  BY DEF IInv, TypeOK
<1>3. pass'[p].batch = pass[p].batch \ {Current(p)} /\ \A q \in Passes : q # p => pass'[q] = pass[q]
  BY <1>1, <1>2
<1>4. \A n \in pass'[p].batch : Unused(n, p) /\ n # Current(p)
  BY <1>3 DEF Counted
<1>5. QED
  BY <1>3, <1>4 DEF Unused

LEMMA ArriveCounts ==
  ASSUME IInv, Counted, NEW p \in Passes, Arrive(p)
  PROVE  Counted'
<1>1. PICK c : c = Current(p)
  OBVIOUS
<1>2. /\ pass[p].batch # {} /\ ~pass[p].taken /\ pass' = [pass EXCEPT ![p].taken = TRUE]
      /\ arrivals' = [arrivals EXCEPT ![c] = @ + 1] /\ notes' = notes
  BY <1>1 DEF Arrive
<1>3. TypeOK /\ HeldOnce
  BY DEF IInv
<1>4. c \in pass[p].batch /\ c \in DOMAIN notes
  BY <1>1, <1>2, <1>3, CurrentHeld
<1>5. /\ pass \in [Passes -> [batch : SUBSET (DOMAIN notes), taken : BOOLEAN]]
      /\ arrivals \in [DOMAIN notes -> Nat]
  BY <1>3 DEF TypeOK
<1>6. /\ pass'[p].taken /\ \A q \in Passes : pass'[q].batch = pass[q].batch /\ (q # p => pass'[q] = pass[q])
      /\ arrivals'[c] = arrivals[c] + 1 /\ \A n \in DOMAIN notes : n # c => arrivals'[n] = arrivals[n]
  BY <1>2, <1>4, <1>5
<1>7. \A q \in Passes : Current(q)' = Current(q)
  BY <1>6 DEF Current
<1>8. arrivals[c] < notes[c].tries
  BY <1>2, <1>4 DEF Counted, Unused
<1>9. NoTryUncounted'
  BY <1>2, <1>3, <1>4, <1>6, <1>8, TriesAreNumbers DEF Counted, NoTryUncounted
<1>10. ASSUME NEW q \in Passes, NEW n \in pass'[q].batch
       PROVE  arrivals'[n] < notes'[n].tries \/ (pass'[q].taken /\ n = Current(q)')
  <2>1. Unused(n, q) /\ n \in pass[q].batch /\ n \in DOMAIN notes
    BY <1>5, <1>6, <1>10 DEF Counted
  <2>2. CASE n = c
    <3>1. q = p
      BY <1>3, <1>4, <2>1, <2>2 DEF HeldOnce
    <3>2. QED
      BY <1>1, <1>6, <1>7, <2>2, <3>1
  <2>3. CASE n # c
    <3>1. CASE q = p
      BY <1>1, <1>2, <1>6, <2>1, <2>3, <3>1 DEF Unused
    <3>2. CASE q # p
      BY <1>2, <1>6, <1>7, <2>1, <2>3, <3>2 DEF Unused
    <3>3. QED
      BY <3>1, <3>2
  <2>4. QED
    BY <2>2, <2>3
<1>11. QED
  BY <1>9, <1>10 DEF Counted, Unused

\* A claim writes down one more try for each notification it takes, and takes none
\* that another pass holds.
LEMMA StartPassCounts ==
  ASSUME IInv, Counted, NEW p \in Passes, StartPass(p)
  PROVE  Counted'
<1>1. PICK claimed \in SUBSET Due :
        /\ pass' = [pass EXCEPT ![p] = [batch |-> claimed, taken |-> FALSE]]
        /\ notes' = [n \in DOMAIN notes |->
                       IF n \in claimed THEN [notes[n] EXCEPT !.status = "processing", !.tries = @ + 1]
                       ELSE notes[n]]
        /\ arrivals' = arrivals
  BY DEF StartPass
<1>2. TypeOK /\ HeldOnce
  BY DEF IInv
<1>3. pass \in [Passes -> [batch : SUBSET (DOMAIN notes), taken : BOOLEAN]] /\ claimed \subseteq DOMAIN notes
  BY <1>2 DEF TypeOK, Due
<1>4. \A n \in claimed : notes'[n].tries = notes[n].tries + 1 /\ notes'[n].status = "processing"
  BY <1>1, <1>2, <1>3, Notes DEF Note
<1>5. \A n \in DOMAIN notes \ claimed : notes'[n] = notes[n]
  BY <1>1
<1>6. pass'[p].batch = claimed /\ \A q \in Passes : q # p => pass'[q] = pass[q]
  BY <1>1, <1>3
<1>7. DOMAIN notes' = DOMAIN notes
  BY <1>1
<1>8. ASSUME NEW n \in DOMAIN notes
      PROVE  /\ arrivals'[n] <= notes'[n].tries
             /\ notes'[n].status = "failed" => notes'[n].tries = MaxRetries
             /\ n \in claimed => arrivals'[n] < notes'[n].tries
  <2>0. arrivals'[n] = arrivals[n]
    BY <1>1
  <2>1. /\ arrivals[n] <= notes[n].tries /\ arrivals[n] \in Nat /\ notes[n].tries \in Nat
        /\ notes[n].status = "failed" => notes[n].tries = MaxRetries
    BY <1>2, TriesAreNumbers DEF Counted, NoTryUncounted
  <2>2. CASE n \in claimed
    BY <1>4, <2>0, <2>1, <2>2
  <2>3. CASE n \notin claimed
    BY <1>5, <2>0, <2>1, <2>3
  <2>4. QED
    BY <2>2, <2>3
<1>9. ASSUME NEW q \in Passes, NEW n \in pass'[q].batch
      PROVE  arrivals'[n] < notes'[n].tries \/ (pass'[q].taken /\ n = Current(q)')
  <2>1. CASE q = p
    BY <1>3, <1>6, <1>8, <1>9, <2>1
  <2>2. CASE q # p
    <3>1. n \in pass[q].batch /\ n \in DOMAIN notes /\ Unused(n, q)
      BY <1>3, <1>6, <1>9, <2>2 DEF Counted
    <3>2. notes[n].status = "processing"
      BY <1>2, <3>1 DEF HeldOnce
    <3>3. n \notin claimed
      BY <3>2 DEF Due
    <3>4. Current(q)' = Current(q)
      BY <1>6, <2>2 DEF Current
    <3>5. QED
      BY <1>1, <1>5, <1>6, <2>2, <3>1, <3>3, <3>4 DEF Unused
  <2>3. QED
    BY <2>1, <2>2
<1>10. QED
  BY <1>7, <1>8, <1>9 DEF Counted, Unused, NoTryUncounted

LEMMA SettleCounts ==
  ASSUME IInv, Counted, NEW p \in Passes, Settle(p)
  PROVE  Counted'
<1>1. TypeOK /\ pass[p].batch # {}
  BY DEF IInv, Hands, Settle, Deliver, Fail, GiveUp
<1>2. PICK c : c = Current(p)
  OBVIOUS
<1>3. c \in DOMAIN notes /\ notes \in [DOMAIN notes -> Note]
  BY <1>1, <1>2, CurrentHeld, Notes DEF TypeOK
<1>4. CASE Deliver(p)
  <2>1. /\ notes' = [notes EXCEPT ![c].status = "delivered", ![c].sent = TRUE, ![c].due = TRUE]
        /\ arrivals' = arrivals /\ Proceed(p)
    BY <1>2, <1>4 DEF Deliver
  <2>2. /\ DOMAIN notes' = DOMAIN notes
        /\ \A n \in DOMAIN notes : notes'[n].tries = notes[n].tries
        /\ \A n \in DOMAIN notes : notes'[n].status = "failed" => notes[n].status = "failed"
    BY <1>3, <2>1 DEF Note
  <2>3. QED
    BY <1>1, <2>1, <2>2, ProceedHands, CountedKept
<1>5. CASE Fail(p)
  <2> DEFINE out == notes[c].tries >= MaxRetries
  <2>1. notes' = [notes EXCEPT ![c].status = IF out THEN "failed" ELSE "retry", ![c].due = out]
    BY <1>2, <1>5 DEF Fail
  <2>2. arrivals' = arrivals /\ Proceed(p)
    BY <1>5 DEF Fail
  <2>3. /\ DOMAIN notes' = DOMAIN notes
        /\ \A n \in DOMAIN notes : notes'[n].tries = notes[n].tries
        /\ \A n \in DOMAIN notes : n # c => notes'[n] = notes[n]
        /\ notes'[c].status = IF out THEN "failed" ELSE "retry"
    BY <1>3, <2>1 DEF Note
  <2>4. notes'[c].status = "failed" => notes[c].tries = MaxRetries
    <3>1. notes[c].tries \in 0..MaxRetries /\ MaxRetries \in Nat
      BY <1>1, <1>3, TriesAreNumbers, DeskAssumption
    <3>2. notes'[c].status = "failed" => out
      BY <2>3
    <3>3. QED
      BY <2>1, <3>1, <3>2
  <2>5. \A n \in DOMAIN notes : notes'[n].status = "failed" => notes[n].status = "failed" \/ notes[n].tries = MaxRetries
    BY <2>3, <2>4
  <2>6. QED
    BY <1>1, <2>2, <2>3, <2>5, ProceedHands, CountedKept
<1>6. CASE GiveUp(p)
  <2>1. pass' = [pass EXCEPT ![p] = IdlePass] /\ UNCHANGED <<notes, arrivals>>
    BY <1>6 DEF GiveUp
  <2>2. \A q \in Passes : pass'[q] = pass[q] \/ pass'[q].batch = {}
    BY <1>1, <2>1 DEF TypeOK, IdlePass
  <2>3. QED
    BY <2>1, <2>2, CountedKept
<1>7. QED
  BY <1>4, <1>5, <1>6 DEF Settle

LEMMA CountedSteps ==
  ASSUME IInv, Counted, [Next]_vars
  PROVE  Counted'
<1>1. ASSUME NEW r \in Requests, Intake(r) \/ Close(r) PROVE Counted'
  <2>1. Notify(r) /\ pass' = pass
    BY <1>1 DEF Intake, Close
  <2>2. TypeOK
    BY DEF IInv
  <2>3. /\ DOMAIN notes \subseteq DOMAIN notes'
        /\ \A n \in DOMAIN notes : notes'[n] = notes[n] /\ arrivals'[n] = arrivals[n]
        /\ \A n \in DOMAIN notes' \ DOMAIN notes :
             notes'[n].tries = 0 /\ notes'[n].status = "queued" /\ arrivals'[n] = 0
    <3>1. NewNote(r).tries = 0 /\ NewNote(r).status = "queued"
      BY DEF NewNote
    <3>2. /\ \A n \in DOMAIN notes : n \in DOMAIN notes' /\ notes'[n] = notes[n] /\ arrivals'[n] = arrivals[n]
          /\ \A n \in DOMAIN notes' : n \in DOMAIN notes \/ (notes'[n] = NewNote(r) /\ arrivals'[n] = 0)
      BY <2>1, <2>2, Notified
    <3>3. QED
      BY <3>1, <3>2
  <2>4. NoTryUncounted'
    BY <2>3 DEF Counted, NoTryUncounted
  <2>5. \A p \in Passes : Current(p)' = Current(p) /\ pass[p].batch \subseteq DOMAIN notes
    BY <2>1, <2>2 DEF Current, TypeOK
  <2>6. QED
    BY <2>1, <2>3, <2>4, <2>5 DEF Counted, Unused
<1>2. ASSUME NEW r \in Requests, NEW to \in StatusOf(r), Transition(r, to) PROVE Counted'
  <2>1. UNCHANGED <<notes, pass, arrivals>>
    BY <1>2 DEF Transition, workerVars
  <2>2. QED
    BY <2>1, CountedKept
<1>3. ASSUME NEW p \in Passes, StartPass(p) \/ Arrive(p) \/ Settle(p) PROVE Counted'
  BY <1>3, StartPassCounts, ArriveCounts, SettleCounts
<1>4. ASSUME NEW n \in DOMAIN notes, ComeDue(n) PROVE Counted'
  <2>1. notes' = [notes EXCEPT ![n].due = TRUE] /\ UNCHANGED <<pass, arrivals>>
    BY <1>4 DEF ComeDue, workerVars
  <2>2. notes \in [DOMAIN notes -> Note]
    BY Notes DEF IInv, TypeOK
  <2>3. /\ DOMAIN notes' = DOMAIN notes
        /\ \A m \in DOMAIN notes : notes'[m].tries = notes[m].tries /\ notes'[m].status = notes[m].status
    BY <2>1, <2>2 DEF Note
  <2>4. QED
    BY <2>1, <2>3, CountedKept
<1>5. CASE Crash
  <2>1. pass' = [p \in Passes |-> IdlePass] /\ UNCHANGED <<notes, arrivals>>
    BY <1>5 DEF Crash
  <2>2. \A p \in Passes : pass'[p].batch = {}
    BY <2>1 DEF IdlePass
  <2>3. QED
    BY <2>1, <2>2, CountedKept
<1>6. CASE UNCHANGED vars
  <2>1. UNCHANGED <<notes, pass, arrivals>>
    BY <1>6 DEF vars
  <2>2. QED
    BY <2>1, CountedKept
<1>7. QED
  BY <1>1, <1>2, <1>3, <1>4, <1>5, <1>6 DEF Next

\* Over any passes, crashes and lost answers the webhook takes a notification no
\* more often than markProcessing wrote down, and the worker gives none up before
\* all its tries are spent.
THEOREM NoTryGoesUncounted == Spec => []NoTryUncounted
<1>1. Init => Counted
  <2>1. Init => DOMAIN notes = {} /\ \A p \in Passes : pass[p].batch = {}
    BY DEF Init, IdlePass
  <2>2. QED
    BY <2>1 DEF Counted, NoTryUncounted
<1>2. IInv /\ Counted /\ [Next]_vars => Counted'
  BY CountedSteps
<1>3. Counted => NoTryUncounted
  BY DEF Counted
<1>4. QED
  BY <1>1, <1>2, <1>3, Invariant, PTL DEF Spec
-----------------------------------------------------------------------------
(* The jobs of a feed.                                                     *)

\* The sinks that have credentials and an endpoint.
Configured == {n \in DOMAIN Sinks : Sinks[n] \notin Unconfigured}

\* Why a sink need not have a change yet: job j.
Owes(j, c, n) ==
  /\ c \in jobs[j].batch
  /\ \/ jobs[j].run = "serving" /\ (jobs[j].sink <= n \/ jobs[j].failed)
     \/ jobs[j].row \in {"partial", "failed"}
     \/ jobs[j].run = "cut"
Owed(c, n) == c \in received[Sinks[n]] \/ \E j \in DOMAIN jobs : Owes(j, c, n)

\* A change that a cursor may pass: it was written, and each sink has it or is owed it.
Covered(c) == newest[c.id] >= c.at /\ \A n \in Configured : Owed(c, n)
Behind(t) == \A c \in Kept(source) : c.at <= t => Covered(c)

\* No row was ever newer than the source.
Latest ==
  /\ \A r \in Records : store[r] <= newest[r]
  /\ \A c \in source : newest[c.id] <= c.at

Reading(j) == jobs[j].run \in {"asked", "answered"}

\* A job starts from a cursor with nothing missed behind it,
Began(j) ==
  Reading(j) => jobs[j].from <= clock /\ Behind(jobs[j].from) /\ jobs[j].sink = 1

\* and its page holds whatever else the cursor it leads to will pass.
Page(j) ==
  jobs[j].run = "answered" =>
    /\ \A b \in jobs[j].batch : b.at <= clock
    /\ \A b, d \in jobs[j].batch : b.id = d.id => b = d
    /\ \A b \in jobs[j].batch, c \in source : b.id = c.id => b.at <= c.at
    /\ \A c \in Kept(source) : c.at <= NextCursor(j) => c \in jobs[j].batch \/ Covered(c)

\* A job that did not complete is over.
Over(j) == jobs[j].row \in {"partial", "failed"} => jobs[j].run \in {"ended", "cut"}

\* While no two jobs overlapped no row went back in time.
Alone ==
  ~overlapped =>
    /\ store = newest
    /\ \A j, k \in DOMAIN jobs : Reading(j) /\ Reading(k) => j = k
    /\ \A j \in DOMAIN jobs : jobs[j].run = "answered" =>
         \A b \in jobs[j].batch : store[b.id] <= b.at

FeedInv ==
  /\ SyncTypeOK
  /\ Latest
  /\ \A j \in DOMAIN jobs : Began(j) /\ Page(j) /\ Over(j)
  /\ Behind(cursor)
  /\ Alone
-----------------------------------------------------------------------------
(* Jobs, pages and rows.                                                   *)

LEMMA JobTypes ==
  ASSUME FeedAssumption, SyncTypeOK
  PROVE  /\ Len(jobs) \in Nat /\ DOMAIN jobs = 1..Len(jobs) /\ Len(jobs) <= MaxJobs
         /\ \A j \in DOMAIN jobs : jobs[j] \in Job /\ jobs[j].batch \subseteq Change
         /\ clock \in Nat /\ cursor \in Nat /\ clock <= MaxChanges /\ cursor <= clock
         /\ MaxChanges \in Nat /\ MaxJobs \in Nat
         /\ Len(Sinks) \in Nat /\ Len(Sinks) >= 1 /\ DOMAIN Sinks = 1..Len(Sinks)
         /\ \A r \in Records : newest[r] \in 0..clock /\ store[r] \in 0..clock
<1>1. jobs \in Seq(Job)
  BY DEF SyncTypeOK
<1>2. Len(jobs) \in Nat /\ DOMAIN jobs = 1..Len(jobs) /\ \A j \in DOMAIN jobs : jobs[j] \in Job
  BY <1>1, ElementOfSeq
<1>3. \A j \in DOMAIN jobs : jobs[j].batch \subseteq Change
  BY <1>2 DEF Job
<1>4. Sinks \in Seq(SinkNames) /\ Sinks # <<>>
  BY DEF FeedAssumption
<1>5. Len(Sinks) \in Nat /\ Len(Sinks) >= 1 /\ DOMAIN Sinks = 1..Len(Sinks)
  <2>1. Len(Sinks) \in Nat /\ DOMAIN Sinks = 1..Len(Sinks)
    BY <1>4
  <2>2. Len(Sinks) # 0
    BY <1>4, EmptySeq
  <2>3. QED
    BY <2>1, <2>2
<1>6. QED
  BY <1>2, <1>3, <1>5 DEF SyncTypeOK, FeedAssumption

\* One job is written, the others stay.
LEMMA JobSet ==
  ASSUME FeedAssumption, SyncTypeOK, NEW j \in DOMAIN jobs, NEW job \in Job, jobs' = [jobs EXCEPT ![j] = job]
  PROVE  /\ jobs' \in Seq(Job) /\ Len(jobs') = Len(jobs) /\ DOMAIN jobs' = DOMAIN jobs
         /\ jobs'[j] = job /\ \A k \in DOMAIN jobs : k # j => jobs'[k] = jobs[k]
<1>1. jobs \in Seq(Job)
  BY DEF SyncTypeOK
<1>2. QED
  BY <1>1

\* The latest stamp of a page.
LEMMA LatestStamp ==
  ASSUME FeedAssumption, NEW batch \in SUBSET Change, batch # {}
  PROVE  \E c \in batch : /\ \A d \in batch : d.at <= c.at
                          /\ c.at \in 1..MaxChanges
<1>1. MaxChanges \in Nat /\ \A c \in batch : c.at \in 1..MaxChanges
  BY DEF FeedAssumption, Change
<1> DEFINE left == {MaxChanges - c.at : c \in batch}
<1>2. left \subseteq Nat /\ left # {}
  BY <1>1
<1>3. PICK n \in left : \A m \in left : n <= m
  <2> HIDE DEF left
  <2> QED
    BY <1>2, Smallest
<1>4. PICK c \in batch : n = MaxChanges - c.at
  BY <1>3
<1>5. ASSUME NEW d \in batch PROVE d.at <= c.at
  <2>1. n <= MaxChanges - d.at
    BY <1>3
  <2>2. QED
    BY <1>1, <1>4, <2>1
<1>6. QED
  BY <1>1, <1>4, <1>5

\* The cursor a job leads to: the latest stamp of its page, or where it began.
CursorAfter(batch, from) ==
  IF batch = {} THEN from ELSE (CHOOSE c \in batch : \A d \in batch : d.at <= c.at).at

LEMMA CursorOfPage ==
  ASSUME FeedAssumption, NEW batch \in SUBSET Change, NEW from
  PROVE  /\ batch = {} => CursorAfter(batch, from) = from
         /\ batch # {} => /\ CursorAfter(batch, from) \in 1..MaxChanges
                          /\ \E c \in batch : CursorAfter(batch, from) = c.at
<1>1. CASE batch # {}
  <2>1. PICK last : /\ last = CHOOSE c \in batch : \A d \in batch : d.at <= c.at
                    /\ last \in batch /\ \A d \in batch : d.at <= last.at
    BY <1>1, LatestStamp
  <2>2. CursorAfter(batch, from) = last.at /\ last.at \in 1..MaxChanges
    BY <1>1, <2>1 DEF Change, CursorAfter
  <2>3. QED
    BY <1>1, <2>1, <2>2
<1>2. QED
  BY <1>1 DEF CursorAfter

\* What writing a page, or part of it, does to the rows.
LEMMA RowsWritten ==
  ASSUME FeedAssumption, SyncTypeOK, NEW batch \in SUBSET Change, \A b \in batch : b.at <= clock,
         \A b, d \in batch : b.id = d.id => b = d,
         WriteRecords(batch)
  PROVE  /\ store' \in [Records -> 0..clock] /\ newest' \in [Records -> 0..clock]
         /\ \A c \in Kept(batch) : store'[c.id] = c.at
         /\ \A r \in Records :
              /\ \/ store'[r] = store[r]
                 \/ \E c \in Kept(batch) : c.id = r /\ store'[r] = c.at
              /\ newest'[r] = IF store'[r] > newest[r] THEN store'[r] ELSE newest[r]
<1>1. \A b \in batch : b.id \in Records /\ b.at \in 1..MaxChanges
  BY DEF Change
<1>2. /\ clock \in Nat /\ MaxChanges \in Nat
      /\ \A r \in Records : newest[r] \in 0..clock /\ store[r] \in 0..clock
  BY JobTypes
<1>3. store' = Written(batch) /\ newest' = [r \in Records |-> IF store'[r] > newest[r] THEN store'[r] ELSE newest[r]]
  BY DEF WriteRecords
<1>4. \A r \in Records : store'[r] = IF \E c \in Kept(batch) : c.id = r
                                     THEN (CHOOSE c \in Kept(batch) : c.id = r).at ELSE store[r]
  BY <1>3 DEF Written
<1>5. \A c \in Kept(batch) : store'[c.id] = c.at
  <2> SUFFICES ASSUME NEW c \in Kept(batch) PROVE store'[c.id] = c.at
    OBVIOUS
  <2>1. c \in batch /\ c.id \in Records
    BY <1>1 DEF Kept
  <2>2. PICK d : d = CHOOSE e \in Kept(batch) : e.id = c.id
    OBVIOUS
  <2>3. d \in Kept(batch) /\ d.id = c.id
    BY <2>2
  <2>4. d = c
    BY <2>1, <2>3 DEF Kept
  <2>5. QED
    BY <1>4, <2>1, <2>2, <2>4
<1>6. \A r \in Records : \/ store'[r] = store[r]
                         \/ \E c \in Kept(batch) : c.id = r /\ store'[r] = c.at
  <2> SUFFICES ASSUME NEW r \in Records, \E c \in Kept(batch) : c.id = r
               PROVE  \E c \in Kept(batch) : c.id = r /\ store'[r] = c.at
    BY <1>4
  <2>1. QED
    BY <1>5
<1>7. \A r \in Records : store'[r] \in 0..clock
  <2>1. \A c \in Kept(batch) : c.at \in 0..clock
    BY <1>1, <1>2 DEF Kept
  <2>2. QED
    BY <1>2, <1>6, <2>1
<1>8. store' \in [Records -> 0..clock]
  <2>1. store' = [r \in Records |-> store'[r]]
    BY <1>3 DEF Written
  <2>2. QED
    BY <1>7, <2>1
<1>9. \A r \in Records : newest'[r] = IF store'[r] > newest[r] THEN store'[r] ELSE newest[r]
  BY <1>3
<1>10. newest' \in [Records -> 0..clock]
  BY <1>2, <1>3, <1>7
<1>11. QED
  BY <1>5, <1>6, <1>8, <1>9, <1>10
-----------------------------------------------------------------------------
(* What stays.                                                             *)

LEMMA KeptOfSource ==
  ASSUME FeedAssumption, SyncTypeOK, NEW c \in Kept(source)
  PROVE  c \in source /\ c \in Change /\ c.id \in Records /\ c.at \in Nat /\ c.at >= 1 /\ c.at <= clock /\ c.keep
<1>1. c \in source /\ c \in Change /\ c.at <= clock /\ c.keep
  BY DEF Kept, SyncTypeOK
<1>2. QED
  BY <1>1, JobTypes DEF Change

\* A change stays covered if rows do not go back, sinks keep what they have and
\* who owes it goes on owing it or delivers it.
LEMMA CoveredStays ==
  ASSUME FeedAssumption, SyncTypeOK, NEW c \in Kept(source), Covered(c),
         newest'[c.id] \in Nat, newest'[c.id] >= newest[c.id],
         \A s \in SinkNames : received[s] \subseteq received'[s],
         \A n \in Configured, j \in DOMAIN jobs : Owes(j, c, n) => Owed(c, n)'
  PROVE  Covered(c)'
<1>1. newest'[c.id] >= c.at
  BY KeptOfSource, JobTypes DEF Covered
<1>2. ASSUME NEW n \in Configured PROVE Owed(c, n)'
  <2>1. CASE c \in received[Sinks[n]]
    <3>1. Sinks[n] \in SinkNames
      BY DEF Configured, SinkNames
    <3>2. QED
      BY <2>1, <3>1 DEF Owed
  <2>2. CASE \E j \in DOMAIN jobs : Owes(j, c, n)
    BY <2>2
  <2>3. QED
    BY <2>1, <2>2 DEF Owed, Covered
<1>3. QED
  BY <1>1, <1>2 DEF Covered, Configured

\* What holds of a job goes on holding while it does nothing itself.
LEMMA IdleJobKept ==
  ASSUME FeedAssumption, FeedInv, UNCHANGED <<source, clock>>,
         \A c \in Kept(source) : Covered(c) => Covered(c)',
         NEW k \in DOMAIN jobs, jobs'[k] = jobs[k]
  PROVE  Began(k)' /\ Page(k)' /\ Over(k)'
<1>1. Began(k) /\ Page(k) /\ Over(k) /\ source' = source /\ clock' = clock
  BY DEF FeedInv
<1>2. Kept(source)' = Kept(source)
  BY <1>1 DEF Kept
<1>3. Began(k)'
  BY <1>1, <1>2 DEF Began, Reading, Behind
<1>4. NextCursor(k)' = NextCursor(k)
  BY DEF NextCursor
<1>5. Page(k)'
  <2> SUFFICES ASSUME jobs[k].run = "answered" PROVE Page(k)'
    BY DEF Page
  <2>1. \A c \in Kept(source) : c.at <= NextCursor(k) => c \in jobs[k].batch \/ Covered(c)'
    BY <1>1 DEF Page
  <2>2. QED
    BY <1>1, <1>2, <1>4, <2>1 DEF Page
<1>6. Over(k)'
  BY <1>1 DEF Over
<1>7. QED
  BY <1>3, <1>5, <1>6

\* A job takes a step: it may save rows and the cursor, and no sink gains anything.
LEMMA JobSteps ==
  ASSUME FeedAssumption, FeedInv, NEW j \in DOMAIN jobs, NEW job \in Job, jobs' = [jobs EXCEPT ![j] = job],
         UNCHANGED <<source, clock, active, received, syncCrashes, overlapped>>,
         store' \in [Records -> 0..clock], newest' \in [Records -> 0..clock], cursor' \in 0..clock,
         \A r \in Records : newest'[r] >= newest[r],
         \A c \in Kept(source), n \in Configured : Owes(j, c, n) => Owed(c, n)'
  PROVE  /\ SyncTypeOK' /\ DOMAIN jobs' = DOMAIN jobs /\ jobs'[j] = job
         /\ \A c \in Kept(source) : Covered(c) => Covered(c)'
         /\ \A k \in DOMAIN jobs : k # j => jobs'[k] = jobs[k] /\ Began(k)' /\ Page(k)' /\ Over(k)'
<1>1. SyncTypeOK
  BY DEF FeedInv
<1>2. /\ jobs' \in Seq(Job) /\ Len(jobs') = Len(jobs) /\ DOMAIN jobs' = DOMAIN jobs
      /\ jobs'[j] = job /\ \A k \in DOMAIN jobs : k # j => jobs'[k] = jobs[k]
  BY <1>1, JobSet
<1>3. SyncTypeOK'
  <2>1. Len(jobs') <= MaxJobs
    BY <1>1, <1>2 DEF SyncTypeOK
  <2>2. QED
    BY <1>1, <1>2, <2>1 DEF SyncTypeOK
<1>4. ASSUME NEW c \in Kept(source), Covered(c) PROVE Covered(c)'
  <2>1. \A n \in Configured, k \in DOMAIN jobs : Owes(k, c, n) => Owed(c, n)'
    <3> SUFFICES ASSUME NEW n \in Configured, NEW k \in DOMAIN jobs, k # j, Owes(k, c, n)
                 PROVE  Owed(c, n)'
      OBVIOUS
    <3>1. Owes(k, c, n)'
      BY <1>2 DEF Owes
    <3>2. k \in DOMAIN jobs'
      BY <1>2
    <3>3. QED
      BY <3>1, <3>2 DEF Owed
  <2>2. c.id \in Records
    BY <1>1, KeptOfSource
  <2>3. newest'[c.id] \in Nat /\ newest'[c.id] >= newest[c.id]
    BY <1>1, <2>2, JobTypes
  <2>4. QED
    BY <1>1, <1>4, <2>1, <2>3, CoveredStays
<1>5. \A k \in DOMAIN jobs : k # j => jobs'[k] = jobs[k] /\ Began(k)' /\ Page(k)' /\ Over(k)'
  BY <1>2, <1>4, IdleJobKept
<1>6. QED
  BY <1>2, <1>3, <1>4, <1>5

\* The rows stay, and no job begins to read.
LEMMA AloneKept ==
  ASSUME FeedAssumption, FeedInv, NEW j \in DOMAIN jobs, NEW job \in Job, jobs' = [jobs EXCEPT ![j] = job],
         UNCHANGED <<store, newest, overlapped>>,
         job.run \in {"asked", "answered"} => Reading(j),
         job.run = "answered" => \A b \in job.batch : newest[b.id] <= b.at
  PROVE  Alone'
<1>1. SyncTypeOK /\ Alone
  BY DEF FeedInv
<1>2. /\ DOMAIN jobs' = DOMAIN jobs /\ jobs'[j] = job
      /\ \A k \in DOMAIN jobs : k # j => jobs'[k] = jobs[k]
  BY <1>1, JobSet
<1>3. CASE ~overlapped
  <2>1. store' = newest'
    BY <1>1, <1>3 DEF Alone
  <2>2. \A k \in DOMAIN jobs : Reading(k)' => Reading(k)
    BY <1>2 DEF Reading
  <2>3. \A k, l \in DOMAIN jobs : Reading(k)' /\ Reading(l)' => k = l
    BY <1>1, <1>3, <2>2 DEF Alone
  <2>4. ASSUME NEW k \in DOMAIN jobs, jobs'[k].run = "answered", NEW b \in jobs'[k].batch
        PROVE  store'[b.id] <= b.at
    BY <1>1, <1>2, <1>3, <2>1, <2>4 DEF Alone
  <2>5. QED
    BY <1>2, <2>1, <2>3, <2>4 DEF Alone
<1>4. QED
  BY <1>3 DEF Alone
\* A page, or part of it, is written.
LEMMA PageWritten ==
  ASSUME FeedAssumption, FeedInv, NEW j \in DOMAIN jobs, jobs[j].run = "answered",
         NEW batch \in SUBSET jobs[j].batch, WriteRecords(batch), UNCHANGED source
  PROVE  /\ store' \in [Records -> 0..clock] /\ newest' \in [Records -> 0..clock]
         /\ \A r \in Records : newest'[r] >= newest[r]
         /\ \A c \in Kept(batch) : newest'[c.id] >= c.at
         /\ Latest' /\ (~overlapped => store' = newest')
<1>1. SyncTypeOK /\ Latest /\ Alone /\ Page(j)
  BY DEF FeedInv
<1>3. batch \in SUBSET Change /\ jobs[j].batch \subseteq Change
  BY <1>1, JobTypes
<1>4. /\ \A b \in batch : b.at <= clock
      /\ \A b, d \in batch : b.id = d.id => b = d
      /\ \A b \in batch, c \in source : b.id = c.id => b.at <= c.at
  BY <1>1 DEF Page
<1>5. /\ store' \in [Records -> 0..clock] /\ newest' \in [Records -> 0..clock]
      /\ \A c \in Kept(batch) : store'[c.id] = c.at
      /\ \A r \in Records :
           /\ \/ store'[r] = store[r]
              \/ \E c \in Kept(batch) : c.id = r /\ store'[r] = c.at
           /\ newest'[r] = IF store'[r] > newest[r] THEN store'[r] ELSE newest[r]
  BY <1>1, <1>3, <1>4, RowsWritten
<1>6. /\ clock \in Nat /\ \A r \in Records : newest[r] \in 0..clock /\ store[r] \in 0..clock
      /\ \A r \in Records : newest'[r] \in 0..clock /\ store'[r] \in 0..clock
  BY <1>1, <1>5, JobTypes
<1>7. \A r \in Records : newest'[r] >= newest[r] /\ newest'[r] >= store'[r]
  BY <1>5, <1>6
<1>8. \A c \in Kept(batch) : c.id \in Records /\ c.at \in Nat /\ newest'[c.id] >= c.at
  <2>1. \A c \in Kept(batch) : c.id \in Records /\ c.at \in Nat
    BY <1>3 DEF Kept, Change
  <2>2. QED
    BY <1>5, <1>7, <2>1
<1>9. Latest'
  <2> SUFFICES ASSUME NEW c \in source PROVE newest'[c.id] <= c.at
    BY <1>7 DEF Latest
  <2>1. c.id \in Records /\ c.at \in Nat /\ newest[c.id] <= c.at
    BY <1>1 DEF SyncTypeOK, Change, Latest
  <2>2. CASE newest'[c.id] = newest[c.id]
    BY <2>1, <2>2
  <2>3. CASE newest'[c.id] = store'[c.id] /\ store'[c.id] # store[c.id]
    <3>1. PICK b \in Kept(batch) : b.id = c.id /\ store'[c.id] = b.at
      BY <1>5, <2>1, <2>3
    <3>2. b.at <= c.at
      BY <1>4, <3>1 DEF Kept
    <3>3. QED
      BY <2>3, <3>1, <3>2
  <2>4. CASE newest'[c.id] = store'[c.id] /\ store'[c.id] = store[c.id] /\ newest'[c.id] # newest[c.id]
    <3>1. store[c.id] <= newest[c.id]
      BY <1>1, <2>1 DEF Latest
    <3>2. QED
      BY <1>5, <1>6, <2>1, <2>4, <3>1
  <2>5. QED
    BY <1>5, <2>1, <2>2, <2>3, <2>4
<1>10. ASSUME ~overlapped PROVE store' = newest'
  <2>1. store = newest /\ \A b \in jobs[j].batch : store[b.id] <= b.at
    BY <1>1, <1>10 DEF Alone
  <2>3. \A r \in Records : store[r] <= store'[r]
    <3> SUFFICES ASSUME NEW r \in Records, store'[r] # store[r] PROVE store[r] <= store'[r]
      BY <1>6
    <3>1. PICK c \in Kept(batch) : c.id = r /\ store'[r] = c.at
      BY <1>5
    <3>2. c \in jobs[j].batch
      BY DEF Kept
    <3>3. QED
      BY <2>1, <3>1, <3>2
  <2>4. \A r \in Records : store'[r] = newest'[r]
    BY <1>5, <1>6, <2>1, <2>3
  <2>5. QED
    BY <1>5, <2>4
<1>11. QED
  BY <1>5, <1>7, <1>8, <1>9, <1>10

\* Once the job that writes reads no more, no job that was alone does.
LEMMA AloneAfterwards ==
  ASSUME FeedAssumption, FeedInv, NEW j \in DOMAIN jobs, Reading(j),
         NEW job \in Job, jobs' = [jobs EXCEPT ![j] = job], job.run \notin {"asked", "answered"},
         overlapped' = overlapped, ~overlapped => store' = newest'
  PROVE  Alone'
<1> SUFFICES ASSUME ~overlapped PROVE Alone'
  BY DEF Alone
<1>1. SyncTypeOK /\ Alone
  BY DEF FeedInv
<1>2. /\ DOMAIN jobs' = DOMAIN jobs /\ jobs'[j] = job
      /\ \A k \in DOMAIN jobs : k # j => jobs'[k] = jobs[k]
  BY <1>1, JobSet
<1>3. \A k \in DOMAIN jobs : ~Reading(k)'
  BY <1>1, <1>2 DEF Reading, Alone
<1>4. \A k \in DOMAIN jobs : jobs'[k].run # "answered"
  BY <1>3 DEF Reading
<1>5. QED
  BY <1>2, <1>3, <1>4 DEF Alone
-----------------------------------------------------------------------------
(* The steps of a job.                                                     *)

\* A job that reads owes nobody anything yet.
LEMMA ReadingOwesNothing ==
  ASSUME FeedAssumption, FeedInv, NEW j \in DOMAIN jobs, Reading(j), NEW c, NEW n
  PROVE  ~Owes(j, c, n)
BY DEF FeedInv, Over, Reading, Owes

\* A job that is served, or over, moves on and leaves rows, cursor and sinks alone.
LEMMA QuietStepKeeps ==
  ASSUME FeedAssumption, FeedInv, NEW j \in DOMAIN jobs, NEW job \in Job, jobs' = [jobs EXCEPT ![j] = job],
         UNCHANGED <<received, syncCrashes, overlapped>>, UNCHANGED feedVars, UNCHANGED dataVars,
         job.run \notin {"asked", "answered"},
         job.row \in {"partial", "failed"} => job.run \in {"ended", "cut"},
         \A c \in Kept(source), n \in Configured : Owes(j, c, n) => Owed(c, n)'
  PROVE  FeedInv'
<1>1. /\ UNCHANGED <<source, clock, active, cursor, store, newest, received, syncCrashes, overlapped>>
      /\ SyncTypeOK /\ Latest /\ Behind(cursor)
  BY DEF feedVars, dataVars, FeedInv
<1>2. /\ store' \in [Records -> 0..clock] /\ newest' \in [Records -> 0..clock] /\ cursor' \in 0..clock
      /\ \A r \in Records : newest'[r] >= newest[r]
  BY <1>1, JobTypes DEF SyncTypeOK
<1>3. /\ SyncTypeOK' /\ DOMAIN jobs' = DOMAIN jobs /\ jobs'[j] = job
      /\ \A c \in Kept(source) : Covered(c) => Covered(c)'
      /\ \A k \in DOMAIN jobs : k # j => jobs'[k] = jobs[k] /\ Began(k)' /\ Page(k)' /\ Over(k)'
  BY <1>1, <1>2, JobSteps
<1>4. Alone'
  BY <1>1, AloneKept
<1>5. Latest'
  BY <1>1 DEF Latest
<1>6. Behind(cursor)'
  BY <1>1, <1>3 DEF Behind, Kept
<1>7. Began(j)' /\ Page(j)' /\ Over(j)'
  BY <1>3 DEF Began, Page, Over, Reading
<1>8. QED
  BY <1>3, <1>4, <1>5, <1>6, <1>7 DEF FeedInv

\* A runner stops: with a final status,
LEMMA EndedJob ==
  ASSUME FeedAssumption, SyncTypeOK, NEW job \in Job, NEW final \in FinalStatus
  PROVE  /\ Ended(job, final) \in Job
         /\ Ended(job, final).run = "ended" /\ Ended(job, final).row = final
         /\ job.run = "serving" /\ final # "completed" => Ended(job, final).batch = job.batch
<1>1. 0 \in 0..MaxChanges /\ 1 \in 1..Len(Sinks) /\ job.batch \in SUBSET Change
  BY JobTypes DEF Job
<1>2. PICK batch : batch = IF job.run = "serving" THEN job.batch ELSE {}
  OBVIOUS
<1>3. PICK left : left = Left(job, "ended")
  OBVIOUS
<1>4. left = [job EXCEPT !.run = "ended", !.from = 0, !.sink = 1, !.failed = FALSE, !.batch = batch]
  BY <1>2, <1>3 DEF Left, Job
<1>5. left \in Job /\ left.run = "ended" /\ left.batch = batch
  BY <1>1, <1>2, <1>4 DEF Job
<1>6. PICK owed : owed = IF final = "completed" THEN {} ELSE batch
  OBVIOUS
<1>7. Ended(job, final) = [left EXCEPT !.row = final, !.batch = owed]
  BY <1>3, <1>5, <1>6 DEF Ended, Job
<1>8. owed \in SUBSET Change /\ final \in JobStatus
  BY <1>1, <1>2, <1>6 DEF JobStatus
<1>9. /\ Ended(job, final) \in Job
      /\ Ended(job, final).run = "ended" /\ Ended(job, final).row = final
      /\ Ended(job, final).batch = owed
  BY <1>5, <1>7, <1>8 DEF Job
<1>10. QED
  BY <1>2, <1>6, <1>9

\* or without one.
LEMMA CutJob ==
  ASSUME FeedAssumption, SyncTypeOK, NEW job \in Job
  PROVE  /\ Cut(job) \in Job
         /\ Cut(job).run = "cut" /\ Cut(job).row = job.row
         /\ job.run = "serving" => Cut(job).batch = job.batch
<1>1. 0 \in 0..MaxChanges /\ 1 \in 1..Len(Sinks) /\ job.batch \in SUBSET Change
  BY JobTypes DEF Job
<1>2. PICK batch : batch = IF job.run = "serving" THEN job.batch ELSE {}
  OBVIOUS
<1>3. Cut(job) = [job EXCEPT !.run = "cut", !.from = 0, !.sink = 1, !.failed = FALSE, !.batch = batch]
  BY <1>2 DEF Cut, Left, Job
<1>4. QED
  BY <1>1, <1>2, <1>3 DEF Job

\* A job that throws is over; if it was in service it owes its sinks what it did.
LEMMA StoppedJob ==
  ASSUME FeedAssumption, SyncTypeOK, NEW job \in Job, NEW stopped \in Stopped(job)
  PROVE  /\ stopped \in Job
         /\ stopped.run \in {"ended", "cut"}
         /\ stopped.row \in {"partial", "failed"} \/ stopped.run = "cut"
         /\ job.run = "serving" => stopped.batch = job.batch
<1>1. CASE stopped = Ended(job, "failed")
  <2>1. "failed" \in FinalStatus
    BY DEF FinalStatus
  <2>2. QED
    BY <1>1, <2>1, EndedJob
<1>2. CASE stopped = Cut(job)
  BY <1>2, CutJob
<1>3. QED
  BY <1>1, <1>2 DEF Stopped

\* What the runner of a job that is not over has its row say.
LEMMA RunningRow ==
  ASSUME FeedAssumption, FeedInv, NEW j \in DOMAIN jobs, Running(j)
  PROVE  jobs[j] \in Job /\ jobs[j].row \notin {"partial", "failed"}
BY JobTypes DEF FeedInv, Over, Running

LEMMA FetchFailsKeeps ==
  ASSUME FeedAssumption, FeedInv, NEW j \in DOMAIN jobs, FetchFails(j)
  PROVE  FeedInv'
<1>1. SyncTypeOK /\ Reading(j) /\ Running(j)
  BY DEF FeedInv, FetchFails, Reading, Running
<1>2. PICK job \in Stopped(jobs[j]) : jobs' = [jobs EXCEPT ![j] = job]
  BY DEF FetchFails, FailJob
<1>3. job \in Job /\ job.run \in {"ended", "cut"}
  BY <1>1, RunningRow, StoppedJob
<1>4. \A c \in Kept(source), n \in Configured : ~Owes(j, c, n)
  BY <1>1, ReadingOwesNothing
<1>5. UNCHANGED <<received, syncCrashes, overlapped>> /\ UNCHANGED feedVars /\ UNCHANGED dataVars
  BY DEF FetchFails
<1>6. QED
  BY <1>2, <1>3, <1>4, <1>5, QuietStepKeeps

\* What a job in service had its row say before a statement threw.
LEMMA SaidByThen ==
  ASSUME FeedAssumption, FeedInv, NEW j \in DOMAIN jobs, ClosingFails(j)
  PROVE  \E said \in Job : /\ said.run = "serving" /\ said.batch = jobs[j].batch
                           /\ FailJob(j, said)
<1>1. jobs[j] \in Job /\ jobs[j].run = "serving"
  BY JobTypes DEF FeedInv, ClosingFails
<1>2. PICK row \in {"delivering", "partial", "completed"} :
        FailJob(j, [jobs[j] EXCEPT !.row = row])
  BY DEF ClosingFails
<1>3. PICK said : said = [jobs[j] EXCEPT !.row = row]
  OBVIOUS
<1>4. said \in Job /\ said.run = "serving" /\ said.batch = jobs[j].batch
  BY <1>1, <1>3 DEF Job, JobStatus, FinalStatus
<1>5. QED
  BY <1>2, <1>3, <1>4

\* A job that throws once it is in service goes on owing what it owed.
LEMMA ClosingFailsKeeps ==
  ASSUME FeedAssumption, FeedInv, NEW j \in DOMAIN jobs, ClosingFails(j)
  PROVE  FeedInv'
<1>1. SyncTypeOK /\ jobs[j].run = "serving"
  BY DEF FeedInv, ClosingFails
<1>2. PICK said \in Job : /\ said.run = "serving" /\ said.batch = jobs[j].batch
                         /\ FailJob(j, said)
  BY SaidByThen
<1>3. PICK job \in Stopped(said) : jobs' = [jobs EXCEPT ![j] = job]
  BY <1>2 DEF FailJob
<1>4. /\ job \in Job /\ job.run \in {"ended", "cut"}
      /\ job.row \in {"partial", "failed"} \/ job.run = "cut"
      /\ job.batch = jobs[j].batch
  BY <1>1, <1>2, <1>3, StoppedJob
<1>5. ASSUME NEW c \in Kept(source), NEW n \in Configured, Owes(j, c, n) PROVE Owed(c, n)'
  <2>1. jobs'[j] = job /\ j \in DOMAIN jobs'
    BY <1>1, <1>3, <1>4, JobSet
  <2>2. Owes(j, c, n)'
    BY <1>4, <1>5, <2>1 DEF Owes
  <2>3. QED
    BY <2>1, <2>2 DEF Owed
<1>6. UNCHANGED <<received, syncCrashes, overlapped>> /\ UNCHANGED feedVars /\ UNCHANGED dataVars
  BY DEF ClosingFails
<1>7. QED
  BY <1>3, <1>4, <1>5, <1>6, QuietStepKeeps

\* Who is owed by a job in service is owed still, or served, after the next answer.
LEMMA ServedKeeps ==
  ASSUME FeedAssumption, FeedInv, NEW j \in DOMAIN jobs, NEW failed \in BOOLEAN, jobs[j].run = "serving",
         Served(j, failed),
         jobs[j].failed => failed,
         failed \/ sink(j) \in Unconfigured \/ jobs[j].batch \subseteq received[sink(j)]
  PROVE  FeedInv'
<1>1. SyncTypeOK /\ jobs[j] \in Job /\ Len(Sinks) \in Nat /\ jobs[j].sink \in 1..Len(Sinks)
  BY JobTypes DEF FeedInv, Job
<1>2. jobs[j].row \notin {"partial", "failed"}
  BY DEF FeedInv, Over
<1>3. UNCHANGED <<received, syncCrashes, overlapped>> /\ UNCHANGED feedVars /\ UNCHANGED dataVars
  BY DEF Served
<1>4. ASSUME NEW c \in Kept(source), NEW n \in Configured, Owes(j, c, n), ~failed,
             jobs[j].sink = n
      PROVE  c \in received[Sinks[n]]
  BY <1>2, <1>4 DEF Owes, sink, Configured
<1>5. DOMAIN Sinks = 1..Len(Sinks)
  BY <1>1, JobTypes
<1>6. CASE jobs[j].sink < Len(Sinks)
  <2>1. PICK job : job = [jobs[j] EXCEPT !.failed = failed, !.sink = @ + 1]
    OBVIOUS
  <2>2. /\ job.run = "serving" /\ job.row = jobs[j].row /\ job.batch = jobs[j].batch
        /\ job.sink = jobs[j].sink + 1 /\ job.failed = failed
    BY <1>1, <2>1 DEF Job
  <2>3. job \in Job
    <3>1. PICK next : next = jobs[j].sink + 1
      OBVIOUS
    <3>2. next \in 1..Len(Sinks)
      BY <1>1, <1>6, <3>1
    <3>3. job = [jobs[j] EXCEPT !.failed = failed, !.sink = next]
      BY <2>1, <3>1
    <3>4. QED
      BY <1>1, <3>2, <3>3 DEF Job
  <2>4. jobs' = [jobs EXCEPT ![j] = job]
    <3>1. jobs' = [jobs EXCEPT ![j].failed = failed, ![j].sink = @ + 1]
      BY <1>6 DEF Served
    <3>2. jobs \in [DOMAIN jobs -> Job]
      BY <1>1, JobTypes DEF SyncTypeOK
    <3>3. QED
      BY <2>1, <3>1, <3>2
  <2>5. ASSUME NEW c \in Kept(source), NEW n \in Configured, Owes(j, c, n) PROVE Owed(c, n)'
    <3>1. jobs'[j] = job /\ j \in DOMAIN jobs'
      BY <1>1, <2>3, <2>4, JobSet
    <3>2. n \in 1..Len(Sinks)
      BY <1>5 DEF Configured
    <3>3. CASE failed \/ jobs[j].sink < n
      <4>1. job.failed \/ job.sink <= n
        BY <1>1, <2>2, <3>2, <3>3
      <4>2. Owes(j, c, n)'
        BY <2>2, <2>5, <3>1, <4>1 DEF Owes
      <4>3. QED
        BY <3>1, <4>2 DEF Owed
    <3>4. CASE ~failed /\ ~(jobs[j].sink < n)
      <4>1. jobs[j].sink = n
        BY <1>1, <1>2, <2>5, <3>2, <3>4 DEF Owes
      <4>2. QED
        BY <1>3, <1>4, <2>5, <3>4, <4>1 DEF Owed
    <3>5. QED
      BY <3>3, <3>4
  <2>6. QED
    BY <1>2, <1>3, <2>2, <2>3, <2>4, <2>5, QuietStepKeeps
<1>7. CASE ~(jobs[j].sink < Len(Sinks))
  <2>1. PICK final : final = IF failed THEN "partial" ELSE "completed"
    OBVIOUS
  <2>2. PICK job : job = Ended(jobs[j], final)
    OBVIOUS
  <2>3. /\ job \in Job /\ job.run = "ended" /\ job.row = final
        /\ failed => job.batch = jobs[j].batch
    BY <1>1, <2>1, <2>2, EndedJob DEF FinalStatus
  <2>4. jobs' = [jobs EXCEPT ![j] = job]
    BY <1>7, <2>1, <2>2 DEF Served
  <2>5. ASSUME NEW c \in Kept(source), NEW n \in Configured, Owes(j, c, n) PROVE Owed(c, n)'
    <3>1. jobs'[j] = job /\ j \in DOMAIN jobs'
      BY <1>1, <2>3, <2>4, JobSet
    <3>2. CASE failed
      <4>1. Owes(j, c, n)'
        BY <2>1, <2>3, <2>5, <3>1, <3>2 DEF Owes
      <4>2. QED
        BY <3>1, <4>1 DEF Owed
    <3>3. CASE ~failed
      <4>1. n \in 1..Len(Sinks) /\ jobs[j].sink <= n
        BY <1>2, <1>5, <2>5, <3>3 DEF Owes, Configured
      <4>2. jobs[j].sink = n
        BY <1>1, <1>7, <4>1
      <4>3. QED
        BY <1>3, <1>4, <2>5, <3>3, <4>2 DEF Owed
    <3>4. QED
      BY <3>2, <3>3
  <2>6. QED
    BY <1>3, <2>3, <2>4, <2>5, QuietStepKeeps
<1>8. QED
  BY <1>6, <1>7
LEMMA AnswerKeeps ==
  ASSUME FeedAssumption, FeedInv, NEW j \in DOMAIN jobs, Answer(j)
  PROVE  FeedInv'
<1>1. /\ SyncTypeOK /\ Latest /\ Behind(cursor) /\ Began(j) /\ Over(j)
      /\ jobs[j].run = "asked" /\ Reading(j)
  BY DEF FeedInv, Answer, Reading
<1> DEFINE since == {c \in source : c.at >= jobs[j].from}
<1>2. PICK batch \in IF since = {} THEN {{}} ELSE {Upto(since, c.at) : c \in since} :
        jobs' = [jobs EXCEPT ![j].run = "answered", ![j].batch = batch]
  BY DEF Answer
<1>3. batch \subseteq source /\ batch \in SUBSET Change
  <2>1. batch \subseteq since
    BY DEF Upto
  <2>2. QED
    BY <1>1, <2>1 DEF SyncTypeOK
<1>4. PICK job : job = [jobs[j] EXCEPT !.run = "answered", !.batch = batch]
  OBVIOUS
<1>5. jobs[j] \in Job /\ jobs[j].from \in Nat /\ jobs \in [DOMAIN jobs -> Job]
  <2>1. jobs[j] \in Job
    BY <1>1, JobTypes
  <2>2. jobs[j].from \in Nat
    BY <2>1 DEF Job, FeedAssumption
  <2>3. jobs \in [DOMAIN jobs -> Job]
    BY <1>1, JobTypes DEF SyncTypeOK
  <2>4. QED
    BY <2>1, <2>2, <2>3
<1>6. /\ job \in Job /\ job.run = "answered" /\ job.batch = batch
      /\ job.from = jobs[j].from /\ job.sink = jobs[j].sink /\ job.row = jobs[j].row
  BY <1>3, <1>4, <1>5 DEF Job
<1>7. jobs' = [jobs EXCEPT ![j] = job]
  BY <1>2, <1>4, <1>5
<1>8. UNCHANGED <<source, clock, active, cursor, store, newest, received, syncCrashes, overlapped>>
  BY DEF Answer, feedVars, dataVars
<1>9. /\ SyncTypeOK' /\ DOMAIN jobs' = DOMAIN jobs /\ jobs'[j] = job
      /\ \A c \in Kept(source) : Covered(c) => Covered(c)'
      /\ \A k \in DOMAIN jobs : k # j => jobs'[k] = jobs[k] /\ Began(k)' /\ Page(k)' /\ Over(k)'
  <2>1. \A c \in Kept(source), n \in Configured : ~Owes(j, c, n)
    BY <1>1, ReadingOwesNothing
  <2>2. /\ store' \in [Records -> 0..clock] /\ newest' \in [Records -> 0..clock] /\ cursor' \in 0..clock
        /\ \A r \in Records : newest'[r] >= newest[r]
    BY <1>1, <1>8, JobTypes DEF SyncTypeOK
  <2>3. QED
    BY <1>6, <1>7, <1>8, <2>1, <2>2, JobSteps
<1>10. /\ \A b \in batch : newest[b.id] <= b.at /\ b.at <= clock
       /\ \A b, d \in batch : b.id = d.id => b = d
       /\ \A b \in batch, c \in source : b.id = c.id => b = c
  BY <1>1, <1>3 DEF Latest, SyncTypeOK
<1>11. Alone'
  BY <1>1, <1>6, <1>7, <1>8, <1>10, AloneKept
<1>12. Kept(source)' = Kept(source)
  BY <1>8 DEF Kept
<1>13. Began(j)' /\ Over(j)'
  <2>1. jobs[j].from <= clock /\ Behind(jobs[j].from) /\ jobs[j].sink = 1
    BY <1>1 DEF Began
  <2>2. \A c \in Kept(source) : c.at <= jobs[j].from => Covered(c)'
    BY <1>9, <2>1 DEF Behind
  <2>3. Began(j)'
    BY <1>6, <1>8, <1>9, <1>12, <2>1, <2>2 DEF Began, Behind
  <2>4. QED
    BY <1>1, <1>6, <1>9, <2>3 DEF Over
<1>14. Page(j)'
  <2>1. PICK t : t = NextCursor(j)'
    OBVIOUS
  <2>2. t = CursorAfter(batch, jobs[j].from)
    BY <1>6, <1>9, <2>1 DEF NextCursor, CursorAfter
  <2>3. /\ batch = {} => t = jobs[j].from
        /\ batch # {} => t \in 1..MaxChanges /\ \E c \in batch : t = c.at
    BY <1>3, <2>2, CursorOfPage
  <2>4. ASSUME NEW c \in Kept(source), c.at <= t PROVE c \in batch \/ Covered(c)'
    <3>1. c \in source /\ c.at \in Nat
      BY <1>1, KeptOfSource
    <3>2. CASE c.at <= jobs[j].from
      BY <1>1, <1>9, <3>2 DEF Began, Behind
    <3>3. CASE ~(c.at <= jobs[j].from)
      <4>1. batch # {} /\ c \in since
        BY <1>5, <2>3, <2>4, <3>1, <3>3
      <4>2. PICK u \in since : batch = Upto(since, u.at)
        BY <4>1
      <4>3. PICK b \in batch : t = b.at
        BY <2>3, <4>1
      <4>4. b.at <= u.at /\ b.at \in Nat /\ u.at \in Nat
        <5>1. b.at <= u.at
          BY <4>2, <4>3 DEF Upto
        <5>2. b \in Change /\ u \in Change
          BY <1>1, <1>3 DEF SyncTypeOK
        <5>3. QED
          BY <5>1, <5>2 DEF Change
      <4>5. c.at <= u.at
        BY <2>4, <3>1, <4>3, <4>4
      <4>6. QED
        BY <4>1, <4>2, <4>5 DEF Upto
    <3>4. QED
      BY <3>2, <3>3
  <2>5. \A b \in batch, c \in source : b.id = c.id => b.at <= c.at
    <3> SUFFICES ASSUME NEW b \in batch, NEW c \in source, b.id = c.id PROVE b.at <= c.at
      OBVIOUS
    <3>1. b = c /\ b.at \in Nat
      BY <1>3, <1>10 DEF Change
    <3>2. QED
      BY <3>1
  <2>6. QED
    BY <1>6, <1>8, <1>9, <1>10, <1>12, <2>1, <2>4, <2>5 DEF Page
<1>15. Latest'
  BY <1>1, <1>8 DEF Latest
<1>16. Behind(cursor)'
  BY <1>1, <1>8, <1>9, <1>12 DEF Behind
<1>17. QED
  BY <1>9, <1>11, <1>13, <1>14, <1>15, <1>16 DEF FeedInv

\* No cursor runs ahead of the source.
LEMMA CursorWithinClock ==
  ASSUME FeedAssumption, FeedInv, NEW j \in DOMAIN jobs, jobs[j].run = "answered"
  PROVE  NextCursor(j) \in 0..clock
<1>1. SyncTypeOK /\ Began(j) /\ Page(j) /\ Reading(j)
  BY DEF FeedInv, Reading
<1>2. PICK batch : batch = jobs[j].batch
  OBVIOUS
<1>3. batch \in SUBSET Change /\ jobs[j].from \in Nat
  <2>1. jobs[j] \in Job /\ batch \in SUBSET Change
    BY <1>1, <1>2, JobTypes
  <2>2. QED
    BY <2>1 DEF Job, FeedAssumption
<1>4. PICK t : t = NextCursor(j)
  OBVIOUS
<1>5. /\ batch = {} => t = jobs[j].from
      /\ batch # {} => t \in 1..MaxChanges /\ \E c \in batch : t = c.at
  <2>1. t = CursorAfter(batch, jobs[j].from)
    BY <1>2, <1>4 DEF NextCursor, CursorAfter
  <2>2. QED
    BY <1>3, <2>1, CursorOfPage
<1>6. QED
  BY <1>1, <1>2, <1>3, <1>4, <1>5, JobTypes DEF Page, Began

\* A job writes its page and saves the cursor, and owes the page to every sink.
LEMMA PageSavedKeeps ==
  ASSUME FeedAssumption, FeedInv, NEW j \in DOMAIN jobs, jobs[j].run = "answered",
         NEW job \in Job, jobs' = [jobs EXCEPT ![j] = job],
         WriteRecords(jobs[j].batch), SaveCursor(j),
         UNCHANGED <<source, clock, active, received, syncCrashes, overlapped>>,
         job.run \notin {"asked", "answered"}, job.batch = Kept(jobs[j].batch),
         job.row \in {"partial", "failed"} => job.run \in {"ended", "cut"},
         \/ job.run = "serving" /\ job.sink = jobs[j].sink
         \/ job.row \in {"partial", "failed"} \/ job.run = "cut"
  PROVE  FeedInv'
<1>1. /\ SyncTypeOK /\ Latest /\ Behind(cursor) /\ Began(j) /\ Page(j) /\ Over(j)
      /\ Reading(j)
  BY DEF FeedInv, Reading
<1>2. PICK batch : batch = jobs[j].batch
  OBVIOUS
<1>3. batch \in SUBSET jobs[j].batch /\ WriteRecords(batch)
  BY <1>2
<1>4. /\ store' \in [Records -> 0..clock] /\ newest' \in [Records -> 0..clock]
      /\ \A r \in Records : newest'[r] >= newest[r]
      /\ \A c \in Kept(batch) : newest'[c.id] >= c.at
      /\ Latest' /\ Alone'
  BY <1>1, <1>3, PageWritten, AloneAfterwards
<1>5. PICK t : t = NextCursor(j)
  OBVIOUS
<1>6. t \in 0..clock
  BY <1>5, CursorWithinClock
<1>7. cursor' = (IF t = 0 THEN cursor ELSE t) /\ cursor' \in 0..clock
  BY <1>1, <1>5, <1>6 DEF SaveCursor, SyncTypeOK
<1>8. /\ SyncTypeOK' /\ DOMAIN jobs' = DOMAIN jobs /\ jobs'[j] = job
      /\ \A c \in Kept(source) : Covered(c) => Covered(c)'
      /\ \A k \in DOMAIN jobs : k # j => jobs'[k] = jobs[k] /\ Began(k)' /\ Page(k)' /\ Over(k)'
  <2>1. \A c \in Kept(source), n \in Configured : ~Owes(j, c, n)
    BY <1>1, ReadingOwesNothing
  <2>2. QED
    BY <1>4, <1>7, <2>1, JobSteps
<1>9. Began(j)' /\ Page(j)' /\ Over(j)'
  BY <1>8 DEF Began, Page, Over, Reading
<1>10. ASSUME NEW c \in Kept(source), c \in batch PROVE Covered(c)'
  <2>1. c \in Kept(batch) /\ newest'[c.id] >= c.at
    BY <1>4, <1>10 DEF Kept
  <2>2. ASSUME NEW n \in Configured PROVE Owed(c, n)'
    <3>1. n >= 1
      BY <1>1, JobTypes DEF Configured
    <3>2. jobs[j].sink <= n
      BY <1>1, <3>1 DEF Began
    <3>3. Owes(j, c, n)'
      BY <1>2, <1>8, <2>1, <3>2 DEF Owes
    <3>4. QED
      BY <1>8, <3>3 DEF Owed
  <2>3. QED
    BY <2>1, <2>2 DEF Covered, Configured
<1>11. ASSUME NEW c \in Kept(source), c.at <= cursor' PROVE Covered(c)'
  <2>1. CASE t = 0
    BY <1>1, <1>7, <1>8, <1>11, <2>1 DEF Behind
  <2>2. CASE t # 0
    <3>1. c \in batch \/ Covered(c)
      BY <1>1, <1>2, <1>5, <1>7, <1>11, <2>2 DEF Page
    <3>2. QED
      BY <1>8, <1>10, <3>1
  <2>3. QED
    BY <2>1, <2>2
<1>12. Behind(cursor)'
  BY <1>11 DEF Behind, Kept
<1>13. QED
  BY <1>4, <1>8, <1>9, <1>12 DEF FeedInv

\* The job whose sinks are next.
LEMMA DeliveringJob ==
  ASSUME FeedAssumption, FeedInv, NEW j \in DOMAIN jobs, jobs[j].run = "answered",
         NEW row \in {"transforming", "delivering"}
  PROVE  /\ Delivering(jobs[j], row) \in Job
         /\ Delivering(jobs[j], row).run = "serving" /\ Delivering(jobs[j], row).row = row
         /\ Delivering(jobs[j], row).batch = Kept(jobs[j].batch)
         /\ Delivering(jobs[j], row).sink = jobs[j].sink
<1>1. jobs[j] \in Job /\ jobs[j].batch \subseteq Change
  BY JobTypes DEF FeedInv
<1>2. PICK kept : kept = Kept(jobs[j].batch)
  OBVIOUS
<1>3. kept \in SUBSET Change /\ row \in JobStatus
  BY <1>1, <1>2 DEF Kept, JobStatus
<1>4. Delivering(jobs[j], row) = [jobs[j] EXCEPT !.run = "serving", !.row = row, !.batch = kept]
  BY <1>2 DEF Delivering
<1>5. QED
  BY <1>1, <1>2, <1>3, <1>4 DEF Job

LEMMA ReceiveKeeps ==
  ASSUME FeedAssumption, FeedInv, NEW j \in DOMAIN jobs, Receive(j)
  PROVE  FeedInv'
<1>1. PICK job : job = Delivering(jobs[j], "delivering")
  OBVIOUS
<1>2. /\ job \in Job /\ job.run = "serving" /\ job.row = "delivering"
      /\ job.batch = Kept(jobs[j].batch) /\ job.sink = jobs[j].sink
  BY <1>1, DeliveringJob DEF Receive
<1>3. /\ jobs[j].run = "answered" /\ jobs' = [jobs EXCEPT ![j] = job]
      /\ WriteRecords(jobs[j].batch) /\ SaveCursor(j)
      /\ UNCHANGED <<source, clock, active, received, syncCrashes, overlapped>>
  BY <1>1 DEF Receive, feedVars
<1>4. QED
  BY <1>2, <1>3, PageSavedKeeps

LEMMA DeliveryNotBegunKeeps ==
  ASSUME FeedAssumption, FeedInv, NEW j \in DOMAIN jobs, DeliveryNotBegun(j)
  PROVE  FeedInv'
<1>1. SyncTypeOK
  BY DEF FeedInv
<1>2. PICK serving : serving = Delivering(jobs[j], "transforming")
  OBVIOUS
<1>3. /\ serving \in Job /\ serving.run = "serving" /\ serving.row = "transforming"
      /\ serving.batch = Kept(jobs[j].batch)
  BY <1>2, DeliveringJob DEF DeliveryNotBegun
<1>4. PICK job \in Stopped(serving) : jobs' = [jobs EXCEPT ![j] = job]
  BY <1>2 DEF DeliveryNotBegun, FailJob
<1>5. /\ job \in Job /\ job.run \in {"ended", "cut"} /\ job.batch = Kept(jobs[j].batch)
      /\ job.row \in {"partial", "failed"} \/ job.run = "cut"
  BY <1>1, <1>3, <1>4, StoppedJob
<1>6. /\ jobs[j].run = "answered" /\ WriteRecords(jobs[j].batch) /\ SaveCursor(j)
      /\ UNCHANGED <<source, clock, active, received, syncCrashes, overlapped>>
  BY DEF DeliveryNotBegun, feedVars
<1>7. QED
  BY <1>4, <1>5, <1>6, PageSavedKeeps

LEMMA ReceiveFailsKeeps ==
  ASSUME FeedAssumption, FeedInv, NEW j \in DOMAIN jobs, ReceiveFails(j)
  PROVE  FeedInv'
<1>1. /\ SyncTypeOK /\ Behind(cursor) /\ jobs[j].run = "answered" /\ Reading(j)
  BY DEF FeedInv, ReceiveFails, Reading
<1>2. PICK t \in 0..clock : WriteRecords(Upto(jobs[j].batch, t))
  BY DEF ReceiveFails
<1>3. PICK batch : batch = Upto(jobs[j].batch, t)
  OBVIOUS
<1>4. batch \in SUBSET jobs[j].batch /\ WriteRecords(batch)
  BY <1>2, <1>3 DEF Upto
<1>5. PICK writing : writing = [jobs[j] EXCEPT !.row = "transforming"]
  OBVIOUS
<1>6. PICK job \in Stopped(writing) : jobs' = [jobs EXCEPT ![j] = job]
  BY <1>5 DEF ReceiveFails, FailJob
<1>7. job \in Job /\ job.run \in {"ended", "cut"}
  <2>1. writing \in Job /\ writing.row = "transforming"
    BY <1>1, <1>5, JobTypes DEF Job, JobStatus
  <2>2. QED
    BY <1>1, <1>6, <2>1, StoppedJob
<1>8. UNCHANGED <<source, clock, active, cursor, received, syncCrashes, overlapped>>
  BY DEF ReceiveFails, feedVars
<1>9. /\ store' \in [Records -> 0..clock] /\ newest' \in [Records -> 0..clock]
      /\ \A r \in Records : newest'[r] >= newest[r]
      /\ Latest' /\ Alone'
  BY <1>1, <1>4, <1>6, <1>7, <1>8, PageWritten, AloneAfterwards
<1>10. /\ SyncTypeOK' /\ DOMAIN jobs' = DOMAIN jobs /\ jobs'[j] = job
       /\ \A c \in Kept(source) : Covered(c) => Covered(c)'
       /\ \A k \in DOMAIN jobs : k # j => jobs'[k] = jobs[k] /\ Began(k)' /\ Page(k)' /\ Over(k)'
  <2>1. \A c \in Kept(source), n \in Configured : ~Owes(j, c, n)
    BY <1>1, ReadingOwesNothing
  <2>2. cursor' \in 0..clock
    BY <1>1, <1>8 DEF SyncTypeOK
  <2>3. QED
    BY <1>6, <1>7, <1>8, <1>9, <2>1, <2>2, JobSteps
<1>11. Began(j)' /\ Page(j)' /\ Over(j)'
  BY <1>7, <1>10 DEF Began, Page, Over, Reading
<1>12. Behind(cursor)'
  BY <1>1, <1>8, <1>10 DEF Behind, Kept
<1>13. QED
  BY <1>9, <1>10, <1>11, <1>12 DEF FeedInv
-----------------------------------------------------------------------------
(* The other steps.                                                        *)

\* Rows, cursor and what the jobs so far have stay; a sink may gain something and
\* a job may start.
LEMMA IdleFeedKept ==
  ASSUME FeedAssumption, FeedInv, UNCHANGED <<source, clock, cursor, store, newest>>,
         \A s \in SinkNames : received[s] \subseteq received'[s],
         \A j \in DOMAIN jobs : j \in DOMAIN jobs' /\ jobs'[j] = jobs[j]
  PROVE  /\ Latest' /\ Behind(cursor)'
         /\ \A j \in DOMAIN jobs : Began(j)' /\ Page(j)' /\ Over(j)'
<1>1. SyncTypeOK /\ Latest /\ Behind(cursor)
  BY DEF FeedInv
<1>2. ASSUME NEW c \in Kept(source), Covered(c) PROVE Covered(c)'
  <2>1. \A n \in Configured, j \in DOMAIN jobs : Owes(j, c, n) => Owed(c, n)'
    BY DEF Owes, Owed
  <2>2. c.id \in Records
    BY <1>1, KeptOfSource
  <2>3. newest'[c.id] \in Nat /\ newest'[c.id] >= newest[c.id]
    BY <1>1, <2>2, JobTypes
  <2>4. QED
    BY <1>1, <1>2, <2>1, <2>3, CoveredStays
<1>3. \A j \in DOMAIN jobs : Began(j)' /\ Page(j)' /\ Over(j)'
  BY <1>2, IdleJobKept
<1>4. Latest'
  BY <1>1 DEF Latest
<1>5. Behind(cursor)'
  BY <1>1, <1>2 DEF Behind, Kept
<1>6. QED
  BY <1>3, <1>4, <1>5

LEMMA ReachKeeps ==
  ASSUME FeedAssumption, FeedInv, NEW j \in DOMAIN jobs, Reach(j)
  PROVE  FeedInv'
<1>1. SyncTypeOK /\ Alone
  BY DEF FeedInv
<1>2. UNCHANGED <<source, clock, active, jobs, cursor, store, newest, syncCrashes, overlapped>>
  BY DEF Reach, feedVars, dataVars
<1>3. PICK t \in 1..clock : received' = [received EXCEPT ![sink(j)] = @ \union Upto(jobs[j].batch, t)]
  BY DEF Reach
<1>4. received \in [SinkNames -> SUBSET Change] /\ Upto(jobs[j].batch, t) \subseteq Change
  BY <1>1, JobTypes DEF SyncTypeOK, Upto
<1>5. received' \in [SinkNames -> SUBSET Change] /\ \A s \in SinkNames : received[s] \subseteq received'[s]
  BY <1>3, <1>4
<1>6. SyncTypeOK'
  BY <1>1, <1>2, <1>5 DEF SyncTypeOK
<1>7. Alone'
  BY <1>1, <1>2 DEF Alone, Reading
<1>8. /\ Latest' /\ Behind(cursor)'
      /\ \A k \in DOMAIN jobs : Began(k)' /\ Page(k)' /\ Over(k)'
  BY <1>2, <1>5, IdleFeedKept
<1>9. QED
  BY <1>2, <1>6, <1>7, <1>8 DEF FeedInv

LEMMA StartKeeps ==
  ASSUME FeedAssumption, FeedInv, NEW retries \in 0..MaxJobs, Start(retries)
  PROVE  FeedInv'
<1>1. SyncTypeOK /\ Alone /\ Behind(cursor)
  BY DEF FeedInv
<1>2. /\ UNCHANGED <<source, clock, active, cursor, store, newest, received, syncCrashes>>
      /\ jobs' = Append(jobs, NewJob(retries)) /\ Len(jobs) < MaxJobs
      /\ overlapped' = (overlapped \/ \E j \in DOMAIN jobs : jobs[j].run \in {"asked", "answered"})
  BY DEF Start, feedVars, dataVars
<1>3. PICK job : job = NewJob(retries)
  OBVIOUS
<1>4. /\ job \in Job /\ job.run = "asked" /\ job.row = "running" /\ job.from = cursor
      /\ job.sink = 1
  <2>1. cursor \in 0..MaxChanges /\ 1 \in 1..Len(Sinks)
    BY <1>1, JobTypes
  <2>2. QED
    BY <1>3, <2>1 DEF NewJob, Job, JobStatus
<1> PICK new : new = Len(jobs) + 1
  OBVIOUS
<1>5. /\ jobs' \in Seq(Job) /\ Len(jobs') = new /\ DOMAIN jobs' = DOMAIN jobs \union {new}
      /\ new \notin DOMAIN jobs /\ jobs'[new] = job
      /\ \A j \in DOMAIN jobs : jobs'[j] = jobs[j]
  <2>1. jobs \in Seq(Job) /\ jobs' = Append(jobs, job)
    BY <1>1, <1>2, <1>3 DEF SyncTypeOK
  <2>2. QED
    BY <1>4, <2>1
<1>6. SyncTypeOK'
  <2>1. Len(jobs') <= MaxJobs
    BY <1>1, <1>2, <1>5, JobTypes
  <2>2. overlapped' \in BOOLEAN
    BY <1>2
  <2>3. QED
    BY <1>1, <1>2, <1>5, <2>1, <2>2 DEF SyncTypeOK
<1>7. /\ Latest' /\ Behind(cursor)'
      /\ \A j \in DOMAIN jobs : Began(j)' /\ Page(j)' /\ Over(j)'
  BY <1>2, <1>5, IdleFeedKept
<1>8. Began(new)' /\ Page(new)' /\ Over(new)'
  <2>1. cursor <= clock
    BY <1>1, JobTypes
  <2>2. Began(new)'
    BY <1>2, <1>4, <1>5, <1>7, <2>1 DEF Began, Behind
  <2>3. QED
    BY <1>4, <1>5, <2>2 DEF Page, Over
<1>9. Alone'
  <2> SUFFICES ASSUME ~overlapped' PROVE Alone'
    BY DEF Alone
  <2>1. ~overlapped /\ \A j \in DOMAIN jobs : ~Reading(j)
    BY <1>2 DEF Reading
  <2>2. \A j \in DOMAIN jobs' : Reading(j)' => j = new
    BY <1>5, <2>1 DEF Reading
  <2>3. \A j \in DOMAIN jobs' : jobs'[j].run # "answered"
    BY <1>4, <1>5, <2>1 DEF Reading
  <2>4. store' = newest'
    BY <1>1, <1>2, <2>1 DEF Alone
  <2>5. QED
    BY <2>2, <2>3, <2>4 DEF Alone
<1>10. QED
  BY <1>5, <1>6, <1>7, <1>8, <1>9 DEF FeedInv

LEMMA SetFeedStatusKeeps ==
  ASSUME FeedAssumption, FeedInv, SetFeedStatus
  PROVE  FeedInv'
<1>1. SyncTypeOK /\ Alone
  BY DEF FeedInv
<1>2. /\ UNCHANGED <<source, clock, jobs, cursor, store, newest, received, syncCrashes, overlapped>>
      /\ active' \in BOOLEAN
  BY DEF SetFeedStatus, dataVars
<1>3. SyncTypeOK'
  BY <1>1, <1>2 DEF SyncTypeOK
<1>4. Alone'
  BY <1>1, <1>2 DEF Alone, Reading
<1>5. /\ Latest' /\ Behind(cursor)'
      /\ \A k \in DOMAIN jobs : Began(k)' /\ Page(k)' /\ Over(k)'
  BY <1>2, IdleFeedKept
<1>6. QED
  BY <1>2, <1>3, <1>4, <1>5 DEF FeedInv
LEMMA ModifyKeeps ==
  ASSUME FeedAssumption, FeedInv, NEW r \in Records, NEW keep \in BOOLEAN, Modify(r, keep)
  PROVE  FeedInv'
<1>1. SyncTypeOK /\ Alone /\ Latest /\ Behind(cursor) /\ \A j \in DOMAIN jobs : Began(j) /\ Page(j) /\ Over(j)
  BY DEF FeedInv
<1>2. /\ clock < MaxChanges /\ clock' = clock + 1
      /\ UNCHANGED <<cursor, store, active, jobs, received, syncCrashes, newest, overlapped>>
  BY DEF Modify
<1>3. PICK new : new = [id |-> r, at |-> clock + 1, keep |-> keep]
  OBVIOUS
<1>4. source' = {c \in source : c.id # r} \union {new}
  BY <1>3 DEF Modify
<1>5. clock \in Nat /\ MaxChanges \in Nat /\ clock' \in 0..MaxChanges /\ 0..clock \subseteq 0..clock'
  BY <1>1, <1>2, JobTypes
<1>6. new \in Change /\ new.id = r /\ new.at = clock + 1
  <2>1. clock + 1 \in 1..MaxChanges
    BY <1>2, <1>5
  <2>2. QED
    BY <1>3, <2>1 DEF Change
<1>7. SyncTypeOK'
  <2>1. source' \subseteq Change /\ \A c \in source' : c.at <= clock'
    BY <1>1, <1>2, <1>4, <1>5, <1>6 DEF SyncTypeOK, Change
  <2>2. \A c, d \in source' : c.id = d.id => c = d
    BY <1>1, <1>4, <1>6 DEF SyncTypeOK
  <2>3. cursor' \in 0..clock' /\ store' \in [Records -> 0..clock'] /\ newest' \in [Records -> 0..clock']
    BY <1>1, <1>2, <1>5 DEF SyncTypeOK
  <2>4. QED
    BY <1>1, <1>2, <1>5, <2>1, <2>2, <2>3 DEF SyncTypeOK
<1>8. \A c \in Kept(source)' : c \in Kept(source) \/ c.at = clock + 1
  BY <1>4, <1>6 DEF Kept
<1>9. ASSUME NEW c PROVE Covered(c)' <=> Covered(c)
  BY <1>2 DEF Covered, Owed, Owes
<1>10. Latest'
  <2>1. \A c \in source' : c \in source \/ c = new
    BY <1>4
  <2>2. newest[r] <= clock + 1
    BY <1>1, <1>5, JobTypes
  <2>3. QED
    BY <1>1, <1>2, <1>6, <2>1, <2>2 DEF Latest
<1>11. Behind(cursor)'
  <2>1. cursor <= clock /\ cursor \in Nat
    BY <1>1, JobTypes
  <2>2. \A c \in Kept(source)' : c.at <= cursor => c \in Kept(source)
    BY <1>5, <1>8, <2>1
  <2>3. QED
    BY <1>1, <1>2, <1>9, <2>2 DEF Behind
<1>12. ASSUME NEW j \in DOMAIN jobs PROVE Began(j)' /\ Page(j)' /\ Over(j)'
  <2>1. Over(j)'
    BY <1>1, <1>2 DEF Over
  <2>2. Began(j)'
    <3> SUFFICES ASSUME Reading(j) PROVE Began(j)'
      BY <1>2 DEF Began, Reading
    <3>1. jobs[j].from \in Nat /\ jobs[j].from <= clock /\ Behind(jobs[j].from) /\ jobs[j].sink = 1
      <4>1. jobs[j] \in Job
        BY <1>1, JobTypes
      <4>2. QED
        BY <1>1, <4>1 DEF Began, Job, FeedAssumption
    <3>2. \A c \in Kept(source)' : c.at <= jobs[j].from => c \in Kept(source)
      BY <1>5, <1>8, <3>1
    <3>3. \A c \in Kept(source)' : c.at <= jobs[j].from => Covered(c)'
      BY <1>9, <3>1, <3>2 DEF Behind
    <3>4. QED
      BY <1>2, <1>5, <3>1, <3>3 DEF Began, Behind
  <2>3. Page(j)'
    <3> SUFFICES ASSUME jobs[j].run = "answered" PROVE Page(j)'
      BY <1>2 DEF Page
    <3>1. NextCursor(j)' = NextCursor(j) /\ NextCursor(j) \in 0..clock
      BY <1>2, CursorWithinClock DEF NextCursor
    <3>2. /\ \A b \in jobs[j].batch : b.at \in Nat /\ b.at <= clock
          /\ \A b, d \in jobs[j].batch : b.id = d.id => b = d
          /\ \A b \in jobs[j].batch, c \in source : b.id = c.id => b.at <= c.at
          /\ \A c \in Kept(source) : c.at <= NextCursor(j) => c \in jobs[j].batch \/ Covered(c)
      <4>1. \A b \in jobs[j].batch : b.at \in Nat
        BY <1>1, JobTypes DEF Change
      <4>2. QED
        BY <1>1, <4>1 DEF Page
    <3>3. \A b \in jobs[j].batch, c \in source' : b.id = c.id => b.at <= c.at
      BY <1>4, <1>5, <1>6, <3>2
    <3>4. \A c \in Kept(source)' : c.at <= NextCursor(j) => c \in Kept(source)
      BY <1>5, <1>8, <3>1
    <3>5. \A c \in Kept(source)' : c.at <= NextCursor(j) => c \in jobs[j].batch \/ Covered(c)'
      BY <1>9, <3>2, <3>4
    <3>6. \A b \in jobs[j].batch : b.at <= clock'
      BY <1>2, <1>5, <3>2
    <3>7. QED
      BY <1>2, <3>1, <3>2, <3>3, <3>5, <3>6 DEF Page
  <2>4. QED
    BY <2>1, <2>2, <2>3
<1>13. Alone'
  BY <1>1, <1>2 DEF Alone, Reading
<1>14. QED
  BY <1>2, <1>7, <1>10, <1>11, <1>12, <1>13 DEF FeedInv

LEMMA FeedCrashKeeps ==
  ASSUME FeedAssumption, FeedInv, SyncCrash
  PROVE  FeedInv'
<1>1. /\ SyncTypeOK /\ Alone /\ Latest /\ Behind(cursor)
      /\ \A j \in DOMAIN jobs : Began(j) /\ Page(j) /\ Over(j)
  BY DEF FeedInv
<1>2. PICK cut : cut = [j \in DOMAIN jobs |-> IF Running(j) THEN Cut(jobs[j]) ELSE jobs[j]]
  OBVIOUS
<1>3. /\ Len(jobs) \in Nat /\ DOMAIN jobs = 1..Len(jobs) /\ Len(jobs) <= MaxJobs
      /\ \A j \in DOMAIN jobs : jobs[j] \in Job
  BY <1>1, JobTypes
<1>4. /\ DOMAIN cut = DOMAIN jobs
      /\ \A j \in DOMAIN jobs :
           /\ cut[j] \in Job /\ cut[j].run \in {"ended", "cut"}
           /\ cut[j].row = jobs[j].row
           /\ jobs[j].run = "serving" => cut[j].batch = jobs[j].batch
           /\ Running(j) => cut[j].run = "cut"
           /\ ~Running(j) => cut[j] = jobs[j]
  <2> SUFFICES ASSUME NEW j \in DOMAIN jobs
               PROVE  /\ cut[j] \in Job /\ cut[j].run \in {"ended", "cut"}
                      /\ cut[j].row = jobs[j].row
                      /\ jobs[j].run = "serving" => cut[j].batch = jobs[j].batch
                      /\ Running(j) => cut[j].run = "cut"
                      /\ ~Running(j) => cut[j] = jobs[j]
    BY <1>2
  <2>1. CASE Running(j)
    <3>1. cut[j] = Cut(jobs[j])
      BY <1>2, <2>1
    <3>2. QED
      BY <1>1, <1>3, <2>1, <3>1, CutJob
  <2>2. CASE ~Running(j)
    BY <1>2, <1>3, <2>2 DEF Running
  <2>3. QED
    BY <2>1, <2>2
<1>5. UNCHANGED <<source, clock, active, received, overlapped, cursor>> /\ syncCrashes' \in 0..MaxSyncCrashes
  <2>1. syncCrashes' \in 0..MaxSyncCrashes
    BY <1>1 DEF SyncCrash, SyncTypeOK, FeedAssumption
  <2>2. QED
    BY <2>1 DEF SyncCrash, feedVars, dataVars
<1>6. /\ store' \in [Records -> 0..clock] /\ newest' \in [Records -> 0..clock]
      /\ \A r \in Records : newest'[r] >= newest[r]
      /\ Latest' /\ (~overlapped => store' = newest')
  <2>1. CASE UNCHANGED dataVars
    <3>1. store' = store /\ newest' = newest
      BY <2>1 DEF dataVars
    <3>2. \A r \in Records : newest'[r] >= newest[r]
      BY <1>1, <3>1, JobTypes
    <3>3. Latest' /\ (~overlapped => store' = newest')
      BY <1>1, <1>5, <3>1 DEF Latest, Alone
    <3>4. QED
      BY <1>1, <3>1, <3>2, <3>3 DEF SyncTypeOK
  <2>2. CASE ~ UNCHANGED dataVars
    <3>1. PICK j \in DOMAIN jobs, t \in 1..clock :
            jobs[j].run = "answered" /\ WriteRecords(Upto(jobs[j].batch, t))
      BY <2>2 DEF SyncCrash
    <3>2. PICK batch : batch = Upto(jobs[j].batch, t)
      OBVIOUS
    <3>3. batch \in SUBSET jobs[j].batch /\ WriteRecords(batch)
      BY <3>1, <3>2 DEF Upto
    <3>4. source' = source
      BY <1>5
    <3>5. QED
      BY <3>1, <3>3, <3>4, PageWritten
  <2>3. QED
    BY <2>1, <2>2
<1>7. /\ jobs' \in [DOMAIN jobs -> Job]
      /\ \A j \in DOMAIN jobs :
           /\ jobs'[j].run \in {"ended", "cut"}
           /\ jobs[j].run = "serving" => jobs'[j].batch = jobs[j].batch
           /\ jobs'[j].row = jobs[j].row \/ (Running(j) /\ jobs'[j].row = "transforming")
           /\ Running(j) => jobs'[j].run = "cut"
           /\ ~Running(j) => jobs'[j] = jobs[j]
  <2>1. cut \in [DOMAIN jobs -> Job]
    BY <1>2, <1>4
  <2>2. CASE jobs' = cut
    BY <1>4, <2>1, <2>2
  <2>3. CASE jobs' # cut
    <3>1. PICK j \in DOMAIN jobs : jobs[j].run = "answered" /\ jobs' = [cut EXCEPT ![j].row = "transforming"]
      BY <1>2, <2>3 DEF SyncCrash
    <3>2. PICK job : job = [cut[j] EXCEPT !.row = "transforming"]
      OBVIOUS
    <3>3. /\ job \in Job /\ job.run = cut[j].run /\ job.batch = cut[j].batch /\ job.row = "transforming"
          /\ Running(j)
      BY <1>4, <3>1, <3>2 DEF Job, JobStatus, Running
    <3>4. jobs' = [cut EXCEPT ![j] = job]
      BY <2>1, <3>1, <3>2
    <3>5. jobs' \in [DOMAIN jobs -> Job] /\ jobs'[j] = job /\ \A k \in DOMAIN jobs : k # j => jobs'[k] = cut[k]
      BY <2>1, <3>3, <3>4
    <3>6. QED
      BY <1>4, <3>3, <3>5
  <2>4. QED
    BY <2>2, <2>3
<1>8. jobs' \in Seq(Job) /\ Len(jobs') = Len(jobs) /\ DOMAIN jobs' = DOMAIN jobs
  BY <1>3, <1>7
<1>9. SyncTypeOK'
  <2>1. Len(jobs') <= MaxJobs
    BY <1>3, <1>8
  <2>2. QED
    BY <1>1, <1>5, <1>6, <1>8, <2>1 DEF SyncTypeOK
<1>10. ASSUME NEW c \in Kept(source), Covered(c) PROVE Covered(c)'
  <2>1. ASSUME NEW n \in Configured, NEW j \in DOMAIN jobs, Owes(j, c, n) PROVE Owed(c, n)'
    <3>1. CASE Running(j)
      <4>1. jobs[j].run = "serving"
        BY <2>1, <3>1, RunningRow DEF Owes, Running
      <4>2. QED
        BY <1>7, <1>8, <2>1, <3>1, <4>1 DEF Owes, Owed
    <3>2. CASE ~Running(j)
      BY <1>7, <1>8, <2>1, <3>2 DEF Owes, Owed
    <3>3. QED
      BY <3>1, <3>2
  <2>2. c.id \in Records
    BY <1>1, KeptOfSource
  <2>3. newest'[c.id] \in Nat /\ newest'[c.id] >= newest[c.id]
    BY <1>1, <1>6, <2>2, JobTypes
  <2>4. QED
    BY <1>1, <1>5, <1>10, <2>1, <2>3, CoveredStays
<1>11. Behind(cursor)'
  BY <1>1, <1>5, <1>10 DEF Behind, Kept
<1>12. ASSUME NEW j \in DOMAIN jobs PROVE ~Reading(j)' /\ Began(j)' /\ Page(j)' /\ Over(j)'
  <2>1. jobs'[j].run \notin {"asked", "answered"}
    BY <1>7
  <2>2. Over(j)'
    <3>1. CASE Running(j)
      BY <1>1, <1>7, <3>1 DEF Over, Running
    <3>2. CASE ~Running(j)
      BY <1>1, <1>7, <3>2 DEF Over
    <3>3. QED
      BY <3>1, <3>2
  <2>3. QED
    BY <2>1, <2>2 DEF Reading, Began, Page
<1>13. Alone'
  <2>1. \A j \in DOMAIN jobs' : jobs'[j].run # "answered"
    BY <1>7, <1>8
  <2>2. QED
    BY <1>5, <1>6, <1>8, <1>12, <2>1 DEF Alone
<1>14. QED
  BY <1>6, <1>8, <1>9, <1>11, <1>12, <1>13 DEF FeedInv

LEMMA FeedOpens ==
  ASSUME FeedAssumption, SyncInit
  PROVE  FeedInv
<1>1. DOMAIN jobs = {} /\ jobs \in Seq(Job) /\ Len(jobs) = 0
  BY DEF SyncInit
<1>2. store \in [Records -> 0..clock] /\ newest = store /\ \A r \in Records : store[r] = 0
  BY DEF SyncInit
<1>3. SyncTypeOK
  <2>1. clock \in 0..MaxChanges /\ cursor \in 0..clock /\ syncCrashes \in 0..MaxSyncCrashes /\ Len(jobs) <= MaxJobs
    BY <1>1 DEF SyncInit, FeedAssumption
  <2>2. /\ source \subseteq Change /\ \A c, d \in source : c.id = d.id => c = d
        /\ \A c \in source : c.at <= clock
    BY DEF SyncInit
  <2>3. received \in [SinkNames -> SUBSET Change]
    BY DEF SyncInit
  <2>4. active \in BOOLEAN /\ overlapped \in BOOLEAN
    BY DEF SyncInit
  <2>5. QED
    BY <1>1, <1>2, <2>1, <2>2, <2>3, <2>4 DEF SyncTypeOK
<1>4. Latest /\ Behind(cursor)
  BY <1>2 DEF SyncInit, Latest, Behind, Kept
<1>5. Alone
  BY <1>1, <1>2 DEF Alone
<1>6. QED
  BY <1>1, <1>3, <1>4, <1>5 DEF FeedInv

LEMMA FeedSteps ==
  ASSUME FeedAssumption, FeedInv, [SyncNext]_syncVars
  PROVE  FeedInv'
<1>1. ASSUME NEW r \in Records, NEW keep \in BOOLEAN, Modify(r, keep) PROVE FeedInv'
  BY <1>1, ModifyKeeps
<1>2. CASE SetFeedStatus
  BY <1>2, SetFeedStatusKeeps
<1>3. CASE StartSync
  <2>1. 0 \in 0..MaxJobs /\ Start(0)
    BY <1>3 DEF StartSync, FeedAssumption
  <2>2. QED
    BY <2>1, StartKeeps
<1>4. ASSUME NEW j \in DOMAIN jobs, RetrySinks(j) PROVE FeedInv'
  <2>1. PICK retries : retries = IF jobs[j].row = "partial" THEN j ELSE 0
    OBVIOUS
  <2>2. retries \in 0..MaxJobs
    BY <2>1, JobTypes DEF FeedInv
  <2>3. Start(retries)
    BY <1>4, <2>1 DEF RetrySinks
  <2>4. QED
    BY <2>2, <2>3, StartKeeps
<1>5. ASSUME NEW j \in DOMAIN jobs, Progress(j) PROVE FeedInv'
  <2>1. CASE Answer(j)
    BY <2>1, AnswerKeeps
  <2>2. CASE FetchFails(j)
    BY <2>2, FetchFailsKeeps
  <2>3. CASE Receive(j)
    BY <2>3, ReceiveKeeps
  <2>4. CASE ReceiveFails(j)
    BY <2>4, ReceiveFailsKeeps
  <2>5. CASE Reach(j)
    BY <2>5, ReachKeeps
  <2>6. CASE SinkAccepts(j)
    <3>1. jobs[j].failed \in BOOLEAN
      BY JobTypes DEF FeedInv, Job
    <3>2. QED
      BY <2>6, <3>1, ServedKeeps DEF SinkAccepts, Taken
  <2>7. CASE SinkFails(j)
    BY <2>7, ServedKeeps DEF SinkFails
  <2>8. CASE DeliveryNotBegun(j)
    BY <2>8, DeliveryNotBegunKeeps
  <2>9. CASE ClosingFails(j)
    BY <2>9, ClosingFailsKeeps
  <2>10. QED
    BY <1>5, <2>1, <2>2, <2>3, <2>4, <2>5, <2>6, <2>7, <2>8, <2>9 DEF Progress
<1>6. CASE SyncCrash
  BY <1>6, FeedCrashKeeps
<1>7. CASE UNCHANGED syncVars
  <2>1. UNCHANGED <<source, clock, cursor, store, active, jobs, received, syncCrashes, newest, overlapped>>
    BY <1>7 DEF syncVars
  <2>2. SyncTypeOK' /\ Alone'
    BY <2>1 DEF FeedInv, SyncTypeOK, Alone, Reading
  <2>3. /\ Latest' /\ Behind(cursor)'
        /\ \A k \in DOMAIN jobs : Began(k)' /\ Page(k)' /\ Over(k)'
    BY <2>1, IdleFeedKept
  <2>4. QED
    BY <2>1, <2>2, <2>3 DEF FeedInv
<1>8. QED
  BY <1>1, <1>2, <1>3, <1>4, <1>5, <1>6, <1>7 DEF SyncNext

\* The types, and what jobs that overlap, fail or die leave in place.
THEOREM FeedInvariant ==
  ASSUME FeedAssumption
  PROVE  SyncSpec => []FeedInv
<1>1. SyncInit => FeedInv
  BY FeedOpens
<1>2. FeedInv /\ [SyncNext]_syncVars => FeedInv'
  BY FeedSteps
<1>3. QED
  BY <1>1, <1>2, PTL DEF SyncSpec

\* The values of cursor, rows and jobs are of their types, and stamps of rows and
\* cursor are those of changes the source has made.
THEOREM FeedTypesHold ==
  ASSUME FeedAssumption
  PROVE  SyncSpec => []SyncTypeOK
<1>1. FeedInv => SyncTypeOK
  BY DEF FeedInv
<1>2. QED
  BY <1>1, FeedInvariant, PTL

\* runSyncJob saves the cursor after the rows, so that it passes no change that
\* was kept and not written, for any number of jobs that overlap, fail or are cut off.
THEOREM NothingIsMissed ==
  ASSUME FeedAssumption
  PROVE  SyncSpec => []NothingMissed
<1>1. FeedInv => NothingMissed
  <2> SUFFICES ASSUME FeedInv, NEW c \in Kept(source), c.at <= cursor
               PROVE  newest[c.id] >= c.at /\ (store[c.id] >= c.at \/ overlapped)
    BY DEF NothingMissed
  <2>1. newest[c.id] >= c.at
    BY DEF FeedInv, Behind, Covered
  <2>2. ~overlapped => store = newest
    BY DEF FeedInv, Alone
  <2>3. QED
    BY <2>1, <2>2
<1>2. QED
  BY <1>1, FeedInvariant, PTL

\* The cursor is saved before the sinks are served: what a configured sink lacks
\* behind it is with a job that is serving, ended partial or failed after it had moved
\* the cursor, or was cut off.
THEOREM UndeliveredAlwaysHasACause ==
  ASSUME FeedAssumption
  PROVE  SyncSpec => []UndeliveredHasACause
<1>1. FeedInv => UndeliveredHasACause
  <2> SUFFICES ASSUME FeedInv, NEW c \in Kept(source), NEW n \in DOMAIN Sinks, c.at <= cursor,
                      Sinks[n] \notin Unconfigured, c \notin received[Sinks[n]]
               PROVE  \E j \in DOMAIN jobs : Owes(j, c, n)
    BY DEF UndeliveredHasACause, Owes
  <2>1. Covered(c)
    BY DEF FeedInv, Behind
  <2>2. n \in Configured
    BY DEF Configured
  <2>3. QED
    BY <2>1, <2>2 DEF Covered, Owed
<1>2. QED
  BY <1>1, FeedInvariant, PTL
-----------------------------------------------------------------------------
(* The record store comes first.                                           *)

\* What may be sent: a kept change that was written.
Sendable(c) == c.keep /\ newest[c.id] >= c.at
Following ==
  /\ SinksFollowStore
  /\ \A j \in DOMAIN jobs : jobs[j].run = "serving" => \A c \in jobs[j].batch : Sendable(c)

\* Rows do not go back, jobs serve what they served or what is written now, and
\* what arrives at a sink comes from a job that serves.
LEMMA FollowingKept ==
  ASSUME FeedAssumption, SyncTypeOK, SyncTypeOK', Following,
         \A r \in Records : newest'[r] >= newest[r],
         \A j \in DOMAIN jobs' : jobs'[j].run = "serving" =>
           \/ /\ j \in DOMAIN jobs /\ jobs[j].run = "serving"
              /\ jobs'[j].batch \subseteq jobs[j].batch
           \/ \A c \in jobs'[j].batch : c.keep /\ newest'[c.id] >= c.at,
         \A s \in SinkNames : \A c \in received'[s] :
           \/ c \in received[s]
           \/ \E j \in DOMAIN jobs : jobs[j].run = "serving" /\ c \in jobs[j].batch
  PROVE  Following'
<1>1. ASSUME NEW c \in Change, Sendable(c) PROVE c.keep /\ newest'[c.id] >= c.at
  <2>1. c.id \in Records /\ c.at \in Nat
    BY DEF Change
  <2>2. newest[c.id] \in Nat /\ newest'[c.id] \in Nat
    BY <2>1 DEF SyncTypeOK
  <2>3. newest'[c.id] >= newest[c.id] /\ newest[c.id] >= c.at /\ c.keep
    BY <1>1, <2>1 DEF Sendable
  <2>4. QED
    BY <2>1, <2>2, <2>3
<1>2. \A j \in DOMAIN jobs : jobs[j].batch \subseteq Change
  BY JobTypes
<1>3. \A s \in SinkNames : received[s] \subseteq Change
  BY DEF SyncTypeOK
<1>4. ASSUME NEW s \in SinkNames, NEW c \in received'[s] PROVE c.keep /\ newest'[c.id] >= c.at
  <2>1. c \in Change /\ Sendable(c)
    BY <1>2, <1>3, <1>4 DEF Following, SinksFollowStore, Sendable
  <2>2. QED
    BY <1>1, <2>1
<1>5. ASSUME NEW j \in DOMAIN jobs', jobs'[j].run = "serving", NEW c \in jobs'[j].batch
      PROVE  c.keep /\ newest'[c.id] >= c.at
  <2>1. CASE j \in DOMAIN jobs /\ jobs[j].run = "serving" /\ jobs'[j].batch \subseteq jobs[j].batch
    <3>1. c \in Change /\ Sendable(c)
      BY <1>2, <1>5, <2>1 DEF Following
    <3>2. QED
      BY <1>1, <3>1
  <2>2. CASE \A d \in jobs'[j].batch : d.keep /\ newest'[d.id] >= d.at
    BY <1>5, <2>2
  <2>3. QED
    BY <1>5, <2>1, <2>2
<1>6. QED
  BY <1>4, <1>5 DEF Following, SinksFollowStore, Sendable

\* A step of one job that sends nothing and, but for `job', serves nothing new.
LEMMA JobStepFollows ==
  ASSUME FeedAssumption, FeedInv, FeedInv', Following, NEW j \in DOMAIN jobs, NEW job \in Job,
         jobs' = [jobs EXCEPT ![j] = job], received' = received,
         \A r \in Records : newest'[r] >= newest[r],
         job.run = "serving" => \/ jobs[j].run = "serving" /\ job.batch \subseteq jobs[j].batch
                                \/ \A c \in job.batch : c.keep /\ newest'[c.id] >= c.at
  PROVE  Following'
<1>1. SyncTypeOK /\ SyncTypeOK'
  BY DEF FeedInv
<1>2. DOMAIN jobs' = DOMAIN jobs /\ jobs'[j] = job /\ \A k \in DOMAIN jobs : k # j => jobs'[k] = jobs[k]
  BY <1>1, JobSet
<1>3. \A k \in DOMAIN jobs' : jobs'[k].run = "serving" =>
        \/ k \in DOMAIN jobs /\ jobs[k].run = "serving" /\ jobs'[k].batch \subseteq jobs[k].batch
        \/ \A c \in jobs'[k].batch : c.keep /\ newest'[c.id] >= c.at
  BY <1>2
<1>4. QED
  BY <1>1, <1>3, FollowingKept

LEMMA NewestStays ==
  ASSUME FeedAssumption, SyncTypeOK, newest' = newest
  PROVE  \A r \in Records : newest'[r] >= newest[r]
BY JobTypes

LEMMA ServedFollows ==
  ASSUME FeedAssumption, FeedInv, FeedInv', Following, NEW j \in DOMAIN jobs, NEW failed \in BOOLEAN,
         jobs[j].run = "serving", Served(j, failed)
  PROVE  Following'
<1>1. SyncTypeOK /\ SyncTypeOK' /\ jobs[j] \in Job
  BY JobTypes DEF FeedInv
<1>2. received' = received /\ newest' = newest
  BY DEF Served, dataVars
<1>3. \A r \in Records : newest'[r] >= newest[r]
  BY <1>1, <1>2, NewestStays
<1>4. jobs \in [DOMAIN jobs -> Job]
  BY <1>1, JobTypes DEF SyncTypeOK
<1>5. /\ DOMAIN jobs' = DOMAIN jobs /\ \A k \in DOMAIN jobs : k # j => jobs'[k] = jobs[k]
      /\ jobs'[j].run = "serving" => jobs'[j].batch = jobs[j].batch
  <2>1. CASE jobs[j].sink < Len(Sinks)
    <3>1. jobs' = [jobs EXCEPT ![j].failed = failed, ![j].sink = @ + 1]
      BY <2>1 DEF Served
    <3>2. QED
      BY <1>1, <1>4, <3>1 DEF Job
  <2>2. CASE ~(jobs[j].sink < Len(Sinks))
    <3>1. PICK final : final = IF failed THEN "partial" ELSE "completed"
      OBVIOUS
    <3>2. PICK job : job = Ended(jobs[j], final)
      OBVIOUS
    <3>3. job \in Job /\ job.run = "ended"
      BY <1>1, <3>1, <3>2, EndedJob DEF FinalStatus
    <3>4. jobs' = [jobs EXCEPT ![j] = job]
      BY <2>2, <3>1, <3>2 DEF Served
    <3>5. QED
      BY <1>1, <3>3, <3>4, JobSet
  <2>3. QED
    BY <2>1, <2>2
<1>6. \A k \in DOMAIN jobs' : jobs'[k].run = "serving" =>
        k \in DOMAIN jobs /\ jobs[k].run = "serving" /\ jobs'[k].batch \subseteq jobs[k].batch
  BY <1>5
<1>7. QED
  BY <1>1, <1>2, <1>3, <1>6, FollowingKept

\* The rows are written before the job that wrote them serves a sink.
LEMMA ReceiveFollows ==
  ASSUME FeedAssumption, FeedInv, FeedInv', Following, NEW j \in DOMAIN jobs, Receive(j)
  PROVE  Following'
<1>1. SyncTypeOK /\ jobs[j].run = "answered" /\ received' = received /\ UNCHANGED source
  BY DEF FeedInv, Receive, feedVars
<1>2. PICK batch : batch = jobs[j].batch
  OBVIOUS
<1>3. batch \in SUBSET jobs[j].batch /\ WriteRecords(batch) /\ batch \subseteq Change
  BY <1>1, <1>2, JobTypes DEF Receive
<1>4. /\ \A r \in Records : newest'[r] >= newest[r]
      /\ \A c \in Kept(batch) : newest'[c.id] >= c.at
  BY <1>1, <1>3, PageWritten
<1>5. PICK job : job = Delivering(jobs[j], "delivering")
  OBVIOUS
<1>6. job \in Job /\ job.batch = Kept(batch)
  BY <1>1, <1>2, <1>5, DeliveringJob
<1>7. jobs' = [jobs EXCEPT ![j] = job]
  BY <1>5 DEF Receive
<1>8. \A c \in job.batch : c.keep /\ newest'[c.id] >= c.at
  BY <1>4, <1>6 DEF Kept
<1>9. QED
  BY <1>1, <1>4, <1>6, <1>7, <1>8, JobStepFollows

\* A job that throws serves nobody, whatever was written before.
LEMMA StoppedFollows ==
  ASSUME FeedAssumption, FeedInv, FeedInv', Following, NEW j \in DOMAIN jobs,
         NEW job \in Job, FailJob(j, job), received' = received, \A r \in Records : newest'[r] >= newest[r]
  PROVE  Following'
<1>1. PICK stopped \in Stopped(job) : jobs' = [jobs EXCEPT ![j] = stopped]
  BY DEF FailJob
<1>2. stopped \in Job /\ stopped.run \in {"ended", "cut"}
  BY StoppedJob DEF FeedInv
<1>3. QED
  BY <1>1, <1>2, JobStepFollows

LEMMA DeliveryNotBegunFollows ==
  ASSUME FeedAssumption, FeedInv, FeedInv', Following, NEW j \in DOMAIN jobs, DeliveryNotBegun(j)
  PROVE  Following'
<1>1. jobs[j].run = "answered" /\ received' = received /\ UNCHANGED source
  BY DEF DeliveryNotBegun, feedVars
<1>2. PICK batch : batch = jobs[j].batch
  OBVIOUS
<1>3. batch \in SUBSET jobs[j].batch /\ WriteRecords(batch)
  BY <1>2 DEF DeliveryNotBegun
<1>4. \A r \in Records : newest'[r] >= newest[r]
  BY <1>1, <1>3, PageWritten
<1>5. PICK job : job = Delivering(jobs[j], "transforming")
  OBVIOUS
<1>6. job \in Job /\ job.row = "transforming" /\ FailJob(j, job)
  BY <1>1, <1>5, DeliveringJob DEF DeliveryNotBegun
<1>7. QED
  BY <1>1, <1>4, <1>6, StoppedFollows

\* A job that writes part of its page, or none, does not serve.
LEMMA ReceiveFailsFollows ==
  ASSUME FeedAssumption, FeedInv, FeedInv', Following, NEW j \in DOMAIN jobs, ReceiveFails(j)
  PROVE  Following'
<1>1. SyncTypeOK /\ jobs[j].run = "answered" /\ received' = received /\ UNCHANGED source
  BY DEF FeedInv, ReceiveFails, feedVars
<1>2. PICK t : WriteRecords(Upto(jobs[j].batch, t))
  BY DEF ReceiveFails
<1>3. PICK batch : batch = Upto(jobs[j].batch, t)
  OBVIOUS
<1>4. batch \in SUBSET jobs[j].batch /\ WriteRecords(batch)
  BY <1>2, <1>3 DEF Upto
<1>5. \A r \in Records : newest'[r] >= newest[r]
  BY <1>1, <1>4, PageWritten
<1>6. PICK job : job = [jobs[j] EXCEPT !.row = "transforming"]
  OBVIOUS
<1>7. job \in Job /\ job.row = "transforming" /\ FailJob(j, job)
  BY <1>1, <1>6, JobTypes DEF Job, JobStatus, ReceiveFails
<1>8. QED
  BY <1>1, <1>5, <1>7, StoppedFollows

\* Neither does one that throws before its page is read,
LEMMA FetchFailsFollows ==
  ASSUME FeedAssumption, FeedInv, FeedInv', Following, NEW j \in DOMAIN jobs, FetchFails(j)
  PROVE  Following'
<1>1. SyncTypeOK /\ received' = received /\ newest' = newest /\ FailJob(j, jobs[j])
  BY DEF FeedInv, FetchFails, dataVars
<1>2. jobs[j] \in Job /\ \A r \in Records : newest'[r] >= newest[r]
  BY <1>1, JobTypes, NewestStays
<1>3. QED
  BY <1>1, <1>2, StoppedFollows

\* or after its sinks.
LEMMA ClosingFailsFollows ==
  ASSUME FeedAssumption, FeedInv, FeedInv', Following, NEW j \in DOMAIN jobs, ClosingFails(j)
  PROVE  Following'
<1>1. SyncTypeOK /\ received' = received /\ newest' = newest
  BY DEF FeedInv, ClosingFails, dataVars
<1>2. PICK said \in Job : FailJob(j, said)
  BY SaidByThen
<1>3. \A r \in Records : newest'[r] >= newest[r]
  BY <1>1, NewestStays
<1>4. QED
  BY <1>1, <1>2, <1>3, StoppedFollows

\* A crash ends every job that serves, whatever it lets one of the others write.
LEMMA CrashFollows ==
  ASSUME FeedAssumption, FeedInv, FeedInv', Following, SyncCrash
  PROVE  Following'
<1>1. SyncTypeOK /\ SyncTypeOK' /\ received' = received /\ UNCHANGED source
  BY DEF FeedInv, SyncCrash, feedVars
<1>2. PICK cut : cut = [j \in DOMAIN jobs |-> IF Running(j) THEN Cut(jobs[j]) ELSE jobs[j]]
  OBVIOUS
<1>3. \A j \in DOMAIN jobs : cut[j] \in Job /\ cut[j].run # "serving"
  BY <1>1, <1>2, JobTypes, CutJob DEF Running
<1>4. \/ jobs' = cut /\ UNCHANGED dataVars
      \/ \E j \in DOMAIN jobs, t \in 1..clock :
           /\ jobs[j].run = "answered" /\ WriteRecords(Upto(jobs[j].batch, t))
           /\ jobs' = [cut EXCEPT ![j].row = "transforming"]
  BY <1>2 DEF SyncCrash
<1>5. CASE jobs' = cut /\ UNCHANGED dataVars
  <2>1. \A r \in Records : newest'[r] >= newest[r]
    BY <1>1, <1>5, NewestStays DEF dataVars
  <2>2. DOMAIN jobs' = DOMAIN jobs /\ \A j \in DOMAIN jobs' : jobs'[j].run # "serving"
    BY <1>2, <1>3, <1>5
  <2>3. QED
    BY <1>1, <2>1, <2>2, FollowingKept
<1>6. CASE \E j \in DOMAIN jobs, t \in 1..clock :
           /\ jobs[j].run = "answered" /\ WriteRecords(Upto(jobs[j].batch, t))
           /\ jobs' = [cut EXCEPT ![j].row = "transforming"]
  <2>1. PICK j \in DOMAIN jobs, t \in 1..clock :
           /\ jobs[j].run = "answered" /\ WriteRecords(Upto(jobs[j].batch, t))
           /\ jobs' = [cut EXCEPT ![j].row = "transforming"]
    BY <1>6
  <2>2. PICK batch : batch = Upto(jobs[j].batch, t)
    OBVIOUS
  <2>3. batch \in SUBSET jobs[j].batch /\ WriteRecords(batch)
    BY <2>1, <2>2 DEF Upto
  <2>4. \A r \in Records : newest'[r] >= newest[r]
    BY <1>1, <2>1, <2>3, PageWritten
  <2>5. PICK cutJob : cutJob = [cut[j] EXCEPT !.row = "transforming"]
    OBVIOUS
  <2>6. cutJob.run # "serving"
    <3>1. cut[j] \in Job /\ cut[j].run # "serving"
      BY <1>3, <2>1
    <3>2. QED
      BY <2>5, <3>1 DEF Job
  <2>7. DOMAIN cut = DOMAIN jobs /\ jobs' = [cut EXCEPT ![j] = cutJob]
    BY <1>2, <2>1, <2>5
  <2>8. DOMAIN jobs' = DOMAIN jobs
    BY <2>7
  <2>9. ASSUME NEW k \in DOMAIN jobs' PROVE jobs'[k].run # "serving"
    <3>1. CASE k = j
      BY <2>6, <2>7, <2>8, <3>1
    <3>2. CASE k # j
      <4>1. jobs'[k] = cut[k]
        BY <2>7, <2>8, <3>2
      <4>2. QED
        BY <1>3, <2>8, <4>1
    <3>3. QED
      BY <3>1, <3>2
  <2>10. QED
    BY <1>1, <2>4, <2>8, <2>9, FollowingKept
<1>7. QED
  BY <1>4, <1>5, <1>6

LEMMA FollowingSteps ==
  ASSUME FeedAssumption, FeedInv, FeedInv', Following, [SyncNext]_syncVars
  PROVE  Following'
<1>1. SyncTypeOK /\ SyncTypeOK'
  BY DEF FeedInv
<1>2. ASSUME newest' = newest, received' = received, jobs' = jobs PROVE Following'
  BY <1>1, <1>2, NewestStays, FollowingKept
<1>3. ASSUME NEW retries, Start(retries) PROVE Following'
  <2>1. /\ jobs' = Append(jobs, NewJob(retries)) /\ received' = received /\ newest' = newest
    BY <1>3 DEF Start, dataVars
  <2>2. NewJob(retries).run = "asked"
    BY DEF NewJob
  <2>3. \A k \in DOMAIN jobs' : jobs'[k].run = "serving" =>
          k \in DOMAIN jobs /\ jobs[k].run = "serving" /\ jobs'[k].batch \subseteq jobs[k].batch
    BY <1>1, <2>1, <2>2, JobTypes DEF SyncTypeOK
  <2>4. QED
    BY <1>1, <2>1, <2>3, NewestStays, FollowingKept
<1>4. ASSUME NEW r \in Records, NEW keep \in BOOLEAN, Modify(r, keep) PROVE Following'
  BY <1>2, <1>4 DEF Modify
<1>5. CASE SetFeedStatus
  BY <1>2, <1>5 DEF SetFeedStatus, dataVars
<1>6. CASE StartSync
  BY <1>3, <1>6 DEF StartSync
<1>7. ASSUME NEW j \in DOMAIN jobs, RetrySinks(j) PROVE Following'
  BY <1>3, <1>7 DEF RetrySinks
<1>8. ASSUME NEW j \in DOMAIN jobs, Progress(j) PROVE Following'
  <2>1. CASE Answer(j)
    <3>1. PICK batch : jobs' = [jobs EXCEPT ![j].run = "answered", ![j].batch = batch]
      BY <2>1 DEF Answer
    <3>2. received' = received /\ newest' = newest
      BY <2>1 DEF Answer, dataVars
    <3>3. jobs \in [DOMAIN jobs -> Job]
      BY <1>1, JobTypes DEF SyncTypeOK
    <3>4. \A k \in DOMAIN jobs' : jobs'[k].run = "serving" =>
            k \in DOMAIN jobs /\ jobs[k].run = "serving" /\ jobs'[k].batch \subseteq jobs[k].batch
      BY <3>1, <3>3 DEF Job
    <3>5. QED
      BY <1>1, <3>2, <3>4, NewestStays, FollowingKept
  <2>2. CASE FetchFails(j)
    BY <2>2, FetchFailsFollows
  <2>3. CASE Receive(j)
    BY <2>3, ReceiveFollows
  <2>4. CASE ReceiveFails(j)
    BY <2>4, ReceiveFailsFollows
  <2>5. CASE Reach(j)
    <3>1. PICK t : received' = [received EXCEPT ![sink(j)] = @ \union Upto(jobs[j].batch, t)]
      BY <2>5 DEF Reach
    <3>2. jobs[j].run = "serving" /\ jobs' = jobs /\ newest' = newest
      BY <2>5 DEF Reach, dataVars
    <3>3. \A s \in SinkNames : \A c \in received'[s] : c \in received[s] \/ c \in jobs[j].batch
      BY <1>1, <3>1 DEF SyncTypeOK, Upto
    <3>4. QED
      BY <1>1, <3>2, <3>3, NewestStays, FollowingKept
  <2>6. CASE SinkAccepts(j)
    <3>1. jobs[j].failed \in BOOLEAN
      BY <1>1, JobTypes DEF Job
    <3>2. QED
      BY <2>6, <3>1, ServedFollows DEF SinkAccepts
  <2>7. CASE SinkFails(j)
    BY <2>7, ServedFollows DEF SinkFails
  <2>8. CASE DeliveryNotBegun(j)
    BY <2>8, DeliveryNotBegunFollows
  <2>9. CASE ClosingFails(j)
    BY <2>9, ClosingFailsFollows
  <2>10. QED
    BY <1>8, <2>1, <2>2, <2>3, <2>4, <2>5, <2>6, <2>7, <2>8, <2>9 DEF Progress
<1>9. CASE SyncCrash
  BY <1>9, CrashFollows
<1>10. CASE UNCHANGED syncVars
  BY <1>2, <1>10 DEF syncVars
<1>11. QED
  BY <1>4, <1>5, <1>6, <1>7, <1>8, <1>9, <1>10 DEF SyncNext

\* Whatever jobs overlap, fail half-way or die, runSyncJob sends no sink a change
\* that a filter or a DLP rule dropped, or that the record store never had.
THEOREM SinksAlwaysFollowStore ==
  ASSUME FeedAssumption
  PROVE  SyncSpec => []SinksFollowStore
<1>1. SyncInit => Following
  <2>1. SyncInit => DOMAIN jobs = {} /\ \A s \in SinkNames : received[s] = {}
    BY DEF SyncInit
  <2>2. QED
    BY <2>1 DEF Following, SinksFollowStore
<1>2. FeedInv /\ FeedInv' /\ Following /\ [SyncNext]_syncVars => Following'
  BY FollowingSteps
<1>3. Following => SinksFollowStore
  BY DEF Following
<1>4. QED
  BY <1>1, <1>2, <1>3, FeedInvariant, PTL DEF SyncSpec
=============================================================================
