---------------------------- MODULE ArchieveChain ----------------------------
(***************************************************************************)
(* The ARCHIEVE event log (archieve/logger.ts, queue.ts, chain.ts): each   *)
(* tenant's events are hash-chained when they are logged, written to a     *)
(* durable queue and moved from it to the delivered table every five       *)
(* seconds.  The chain's tail is kept in memory and restored at startup.   *)
(*                                                                         *)
(* log, the delivery of one entry and initArchieve are synchronous.  A     *)
(* round of deliverPending is one transaction per entry, failing entries   *)
(* staying in the queue: DeliverOne is one of them, so a round that fails  *)
(* or dies half-way needs no action of its own, and neither does the       *)
(* replay at startup.  A log call that throws (full queue, no HMAC key,    *)
(* failing INSERT) changes nothing.                                        *)
(*                                                                         *)
(* SHA-256 is injective: a hash is named by the event it covers and by     *)
(* whether the event's hmac field was set when it was computed.  The queue *)
(* is kept by tenant, in rowid order: tenants meet only in its depth.      *)
(***************************************************************************)
EXTENDS Naturals, Sequences, Functions, SequencesExt

CONSTANTS
  Tenants,
  MaxDepth,      \* ARCHIEVE_QUEUE_MAX_DEPTH
  MaxEvents      \* bound: events ever logged

ASSUME BoundsAssumption == MaxDepth \in Nat /\ MaxEvents \in Nat

EventIds == 1..MaxEvents
Hashes == [of : EventIds \cup {0}, sealed : BOOLEAN]
Events == [id : EventIds, chainPos : Nat, prevHash : Hashes, hash : Hashes, sealed : BOOLEAN]

VARIABLES
  tail,        \* chainTail and chainLength, in memory
  queue,       \* archieve_queue, by tenant
  delivered,   \* archieve_delivered of the queue's database; chain_pos is index - 1
  logged,      \* number of events logged
  forked,      \* history: tenants with queued events at a restart
  overtaken    \* history: tenants with an entry delivered before an older one

vars == <<tail, queue, delivered, logged, forked, overtaken>>

genesisHash == [of |-> 0, sealed |-> FALSE]
NoEventsYet == [hash |-> genesisHash, length |-> 0]

computeEventHash(event) == [of |-> event.id, sealed |-> event.sealed]

Init ==
  /\ tail = [t \in Tenants |-> NoEventsYet]
  /\ queue = [t \in Tenants |-> <<>>]
  /\ delivered = [t \in Tenants |-> <<>>]
  /\ logged = 0
  /\ forked = {}
  /\ overtaken = {}

Depth == SumFunction([t \in Tenants |-> Len(queue[t])])

\* log hashes the event before it sets its hmac.
NewEvent(t) ==
  LET partial == [id |-> logged + 1, chainPos |-> tail[t].length, prevHash |-> tail[t].hash,
                  hash |-> genesisHash, sealed |-> FALSE]
  IN [id |-> partial.id, chainPos |-> partial.chainPos, prevHash |-> partial.prevHash,
      hash |-> computeEventHash(partial), sealed |-> TRUE]

\* Mutant: the tail is left behind.
LogKeepingTail(t) ==
  /\ logged < MaxEvents
  /\ Depth < MaxDepth
  /\ queue' = [queue EXCEPT ![t] = Append(queue[t], NewEvent(t))]
  /\ tail' = [tail EXCEPT ![t] = [hash |-> tail[t].hash, length |-> tail[t].length + 1]]
  /\ logged' = logged + 1
  /\ UNCHANGED <<delivered, forked, overtaken>>

Log(t) ==
  /\ logged < MaxEvents
  /\ Depth < MaxDepth
  /\ queue' = [queue EXCEPT ![t] = Append(queue[t], NewEvent(t))]
  /\ tail' = [tail EXCEPT ![t] = [hash |-> NewEvent(t).hash, length |-> tail[t].length + 1]]
  /\ logged' = logged + 1
  /\ UNCHANGED <<delivered, forked, overtaken>>

\* Mutant: the delete is by tenant and position, not by row.
DeliverOneDropsHead(t, i) ==
  /\ i \in DOMAIN queue[t]
  /\ delivered' = [delivered EXCEPT ![t] = Append(delivered[t], queue[t][i])]
  /\ queue' = [queue EXCEPT ![t] = Tail(queue[t])]
  /\ overtaken' = IF i = 1 THEN overtaken ELSE overtaken \cup {t}
  /\ UNCHANGED <<tail, logged, forked>>

\* Mutant: the delete takes the failed rows before it along.
DeliverOneUpTo(t, i) ==
  /\ i \in DOMAIN queue[t]
  /\ delivered' = [delivered EXCEPT ![t] = Append(delivered[t], queue[t][i])]
  /\ queue' = [queue EXCEPT ![t] = SubSeq(queue[t], i + 1, Len(queue[t]))]
  /\ overtaken' = IF i = 1 THEN overtaken ELSE overtaken \cup {t}
  /\ UNCHANGED <<tail, logged, forked>>

\* Entry i is delivered, the ones before it have failed in this round.
DeliverOne(t, i) ==
  /\ i \in DOMAIN queue[t]
  /\ delivered' = [delivered EXCEPT ![t] = Append(delivered[t], queue[t][i])]
  /\ queue' = [queue EXCEPT ![t] = RemoveAt(queue[t], i)]
  /\ overtaken' = IF i = 1 THEN overtaken ELSE overtaken \cup {t}
  /\ UNCHANGED <<tail, logged, forked>>

\* Mutant: the head of any tenant's chain will do.
RestoredTailOfAny(t) ==
  LET u == IF delivered[t] = <<>>
           THEN CHOOSE u \in Tenants : delivered[u] # <<>> \/ \A v \in Tenants : delivered[v] = <<>>
           ELSE t
  IN IF delivered[u] = <<>>
     THEN NoEventsYet
     ELSE [hash |-> Last(delivered[u]).hash, length |-> Len(delivered[u])]

\* initArchieve restores the tail from what was delivered, before the replay.
RestoredTail(t) ==
  IF delivered[t] = <<>>
  THEN NoEventsYet
  ELSE [hash |-> Last(delivered[t]).hash, length |-> Len(delivered[t])]

Restart ==
  /\ tail' = [t \in Tenants |-> RestoredTail(t)]
  /\ forked' = forked \cup {t \in Tenants : queue[t] # <<>>}
  /\ UNCHANGED <<queue, delivered, logged, overtaken>>

Next ==
  \/ \E t \in Tenants : Log(t)
  \/ \E t \in Tenants, i \in 1..MaxEvents : DeliverOne(t, i)
  \/ Restart

\* The delivery loop goes round every five seconds, oldest entry first.
Fairness == \A t \in Tenants : WF_vars(DeliverOne(t, 1))

Spec == Init /\ [][Next]_vars /\ Fairness

(***************************************************************************)
(* Verification: POST /api/archieve/verify reads the archieve_delivered    *)
(* table of the main database, which initArchieve creates and nothing      *)
(* fills; deliverPending fills the one beside the queue.                   *)
(***************************************************************************)
MainDelivered(t) == <<>>

ExpectedPrevHash(rows, i) == IF i = 1 THEN genesisHash ELSE rows[i - 1].hash

verifyChain(rows) ==
  IF \A i \in DOMAIN rows :
       /\ rows[i].prevHash = ExpectedPrevHash(rows, i)
       /\ computeEventHash(rows[i]) = rows[i].hash
  THEN "CHAIN_VALID" ELSE "CHAIN_VIOLATION"

(***************************************************************************)
(* Properties                                                              *)
(***************************************************************************)
TypeOK ==
  /\ tail \in [Tenants -> [hash : Hashes, length : Nat]]
  /\ queue \in [Tenants -> Seq(Events)]
  /\ delivered \in [Tenants -> Seq(Events)]
  /\ logged \in 0..MaxEvents
  /\ forked \subseteq Tenants
  /\ overtaken \subseteq Tenants

\* All of a tenant's events, in the order they end up in if nothing fails.
Line(t) == delivered[t] \o queue[t]

\* Every event a log call returned is in the queue or delivered, once.
NoEventLost ==
  /\ \A id \in 1..logged : \E t \in Tenants : \E event \in Range(Line(t)) : event.id = id
  /\ \A t, u \in Tenants : \A i \in DOMAIN Line(t), j \in DOMAIN Line(u) :
       Line(t)[i].id = Line(u)[j].id => t = u /\ i = j

Linked(rows) == \A i \in DOMAIN rows : rows[i].prevHash = ExpectedPrevHash(rows, i)

\* rows form one chain, numbered without gaps, and head is its end.
InOneChain(rows, head) ==
  /\ Linked(rows)
  /\ \A i \in DOMAIN rows : rows[i].chainPos = i - 1
  /\ head.length = Len(rows)
  /\ head.hash = ExpectedPrevHash(rows, Len(rows) + 1)

\* While no entry overtakes another and no restart meets a queued event, a
\* tenant's events form one chain and the tail in memory is its end.
OneChain == \A t \in Tenants \ (forked \cup overtaken) : InOneChain(Line(t), tail[t])

\* Whatever fails, the predecessor an event names is an older event of the
\* same tenant that the log still holds: every event leads back to genesis.
LeadsBackToGenesis ==
  \A t \in Tenants : \A event \in Range(Line(t)) :
    \/ event.prevHash = genesisHash
    \/ \E older \in Range(Line(t)) : older.hash = event.prevHash /\ older.id < event.id

Waiting == [t \in Tenants |-> Range(queue[t])]

Promised == INSTANCE EventLog WITH trail <- delivered, waiting <- Waiting

\* Seen without the chain, the queue and the delivered table are the log that was
\* promised: no step forgets, changes, doubles or takes back an event.
KeepsTheLog == Promised!LogSpec

\* Every event is delivered in the end.
EventsAreDelivered ==
  \A id \in EventIds :
    (id <= logged) ~> (\E t \in Tenants : \E i \in DOMAIN delivered[t] : delivered[t][i].id = id)

\* docs/USER_GUIDE.md: "Any gap or modification in the chain is detected by
\* POST /api/archieve/verify."  Violated: a restart with a queued event forks
\* the chain, and the route verifies a table nothing is delivered to.
GapsAreDetected ==
  \A t \in Tenants \ overtaken : ~Linked(delivered[t]) => verifyChain(MainDelivered(t)) = "CHAIN_VIOLATION"

=============================================================================
