-------------------------- MODULE IdempotencyProofs --------------------------
(***************************************************************************)
(* Theorems about the idempotency store, for any request ids, payloads,    *)
(* schema versions and number of calls.                                    *)
(*                                                                         *)
(* The invariant is a predicate of the table, the map and the calls,       *)
(* because claim prunes first and then acts on what pruning left: pruning  *)
(* keeps the predicate, and acting on three tables that satisfy it does.   *)
(* Beside the properties it says that a promise in the map has its row and *)
(* an evaluation behind it (FlightsHaveOwners), that who waits for one     *)
(* sent its payload (JoinedMatch), and that a stored result is of its      *)
(* row's payload and schema (ResultsFit).                                  *)
(***************************************************************************)
EXTENDS Idempotency, TLAPS

CallType == [pc : Pcs, req : RequestIds \cup {NoRequest}, payload : Payloads \cup {NoPayload},
             answer : Results \cup Refusals \cup {Unresolved}]

\* A call that is not idle names what it was called with.
Typed(rows, flights, calls) ==
  /\ rows \in [RequestIds -> Rows \cup {NoRow}]
  /\ flights \in [RequestIds -> Payloads \cup {NoPayload}]
  /\ calls \in [Calls -> CallType]
  /\ \A c \in Calls : calls[c].pc # "idle" => calls[c].req \in RequestIds /\ calls[c].payload \in Payloads

\* Call c is at pc for id.
Is(calls, c, pc, id) == calls[c].pc = pc /\ calls[c].req = id

FlightsHaveOwners(rows, flights, calls) ==
  \A id \in RequestIds : flights[id] # NoPayload =>
    /\ rows[id] # NoRow
    /\ id \in persistFailed \/ \E d \in Calls : Is(calls, d, "evaluating", id)

JoinedMatch(flights, calls) ==
  \A c \in Calls, id \in RequestIds : Is(calls, c, "joined", id) => flights[id] = calls[c].payload

\* OneEvaluation, and the row of an evaluation has not expired.
EvaluationsAlone(rows, flights, calls) ==
  \A id \in RequestIds \ outlived, c \in Calls : Is(calls, c, "evaluating", id) =>
    /\ rows[id] # NoRow /\ rows[id].payload = calls[c].payload /\ rows[id].result = Unresolved
    /\ ~rows[id].expired
    /\ flights[id] = calls[c].payload
    /\ \A d \in Calls \ {c} : ~Is(calls, d, "evaluating", id)

ResultsFit(rows) ==
  \A id \in RequestIds \ outlived :
    rows[id] # NoRow /\ rows[id].result # Unresolved =>
      rows[id].result.payload = rows[id].payload /\ rows[id].result.schema = rows[id].schema

AnswersFit(calls) ==
  \A c \in Calls :
    calls[c].pc = "done" /\ calls[c].answer \in Results /\ calls[c].req \notin outlived =>
      calls[c].answer.payload = calls[c].payload /\ calls[c].answer.schema = engineSchema

Sound(rows, flights, calls) ==
  /\ Typed(rows, flights, calls)
  /\ FlightsHaveOwners(rows, flights, calls)
  /\ JoinedMatch(flights, calls)
  /\ EvaluationsAlone(rows, flights, calls)
  /\ ResultsFit(rows)
  /\ AnswersFit(calls)

History ==
  /\ engineSchema \in SchemaVersions /\ crashing \in BOOLEAN
  /\ persistFailed \subseteq RequestIds /\ outlived \subseteq RequestIds

IInv == History /\ Sound(row, inFlight, call)

-----------------------------------------------------------------------------
\* What Lookup finds: a join is of the payload in the map, an evaluation is of
\* an id with neither row nor promise, a result is that of the call's own row.
LEMMA LookupFinds ==
  ASSUME NEW rows \in [RequestIds -> Rows \cup {NoRow}],
         NEW flights \in [RequestIds -> Payloads \cup {NoPayload}],
         NEW id \in RequestIds, NEW p \in Payloads
  PROVE  LET k == Lookup(id, p, rows, flights)
         IN /\ k \in CallType /\ k.req = id /\ k.payload = p
            /\ k.pc \in {"joined", "evaluating", "polling", "done"}
            /\ k.pc = "joined" => flights[id] = p
            /\ k.pc = "evaluating" => rows[id] = NoRow /\ flights[id] = NoPayload
            /\ k.answer \in Results =>
                 /\ rows[id] # NoRow /\ rows[id].payload = p /\ rows[id].schema = engineSchema
                 /\ rows[id].result = k.answer /\ k.answer # Unresolved
<1>1. \A pc, answer : pc \in Pcs /\ answer \in Results \cup Refusals \cup {Unresolved} =>
        [pc |-> pc, req |-> id, payload |-> p, answer |-> answer] \in CallType
  BY DEF CallType
<1>2. rows[id] # NoRow => rows[id].result \in Results \cup {Unresolved}
  BY DEF Rows
<1>3. Conflict \in Refusals /\ SchemaMismatch \in Refusals /\ Unresolved \notin Results
      /\ Refusals \cap Results = {}
  BY DistinctAssumption DEF Refusals
<1>4. QED
  BY <1>1, <1>2, <1>3 DEF Lookup, At, Answered, Pcs

\* Pruning settles whoever waited for what it took away.
LEMMA PruneKeeps ==
  ASSUME Sound(row, inFlight, call)
  PROVE  /\ Sound(PrunedRows, PrunedFlights, PrunedCalls)
         /\ \A c \in Calls : call[c].pc # "joined" => PrunedCalls[c] = call[c]
<1>1. Typed(row, inFlight, call)
  BY DEF Sound
<1>2. \A id \in RequestIds :
        /\ id \notin Pruned => PrunedRows[id] = row[id] /\ PrunedFlights[id] = inFlight[id]
        /\ id \in Pruned => PrunedRows[id] = NoRow /\ PrunedFlights[id] = NoPayload
        /\ id \notin Pruned => row[id] # NoRow /\ ~row[id].expired
  BY DEF Pruned, PrunedRows, PrunedFlights, Survives
<1>3. \A c \in Calls :
        /\ (\E id \in Pruned : Joined(c, id)) =>
             PrunedCalls[c].pc = "done" /\ PrunedCalls[c].answer = Failed
             /\ PrunedCalls[c] \in CallType /\ PrunedCalls[c].req = call[c].req
             /\ PrunedCalls[c].payload = call[c].payload
        /\ ~(\E id \in Pruned : Joined(c, id)) => PrunedCalls[c] = call[c]
  BY <1>1 DEF PrunedCalls, Settled, Answered, CallType, Pcs, Refusals, Typed
<1>4. Typed(PrunedRows, PrunedFlights, PrunedCalls)
  <2>1. PrunedRows \in [RequestIds -> Rows \cup {NoRow}]
    BY <1>1 DEF Typed, PrunedRows
  <2>2. PrunedFlights \in [RequestIds -> Payloads \cup {NoPayload}]
    BY <1>1 DEF Typed, PrunedFlights
  <2>3. PrunedCalls \in [Calls -> CallType]
    <3>1. PrunedCalls = [c \in Calls |-> PrunedCalls[c]]
      BY DEF PrunedCalls, Settled
    <3>2. \A c \in Calls : PrunedCalls[c] \in CallType
      BY <1>1, <1>3 DEF Typed
    <3>3. QED
      BY <3>1, <3>2
  <2>4. \A c \in Calls : PrunedCalls[c].pc # "idle" =>
          PrunedCalls[c].req \in RequestIds /\ PrunedCalls[c].payload \in Payloads
    BY <1>1, <1>3 DEF Typed, Joined
  <2>5. QED
    BY <2>1, <2>2, <2>3, <2>4 DEF Typed
<1>5. \A id : \A c \in Calls : Is(PrunedCalls, c, "evaluating", id) <=> Is(call, c, "evaluating", id)
  BY <1>3 DEF Is, Joined
<1>6. FlightsHaveOwners(PrunedRows, PrunedFlights, PrunedCalls)
  BY <1>2, <1>5 DEF Sound, FlightsHaveOwners
<1>7. JoinedMatch(PrunedFlights, PrunedCalls)
  BY <1>2, <1>3 DEF Sound, JoinedMatch, Is, Joined
<1>8. EvaluationsAlone(PrunedRows, PrunedFlights, PrunedCalls)
  <2> SUFFICES ASSUME NEW id \in RequestIds \ outlived, NEW c \in Calls, Is(PrunedCalls, c, "evaluating", id)
               PROVE  /\ PrunedRows[id] # NoRow /\ PrunedRows[id].payload = PrunedCalls[c].payload
                      /\ PrunedRows[id].result = Unresolved /\ ~PrunedRows[id].expired
                      /\ PrunedFlights[id] = PrunedCalls[c].payload
                      /\ \A d \in Calls \ {c} : ~Is(PrunedCalls, d, "evaluating", id)
    BY DEF EvaluationsAlone
  <2>1. /\ row[id] # NoRow /\ row[id].payload = call[c].payload /\ row[id].result = Unresolved
        /\ ~row[id].expired /\ inFlight[id] = call[c].payload
        /\ \A d \in Calls \ {c} : ~Is(call, d, "evaluating", id)
    BY <1>5 DEF Sound, EvaluationsAlone
  <2>2. PrunedCalls[c] = call[c]
    BY <1>3 DEF Is, Joined
  <2>3. id \notin Pruned
    BY <2>1 DEF Pruned, Survives
  <2>4. QED
    BY <1>2, <1>5, <2>1, <2>2, <2>3
<1>9. ResultsFit(PrunedRows)
  BY <1>2 DEF Sound, ResultsFit
<1>10. AnswersFit(PrunedCalls)
  <2>1. Failed \notin Results
    BY DistinctAssumption DEF Refusals
  <2>2. QED
    BY <1>3, <2>1 DEF Sound, AnswersFit
<1>11. QED
  BY <1>3, <1>4, <1>6, <1>7, <1>8, <1>9, <1>10 DEF Sound, Joined

\* A call that acts on what it finds in sound tables leaves them sound.
LEMMA ProceedKeeps ==
  ASSUME NEW rows, NEW flights, NEW calls, Sound(rows, flights, calls),
         NEW c \in Calls, calls[c].pc \in {"idle", "done", "polling"},
         NEW id \in RequestIds, NEW p \in Payloads, engineSchema \in SchemaVersions,
         Proceed(c, id, p, rows, flights, calls)
  PROVE  Sound(row', inFlight', call')
<1> DEFINE k == Lookup(id, p, rows, flights)
<1>1. Typed(rows, flights, calls)
  BY DEF Sound
<1>2. /\ k \in CallType /\ k.req = id /\ k.payload = p
      /\ k.pc \in {"joined", "evaluating", "polling", "done"}
      /\ k.pc = "joined" => flights[id] = p
      /\ k.pc = "evaluating" => rows[id] = NoRow /\ flights[id] = NoPayload
      /\ k.answer \in Results =>
           /\ rows[id] # NoRow /\ rows[id].payload = p /\ rows[id].schema = engineSchema
           /\ rows[id].result = k.answer /\ k.answer # Unresolved
  BY <1>1, LookupFinds DEF Typed
<1>3. /\ call' = [calls EXCEPT ![c] = k]
      /\ row' = IF k.pc = "evaluating" THEN [rows EXCEPT ![id] = NewRow(p)] ELSE rows
      /\ inFlight' = IF k.pc = "evaluating" THEN [flights EXCEPT ![id] = p] ELSE flights
  BY DEF Proceed
<1> HIDE DEF k
<1>4. call'[c] = k /\ \A d \in Calls : d # c => call'[d] = calls[d]
  BY <1>1, <1>3 DEF Typed
<1>5. /\ NewRow(p) \in Rows /\ NewRow(p) # NoRow /\ NewRow(p).payload = p
      /\ NewRow(p).result = Unresolved /\ ~NewRow(p).expired
  <2>1. NewRow(p) = [payload |-> p, schema |-> engineSchema, result |-> Unresolved, expired |-> FALSE]
    BY DEF NewRow
  <2>2. NewRow(p) \in Rows
    BY <2>1 DEF Rows
  <2>3. NewRow(p).payload = p /\ NewRow(p).result = Unresolved
    BY <2>1
  <2>4. ~NewRow(p).expired
    BY <2>1
  <2>5. NewRow(p) # NoRow
    BY <2>2, DistinctAssumption
  <2>6. QED
    BY <2>2, <2>3, <2>4, <2>5
<1>6. \A i \in RequestIds : i # id => row'[i] = rows[i] /\ inFlight'[i] = flights[i]
  BY <1>1, <1>3 DEF Typed
<1>7. k.pc = "evaluating" => row'[id] = NewRow(p) /\ inFlight'[id] = p
  BY <1>1, <1>3 DEF Typed
<1>8. k.pc # "evaluating" => row' = rows /\ inFlight' = flights
  BY <1>3
<1>9. Typed(row', inFlight', call')
  <2>1. row' \in [RequestIds -> Rows \cup {NoRow}]
    BY <1>1, <1>3, <1>5 DEF Typed
  <2>2. inFlight' \in [RequestIds -> Payloads \cup {NoPayload}]
    BY <1>1, <1>3 DEF Typed
  <2>3. call' \in [Calls -> CallType]
    BY <1>1, <1>2, <1>3 DEF Typed
  <2>4. QED
    BY <1>1, <1>2, <1>4, <2>1, <2>2, <2>3 DEF Typed
<1>10. \A i, pc : \A d \in Calls : d # c => (Is(call', d, pc, i) <=> Is(calls, d, pc, i))
  BY <1>4 DEF Is
<1>11. \A i, pc : Is(call', c, pc, i) <=> (k.pc = pc /\ i = id)
  BY <1>2, <1>4 DEF Is
<1>12. \A i : ~Is(calls, c, "evaluating", i) /\ ~Is(calls, c, "joined", i)
  BY DEF Is
<1>13. FlightsHaveOwners(row', inFlight', call')
  <2>1. \A i \in RequestIds : flights[i] # NoPayload =>
          /\ rows[i] # NoRow
          /\ i \in persistFailed \/ \E d \in Calls : Is(call', d, "evaluating", i)
    BY <1>10, <1>12 DEF Sound, FlightsHaveOwners
  <2>2. CASE k.pc = "evaluating"
    BY <1>5, <1>6, <1>7, <1>11, <2>1, <2>2 DEF FlightsHaveOwners
  <2>3. CASE k.pc # "evaluating"
    BY <1>8, <2>1, <2>3 DEF FlightsHaveOwners
  <2>4. QED
    BY <2>2, <2>3
<1>14. JoinedMatch(inFlight', call')
  <2> SUFFICES ASSUME NEW d \in Calls, NEW i \in RequestIds, Is(call', d, "joined", i)
               PROVE  inFlight'[i] = call'[d].payload
    BY DEF JoinedMatch
  <2>1. CASE d = c
    BY <1>2, <1>4, <1>8, <1>11, <2>1
  <2>2. CASE d # c
    <3>0. Is(calls, d, "joined", i)
      BY <1>10, <2>2
    <3>1. flights[i] = calls[d].payload /\ calls[d].payload \in Payloads
      BY <1>1, <3>0 DEF Sound, JoinedMatch, Typed, Is
    <3>2. k.pc = "evaluating" => i # id
      BY <1>2, <3>1, DistinctAssumption
    <3>3. QED
      BY <1>4, <1>6, <1>8, <2>2, <3>1, <3>2
  <2>3. QED
    BY <2>1, <2>2
<1>15. EvaluationsAlone(row', inFlight', call')
  <2> SUFFICES ASSUME NEW i \in RequestIds \ outlived, NEW d \in Calls, Is(call', d, "evaluating", i)
               PROVE  /\ row'[i] # NoRow /\ row'[i].payload = call'[d].payload
                      /\ row'[i].result = Unresolved /\ ~row'[i].expired
                      /\ inFlight'[i] = call'[d].payload
                      /\ \A e \in Calls \ {d} : ~Is(call', e, "evaluating", i)
    BY DEF EvaluationsAlone
  <2>1. CASE d = c
    <3>1. k.pc = "evaluating" /\ i = id
      BY <1>11, <2>1
    <3>2. \A e \in Calls : ~Is(calls, e, "evaluating", id)
      BY <1>2, <3>1 DEF Sound, EvaluationsAlone
    <3>3. QED
      BY <1>2, <1>4, <1>5, <1>7, <1>10, <2>1, <3>1, <3>2
  <2>2. CASE d # c
    <3>1. /\ rows[i] # NoRow /\ rows[i].payload = calls[d].payload /\ rows[i].result = Unresolved
          /\ ~rows[i].expired /\ flights[i] = calls[d].payload
          /\ \A e \in Calls \ {d} : ~Is(calls, e, "evaluating", i)
      BY <1>10, <2>2 DEF Sound, EvaluationsAlone
    <3>2. k.pc = "evaluating" => i # id
      BY <1>2, <3>1
    <3>3. row'[i] = rows[i] /\ inFlight'[i] = flights[i] /\ ~Is(call', c, "evaluating", i)
      BY <1>6, <1>8, <1>11, <3>2
    <3>4. QED
      BY <1>4, <1>10, <2>2, <3>1, <3>3
  <2>3. QED
    BY <2>1, <2>2
<1>16. ResultsFit(row')
  BY <1>5, <1>6, <1>7, <1>8 DEF Sound, ResultsFit
<1>17. AnswersFit(call')
  <2>1. k.answer \in Results /\ id \notin outlived =>
          k.answer.payload = p /\ k.answer.schema = engineSchema
    BY <1>2 DEF Sound, ResultsFit
  <2>2. QED
    BY <1>2, <1>4, <2>1 DEF Sound, AnswersFit
<1>18. QED
  BY <1>9, <1>13, <1>14, <1>15, <1>16, <1>17 DEF Sound

LEMMA InitSound == Init => IInv
<1> SUFFICES ASSUME Init PROVE IInv
  OBVIOUS
<1>1. IdleCall \in CallType /\ IdleCall.pc = "idle"
  BY DEF IdleCall, CallType, Pcs
<1>2. Typed(row, inFlight, call) /\ \A c \in Calls : call[c].pc = "idle"
  BY <1>1 DEF Init, Typed
<1>3. QED
  BY <1>2 DEF Init, IInv, History, Sound, FlightsHaveOwners, JoinedMatch, EvaluationsAlone,
              ResultsFit, AnswersFit, Is

\* What the history and the engine's version leave alone stays sound.
LEMMA SoundAfter ==
  ASSUME IInv, Sound(row', inFlight', call'), UNCHANGED <<engineSchema, persistFailed, outlived>>,
         crashing' \in BOOLEAN
  PROVE  IInv'
BY DEF IInv, History, Sound, Typed, FlightsHaveOwners, JoinedMatch, EvaluationsAlone,
       ResultsFit, AnswersFit

LEMMA ClaimKeeps ==
  ASSUME IInv, NEW c \in Calls, NEW id \in RequestIds, NEW p \in Payloads, Claim(c, id, p)
  PROVE  IInv'
<1>1. Sound(PrunedRows, PrunedFlights, PrunedCalls) /\ PrunedCalls[c] = call[c]
  BY PruneKeeps DEF IInv, Claim
<1>2. PrunedCalls[c].pc \in {"idle", "done", "polling"}
  BY <1>1 DEF Claim
<1>3. Sound(row', inFlight', call')
  <2>1. engineSchema \in SchemaVersions /\ Proceed(c, id, p, PrunedRows, PrunedFlights, PrunedCalls)
    BY DEF IInv, History, Claim
  <2>2. QED
    BY <1>1, <1>2, <2>1, ProceedKeeps
<1>4. crashing' \in BOOLEAN
  BY DEF Claim, RejectsUnawaited
<1>5. QED
  BY <1>3, <1>4, SoundAfter DEF Claim

LEMMA PollKeeps == ASSUME IInv, NEW c \in Calls, Poll(c) PROVE IInv'
<1>1. /\ Sound(row, inFlight, call) /\ engineSchema \in SchemaVersions
      /\ call[c].pc \in {"idle", "done", "polling"}
      /\ call[c].req \in RequestIds /\ call[c].payload \in Payloads
      /\ Proceed(c, call[c].req, call[c].payload, row, inFlight, call)
  BY DEF IInv, History, Sound, Typed, Poll
<1>2. Sound(row', inFlight', call')
  BY <1>1, ProceedKeeps
<1>3. QED
  BY <1>2, SoundAfter DEF Poll, IInv, History

\* Answering one call with a refusal, when it is no evaluation that owns a promise.
LEMMA RefusalKeeps ==
  ASSUME IInv, NEW c \in Calls, call[c].pc \in {"polling", "evaluating"},
         NEW answer \in Refusals, call' = [call EXCEPT ![c] = Answered(call[c], answer)],
         UNCHANGED <<engineSchema, row, inFlight, crashing, outlived>>,
         persistFailed \subseteq persistFailed', persistFailed' \subseteq RequestIds,
         call[c].pc = "evaluating" =>
           inFlight[call[c].req] = NoPayload \/ call[c].req \in persistFailed'
  PROVE  IInv'
<1>1. Typed(row, inFlight, call) /\ call[c] \in CallType /\ answer \notin Results
  BY DistinctAssumption DEF IInv, Sound, Typed
<1> DEFINE k == Answered(call[c], answer)
<1>2. k \in CallType /\ k.pc = "done" /\ k.answer = answer /\ k.req = call[c].req /\ k.payload = call[c].payload
  BY <1>1 DEF Answered, CallType, Pcs
<1>3. call'[c] = k /\ \A d \in Calls : d # c => call'[d] = call[d]
  BY <1>1 DEF Typed
<1> HIDE DEF k
<1>4. Typed(row', inFlight', call')
  <2>1. call' \in [Calls -> CallType]
    BY <1>1, <1>2 DEF Typed, k
  <2>2. QED
    BY <1>1, <1>2, <1>3, <2>1 DEF Typed
<1>5. \A pc, i : \A d \in Calls : pc # "done" /\ Is(call', d, pc, i) => d # c /\ Is(call, d, pc, i)
  BY <1>2, <1>3 DEF Is
<1>6. FlightsHaveOwners(row, inFlight, call)'
  <2> SUFFICES ASSUME NEW i \in RequestIds, inFlight[i] # NoPayload
               PROVE  row[i] # NoRow /\ (i \in persistFailed' \/ \E d \in Calls : Is(call', d, "evaluating", i))
    BY DEF FlightsHaveOwners
  <2>1. row[i] # NoRow /\ (i \in persistFailed \/ \E d \in Calls : Is(call, d, "evaluating", i))
    BY DEF IInv, Sound, FlightsHaveOwners
  <2>2. Is(call, c, "evaluating", i) => i \in persistFailed'
    BY DEF Is
  <2>3. \A d \in Calls : d # c => (Is(call', d, "evaluating", i) <=> Is(call, d, "evaluating", i))
    BY <1>3 DEF Is
  <2>4. QED
    BY <2>1, <2>2, <2>3
<1>7. JoinedMatch(inFlight', call')
  BY <1>3, <1>5 DEF IInv, Sound, JoinedMatch
<1>8. EvaluationsAlone(row, inFlight, call)'
  <2> SUFFICES ASSUME NEW i \in RequestIds \ outlived, NEW d \in Calls, Is(call', d, "evaluating", i)
               PROVE  /\ row[i] # NoRow /\ row[i].payload = call'[d].payload
                      /\ row[i].result = Unresolved /\ ~row[i].expired
                      /\ inFlight[i] = call'[d].payload
                      /\ \A e \in Calls \ {d} : ~Is(call', e, "evaluating", i)
    BY DEF EvaluationsAlone
  <2>1. Is(call, d, "evaluating", i) /\ call'[d] = call[d]
    BY <1>3, <1>5
  <2>2. /\ row[i] # NoRow /\ row[i].payload = call[d].payload /\ row[i].result = Unresolved
        /\ ~row[i].expired /\ inFlight[i] = call[d].payload
        /\ \A e \in Calls \ {d} : ~Is(call, e, "evaluating", i)
    BY <2>1 DEF IInv, Sound, EvaluationsAlone
  <2>3. \A e \in Calls : Is(call', e, "evaluating", i) => Is(call, e, "evaluating", i)
    BY <1>5
  <2>4. QED
    BY <2>1, <2>2, <2>3
<1>9. ResultsFit(row)' /\ AnswersFit(call)'
  BY <1>1, <1>2, <1>3 DEF IInv, Sound, ResultsFit, AnswersFit
<1>10. Sound(row, inFlight, call)'
  BY <1>4, <1>6, <1>7, <1>8, <1>9 DEF Sound, Typed, JoinedMatch
<1>11. QED
  BY <1>10 DEF IInv, History

LEMMA PollTimesOutKeeps == ASSUME IInv, NEW c \in Calls, PollTimesOut(c) PROVE IInv'
<1>1. Conflict \in Refusals /\ persistFailed \subseteq RequestIds
  BY DEF Refusals, IInv, History
<1>2. QED
  BY <1>1, RefusalKeeps DEF PollTimesOut

\* A row that is gone took its promise along.
LEMMA StoreFindsNoRowKeeps == ASSUME IInv, NEW c \in Calls, StoreFindsNoRow(c) PROVE IInv'
<1>1. Failed \in Refusals /\ persistFailed \subseteq RequestIds
  BY DEF Refusals, IInv, History
<1>2. call[c].req \in RequestIds
  BY DEF IInv, Sound, Typed, StoreFindsNoRow
<1>3. inFlight[call[c].req] = NoPayload
  BY <1>2 DEF IInv, Sound, FlightsHaveOwners, StoreFindsNoRow
<1>4. QED
  BY <1>1, <1>3, RefusalKeeps DEF StoreFindsNoRow

LEMMA PersistFailsKeeps == ASSUME IInv, NEW c \in Calls, PersistFails(c) PROVE IInv'
<1>1. Failed \in Refusals /\ persistFailed \subseteq RequestIds
  BY DEF Refusals, IInv, History
<1>2. call[c].req \in RequestIds
  BY DEF IInv, Sound, Typed, PersistFails
<1>3. persistFailed' = persistFailed \cup {call[c].req}
  BY DEF PersistFails
<1>4. QED
  BY <1>1, <1>2, <1>3, RefusalKeeps DEF PersistFails

\* The end of an evaluation: its promise is settled with what the call is
\* answered, and its row stands with a result of the call's payload, or goes.
LEMMA EndKeeps ==
  ASSUME IInv, NEW c \in Calls, call[c].pc = "evaluating",
         NEW answer \in Results \cup Refusals, NEW newRow \in Rows \cup {NoRow},
         row' = [row EXCEPT ![call[c].req] = newRow],
         inFlight' = [inFlight EXCEPT ![call[c].req] = NoPayload],
         call' = [Settled({call[c].req}, answer) EXCEPT ![c] = Answered(call[c], answer)],
         UNCHANGED <<engineSchema, persistFailed, outlived>>, crashing' \in BOOLEAN,
         answer \in Results => answer.payload = call[c].payload /\ answer.schema = engineSchema,
         newRow # NoRow /\ newRow.result # Unresolved =>
           newRow.result = answer /\ answer \in Results
           /\ newRow.payload = row[call[c].req].payload /\ newRow.schema = engineSchema
  PROVE  IInv'
<1> DEFINE id == call[c].req
<1>1. Typed(row, inFlight, call) /\ id \in RequestIds /\ call[c] \in CallType
  BY DEF IInv, Sound, Typed
<1>2. \A d \in Calls :
        LET k == Answered(call[d], answer)
        IN k \in CallType /\ k.pc = "done" /\ k.answer = answer /\ k.req = call[d].req
           /\ k.payload = call[d].payload
  BY <1>1 DEF Answered, CallType, Pcs, Typed
<1>3. \A d \in Calls :
        call'[d] = IF d = c \/ Joined(d, id) THEN Answered(call[d], answer) ELSE call[d]
  BY DEF Settled
<1>4. /\ row'[id] = newRow /\ inFlight'[id] = NoPayload
      /\ \A i \in RequestIds : i # id => row'[i] = row[i] /\ inFlight'[i] = inFlight[i]
  BY <1>1 DEF Typed
<1>5. Is(call, c, "evaluating", id)
  BY DEF Is
<1>6. Typed(row', inFlight', call')
  <2>1. row' \in [RequestIds -> Rows \cup {NoRow}] /\ inFlight' \in [RequestIds -> Payloads \cup {NoPayload}]
    BY <1>1 DEF Typed
  <2>2. call' = [d \in Calls |-> call'[d]]
    BY DEF Settled
  <2>3. \A d \in Calls : call'[d] \in CallType
    BY <1>1, <1>2, <1>3 DEF Typed
  <2>4. call' \in [Calls -> CallType]
    BY <2>2, <2>3
  <2>5. ASSUME NEW d \in Calls, call'[d].pc # "idle"
        PROVE  call'[d].req \in RequestIds /\ call'[d].payload \in Payloads
    <3>1. call[d].pc # "idle"
      BY <1>3, <2>5 DEF Joined
    <3>2. call[d].req \in RequestIds /\ call[d].payload \in Payloads
      BY <1>1, <3>1 DEF Typed
    <3>3. call'[d].req = call[d].req /\ call'[d].payload = call[d].payload
      BY <1>2, <1>3
    <3>4. QED
      BY <3>2, <3>3
  <2>6. QED
    BY <2>1, <2>4, <2>5 DEF Typed
<1> HIDE DEF id
<1>7. \A pc, i : \A d \in Calls :
        pc # "done" /\ Is(call', d, pc, i) => d # c /\ Is(call, d, pc, i) /\ call'[d] = call[d] /\ ~Joined(d, id)
  BY <1>2, <1>3 DEF Is
<1>8. \A d \in Calls, i \in RequestIds : i # id /\ Is(call, d, "evaluating", i) => Is(call', d, "evaluating", i)
  BY <1>3, <1>5 DEF Is, Joined
<1>9. FlightsHaveOwners(row', inFlight', call')
  BY <1>4, <1>8 DEF IInv, Sound, FlightsHaveOwners
<1>10. JoinedMatch(inFlight', call')
  <2> SUFFICES ASSUME NEW d \in Calls, NEW i \in RequestIds, Is(call', d, "joined", i)
               PROVE  inFlight'[i] = call'[d].payload
    BY DEF JoinedMatch
  <2>1. Is(call, d, "joined", i) /\ call'[d] = call[d] /\ ~Joined(d, id)
    BY <1>7
  <2>2. i # id
    BY <2>1 DEF Is, Joined
  <2>3. QED
    BY <1>4, <2>1, <2>2 DEF IInv, Sound, JoinedMatch
<1>11. EvaluationsAlone(row', inFlight', call')
  <2> SUFFICES ASSUME NEW i \in RequestIds \ outlived, NEW d \in Calls, Is(call', d, "evaluating", i)
               PROVE  /\ row'[i] # NoRow /\ row'[i].payload = call'[d].payload
                      /\ row'[i].result = Unresolved /\ ~row'[i].expired
                      /\ inFlight'[i] = call'[d].payload
                      /\ \A e \in Calls \ {d} : ~Is(call', e, "evaluating", i)
    BY DEF EvaluationsAlone
  <2>1. d # c /\ Is(call, d, "evaluating", i) /\ call'[d] = call[d]
    BY <1>7
  <2>2. /\ row[i] # NoRow /\ row[i].payload = call[d].payload /\ row[i].result = Unresolved
        /\ ~row[i].expired /\ inFlight[i] = call[d].payload
        /\ \A e \in Calls \ {d} : ~Is(call, e, "evaluating", i)
    BY <2>1 DEF IInv, Sound, EvaluationsAlone
  <2>3. i # id
    BY <1>5, <2>1, <2>2
  <2>4. QED
    BY <1>4, <1>7, <2>1, <2>2, <2>3
<1>12. id \notin outlived => row[id].payload = call[c].payload /\ inFlight[id] = call[c].payload
  BY <1>1, <1>5 DEF IInv, Sound, EvaluationsAlone
<1>13. ResultsFit(row')
  <2>1. ASSUME id \notin outlived, newRow # NoRow, newRow.result # Unresolved
        PROVE  newRow.result.payload = newRow.payload /\ newRow.result.schema = newRow.schema
    BY <1>12, <2>1 DEF id
  <2>2. QED
    BY <1>4, <2>1 DEF IInv, Sound, ResultsFit
<1>14. AnswersFit(call')
  <2> SUFFICES ASSUME NEW d \in Calls, call'[d].pc = "done", call'[d].answer \in Results,
                      call'[d].req \notin outlived
               PROVE  call'[d].answer.payload = call'[d].payload /\ call'[d].answer.schema = engineSchema
    BY DEF AnswersFit
  <2>1. CASE d = c
    BY <1>2, <1>3, <2>1
  <2>2. CASE d # c /\ Joined(d, id)
    <3>1. call'[d].payload = call[d].payload /\ call'[d].req = id /\ call'[d].answer = answer
      BY <1>2, <1>3, <2>2 DEF Joined
    <3>2. inFlight[id] = call[d].payload
      BY <1>1, <2>2 DEF IInv, Sound, JoinedMatch, Is, Joined
    <3>3. QED
      BY <1>12, <3>1, <3>2
  <2>3. CASE d # c /\ ~Joined(d, id)
    <3>1. call'[d] = call[d]
      BY <1>3, <2>3
    <3>2. QED
      BY <3>1 DEF IInv, Sound, AnswersFit
  <2>4. QED
    BY <2>1, <2>2, <2>3
<1>15. QED
  BY <1>6, <1>9, <1>10, <1>11, <1>13, <1>14, SoundAfter DEF Sound

LEMMA StoreResultKeeps ==
  ASSUME IInv, NEW c \in Calls, NEW verdict \in Verdicts, StoreResult(c, verdict)
  PROVE  IInv'
<1> DEFINE id == call[c].req
           result == [payload |-> call[c].payload, schema |-> engineSchema, verdict |-> verdict]
           newRow == [payload |-> row[id].payload, schema |-> engineSchema,
                      result |-> result, expired |-> row[id].expired]
<1>1. /\ call[c].pc = "evaluating" /\ id \in RequestIds /\ call[c].payload \in Payloads
      /\ engineSchema \in SchemaVersions /\ row[id] \in Rows
  BY DEF IInv, History, Sound, Typed, StoreResult
<1>2. result \in Results
  BY <1>1 DEF Results
<1>3. newRow \in Rows
  BY <1>1, <1>2 DEF Rows
<1>4. /\ row' = [row EXCEPT ![id] = newRow] /\ inFlight' = [inFlight EXCEPT ![id] = NoPayload]
      /\ call' = [Settled({id}, result) EXCEPT ![c] = Answered(call[c], result)]
      /\ UNCHANGED <<engineSchema, persistFailed, outlived>> /\ crashing' \in BOOLEAN
  BY DEF StoreResult, IInv, History
<1>5. /\ result.payload = call[c].payload /\ result.schema = engineSchema
      /\ newRow.result = result /\ newRow.payload = row[id].payload /\ newRow.schema = engineSchema
  OBVIOUS
<1> HIDE DEF result, newRow
<1>6. QED
  BY <1>1, <1>2, <1>3, <1>4, <1>5, EndKeeps

LEMMA AbandonKeeps == ASSUME IInv, NEW c \in Calls, Abandon(c) PROVE IInv'
<1>1. Failed \in Refusals /\ Failed \notin Results
  BY DistinctAssumption DEF Refusals
<1>2. /\ call[c].pc = "evaluating" /\ crashing' \in BOOLEAN
      /\ row' = [row EXCEPT ![call[c].req] = NoRow]
      /\ inFlight' = [inFlight EXCEPT ![call[c].req] = NoPayload]
      /\ call' = [Settled({call[c].req}, Failed) EXCEPT ![c] = Answered(call[c], Failed)]
      /\ UNCHANGED <<engineSchema, persistFailed, outlived>>
  BY DEF Abandon, RejectsUnawaited
<1>3. QED
  BY <1>1, <1>2, EndKeeps

\* An entry that expires under its evaluation is remembered as outlived.
LEMMA ExpireKeeps == ASSUME IInv, NEW id \in RequestIds, Expire(id) PROVE IInv'
<1> DEFINE r == [payload |-> row[id].payload, schema |-> row[id].schema,
                 result |-> row[id].result, expired |-> TRUE]
<1>1. Typed(row, inFlight, call) /\ row[id] \in Rows
  BY DEF IInv, Sound, Typed, Expire
<1>2. r \in Rows
  BY <1>1 DEF Rows
<1>3. r.payload = row[id].payload /\ r.schema = row[id].schema /\ r.result = row[id].result /\ r # NoRow
  BY <1>2, DistinctAssumption
<1>4. row' = [row EXCEPT ![id] = r] /\ UNCHANGED <<engineSchema, inFlight, call, crashing, persistFailed>>
  BY DEF Expire
<1> HIDE DEF r
<1>5. row'[id] = r /\ \A i \in RequestIds : i # id => row'[i] = row[i]
  BY <1>1, <1>4 DEF Typed
<1>6. Typed(row', inFlight', call')
  BY <1>1, <1>2, <1>4 DEF Typed
<1>7. outlived \subseteq outlived' /\ outlived' \subseteq RequestIds
  BY DEF Expire, IInv, History
<1>8. \A c \in Calls : Is(call, c, "evaluating", id) => id \in outlived'
  BY DEF Expire, Evaluating, Is
<1>9. FlightsHaveOwners(row, inFlight, call)'
  BY <1>3, <1>4, <1>5 DEF IInv, Sound, FlightsHaveOwners
<1>10. JoinedMatch(inFlight, call)'
  BY <1>4 DEF IInv, Sound, JoinedMatch
<1>11. EvaluationsAlone(row, inFlight, call)'
  BY <1>4, <1>5, <1>7, <1>8 DEF IInv, Sound, EvaluationsAlone
<1>12. ResultsFit(row)'
  <2> SUFFICES ASSUME NEW i \in RequestIds \ outlived', row'[i] # NoRow, row'[i].result # Unresolved
               PROVE  row'[i].result.payload = row'[i].payload /\ row'[i].result.schema = row'[i].schema
    BY DEF ResultsFit
  <2>1. /\ row'[i].result = row[i].result /\ row'[i].payload = row[i].payload
        /\ row'[i].schema = row[i].schema /\ row[i] # NoRow
    BY <1>3, <1>5 DEF Expire
  <2>2. QED
    BY <1>7, <2>1 DEF IInv, Sound, ResultsFit
<1>13. AnswersFit(call)'
  BY <1>4, <1>7 DEF IInv, Sound, AnswersFit
<1>14. QED
  BY <1>4, <1>6, <1>7, <1>9, <1>10, <1>11, <1>12, <1>13 DEF IInv, History, Sound, Typed

LEMMA RestartKeeps == ASSUME IInv, NEW schema \in SchemaVersions, Restart(schema) PROVE IInv'
<1>1. IdleCall \in CallType /\ IdleCall.pc = "idle"
  BY DEF IdleCall, CallType, Pcs
<1>2. \A c \in Calls : call'[c].pc = "idle"
  BY <1>1 DEF Restart
<1>3. \A id \in RequestIds : inFlight'[id] = NoPayload
  BY DEF Restart
<1>4. Typed(row, inFlight, call)'
  BY <1>1 DEF IInv, Sound, Typed, Restart
<1>5. QED
  BY <1>2, <1>3, <1>4 DEF IInv, History, Sound, FlightsHaveOwners, JoinedMatch, EvaluationsAlone,
                          ResultsFit, AnswersFit, Is, Restart

LEMMA NextKeeps == IInv /\ [Next]_vars => IInv'
<1> SUFFICES ASSUME IInv, [Next]_vars PROVE IInv'
  OBVIOUS
<1>1. ASSUME NEW c \in Calls, NEW id \in RequestIds, NEW p \in Payloads, Claim(c, id, p) PROVE IInv'
  BY <1>1, ClaimKeeps
<1>2. ASSUME NEW c \in Calls, Poll(c) PROVE IInv'
  BY <1>2, PollKeeps
<1>3. ASSUME NEW c \in Calls, PollTimesOut(c) PROVE IInv'
  BY <1>3, PollTimesOutKeeps
<1>4. ASSUME NEW c \in Calls, NEW verdict \in Verdicts, StoreResult(c, verdict) PROVE IInv'
  BY <1>4, StoreResultKeeps
<1>5. ASSUME NEW c \in Calls, StoreFindsNoRow(c) PROVE IInv'
  BY <1>5, StoreFindsNoRowKeeps
<1>6. ASSUME NEW c \in Calls, PersistFails(c) PROVE IInv'
  BY <1>6, PersistFailsKeeps
<1>7. ASSUME NEW c \in Calls, Abandon(c) PROVE IInv'
  BY <1>7, AbandonKeeps
<1>8. ASSUME NEW id \in RequestIds, Expire(id) PROVE IInv'
  BY <1>8, ExpireKeeps
<1>9. ASSUME NEW schema \in SchemaVersions, Restart(schema) PROVE IInv'
  BY <1>9, RestartKeeps
<1>10. CASE UNCHANGED vars
  BY <1>10 DEF vars, IInv, History, Sound, Typed, FlightsHaveOwners, JoinedMatch, EvaluationsAlone,
               ResultsFit, AnswersFit
<1>11. QED
  BY <1>1, <1>2, <1>3, <1>4, <1>5, <1>6, <1>7, <1>8, <1>9, <1>10 DEF Next, EndEvaluation

\* The inductive invariant holds in every state.
THEOREM Invariant == Spec => []IInv
<1>1. QED
  BY InitSound, NextKeeps, PTL DEF Spec

-----------------------------------------------------------------------------
\* The table, the map and the calls keep their types.
THEOREM TypesHold == Spec => []TypeOK
<1>1. IInv => TypeOK
  BY DEF IInv, History, Sound, Typed, TypeOK, CallType
<1>2. QED
  BY <1>1, Invariant, PTL

\* While its entry lives, an id is evaluated by one call at a time, which holds
\* the row and the promise, whatever is pruned, polled, crashed or expired.
THEOREM EvaluationsAreAlone == Spec => []OneEvaluation
<1>1. IInv => OneEvaluation
  BY DEF IInv, Sound, EvaluationsAlone, OneEvaluation, Evaluating, Is
<1>2. QED
  BY <1>1, Invariant, PTL

\* No call is given a result computed for another payload or by another schema
\* version, over any number of restarts and upgrades.
THEOREM AnswersAreOwn == Spec => []OwnAnswers
<1>1. IInv => OwnAnswers
  BY DEF IInv, Sound, AnswersFit, OwnAnswers
<1>2. QED
  BY <1>1, Invariant, PTL

\* Who waits for a promise waits for an evaluation, or for one whose statement failed.
THEOREM WaitersHaveOwners == Spec => []JoinedHaveAnOwner
<1>1. ASSUME IInv PROVE JoinedHaveAnOwner
  <2> SUFFICES ASSUME NEW c \in Calls, NEW id \in RequestIds, Joined(c, id), id \notin persistFailed
               PROVE  \E d \in Calls : Evaluating(d, id)
    BY DEF JoinedHaveAnOwner
  <2>1. call[c].payload \in Payloads
    BY <1>1 DEF IInv, Sound, Typed, Joined
  <2>2. inFlight[id] = call[c].payload
    BY <1>1 DEF IInv, Sound, JoinedMatch, Is, Joined
  <2>3. \E d \in Calls : Is(call, d, "evaluating", id)
    BY <1>1, <2>1, <2>2, DistinctAssumption DEF IInv, Sound, FlightsHaveOwners
  <2>4. QED
    BY <2>3 DEF Evaluating, Is
<1>2. QED
  BY <1>1, Invariant, PTL

\* An evaluation never ends on a row that has a result, and a row with one is
\* taken by nobody before it has expired.
LEMMA StoredResultStands ==
  ASSUME IInv, [Next]_vars, NEW id \in RequestIds \ outlived, row[id] # NoRow, row[id].result # Unresolved
  PROVE  \/ row'[id] # NoRow /\ row'[id].result = row[id].result
         \/ row[id].expired /\ row'[id] = NoRow
         \/ row[id].expired /\ row'[id] # NoRow /\ row'[id].result = Unresolved
<1> DEFINE Stands == \/ row'[id] # NoRow /\ row'[id].result = row[id].result
                     \/ row[id].expired /\ row'[id] = NoRow
                     \/ row[id].expired /\ row'[id] # NoRow /\ row'[id].result = Unresolved
<1>1. Typed(row, inFlight, call) /\ engineSchema \in SchemaVersions
  BY DEF IInv, History, Sound
<1>2. ASSUME NEW c \in Calls, NEW i \in RequestIds, NEW p \in Payloads, Claim(c, i, p) PROVE Stands
  <2>1. PrunedRows \in [RequestIds -> Rows \cup {NoRow}]
    BY <1>1 DEF Typed, PrunedRows
  <2>2. PrunedFlights \in [RequestIds -> Payloads \cup {NoPayload}]
    BY <1>1 DEF Typed, PrunedFlights
  <2>3. NewRow(p) # NoRow /\ NewRow(p).result = Unresolved
    <3>1. NewRow(p) \in Rows
      BY <1>1 DEF NewRow, Rows
    <3>2. QED
      BY <3>1, DistinctAssumption DEF NewRow
  <2>4. row' = PrunedRows \/ (PrunedRows[i] = NoRow /\ row' = [PrunedRows EXCEPT ![i] = NewRow(p)])
    <3>1. Lookup(i, p, PrunedRows, PrunedFlights).pc = "evaluating" => PrunedRows[i] = NoRow
      BY <2>1, <2>2, LookupFinds
    <3>2. QED
      BY <1>2, <3>1 DEF Claim, Proceed
  <2>5. PrunedRows[id] = IF row[id].expired THEN NoRow ELSE row[id]
    BY DEF PrunedRows, Survives
  <2>6. QED
    BY <2>1, <2>3, <2>4, <2>5
<1>3. ASSUME NEW c \in Calls, Poll(c) PROVE Stands
  <2>1. call[c].req \in RequestIds /\ call[c].payload \in Payloads
    BY <1>1, <1>3 DEF Typed, Poll
  <2>2. Lookup(call[c].req, call[c].payload, row, inFlight).pc = "evaluating" => row[call[c].req] = NoRow
    BY <1>1, <2>1, LookupFinds DEF Typed
  <2>3. row'[id] = row[id]
    BY <1>1, <1>3, <2>1, <2>2 DEF Poll, Proceed, Typed
  <2>4. QED
    BY <2>3
<1>4. ASSUME NEW c \in Calls, (\E verdict \in Verdicts : StoreResult(c, verdict)) \/ Abandon(c)
      PROVE  Stands
  <2>1. call[c].pc = "evaluating" /\ \A i \in RequestIds : i # call[c].req => row'[i] = row[i]
    BY <1>1, <1>4 DEF StoreResult, Abandon, Typed
  <2>2. id # call[c].req
    BY <2>1 DEF IInv, Sound, EvaluationsAlone, Is
  <2>3. QED
    BY <2>1, <2>2
<1>5. ASSUME NEW i \in RequestIds, Expire(i) PROVE Stands
  <2> DEFINE r == [payload |-> row[i].payload, schema |-> row[i].schema,
                   result |-> row[i].result, expired |-> TRUE]
  <2>1. row[i] \in Rows
    BY <1>1, <1>5 DEF Typed, Expire
  <2>2. r \in Rows /\ r.result = row[i].result
    BY <2>1 DEF Rows
  <2>3. r # NoRow
    BY <2>2, DistinctAssumption
  <2>4. row' = [row EXCEPT ![i] = r]
    BY <1>5 DEF Expire
  <2> HIDE DEF r
  <2>5. QED
    BY <1>1, <2>2, <2>3, <2>4 DEF Typed
<1>6. ASSUME \/ \E c \in Calls : PollTimesOut(c) \/ StoreFindsNoRow(c) \/ PersistFails(c)
             \/ \E schema \in SchemaVersions : Restart(schema)
             \/ UNCHANGED vars
      PROVE  Stands
  BY <1>6 DEF PollTimesOut, StoreFindsNoRow, PersistFails, Restart, vars
<1>7. QED
  BY <1>2, <1>3, <1>4, <1>5, <1>6 DEF Next, EndEvaluation

\* What is stored stands until its TTL is over, whatever becomes of the calls.
THEOREM StoredResultsAlwaysStand == Spec => StoredResultsStand
<1>1. IInv /\ [Next]_vars =>
        [\A id \in RequestIds \ outlived :
           row[id] # NoRow /\ row[id].result # Unresolved =>
             \/ row'[id] # NoRow /\ row'[id].result = row[id].result
             \/ row[id].expired /\ row'[id] = NoRow
             \/ row[id].expired /\ row'[id] # NoRow /\ row'[id].result = Unresolved]_vars
  BY StoredResultStands
<1>2. QED
  BY <1>1, Invariant, PTL DEF Spec, StoredResultsStand

\* Settling promises gives the same answer to every call that waits for one.
LEMMA SettledAnswers ==
  ASSUME Typed(row, inFlight, call), NEW ids \in SUBSET RequestIds,
         NEW answer \in Results \cup Refusals, NEW c \in Calls,
         NEW calls, calls = Settled(ids, answer), calls[c] # call[c]
  PROVE  calls[c].req \in ids /\ calls[c].answer = answer
<1>1. PICK id \in ids : Joined(c, id)
  BY DEF Settled
<1>2. calls[c] = Answered(call[c], answer)
  BY <1>1 DEF Settled
<1>3. QED
  BY <1>1, <1>2 DEF Answered, Joined

\* A call that acts on what claim or a poll found is given what its row holds.
LEMMA ProceedAnswers ==
  ASSUME NEW rows \in [RequestIds -> Rows \cup {NoRow}],
         NEW flights \in [RequestIds -> Payloads \cup {NoPayload}],
         NEW calls \in [Calls -> CallType], engineSchema \in SchemaVersions,
         NEW c \in Calls, NEW id \in RequestIds, NEW p \in Payloads,
         Proceed(c, id, p, rows, flights, calls), call'[c].answer \in Results
  PROVE  row'[call'[c].req] # NoRow /\ row'[call'[c].req].result = call'[c].answer
<1> DEFINE k == Lookup(id, p, rows, flights)
<1>1. /\ k.req = id
      /\ k.answer \in Results => rows[id] # NoRow /\ rows[id].result = k.answer
      /\ k.pc = "evaluating" => k.answer = Unresolved
  <2>1. k.pc = "evaluating" => k.answer = Unresolved
    BY DistinctAssumption DEF Lookup, At, Answered
  <2>2. QED
    BY <2>1, LookupFinds
<1>2. call'[c] = k
  BY DEF Proceed
<1>3. k.pc # "evaluating"
  BY <1>1, <1>2, DistinctAssumption
<1>4. row' = rows
  BY <1>3 DEF Proceed
<1>5. QED
  BY <1>1, <1>2, <1>4

\* A call that is given a verdict finds it in its row.
LEMMA OnRecord ==
  ASSUME IInv, [Next]_vars, NEW c \in Calls, call'[c] # call[c], call'[c].answer \in Results
  PROVE  row'[call'[c].req] # NoRow /\ row'[call'[c].req].result = call'[c].answer
<1> DEFINE Recorded == row'[call'[c].req] # NoRow /\ row'[call'[c].req].result = call'[c].answer
<1>1. Typed(row, inFlight, call) /\ engineSchema \in SchemaVersions
  BY DEF IInv, History, Sound
<1>2. Failed \notin Results /\ Conflict \notin Results /\ Unresolved \notin Results
  BY DistinctAssumption DEF Refusals
<1>3. ASSUME NEW d \in Calls, NEW i \in RequestIds, NEW p \in Payloads, Claim(d, i, p) PROVE Recorded
  <2>1. /\ PrunedRows \in [RequestIds -> Rows \cup {NoRow}]
        /\ PrunedFlights \in [RequestIds -> Payloads \cup {NoPayload}]
    BY <1>1 DEF Typed, PrunedRows, PrunedFlights
  <2>2. PrunedCalls \in [Calls -> CallType]
    <3>1. Sound(PrunedRows, PrunedFlights, PrunedCalls)
      BY PruneKeeps DEF IInv
    <3>2. QED
      BY <3>1 DEF Sound, Typed
  <2>3. Proceed(d, i, p, PrunedRows, PrunedFlights, PrunedCalls)
    BY <1>3 DEF Claim
  <2>4. CASE c = d
    BY <1>1, <2>1, <2>2, <2>3, <2>4, ProceedAnswers
  <2>5. CASE c # d
    <3>1. call'[c] = PrunedCalls[c]
      BY <2>2, <2>3, <2>5 DEF Proceed
    <3>2. call'[c].answer = Failed
      <4>1. Pruned \in SUBSET RequestIds /\ Failed \in Results \cup Refusals
        BY DEF Pruned, Refusals
      <4>2. PrunedCalls = Settled(Pruned, Failed) /\ PrunedCalls[c] # call[c]
        BY <3>1 DEF PrunedCalls
      <4>3. PrunedCalls[c].answer = Failed
        BY <1>1, <4>1, <4>2, SettledAnswers
      <4>4. QED
        BY <3>1, <4>3
    <3>3. QED
      BY <1>2, <3>2
  <2>6. QED
    BY <2>4, <2>5
<1>4. ASSUME NEW d \in Calls, Poll(d) PROVE Recorded
  <2>1. call[d].req \in RequestIds /\ call[d].payload \in Payloads
    BY <1>1, <1>4 DEF Typed, Poll
  <2>2. Proceed(d, call[d].req, call[d].payload, row, inFlight, call)
    BY <1>4 DEF Poll
  <2>3. c = d
    BY <1>1, <2>2 DEF Proceed, Typed
  <2>4. QED
    BY <1>1, <2>1, <2>2, <2>3, ProceedAnswers DEF Typed
<1>5. ASSUME NEW d \in Calls, NEW verdict \in Verdicts, StoreResult(d, verdict) PROVE Recorded
  <2>1. PICK id : id = call[d].req
    OBVIOUS
  <2>2. id \in RequestIds /\ call[d].payload \in Payloads
    BY <1>1, <1>5, <2>1 DEF Typed, StoreResult
  <2>3. PICK result : result = [payload |-> call[d].payload, schema |-> engineSchema, verdict |-> verdict]
    OBVIOUS
  <2>4. result \in Results
    BY <1>1, <2>2, <2>3 DEF Results
  <2>5. PICK new : new = [payload |-> row[id].payload, schema |-> engineSchema,
                          result |-> result, expired |-> row[id].expired]
    OBVIOUS
  <2>6. row' = [row EXCEPT ![id] = new] /\ row[id] # NoRow
    BY <1>5, <2>1, <2>3, <2>5 DEF StoreResult
  <2>7. new # NoRow /\ new.result = result
    <3>1. row[id] \in Rows
      BY <1>1, <2>2, <2>6 DEF Typed
    <3>2. new \in Rows
      BY <1>1, <2>4, <2>5, <3>1 DEF Rows
    <3>3. QED
      BY <2>5, <3>2, DistinctAssumption
  <2>8. row'[id] = new
    BY <1>1, <2>2, <2>6 DEF Typed
  <2>9. call' = [Settled({id}, result) EXCEPT ![d] = Answered(call[d], result)]
    BY <1>5, <2>1, <2>3 DEF StoreResult
  <2>10. call'[c].req = id /\ call'[c].answer = result
    <3>1. CASE c = d
      <4>1. call'[c] = Answered(call[d], result)
        BY <2>9, <3>1 DEF Settled
      <4>2. QED
        BY <2>1, <4>1 DEF Answered
    <3>2. CASE c # d
      <4>1. call'[c] = Settled({id}, result)[c]
        BY <2>9, <3>2 DEF Settled
      <4>2. Settled({id}, result)[c].req \in {id} /\ Settled({id}, result)[c].answer = result
        BY <1>1, <2>2, <2>4, <4>1, SettledAnswers
      <4>3. QED
        BY <4>1, <4>2
    <3>3. QED
      BY <3>1, <3>2
  <2>11. QED
    BY <2>7, <2>8, <2>10
<1>6. ASSUME NEW d \in Calls, Abandon(d) PROVE Recorded
  <2>1. call[d].req \in RequestIds
    BY <1>1, <1>6 DEF Typed, Abandon
  <2>2. call' = [Settled({call[d].req}, Failed) EXCEPT ![d] = Answered(call[d], Failed)]
    BY <1>6 DEF Abandon
  <2>3. CASE c = d
    BY <1>2, <2>2, <2>3 DEF Settled, Answered
  <2>4. CASE c # d
    <3>1. call'[c] = Settled({call[d].req}, Failed)[c]
      BY <2>2, <2>4 DEF Settled
    <3>2. Settled({call[d].req}, Failed)[c].answer = Failed
      BY <1>1, <2>1, <3>1, SettledAnswers DEF Refusals
    <3>3. QED
      BY <1>2, <3>1, <3>2
  <2>5. QED
    BY <2>3, <2>4
<1>7. ASSUME NEW d \in Calls, PollTimesOut(d) \/ StoreFindsNoRow(d) \/ PersistFails(d) PROVE Recorded
  <2>1. call' = [call EXCEPT ![d] = Answered(call[d], Conflict)]
        \/ call' = [call EXCEPT ![d] = Answered(call[d], Failed)]
    BY <1>7 DEF PollTimesOut, StoreFindsNoRow, PersistFails
  <2>2. call'[c].answer = Conflict \/ call'[c].answer = Failed
    BY <1>1, <2>1 DEF Typed, Answered
  <2>3. QED
    BY <1>2, <2>2
<1>8. ASSUME NEW schema \in SchemaVersions, Restart(schema) PROVE Recorded
  BY <1>2, <1>8 DEF Restart, IdleCall
<1>9. ASSUME call' = call PROVE Recorded
  BY <1>9
<1>10. QED
  BY <1>3, <1>4, <1>5, <1>6, <1>7, <1>8, <1>9 DEF Next, EndEvaluation, Expire, vars

\* A verdict leaves the engine only with its row behind it, whichever of the ways a
\* call can be answered it takes.
THEOREM VerdictsAreAlwaysOnRecord == Spec => VerdictsAreOnRecord
<1>1. IInv /\ [Next]_vars =>
        [\A c \in Calls :
           call'[c] # call[c] /\ call'[c].answer \in Results =>
             /\ row'[call'[c].req] # NoRow
             /\ row'[call'[c].req].result = call'[c].answer]_vars
  BY OnRecord
<1>2. QED
  BY <1>1, Invariant, PTL DEF Spec, VerdictsAreOnRecord
=============================================================================
