----------------------------- MODULE Idempotency -----------------------------
(***************************************************************************)
(* The idempotency store (engine/idempotencyStore.ts) as the governance    *)
(* engine's evaluate uses it (engine/governanceEngine.ts): a request id is *)
(* claimed, evaluated once, and its result replayed to every later call.   *)
(*                                                                         *)
(* A call of evaluate runs alone between two awaits.  It awaits the        *)
(* evaluation itself (policy provider, canonical source), the promise of   *)
(* another call evaluating the same id, or the 5 s polling of a row left   *)
(* behind by a previous process.  Promises and the inFlight map die with   *)
(* the process, the rows do not.  A promise rejected while no call awaits  *)
(* it is an unhandled rejection, which ends the process (Node 20; nothing  *)
(* in src/ handles it).                                                    *)
(*                                                                         *)
(* What the checks inside one evaluation decide is left open: an           *)
(* evaluation ends approved, rejected or with an exception.  There is one  *)
(* process per database file, so INSERT OR IGNORE is never ignored.        *)
(***************************************************************************)
EXTENDS Naturals

CONSTANTS
  RequestIds,
  Payloads,          \* payload hashes
  SchemaVersions,    \* of the engine; a restart may change it
  Calls,             \* slots for calls of evaluate
  Conflict, SchemaMismatch, Failed,       \* answers without a verdict of their own
  NoRow, NoPayload, NoRequest, Unresolved

Verdicts == {"approved", "rejected"}
Results == [payload : Payloads, schema : SchemaVersions, verdict : Verdicts]
Refusals == {Conflict, SchemaMismatch, Failed}
Rows == [payload : Payloads, schema : SchemaVersions,
         result : Results \cup {Unresolved}, expired : BOOLEAN]

ASSUME DistinctAssumption ==
  /\ NoPayload \notin Payloads
  /\ NoRequest \notin RequestIds
  /\ Unresolved \notin Results
  /\ Refusals \cap Results = {}
  /\ Unresolved \notin Refusals
  /\ NoRow \notin Rows

VARIABLES
  engineSchema,   \* schema version of the running engine
  row,            \* the idempotency table, by request id
  inFlight,       \* the inFlight map: the payload being evaluated, or NoPayload
  call,           \* calls of evaluate
  crashing,       \* an unhandled rejection is ending the process
  persistFailed,  \* history: ids whose evaluation ended in a failing SQL statement
  outlived        \* history: ids whose entry expired while it was being evaluated

vars == <<engineSchema, row, inFlight, call, crashing, persistFailed, outlived>>

Pcs == {"idle", "evaluating", "joined", "polling", "done"}
IdleCall == [pc |-> "idle", req |-> NoRequest, payload |-> NoPayload, answer |-> Unresolved]

NewRow(p) == [payload |-> p, schema |-> engineSchema, result |-> Unresolved, expired |-> FALSE]

Init ==
  /\ engineSchema \in SchemaVersions
  /\ row = [id \in RequestIds |-> NoRow]
  /\ inFlight = [id \in RequestIds |-> NoPayload]
  /\ call = [c \in Calls |-> IdleCall]
  /\ crashing = FALSE
  /\ persistFailed = {}
  /\ outlived = {}

Evaluating(c, id) == call[c].pc = "evaluating" /\ call[c].req = id
Joined(c, id) == call[c].pc = "joined" /\ call[c].req = id

(***************************************************************************)
(* pruneExpired, the first thing claim does: expired rows go, and so do    *)
(* the promises opened with them, rejected.                                *)
(***************************************************************************)
\* Mutant: decided rows are cleaned up like expired ones.
SurvivesUndecided(id) == row[id] # NoRow /\ ~row[id].expired /\ row[id].result = Unresolved

Survives(id) == row[id] # NoRow /\ ~row[id].expired

Pruned == {id \in RequestIds : ~Survives(id)}
PrunedRows == [id \in RequestIds |-> IF Survives(id) THEN row[id] ELSE NoRow]
PrunedFlights == [id \in RequestIds |-> IF Survives(id) THEN inFlight[id] ELSE NoPayload]

Answered(k, answer) == [pc |-> "done", req |-> k.req, payload |-> k.payload, answer |-> answer]

\* Settle the promise of every id in ids.
Settled(ids, answer) ==
  [c \in Calls |-> IF \E id \in ids : Joined(c, id) THEN Answered(call[c], answer) ELSE call[c]]

\* Rejecting the promises of ids leaves one that no call awaits.
RejectsUnawaited(ids) ==
  \E id \in ids : inFlight[id] # NoPayload /\ \A c \in Calls : ~Joined(c, id)

PrunedCalls == Settled(Pruned, Failed)

(***************************************************************************)
(* claim                                                                   *)
(***************************************************************************)
At(id, p, pc) == [pc |-> pc, req |-> id, payload |-> p, answer |-> Unresolved]

\* Mutant: a stored result is replayed whatever the payload was.
LookupAnyPayload(id, p, rows, flights) ==
  IF flights[id] # NoPayload
  THEN IF flights[id] = p THEN At(id, p, "joined") ELSE Answered(At(id, p, "done"), Conflict)
  ELSE IF rows[id] = NoRow THEN At(id, p, "evaluating")
  ELSE IF rows[id].schema # engineSchema THEN Answered(At(id, p, "done"), SchemaMismatch)
  ELSE IF rows[id].result # Unresolved THEN Answered(At(id, p, "done"), rows[id].result)
  ELSE IF rows[id].payload # p THEN Answered(At(id, p, "done"), Conflict)
  ELSE At(id, p, "polling")

\* Where a call for id with payload p stands after looking at the map and the
\* row; claim and every poll of waitForCompletedRow look the same way.
Lookup(id, p, rows, flights) ==
  IF flights[id] # NoPayload
  THEN IF flights[id] = p THEN At(id, p, "joined") ELSE Answered(At(id, p, "done"), Conflict)
  ELSE IF rows[id] = NoRow THEN At(id, p, "evaluating")
  ELSE IF rows[id].payload # p THEN Answered(At(id, p, "done"), Conflict)
  ELSE IF rows[id].schema # engineSchema THEN Answered(At(id, p, "done"), SchemaMismatch)
  ELSE IF rows[id].result # Unresolved THEN Answered(At(id, p, "done"), rows[id].result)
  ELSE At(id, p, "polling")

\* Call c acts on what it found; an absent row is inserted and its promise opened.
Proceed(c, id, p, rows, flights, calls) ==
  LET k == Lookup(id, p, rows, flights)
  IN /\ call' = [calls EXCEPT ![c] = k]
     /\ row' = IF k.pc = "evaluating" THEN [rows EXCEPT ![id] = NewRow(p)] ELSE rows
     /\ inFlight' = IF k.pc = "evaluating" THEN [flights EXCEPT ![id] = p] ELSE flights

Claim(c, id, p) ==
  /\ ~crashing
  /\ call[c].pc \in {"idle", "done"}
  /\ Proceed(c, id, p, PrunedRows, PrunedFlights, PrunedCalls)
  /\ crashing' = RejectsUnawaited(Pruned)
  /\ UNCHANGED <<engineSchema, persistFailed, outlived>>

\* A round of waitForCompletedRow that finds something to act on.
Poll(c) ==
  /\ ~crashing
  /\ call[c].pc = "polling"
  /\ Lookup(call[c].req, call[c].payload, row, inFlight).pc # "polling"
  /\ Proceed(c, call[c].req, call[c].payload, row, inFlight, call)
  /\ UNCHANGED <<engineSchema, crashing, persistFailed, outlived>>

\* Mutant: after five seconds the row is taken over.
PollTakesOver(c) ==
  /\ ~crashing
  /\ call[c].pc = "polling"
  /\ call' = [call EXCEPT ![c] = At(call[c].req, call[c].payload, "evaluating")]
  /\ UNCHANGED <<engineSchema, row, inFlight, crashing, persistFailed, outlived>>

PollTimesOut(c) ==
  /\ ~crashing
  /\ call[c].pc = "polling"
  /\ call' = [call EXCEPT ![c] = Answered(call[c], Conflict)]
  /\ UNCHANGED <<engineSchema, row, inFlight, crashing, persistFailed, outlived>>

(***************************************************************************)
(* The end of an evaluation                                                *)
(***************************************************************************)
\* Mutant: the row is written, the promise is not resolved.
StoreResultOnly(c, verdict) ==
  LET id == call[c].req
      result == [payload |-> call[c].payload, schema |-> engineSchema, verdict |-> verdict]
  IN /\ ~crashing
     /\ call[c].pc = "evaluating"
     /\ row[id] # NoRow
     /\ row' = [row EXCEPT ![id] = [payload |-> row[id].payload, schema |-> engineSchema,
                                    result |-> result, expired |-> row[id].expired]]
     /\ inFlight' = [inFlight EXCEPT ![id] = NoPayload]
     /\ call' = [call EXCEPT ![c] = Answered(call[c], result)]
     /\ UNCHANGED <<engineSchema, crashing, persistFailed, outlived>>

\* storeResult updates the row of the id, whoever claimed it, and resolves the
\* promise of the id, whoever opened it.
StoreResult(c, verdict) ==
  LET id == call[c].req
      result == [payload |-> call[c].payload, schema |-> engineSchema, verdict |-> verdict]
  IN /\ ~crashing
     /\ call[c].pc = "evaluating"
     /\ row[id] # NoRow
     /\ row' = [row EXCEPT ![id] = [payload |-> row[id].payload, schema |-> engineSchema,
                                    result |-> result, expired |-> row[id].expired]]
     /\ inFlight' = [inFlight EXCEPT ![id] = NoPayload]
     /\ call' = [Settled({id}, result) EXCEPT ![c] = Answered(call[c], result)]
     /\ UNCHANGED <<engineSchema, crashing, persistFailed, outlived>>

\* The row was pruned meanwhile: "Failed to persist idempotency decision".
StoreFindsNoRow(c) ==
  /\ ~crashing
  /\ call[c].pc = "evaluating"
  /\ row[call[c].req] = NoRow
  /\ call' = [call EXCEPT ![c] = Answered(call[c], Failed)]
  /\ UNCHANGED <<engineSchema, row, inFlight, crashing, persistFailed, outlived>>

\* Mutant: what storeResult throws is logged, and the verdict is returned.
PersistFailsUnnoticed(c) ==
  /\ ~crashing
  /\ call[c].pc = "evaluating"
  /\ \E verdict \in Verdicts :
       call' = [call EXCEPT ![c] = Answered(call[c],
                  [payload |-> call[c].payload, schema |-> engineSchema, verdict |-> verdict])]
  /\ persistFailed' = persistFailed \cup {call[c].req}
  /\ UNCHANGED <<engineSchema, row, inFlight, crashing, outlived>>

\* The statement of storeResult or abandon throws (database busy, disk full):
\* neither the row nor the promise is touched.
PersistFails(c) ==
  /\ ~crashing
  /\ call[c].pc = "evaluating"
  /\ call' = [call EXCEPT ![c] = Answered(call[c], Failed)]
  /\ persistFailed' = persistFailed \cup {call[c].req}
  /\ UNCHANGED <<engineSchema, row, inFlight, crashing, outlived>>

\* Mutant: abandon forgets the waiters.
AbandonSilently(c) ==
  LET id == call[c].req
  IN /\ ~crashing
     /\ call[c].pc = "evaluating"
     /\ row' = [row EXCEPT ![id] = NoRow]
     /\ inFlight' = [inFlight EXCEPT ![id] = NoPayload]
     /\ call' = [call EXCEPT ![c] = Answered(call[c], Failed)]
     /\ crashing' = RejectsUnawaited({id})
     /\ UNCHANGED <<engineSchema, persistFailed, outlived>>

\* The evaluation throws: abandon deletes the row and rejects the promise of
\* the id, whoever they belong to.
Abandon(c) ==
  LET id == call[c].req
  IN /\ ~crashing
     /\ call[c].pc = "evaluating"
     /\ row' = [row EXCEPT ![id] = NoRow]
     /\ inFlight' = [inFlight EXCEPT ![id] = NoPayload]
     /\ call' = [Settled({id}, Failed) EXCEPT ![c] = Answered(call[c], Failed)]
     /\ crashing' = RejectsUnawaited({id})
     /\ UNCHANGED <<engineSchema, persistFailed, outlived>>

(***************************************************************************)
(* Time and failure                                                        *)
(***************************************************************************)
\* expires_at passes; nothing happens before the next claim prunes.
Expire(id) ==
  /\ row[id] # NoRow
  /\ ~row[id].expired
  /\ row' = [row EXCEPT ![id] = [payload |-> row[id].payload, schema |-> row[id].schema,
                                 result |-> row[id].result, expired |-> TRUE]]
  /\ outlived' = IF \E c \in Calls : Evaluating(c, id) THEN outlived \cup {id} ELSE outlived
  /\ UNCHANGED <<engineSchema, inFlight, call, crashing, persistFailed>>

\* Crash or deployment, possibly of an engine with another schema version.
Restart(schema) ==
  /\ engineSchema' = schema
  /\ inFlight' = [id \in RequestIds |-> NoPayload]
  /\ call' = [c \in Calls |-> IdleCall]
  /\ crashing' = FALSE
  /\ UNCHANGED <<row, persistFailed, outlived>>

EndEvaluation(c) ==
  \/ \E verdict \in Verdicts : StoreResult(c, verdict)
  \/ StoreFindsNoRow(c)
  \/ PersistFails(c)
  \/ Abandon(c)

Next ==
  \/ \E c \in Calls :
       \/ \E id \in RequestIds, p \in Payloads : Claim(c, id, p)
       \/ Poll(c)
       \/ PollTimesOut(c)
       \/ EndEvaluation(c)
  \/ \E id \in RequestIds : Expire(id)
  \/ \E schema \in SchemaVersions : Restart(schema)

\* Evaluations end (their awaits time out), polls are timers and a process
\* with an unhandled rejection exits.
Fairness ==
  /\ \A c \in Calls : WF_vars(EndEvaluation(c)) /\ WF_vars(PollTimesOut(c))
  /\ WF_vars(crashing /\ \E schema \in SchemaVersions : Restart(schema))

Spec == Init /\ [][Next]_vars /\ Fairness

(***************************************************************************)
(* Properties                                                              *)
(***************************************************************************)
TypeOK ==
  /\ engineSchema \in SchemaVersions
  /\ row \in [RequestIds -> Rows \cup {NoRow}]
  /\ inFlight \in [RequestIds -> Payloads \cup {NoPayload}]
  /\ call \in [Calls -> [pc : Pcs, req : RequestIds \cup {NoRequest},
                         payload : Payloads \cup {NoPayload},
                         answer : Results \cup Refusals \cup {Unresolved}]]
  /\ crashing \in BOOLEAN
  /\ persistFailed \subseteq RequestIds
  /\ outlived \subseteq RequestIds

\* A request id is evaluated by one call at a time, and that call holds the
\* unresolved row and the promise of its own payload, unless the evaluation
\* outlived the entry's TTL.
OneEvaluation ==
  \A id \in RequestIds \ outlived : \A c \in Calls : Evaluating(c, id) =>
    /\ row[id] # NoRow /\ row[id].payload = call[c].payload /\ row[id].result = Unresolved
    /\ inFlight[id] = call[c].payload
    /\ \A d \in Calls \ {c} : ~Evaluating(d, id)

\* Whether a call evaluated, joined, polled or replayed, the result it is
\* given was computed for its own payload by the running schema version.
OwnAnswers ==
  \A c \in Calls :
    /\ call[c].pc = "done"
    /\ call[c].answer \in Results
    /\ call[c].req \notin outlived
    => call[c].answer.payload = call[c].payload /\ call[c].answer.schema = engineSchema

\* A call waiting for a promise waits for a call that is still evaluating,
\* unless a failing statement left the promise open.
JoinedHaveAnOwner ==
  \A c \in Calls, id \in RequestIds :
    Joined(c, id) /\ id \notin persistFailed => \E d \in Calls : Evaluating(d, id)

\* A stored result is never rewritten, and is forgotten only after its TTL.
StoredResultsStand ==
  [][\A id \in RequestIds \ outlived :
       row[id] # NoRow /\ row[id].result # Unresolved =>
         \/ row'[id] # NoRow /\ row'[id].result = row[id].result
         \/ row[id].expired /\ row'[id] = NoRow
         \/ row[id].expired /\ row'[id] # NoRow /\ row'[id].result = Unresolved]_vars

\* Whether it evaluated, waited, polled or replayed, a call is given a verdict only
\* once that verdict is on record: a failing statement, a pruned row or a rejected
\* promise gives none.
VerdictsAreOnRecord ==
  [][\A c \in Calls :
       call'[c] # call[c] /\ call'[c].answer \in Results =>
         /\ row'[call'[c].req] # NoRow
         /\ row'[call'[c].req].result = call'[c].answer]_vars

\* Every call is answered, unless it joined a promise left open.
CallsSettle ==
  \A c \in Calls :
    (call[c].pc \in {"joined", "polling", "evaluating"})
      ~> (call[c].pc \in {"idle", "done"} \/ call[c].req \in persistFailed)
=============================================================================
