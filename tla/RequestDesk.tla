----------------------------- MODULE RequestDesk -----------------------------
(***************************************************************************)
(* Public records requests, access requests and the notifications about    *)
(* the latter (api/prrStore.ts, api/accessNotificationWorker.ts).          *)
(*                                                                         *)
(* Each operation of the store is one transaction.  The worker's timer     *)
(* starts a pass every half minute whether or not the last one is over     *)
(* (api/server.ts): a pass claims a batch of due notifications, then posts *)
(* them one after the other, awaiting the webhook's answer.  Passes        *)
(* overlap, and what a dead process had claimed stays claimed.             *)
(***************************************************************************)
EXTENDS Naturals, Sequences, FiniteSets

CONSTANTS
  RecordsRequests,  \* ids of rows of prr
  AccessRequests,   \* ids of rows of access_request
  MaxRetries,       \* ACCESS_NOTIFICATION_WORKER_MAX_RETRIES
  BatchSize,        \* ACCESS_NOTIFICATION_WORKER_BATCH_SIZE
  Passes,           \* bound: passes of the worker at a time
  MaxCrashes        \* bound: process deaths

Requests == RecordsRequests \union AccessRequests

ASSUME DeskAssumption ==
  /\ RecordsRequests \intersect AccessRequests = {}
  /\ MaxRetries \in Nat \ {0} /\ BatchSize \in Nat \ {0}
  /\ MaxCrashes \in Nat

VARIABLES
  status,    \* status of each request; "none": no row
  closedAt,  \* whether closed_at is set
  audit,     \* prr_audit and access_request_audit, per request in order of id
  notes,     \* access_request_notification, in order of id
  pass,      \* what each running pass has still to post, and whether the
             \* webhook took the one it is posting
  arrivals,  \* how often the webhook took each notification
  crashes,
  stranded   \* history: notifications claimed by a pass that died or gave up

vars == <<status, closedAt, audit, notes, pass, arrivals, crashes, stranded>>
requestVars == <<status, closedAt, audit>>
workerVars == <<pass, arrivals, crashes, stranded>>

\* ALLOWED_TRANSITIONS
RecordsAllowed ==
  [received |-> {"acknowledged"}, acknowledged |-> {"in_progress"},
   in_progress |-> {"extended", "closed"}, extended |-> {"closed"}, closed |-> {}]

\* ALLOWED_ACCESS_REQUEST_TRANSITIONS
AccessAllowed ==
  [received |-> {"under_review", "denied"},
   under_review |-> {"approved", "denied", "closed"},
   approved |-> {"provisioned", "revoked", "closed"},
   provisioned |-> {"revoked", "closed"},
   denied |-> {"closed"}, revoked |-> {"closed"}, closed |-> {}]

StatusOf(r) == IF r \in RecordsRequests THEN DOMAIN RecordsAllowed ELSE DOMAIN AccessAllowed
Allowed(r, from) == IF r \in RecordsRequests THEN RecordsAllowed[from] ELSE AccessAllowed[from]

\* A row of an audit table.
Entry(action, from, to) == [action |-> action, from |-> from, to |-> to]
AllStatus == DOMAIN RecordsAllowed \union DOMAIN AccessAllowed \union {"none"}
Entries == [action : {"intake", "status_change", "close"}, from : AllStatus, to : AllStatus]

\* due: next_attempt_at is NULL or past.  sent: sent_at is set.
Note == [request : AccessRequests, status : {"queued", "processing", "retry", "delivered", "failed"},
         tries : 0..MaxRetries, due : BOOLEAN, sent : BOOLEAN]
NewNote(r) == [request |-> r, status |-> "queued", tries |-> 0, due |-> TRUE, sent |-> FALSE]

IdlePass == [batch |-> {}, taken |-> FALSE]

Init ==
  /\ status = [r \in Requests |-> "none"]
  /\ closedAt = [r \in Requests |-> FALSE]
  /\ audit = [r \in Requests |-> <<>>]
  /\ notes = <<>> /\ arrivals = <<>>
  /\ pass = [p \in Passes |-> IdlePass]
  /\ crashes = 0 /\ stranded = {}

\* What is written with a notification about an access request.
Notify(r) ==
  IF r \in AccessRequests
  THEN notes' = Append(notes, NewNote(r)) /\ arrivals' = Append(arrivals, 0)
  ELSE UNCHANGED <<notes, arrivals>>

Move(r, action, to) ==
  /\ status' = [status EXCEPT ![r] = to]
  /\ audit' = [audit EXCEPT ![r] = Append(@, Entry(action, status[r], to))]

\* intake, intakeAccessRequest
Intake(r) ==
  /\ status[r] = "none"
  /\ Move(r, "intake", "received")
  /\ Notify(r)
  /\ UNCHANGED <<closedAt, pass, crashes, stranded>>

\* Mutant: what is allowed is asked of an earlier status of the request.
TransitionFromEarlier(r, to) ==
  /\ status[r] # "none"
  /\ \E from \in {audit[r][n].to : n \in DOMAIN audit[r]} : to \in Allowed(r, from)
  /\ Move(r, "status_change", to)
  /\ UNCHANGED <<closedAt, notes>> /\ UNCHANGED workerVars

\* transitionStatus, transitionAccessRequestStatus.  The schema of the route lets
\* "closed" through: such a request has no closed_at and nobody is notified.
Transition(r, to) ==
  /\ status[r] # "none" /\ to \in Allowed(r, status[r])
  /\ Move(r, "status_change", to)
  /\ UNCHANGED <<closedAt, notes>> /\ UNCHANGED workerVars

\* closeCase, closeAccessRequest
Close(r) ==
  /\ status[r] # "none" /\ "closed" \in Allowed(r, status[r])
  /\ Move(r, "close", "closed")
  /\ closedAt' = [closedAt EXCEPT ![r] = TRUE]
  /\ Notify(r)
  /\ UNCHANGED <<pass, crashes, stranded>>

\* Mutant: rows left behind in processing are claimed again.
DueAgain ==
  {n \in DOMAIN notes :
     ~notes[n].sent /\ notes[n].status \in {"queued", "retry", "processing"} /\ notes[n].due}

\* The rows selectPending finds; markProcessing asks the same of each.
Due ==
  {n \in DOMAIN notes :
     ~notes[n].sent /\ notes[n].status \in {"queued", "retry"} /\ notes[n].due}

\* claimPendingAccessRequestNotifications, at the start of a pass.
StartPass(p) ==
  /\ pass[p].batch = {} /\ Due # {}
  /\ LET claimed == {n \in Due : Cardinality({m \in Due : m < n}) < BatchSize} IN
     /\ pass' = [pass EXCEPT ![p] = [batch |-> claimed, taken |-> FALSE]]
     /\ notes' = [n \in DOMAIN notes |->
                    IF n \in claimed
                    THEN [notes[n] EXCEPT !.status = "processing", !.tries = @ + 1]
                    ELSE notes[n]]
  /\ UNCHANGED <<arrivals, crashes, stranded>> /\ UNCHANGED requestVars

\* The notification a pass is posting.
Current(p) == CHOOSE n \in pass[p].batch : \A m \in pass[p].batch : n <= m

\* External: the webhook takes the notification it is sent, if it ever does while
\* the pass still waits for the answer.
Arrive(p) ==
  /\ pass[p].batch # {} /\ ~pass[p].taken
  /\ pass' = [pass EXCEPT ![p].taken = TRUE]
  /\ arrivals' = [arrivals EXCEPT ![Current(p)] = @ + 1]
  /\ UNCHANGED <<notes, crashes, stranded>> /\ UNCHANGED requestVars

Proceed(p) == pass' = [pass EXCEPT ![p] = [batch |-> @.batch \ {Current(p)}, taken |-> FALSE]]

\* Mutant: the answer's status is not looked at.
DeliverUnread(p) ==
  /\ pass[p].batch # {}
  /\ notes' = [notes EXCEPT ![Current(p)].status = "delivered", ![Current(p)].sent = TRUE,
                            ![Current(p)].due = TRUE]
  /\ Proceed(p)
  /\ UNCHANGED <<arrivals, crashes, stranded>> /\ UNCHANGED requestVars

\* The webhook's answer is a success: markAccessRequestNotificationDelivered.
Deliver(p) ==
  /\ pass[p].taken
  /\ notes' = [notes EXCEPT ![Current(p)].status = "delivered", ![Current(p)].sent = TRUE,
                            ![Current(p)].due = TRUE]
  /\ Proceed(p)
  /\ UNCHANGED <<arrivals, crashes, stranded>> /\ UNCHANGED requestVars

\* Mutant: a notification out of tries is put back to be tried again.
FailForever(p) ==
  /\ pass[p].batch # {}
  /\ notes' = [notes EXCEPT ![Current(p)].status = "retry", ![Current(p)].due = FALSE,
                            ![Current(p)].tries = IF @ >= MaxRetries THEN 0 ELSE @]
  /\ Proceed(p)
  /\ UNCHANGED <<arrivals, crashes, stranded>> /\ UNCHANGED requestVars

\* No answer, a refusal, an answer cut off, or a success that could not be
\* written down: markAccessRequestNotificationRetry, whatever the webhook did.
Fail(p) ==
  /\ pass[p].batch # {}
  /\ LET n == Current(p)
         out == notes[n].tries >= MaxRetries IN
     notes' = [notes EXCEPT ![n].status = IF out THEN "failed" ELSE "retry", ![n].due = out]
  /\ Proceed(p)
  /\ UNCHANGED <<arrivals, crashes, stranded>> /\ UNCHANGED requestVars

\* The retry could not be written down either: the pass ends with an error and
\* leaves the rest of its batch as claimed.
GiveUp(p) ==
  /\ pass[p].batch # {}
  /\ stranded' = stranded \union pass[p].batch
  /\ pass' = [pass EXCEPT ![p] = IdlePass]
  /\ UNCHANGED <<notes, arrivals, crashes>> /\ UNCHANGED requestVars

\* The backoff of a notification is over.
ComeDue(n) ==
  /\ ~notes[n].due
  /\ notes' = [notes EXCEPT ![n].due = TRUE]
  /\ UNCHANGED workerVars /\ UNCHANGED requestVars

\* The process dies and comes back; nothing looks for rows in processing.
Crash ==
  /\ crashes < MaxCrashes /\ \E p \in Passes : pass[p].batch # {}
  /\ crashes' = crashes + 1
  /\ stranded' = stranded \union UNION {pass[p].batch : p \in Passes}
  /\ pass' = [p \in Passes |-> IdlePass]
  /\ UNCHANGED <<notes, arrivals>> /\ UNCHANGED requestVars

Settle(p) == Deliver(p) \/ Fail(p) \/ GiveUp(p)

Next ==
  \/ \E r \in Requests : Intake(r) \/ Close(r) \/ \E to \in StatusOf(r) : Transition(r, to)
  \/ \E p \in Passes : StartPass(p) \/ Arrive(p) \/ Settle(p)
  \/ \E n \in DOMAIN notes : ComeDue(n)
  \/ Crash

\* The timer fires for ever, time passes, and an await of fetch is settled one
\* way or the other.  Nobody owes a request, a transition or a good answer.
Fairness ==
  /\ WF_vars(\E p \in Passes : StartPass(p))
  /\ \A p \in Passes : WF_vars(Settle(p))
  /\ \A n \in 1..(2 * Cardinality(AccessRequests)) : WF_vars(n \in DOMAIN notes /\ ComeDue(n))

Spec == Init /\ [][Next]_vars /\ Fairness

-----------------------------------------------------------------------------
\* Types, with tries never past MaxRetries (markProcessing counts them without
\* looking at the limit; it is the failure that reads it).
TypeOK ==
  /\ status \in [Requests -> AllStatus] /\ \A r \in Requests : status[r] \in StatusOf(r) \union {"none"}
  /\ closedAt \in [Requests -> BOOLEAN]
  /\ audit \in [Requests -> Seq(Entries)]
  /\ notes \in Seq(Note)
  /\ pass \in [Passes -> [batch : SUBSET (DOMAIN notes), taken : BOOLEAN]]
  /\ arrivals \in [DOMAIN notes -> Nat]
  /\ crashes \in 0..MaxCrashes
  /\ stranded \subseteq DOMAIN notes

\* The audit trail of a request is a walk along the allowed transitions from its
\* intake to its status, and what else the row and the queue hold follows from
\* it: closed_at is set and a second notification exists if and only if the walk
\* ends with a close (the INSERTs and UPDATEs of one prrStore.ts transaction).
TrailAgrees ==
  \A r \in Requests : status[r] # "none" =>
    LET trail == audit[r]
        closed == trail[Len(trail)].action = "close" IN
    /\ trail[1] = Entry("intake", "none", "received")
    /\ trail[Len(trail)].to = status[r]
    /\ \A n \in 2..Len(trail) :
         /\ trail[n].from = trail[n - 1].to
         /\ trail[n].to \in Allowed(r, trail[n].from)
    /\ closedAt[r] = closed
    /\ r \in AccessRequests =>
         Cardinality({n \in DOMAIN notes : notes[n].request = r}) = IF closed THEN 2 ELSE 1

\* Passes overlap, yet a notification in processing is in the hands of exactly
\* one of them, unless the one that had it died or gave up; no other is in any
\* (the claim of prrStore.ts:1128 looks at the status again).
HeldOnce ==
  /\ \A p, q \in Passes : p # q => pass[p].batch \intersect pass[q].batch = {}
  /\ \A n \in DOMAIN notes :
       (notes[n].status = "processing") <=> (n \in stranded \/ \E p \in Passes : n \in pass[p].batch)

\* A try is written down before the webhook is asked: over any passes, crashes and
\* lost answers the webhook takes a notification no more often than its row says,
\* hence never more than MaxRetries times, and none is given up with a try left.
NoTryUncounted ==
  \A n \in DOMAIN notes :
    /\ arrivals[n] <= notes[n].tries
    /\ notes[n].status = "failed" => notes[n].tries = MaxRetries

\* A notification written down as delivered was taken by the webhook; it is not
\* sent again and its row does not change any more, whichever pass is late.
DeliveredIsFinal ==
  [][\A n \in DOMAIN notes : notes[n].status = "delivered" =>
       arrivals[n] > 0 /\ notes'[n] = notes[n] /\ arrivals'[n] = arrivals[n]]_vars

\* Every notification ends delivered or failed, however often the webhook fails,
\* unless its pass died or gave up.
NotesSettle ==
  \A n \in 1..(2 * Cardinality(AccessRequests)) :
    (n \in DOMAIN notes) ~>
      (n \in DOMAIN notes /\ (notes[n].status \in {"delivered", "failed"} \/ n \in stranded))
=============================================================================
