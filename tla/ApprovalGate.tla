---------------------------- MODULE ApprovalGate ----------------------------
(***************************************************************************)
(* The approval gate: the approvals table (engine/approvalStore.ts), the   *)
(* approval chains beside it (engine/chainStore.ts) and the HTTP handlers  *)
(* that create, decide and dispatch approvals (api/routes/governance.ts,   *)
(* webhookAction.ts, approvals.ts and api/mcp.ts).                         *)
(*                                                                         *)
(* The process is single-threaded and SQLite is called synchronously, so a *)
(* handler runs alone between two awaits: an action is the code between    *)
(* two awaits.  The process may die between two SQL statements; what it    *)
(* had in memory (the suspended handlers) is lost, the rows are not.       *)
(***************************************************************************)
EXTENDS Integers

CONSTANTS
  Approvals,        \* approval rows; a row is named by its UNIQUE request_id
  Steps,            \* names for the steps of a template
  Users,            \* authenticated callers
  Roles,            \* role strings in tokens and templates
  RoleOf,           \* [Users -> Roles]
  AdminRole,        \* "admin"
  Templates,        \* the chain templates getChainTemplate can resolve to
  DefaultTemplate,  \* the built-in template
  Requests,         \* slots for HTTP requests suspended at an await
  NoUser, NoApproval

ASSUME RolesAssumption ==
  /\ RoleOf \in [Users -> Roles]
  /\ AdminRole \in Roles
  /\ NoUser \notin Users
  /\ NoApproval \notin Approvals

\* createTemplate and updateTemplate refuse an empty template and one whose
\* distinct orders are not 0, 1, 2, ...; several steps may share an order.
Dense(t) ==
  \A s \in DOMAIN t : \A n \in 0..(t[s].order - 1) : \E p \in DOMAIN t : t[p].order = n

ASSUME TemplatesAssumption ==
  /\ DefaultTemplate \in Templates
  /\ \A t \in Templates :
       /\ DOMAIN t \subseteq Steps
       /\ DOMAIN t # {}
       /\ t \in [DOMAIN t -> [order : Nat, role : Roles]]
       /\ Dense(t)

VARIABLES
  approvalStatus,   \* approvals.approval_status, "none" before the INSERT
  overdue,          \* has the clock passed approvals.expires_at?
  approver,         \* approvals.approver_id
  manifest,         \* does the row carry a manifest_id?
  chain,            \* approval_chain_steps of the row, by step
  request,          \* suspended HTTP handlers
  planRuns,         \* history: real (not dry) hand-overs of the plan to connectors
  cutShort,         \* history: rows whose handler stopped between its two writes
  toldReady         \* history: rows whose caller was answered 200, plan included, as if not gated

vars == <<approvalStatus, overdue, approver, manifest, chain, request, planRuns, cutShort, toldReady>>

Lifecycle == INSTANCE ApprovalLifecycle

Statuses == Lifecycle!Statuses
StepStatuses == {"pending", "active", "approved", "rejected", "skipped"}
StepRow == [order : Nat, role : Roles, status : StepStatuses]
Pcs == {"idle", "manifest", "template", "release", "running"}

NoChain == [s \in {} |-> s]
Idle == [pc |-> "idle", approval |-> NoApproval, dry |-> FALSE]

Init ==
  /\ approvalStatus = [a \in Approvals |-> "none"]
  /\ overdue = [a \in Approvals |-> FALSE]
  /\ approver = [a \in Approvals |-> NoUser]
  /\ manifest = [a \in Approvals |-> FALSE]
  /\ chain = [a \in Approvals |-> NoChain]
  /\ request = [r \in Requests |-> Idle]
  /\ planRuns = [a \in Approvals |-> 0]
  /\ cutShort = {}
  /\ toldReady = {}

\* The rows some suspended handler moved to "dispatching" and has yet to close.
Dispatching(r) == request[r].pc \in {"release", "running"}
HeldRows == {request[r].approval : r \in {x \in Requests : Dispatching(x)}}

(***************************************************************************)
(* chainStore: steps of one chain                                          *)
(***************************************************************************)
\* Mutant: the first group is taken to be order 1.
InstantiateChainOffByOne(t) ==
  [s \in DOMAIN t |->
     [order |-> t[s].order, role |-> t[s].role,
      status |-> IF t[s].order = 1 THEN "active" ELSE "pending"]]

\* createChainForApproval: the first order group starts active.
InstantiateChain(t) ==
  [s \in DOMAIN t |->
     [order |-> t[s].order, role |-> t[s].role,
      status |-> IF t[s].order = 0 THEN "active" ELSE "pending"]]

ActiveSteps(c) == {s \in DOMAIN c : c[s].status = "active"}

\* The steps of s's parallel group still waiting once s itself is decided.
ActiveSiblings(c, s) == {x \in ActiveSteps(c) \ {s} : c[x].order = c[s].order}

NextGroup(c, s) == {x \in DOMAIN c : c[x].order = c[s].order + 1 /\ c[x].status = "pending"}

\* What a rejection of s skips: the active siblings and every later step.
SkippedBy(c, s) ==
  {x \in DOMAIN c \ {s} :
     \/ c[x].order = c[s].order /\ c[x].status = "active"
     \/ c[x].order > c[s].order /\ c[x].status \in {"pending", "active"}}

\* What an approval of s activates: nothing while a sibling is active.
ActivatedBy(c, s) == IF ActiveSiblings(c, s) = {} THEN NextGroup(c, s) ELSE {}

SetStatus(row, status) == [order |-> row.order, role |-> row.role, status |-> status]

RejectStep(c, s) ==
  [x \in DOMAIN c |-> SetStatus(c[x],
     IF x = s THEN "rejected" ELSE IF x \in SkippedBy(c, s) THEN "skipped" ELSE c[x].status)]

\* Mutant: the next group starts without waiting for the parallel siblings.
ApproveStepEarly(c, s) ==
  [x \in DOMAIN c |-> SetStatus(c[x],
     IF x = s THEN "approved" ELSE IF x \in NextGroup(c, s) THEN "active" ELSE c[x].status)]

ApproveStep(c, s) ==
  [x \in DOMAIN c |-> SetStatus(c[x],
     IF x = s THEN "approved" ELSE IF x \in ActivatedBy(c, s) THEN "active" ELSE c[x].status)]

\* Mutant: a chain is complete when its current group is.
CompletesGroup(c, s) == ActiveSiblings(c, s) = {}

\* decideStep reports allApproved when s was the last of the last group.
CompletesChain(c, s) == ActiveSiblings(c, s) = {} /\ NextGroup(c, s) = {}

(***************************************************************************)
(* Creating approvals                                                      *)
(***************************************************************************)
\* The INSERT: request_id is UNIQUE, so a row is created once.
InsertApproval(a, withManifest) ==
  /\ approvalStatus[a] = "none"
  /\ approvalStatus' = [approvalStatus EXCEPT ![a] = "pending"]
  /\ manifest' = [manifest EXCEPT ![a] = withManifest]

Suspend(r, pc, a, dry) ==
  request' = [request EXCEPT ![r] = [pc |-> pc, approval |-> a, dry |-> dry]]

Finish(r) == request' = [request EXCEPT ![r] = Idle]

\* POST /pj/execute, governed and approved by the engine, up to the await of
\* registerManifest.  A replayed request_id comes back here as well.
StartExecute(r, a) ==
  /\ request[r].pc = "idle"
  /\ Suspend(r, "manifest", a, FALSE)
  /\ UNCHANGED <<approvalStatus, overdue, approver, manifest, chain, planRuns, cutShort, toldReady>>

ManifestRejected(r) ==
  /\ request[r].pc = "manifest"
  /\ Finish(r)
  /\ UNCHANGED <<approvalStatus, overdue, approver, manifest, chain, planRuns, cutShort, toldReady>>

\* The manifest was accepted, or registering it threw and the route went on
\* without one; the row is inserted and getChainTemplate is awaited.
CreateApproval(r, registered) ==
  /\ request[r].pc = "manifest"
  /\ InsertApproval(request[r].approval, registered)
  /\ Suspend(r, "template", request[r].approval, FALSE)
  /\ UNCHANGED <<overdue, approver, chain, planRuns, cutShort, toldReady>>

\* The INSERT hits the UNIQUE request_id: the route answers 200 with the plan,
\* as if nothing were gated.
DuplicateCreate(r) ==
  /\ request[r].pc = "manifest"
  /\ approvalStatus[request[r].approval] # "none"
  /\ Finish(r)
  /\ toldReady' = toldReady \cup {request[r].approval}
  /\ UNCHANGED <<approvalStatus, overdue, approver, manifest, chain, planRuns, cutShort>>

\* createChainForApproval looks at the chain rows, never at the approval.
CreateChain(r, t) ==
  /\ request[r].pc = "template"
  /\ LET a == request[r].approval
     IN chain' = IF chain[a] = NoChain THEN [chain EXCEPT ![a] = InstantiateChain(t)] ELSE chain
  /\ Finish(r)
  /\ UNCHANGED <<approvalStatus, overdue, approver, manifest, planRuns, cutShort, toldReady>>

\* The policy provider failed or the template is gone: "non-fatal".
ChainCreationFails(r) ==
  /\ request[r].pc = "template"
  /\ Finish(r)
  /\ UNCHANGED <<approvalStatus, overdue, approver, manifest, chain, planRuns, cutShort, toldReady>>

\* The MCP tool action_execute creates an approval and no chain.
CreateByMcp(a) ==
  /\ InsertApproval(a, FALSE)
  /\ UNCHANGED <<overdue, approver, chain, request, planRuns, cutShort, toldReady>>

\* A governed webhook action creates approval and chain in one go.
CreateWebhook(a) ==
  /\ InsertApproval(a, FALSE)
  /\ chain' = [chain EXCEPT ![a] = InstantiateChain(DefaultTemplate)]
  /\ UNCHANGED <<overdue, approver, request, planRuns, cutShort, toldReady>>

(***************************************************************************)
(* Deciding                                                                *)
(***************************************************************************)
\* Mutants: the deadline is not looked at; the status is not looked at.
StoreDecideAnyTime(a, u, verdict) ==
  \/ /\ approvalStatus[a] # "pending"
     /\ UNCHANGED <<approvalStatus, approver>>
  \/ /\ approvalStatus[a] = "pending"
     /\ approvalStatus' = [approvalStatus EXCEPT ![a] = verdict]
     /\ approver' = [approver EXCEPT ![a] = u]

StoreDecideAnyStatus(a, u, verdict) ==
  /\ approvalStatus' = [approvalStatus EXCEPT ![a] = IF overdue[a] THEN "expired" ELSE verdict]
  /\ approver' = [approver EXCEPT ![a] = u]

\* approvalStore.decide: a row that is not pending is left alone, an overdue
\* one is expired instead.
StoreDecide(a, u, verdict) ==
  \/ /\ approvalStatus[a] # "pending"
     /\ UNCHANGED <<approvalStatus, approver>>
  \/ /\ approvalStatus[a] = "pending"
     /\ overdue[a]
     /\ approvalStatus' = [approvalStatus EXCEPT ![a] = "expired"]
     /\ UNCHANGED approver
  \/ /\ approvalStatus[a] = "pending"
     /\ ~overdue[a]
     /\ approvalStatus' = [approvalStatus EXCEPT ![a] = verdict]
     /\ approver' = [approver EXCEPT ![a] = u]

\* The role gate of the decide route; the admin may decide every step.
MayDecide(u, step) == RoleOf[u] \in {AdminRole, step.role}

\* POST /approvals/:id/decide on an active step.  decideStep commits the
\* chain, then approvalStore.decide writes the parent.
DecideStep(a, u, s, verdict) ==
  /\ s \in ActiveSteps(chain[a])
  /\ MayDecide(u, chain[a][s])
  /\ \/ /\ verdict = "rejected"
        /\ chain' = [chain EXCEPT ![a] = RejectStep(chain[a], s)]
        /\ StoreDecide(a, u, "rejected")
     \/ /\ verdict = "approved"
        /\ chain' = [chain EXCEPT ![a] = ApproveStep(chain[a], s)]
        /\ \/ CompletesChain(chain[a], s) /\ StoreDecide(a, u, "approved")
           \/ ~CompletesChain(chain[a], s) /\ UNCHANGED <<approvalStatus, approver>>
  /\ UNCHANGED <<overdue, manifest, request, planRuns, cutShort, toldReady>>

\* The same request, about to write the parent, when the process dies after
\* decideStep's transaction.
DecideStepThenCrash(a, u, s, verdict) ==
  /\ s \in ActiveSteps(chain[a])
  /\ MayDecide(u, chain[a][s])
  /\ verdict = "rejected" \/ CompletesChain(chain[a], s)
  /\ chain' = [chain EXCEPT ![a] =
                 IF verdict = "rejected" THEN RejectStep(chain[a], s) ELSE ApproveStep(chain[a], s)]
  /\ request' = [r \in Requests |-> Idle]
  /\ cutShort' = cutShort \cup {a} \cup HeldRows
  /\ UNCHANGED <<approvalStatus, overdue, approver, manifest, planRuns, toldReady>>

\* No active step: the route takes the approval for a legacy one without a
\* chain and lets an admin decide it directly.
DecideLegacy(a, u, verdict) ==
  /\ approvalStatus[a] # "none"
  /\ ActiveSteps(chain[a]) = {}
  /\ RoleOf[u] = AdminRole
  /\ StoreDecide(a, u, verdict)
  /\ UNCHANGED <<overdue, manifest, chain, request, planRuns, cutShort, toldReady>>

(***************************************************************************)
(* Dispatching                                                             *)
(***************************************************************************)
\* Mutant: the swap also matches a row that is already being dispatched.
StartDispatchAgain(r, a, dry) ==
  /\ request[r].pc = "idle"
  /\ approvalStatus[a] \in {"approved", "dispatching"}
  /\ approvalStatus' = [approvalStatus EXCEPT ![a] = "dispatching"]
  /\ Suspend(r, "release", a, dry)
  /\ UNCHANGED <<overdue, approver, manifest, chain, planRuns, cutShort, toldReady>>

\* POST /approvals/:id/dispatch: the status check and consumeForDispatch's
\* compare-and-swap, then either the release check or the plan itself.
StartDispatch(r, a, dry) ==
  /\ request[r].pc = "idle"
  /\ approvalStatus[a] = "approved"
  /\ approvalStatus' = [approvalStatus EXCEPT ![a] = "dispatching"]
  /\ \/ /\ manifest[a]
        /\ Suspend(r, "release", a, dry)
        /\ UNCHANGED planRuns
     \/ /\ ~manifest[a]
        /\ Suspend(r, "running", a, dry)
        /\ planRuns' = [planRuns EXCEPT ![a] = IF dry THEN @ ELSE @ + 1]
  /\ UNCHANGED <<overdue, approver, manifest, chain, cutShort, toldReady>>

\* authorizeRelease said no: 403, and the row stays "dispatching".
ReleaseDenied(r) ==
  /\ request[r].pc = "release"
  /\ Finish(r)
  /\ cutShort' = cutShort \cup {request[r].approval}
  /\ UNCHANGED <<approvalStatus, overdue, approver, manifest, chain, planRuns, toldReady>>

\* authorizeRelease said yes, or threw ("degraded mode").
ReleaseGranted(r) ==
  /\ request[r].pc = "release"
  /\ request' = [request EXCEPT ![r].pc = "running"]
  /\ planRuns' = [planRuns EXCEPT ![request[r].approval] = IF request[r].dry THEN @ ELSE @ + 1]
  /\ UNCHANGED <<approvalStatus, overdue, approver, manifest, chain, cutShort, toldReady>>

\* dispatchPlan returned: markDispatched or markDispatchFailed, both guarded
\* by status = "dispatching".  A dry run ends the same way.
FinishDispatch(r, outcome) ==
  /\ request[r].pc = "running"
  /\ LET a == request[r].approval
     IN approvalStatus' =
          IF approvalStatus[a] = "dispatching" THEN [approvalStatus EXCEPT ![a] = outcome] ELSE approvalStatus
  /\ Finish(r)
  /\ UNCHANGED <<overdue, approver, manifest, chain, planRuns, cutShort, toldReady>>

(***************************************************************************)
(* Time and failure                                                        *)
(***************************************************************************)
\* expires_at matters only while the row is pending.
DeadlinePasses(a) ==
  /\ approvalStatus[a] = "pending"
  /\ ~overdue[a]
  /\ overdue' = [overdue EXCEPT ![a] = TRUE]
  /\ UNCHANGED <<approvalStatus, approver, manifest, chain, request, planRuns, cutShort, toldReady>>

\* Mutant: the timer spares the rows an officer is still looking at.
ExpireUnattended ==
  /\ \E a \in Approvals : approvalStatus[a] = "pending" /\ overdue[a] /\ ActiveSteps(chain[a]) = {}
  /\ approvalStatus' = [a \in Approvals |->
       IF approvalStatus[a] = "pending" /\ overdue[a] /\ ActiveSteps(chain[a]) = {}
       THEN "expired" ELSE approvalStatus[a]]
  /\ UNCHANGED <<overdue, approver, manifest, chain, request, planRuns, cutShort, toldReady>>

\* The five-minute timer.
ExpirePending ==
  /\ \E a \in Approvals : approvalStatus[a] = "pending" /\ overdue[a]
  /\ approvalStatus' = [a \in Approvals |->
       IF approvalStatus[a] = "pending" /\ overdue[a] THEN "expired" ELSE approvalStatus[a]]
  /\ UNCHANGED <<overdue, approver, manifest, chain, request, planRuns, cutShort, toldReady>>

\* The process restarts; every suspended handler is gone.
Crash ==
  /\ \E r \in Requests : request[r] # Idle
  /\ request' = [r \in Requests |-> Idle]
  /\ cutShort' = cutShort \cup HeldRows
  /\ UNCHANGED <<approvalStatus, overdue, approver, manifest, chain, planRuns, toldReady>>

ExecuteStep(r) ==
  \/ ManifestRejected(r)
  \/ \E registered \in BOOLEAN : CreateApproval(r, registered)
  \/ DuplicateCreate(r)
  \/ \E t \in Templates : CreateChain(r, t)
  \/ ChainCreationFails(r)

DispatchStep(r) ==
  \/ ReleaseDenied(r)
  \/ ReleaseGranted(r)
  \/ \E outcome \in {"dispatched", "dispatch_failed"} : FinishDispatch(r, outcome)

Next ==
  \/ \E r \in Requests :
       \/ ExecuteStep(r)
       \/ DispatchStep(r)
       \/ \E a \in Approvals : StartExecute(r, a)
       \/ \E a \in Approvals, dry \in BOOLEAN : StartDispatch(r, a, dry)
  \/ \E a \in Approvals : CreateByMcp(a) \/ CreateWebhook(a) \/ DeadlinePasses(a)
  \/ \E a \in Approvals, u \in Users, verdict \in {"approved", "rejected"} :
       \/ \E s \in DOMAIN chain[a] : DecideStep(a, u, s, verdict) \/ DecideStepThenCrash(a, u, s, verdict)
       \/ DecideLegacy(a, u, verdict)
  \/ ExpirePending
  \/ Crash

\* The timer keeps firing.  Nobody is obliged to send a request, and nothing is
\* asked of the calls a handler waits for.
Fairness == WF_vars(ExpirePending)

Spec == Init /\ [][Next]_vars /\ Fairness

(***************************************************************************)
(* Properties                                                              *)
(***************************************************************************)
\* The variables keep their types: a chain holds the columns of its rows for
\* some of the step names.
TypeOK ==
  /\ approvalStatus \in [Approvals -> Statuses]
  /\ overdue \in [Approvals -> BOOLEAN]
  /\ approver \in [Approvals -> Users \cup {NoUser}]
  /\ manifest \in [Approvals -> BOOLEAN]
  /\ chain = [a \in Approvals |-> chain[a]]
  /\ \A a \in Approvals : DOMAIN chain[a] \subseteq Steps /\ chain[a] \in [DOMAIN chain[a] -> StepRow]
  /\ request \in [Requests -> [pc : Pcs, approval : Approvals \cup {NoApproval}, dry : BOOLEAN]]
  /\ planRuns \in [Approvals -> Nat]
  /\ cutShort \subseteq Approvals
  /\ toldReady \subseteq Approvals

\* The frontier of a chain.  Every lower order of an active step is approved
\* and every higher one still waits; a waiting step has an active one before
\* it; after a rejection nothing is active or waiting; only a rejection
\* skips steps.  So a chain never runs two order groups at once, never gets
\* stuck half-way and never activates a step beyond a rejected one.
Before(c, s, t) == c[s].order < c[t].order
HasRejection(c) == \E s \in DOMAIN c : c[s].status = "rejected"

FrontierIsOneGroup(c) ==
  \A s, t \in DOMAIN c :
    c[t].status = "active" =>
      /\ Before(c, s, t) => c[s].status = "approved"
      /\ Before(c, t, s) => c[s].status = "pending"

PendingWaitsForActive(c) ==
  \A s \in DOMAIN c : c[s].status = "pending" =>
    \E t \in ActiveSteps(c) : Before(c, t, s)

RejectionEndsChain(c) ==
  \A s \in DOMAIN c :
    /\ c[s].status \in {"active", "pending"} => ~HasRejection(c)
    /\ c[s].status = "skipped" => HasRejection(c)

ChainFrontier ==
  \A a \in Approvals :
    /\ FrontierIsOneGroup(chain[a])
    /\ PendingWaitsForActive(chain[a])
    /\ RejectionEndsChain(chain[a])

\* Four eyes: what leaves "pending" towards a dispatch on the word of anybody
\* but an admin has a chain and every step of that chain is approved,
\* whatever happened between the row, its chain and the decide requests.
ReleasedStatuses == {"approved", "dispatching", "dispatched", "dispatch_failed"}

SignOff ==
  \A a \in Approvals :
    /\ approvalStatus[a] \in ReleasedStatuses
    /\ RoleOf[approver[a]] # AdminRole
    => /\ chain[a] # NoChain
       /\ \A s \in DOMAIN chain[a] : chain[a][s].status = "approved"

\* consumeForDispatch is a lock: at any time at most one handler is between
\* its compare-and-swap and the closing mark of a row, and the row is
\* "dispatching" throughout, so the mark is never skipped or applied twice.
SoleDispatcher ==
  \A r \in Requests : Dispatching(r) =>
    /\ approvalStatus[request[r].approval] = "dispatching"
    /\ \A q \in Requests \ {r} : Dispatching(q) => request[q].approval # request[r].approval

\* A plan reaches the connectors at most once in the life of its row, over
\* any number of dispatch requests, retries of them, and crashes.
OneRun ==
  \A a \in Approvals :
    /\ planRuns[a] <= 1
    /\ planRuns[a] = 1 => approvalStatus[a] \in {"dispatching", "dispatched", "dispatch_failed"}

\* A row nobody is asked to move: its chain is over and it is still pending,
\* or it is "dispatching" and no handler holds it.  It gets there only when a
\* handler stopped between its two writes (a crash, or a denied release).
Stalled(a) ==
  \/ approvalStatus[a] = "pending" /\ chain[a] # NoChain /\ ActiveSteps(chain[a]) = {}
  \/ approvalStatus[a] = "dispatching" /\ a \notin HeldRows

StallsHaveACause == \A a \in Approvals : Stalled(a) => a \in cutShort

\* Once the deadline has passed a pending row can only expire: neither the
\* chain nor an admin approves or rejects it any more.
NoLateDecision ==
  [][\A a \in Approvals :
       approvalStatus[a] = "pending" /\ overdue[a] => approvalStatus'[a] \in {"pending", "expired"}]_vars

\* Seen through the approvals table alone, every behaviour is one of the
\* lifecycle of ops/SYSTEM-GUIDE.md.
ImplementsLifecycle == Lifecycle!Spec

\* The maintenance timer reaches every overdue row, stalled or not.
OverdueRowsClose ==
  \A a \in Approvals : (approvalStatus[a] = "pending" /\ overdue[a]) ~> (approvalStatus[a] # "pending")

\* What engine/chainStore.ts:12-13 says of a rejection ("Rejection at any step
\* makes the entire approval "rejected" (terminal ...)"): an approval with a
\* rejected step never goes out.  The code does not keep this.
RejectionIsTerminal ==
  \A a \in Approvals : HasRejection(chain[a]) => approvalStatus[a] \notin ReleasedStatuses

\* What ops/runbooks/approvals.md:201 says of a duplicate requestId ("returns
\* the existing approval"): a replayed governed request is never answered as
\* if nothing were gated.  The route falls through to its ungated answer.
ReplayStaysGated == toldReady = {}
=============================================================================
