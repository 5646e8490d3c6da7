# PuddleJumper: a TLA+ verification project

This directory holds TLA+ models of the stateful core of PuddleJumper (the API
server under `src/apps/puddlejumper` and its packages), the TLC configurations
that check them, and TLAPS proofs of their main safety properties.  Modules are
translated from the code.  Where a document or a comment says something else,
the disagreement is listed under [Findings](#findings); the three that take a
particular order of events to show have a run of their own.

    tlc -workers 2 -config MCApprovalGate.cfg MCApprovalGate      # check
    tlapm ApprovalGateProofs.tla                                  # prove

Contents: [the system](#the-system), [what is modelled](#what-is-modelled),
[runs and bounds](#runs-and-bounds), [fairness](#fairness),
[proofs](#proofs), [findings](#findings),
[limits](#what-is-not-modelled), [plan](#plan).

## The system

PuddleJumper governs municipal actions.  A caller submits an intent to
`POST /pj/execute`; the governance engine evaluates it once per request id; an
approved action that has to be governed becomes a row of the `approvals` table
with a chain of officers beside it; officers decide their steps; an approved row
is dispatched to connectors (GitHub, webhooks, SharePoint); every step of this
leaves an event in ARCHIEVE, a hash-chained log.  Around that core sit feed
synchronisation, case pipelines, sessions, signing keys, requests from the
public, alerts and a good deal of CRUD.

    caller -> /pj/execute -> engine.evaluate -> idempotency table
                    |              \-> policy provider (local, or vault over HTTP)
                    v
              approvals + approval_chain_steps  <- officers: /approvals/:id/decide
                    |                           <- five-minute maintenance timer
                    v
              /approvals/:id/dispatch -> dispatchPlan -> connectors
                    |
                    v
              ARCHIEVE log -> queue.db -> delivery loop -> archieve_delivered

    browsers <-> logic-commons: OAuth login, refresh tokens    (Sessions)
    sources -> SYNCRONATE feed jobs -> records, sinks           (FeedSync)
    public -> requests -> notification queue -> webhook         (RequestDesk)
    FormKey, LogicBridge, SYNCRONATE -> SEAL sign / verify      (SealKeys)
    cases -> pipeline verdicts -> holds -> people               (CaseHolds)

The machines of the second picture meet the first only through ARCHIEVE events
and shared middleware; none reads another's tables, which is why each is a module
of its own and only three are composed, each with what it promises: the gate with
its lifecycle, the sessions with theirs, and the ARCHIEVE chain with its log.

### Concurrency of the code

The server is one Node process; SQLite is called synchronously
(better-sqlite3).  A handler therefore runs alone from one `await` to the next,
and an action of a model is exactly such a stretch of code.  What makes the
system hard is what lies between the stretches:

- two handlers interleave at their awaits (policy provider, canonical source,
  connectors, polling), each going on with what it read before;
- the process may die between two SQL statements or at any await: what was in
  memory (suspended handlers, the `inFlight` map, the chain tails) is gone, the
  rows are not, and most pairs of writes share no transaction;
- deadlines pass while nobody looks, and timers run minutes later;
- deliveries fail and are retried, in an order of their own.

With the built-in policy provider some of these awaits resolve in the same
turn of the event loop; with a remote one (`VAULT_URL`) each is a network call.
The models take every await as a point where others may run.

### Components

| component | state | operations | hard behaviour | what makes it correct | status |
|---|---|---|---|---|---|
| Approval gate (`engine/approvalStore.ts`, `chainStore.ts`, `api/routes/approvals.ts`, `governance.ts`, `webhookAction.ts`, `api/mcp.ts`) | `approvals`, `approval_chain_steps`, templates | create (three ways), decide, dispatch, expire | row and chain written in separate statements; compare-and-swap held across awaits; late timer; replays | chain frontier, sign-off of every step, one dispatcher, one run, no late decision, known causes of stalls | modelled, except template CRUD |
| Idempotency and governance engine (`engine/idempotencyStore.ts`, `governanceEngine.ts`) | idempotency table, `inFlight` promises | claim, poll, storeResult, abandon, prune | overlapping calls, rows that outlive their process, TTL passing during an evaluation | one evaluation per id, nobody gets another payload's answer, every call settles | protocol modelled; the checks inside one evaluation are a choice |
| Dispatch pipeline (`engine/dispatch.ts`, `dispatchers/*`) | none of its own; remote effects | steps in order, retries with back-off | lost answers, retry of what was done, partial plans | what is reported dispatched was done, effects repeated at most once an attempt, the run ends | modelled; Google, Slack and SharePoint make no calls yet |
| ARCHIEVE (`archieve/*`) | chain tails in memory, `archieve_queue`, `archieve_delivered` | log, deliver, restart, verify | volatile tail beside durable queue; overtaking deliveries | no event lost or doubled, one chain, every event leads back to genesis | log, delivery, restart, verification modelled |
| SYNCRONATE (`syncronate/*`) | `syncronate_jobs`, `syncronate_records`, the cursor of a feed | activate and pause, sync by hand, by timer and by webhook, retry-sinks | jobs of one feed overlap, cursor saved before the sinks, crash in the middle of a batch | the cursor passes nothing unwritten, what a sink lacks is owed by a job that says so, jobs end | one feed's jobs modelled |
| Pipeline holds (`packages/pipeline`) | `holds`, `case_space_action_state`, `audit_events` | seedRulePack, runPipeline, resolveHold | several holds over one row, events written after the transaction | rows follow the newest hold, money moves on somebody's word, one proof per change | one case space modelled |
| Sessions (`logic-commons`) | `refresh_tokens`, `oauth_state`, cookies | login, refresh, logout, revoke all | overlapping requests, lost answers, crash inside a rotation | one live token per family, no reopening, nobody quiet taken for a thief | one user modelled |
| Policy providers (`policyProvider.ts`, `remotePolicyProvider.ts`, `packages/vault`) | manifests, audit ledger | authorise, manifest, template, release | remote failure, "degraded mode" | the gate's properties whatever the provider answers | seen through the gate |
| SEAL (`seal/*`) | private keys in memory, `seal_keys`, a cache of public keys | start, sign, verify, rotate, provision | private keys come from the environment of the next start; a signature waits for its timestamp | seals go on verifying; the key served is the one that signs | modelled |
| SYNCHRON8 flows (`civic/synchron8`) | flows, subscriptions | activate, dispatch event | one failing flow among several | every active flow of an event runs | not modelled |
| Public and access requests (`prrStore.ts`, `routes/prr.ts`, `routes/access.ts`), notification worker (`accessNotificationWorker.ts`) | requests, audit rows, `access_request_notification` | intake, transition, close; claim, post, mark | overlapping passes of the worker, webhook that takes a message and does not say so, crash after a claim | trail, row and queue agree; one pass per notification; delivered is final; every one settles | modelled; the StayOS automation worker, which claims rows in the same way, is not |
| WATCHLAYER, LogicBridge, FormKey | alerts, definitions, intakes | synchronous row updates | two-statement writes | row invariants | not modelled |
| Escalation, workspaces and tiers | a column; counters | no caller; limits all -1 | none reachable at this commit | - | not modelled |
| Kill switch, rate limits, shared libraries, CRUD stores, user interfaces, CivicPulse | counters or none | guards, reads, forms | none | - | not modelled |

`PROJECT.json` lists all components with their files, and under `hazards` each
hard-to-test spot of the code with the properties that watch it.

## What is modelled

### ApprovalGate and ApprovalLifecycle

`ApprovalGate` is the gate as the code runs it.  Its variables are columns and
memory: `approvalStatus`, `approver` and `manifest` are columns of `approvals`;
`overdue` says whether the clock has passed `expires_at`; `chain` maps a row to
its `approval_chain_steps`; `request` holds the handlers suspended at an await.
Three history variables take no part in any guard: `planRuns` counts real
hand-overs of a plan, `cutShort` collects the rows whose handler stopped between
two writes, `toldReady` the rows whose caller was answered as if ungated.

| action | code |
|---|---|
| `StartExecute`, `ManifestRejected`, `CreateApproval`, `DuplicateCreate`, `CreateChain`, `ChainCreationFails` | `POST /pj/execute` between its awaits: registerManifest, INSERT, getChainTemplate, createChainForApproval |
| `CreateByMcp`, `CreateWebhook` | the MCP tool (no chain) and the governed webhook action (default chain, no await) |
| `DecideStep`, `DecideStepThenCrash`, `DecideLegacy` | `POST /approvals/:id/decide`: chain transaction, then `approvalStore.decide`; the crash between the two; the path for approvals without an active step |
| `StartDispatch`, `ReleaseDenied`, `ReleaseGranted`, `FinishDispatch` | `POST /approvals/:id/dispatch`: compare-and-swap, authorizeRelease, dispatchPlan, closing mark |
| `DeadlinePasses`, `ExpirePending`, `Crash` | the clock, the five-minute timer, the end of the process |

A webhook that dies between its INSERT and its chain leaves the same state as
`CreateByMcp`, so it is no action of its own.  Chains are built from any
template that passes the template checks (`Dense`); the code of `decideStep` is
`RejectStep`, `ApproveStep` and `CompletesChain`.

`ApprovalLifecycle` is what the gate promises to a reader of the approvals table
alone: the arrows of `ops/SYSTEM-GUIDE.md` and a plan that runs at most once.
The refinement is the identity on `approvalStatus` and `planRuns`; both TLC and
TLAPS show it (`ImplementsLifecycle`).

Properties: `ChainFrontier` (a chain runs one order group at a time, never gets
stuck half-way, never revives after a rejection), `SignOff` (released by a
non-admin means every step approved), `SoleDispatcher`,
`StallsHaveACause` (a row nobody is asked to move was left by a crash or a
denied release, by nothing else), `NoLateDecision`, `OverdueRowsClose`.  The types and `OneRun` (a plan is handed over once) are
theorems and need no run.

### Idempotency

The store as `evaluate` uses it.  `row` is the table, `inFlight` the map of open
promises, `call` the calls of evaluate: evaluating, joined to a promise, polling
a row left by an earlier process, or answered.  `Claim` is `claim` with the
`pruneExpired` it starts with; `Poll` and `PollTimesOut` are
`waitForCompletedRow`; `StoreResult`, `StoreFindsNoRow`, `PersistFails` and
`Abandon` are the ends of an evaluation.  As in the code these act on the row and
the promise of the *id*, whoever they belong to by then.  A promise rejected
while nobody awaits it is an unhandled rejection, which ends the process under
Node 20; `crashing` marks that moment, and `Restart` follows.

The histories `outlived` (an entry's TTL passed during its evaluation) and
`persistFailed` (the statement that ends an evaluation threw) name the two
situations in which the store promises less; the properties exempt exactly those
ids and nothing else.

Properties: `OneEvaluation`, `OwnAnswers`, `JoinedHaveAnOwner`,
`StoredResultsStand` and `VerdictsAreOnRecord` (a verdict that was stored stays
until its TTL, and none leaves the engine that was not stored: `evaluate` returns
through a `finally` that may throw), `CallsSettle`.

### DispatchPlan

One run of `dispatchPlan`.  `plan` and `dry` are its arguments, `results` what it
has pushed, `attempt` the counter of `dispatchWithRetry`, `call` the fetch the
current step awaits (with the file it is about), `remote` what each step has done
to its repository or endpoint so far.  One action per call of the GitHub
dispatcher (`FetchRepo`, `FetchRef`, `CreateBranch`, `PutFile`, `LookAtFile`,
`UpdateFile`, `OpenPr`; `LookAtDefault`, `CommitToDefault`) and of the webhook
dispatcher (`SendWebhook`); `SettleWithoutCall` is every way a step ends without
one (skipped, refused, dry run, stub).  `Settle` pushes a result, `FailTransiently`
starts the step over from its first call while attempts remain.

The services are external.  An answer is `ok`, `torn` (an ok status whose body
cannot be read), `refused`, `server` (5xx) or `lost` (fetch threw); after
`server` and `lost` the effect may or may not have happened.  A repository starts
with any of the branch and the files already there, old ones included.  Which
failures are repeated follows `isTransientFailure`, which reads the text of the
error: a repository or file whose own name contains one of its words
("timeout", "network") is left out.

Properties: `DispatchedMeansDone`, `PrsAreComplete`, `OnceAnAttempt`,
`PlanEnds`; that a dry run touches nothing is a theorem.

`DispatchPlan` is what happens between `ReleaseGranted` and `FinishDispatch` of
the gate, which counts the whole run as one in `planRuns`.

### ArchieveChain and EventLog

`tail` is `chainTail`/`chainLength` in memory, `queue` and `delivered` the two
tables of `queue.db`.  `Log` is `log` (position, predecessor, hash, INSERT, new
tail), `DeliverOne(t, i)` the transaction that moves entry `i` after the ones
before it failed in the round, `Restart` is `initArchieve`, which restores the
tails from delivered events.  A hash names the event it covers and whether the
`hmac` field was set when it was computed: enough to tell the hash `log` stores
from the one `verifyChain` recomputes.  `verifyChain` and `MainDelivered` are
what `POST /api/archieve/verify` does.  The histories `forked` and `overtaken`
hold the tenants whose chain a restart or a failing delivery has disturbed.

`EventLog` is the promise without hashes, "an ARCHIEVE event that cannot be
modified after the fact" (`docs/USER_GUIDE.md:64`): a tenant's trail grows by one
accepted event at a time, and what was accepted waits until it is on the trail, whole and
once.  The delivered table is the trail and the contents of the queue's rows
(`Waiting`) are what waits; `KeepsTheLog` is the refinement.

Properties: `NoEventLost`, `OneChain`, `LeadsBackToGenesis`, `KeepsTheLog`,
`EventsAreDelivered`.

### FeedSync

One feed.  `source` is the external system's table (the last change of each
record), `cursor` the saved time stamp, `store` the change each row of
`syncronate_records` holds, `jobs` the rows of `syncronate_jobs` together with
the call of `runSyncJob` behind each, `received` what reached each sink.

| action | code |
|---|---|
| `SetFeedStatus` | activate, pause, retire |
| `StartSync`, `RetrySinks` | `POST /sync`, the timer of `scheduleFeed` and the webhook; `POST /jobs/:id/retry-sinks`.  `runSyncJob` up to its first await |
| `Answer`, `FetchFails` | the source answers with a page of changes, or does not |
| `Receive`, `ReceiveFails`, `DeliveryNotBegun` | from the answer to the first sink: transform, filter, write, save the cursor; a statement throws before the cursor is saved, or after it |
| `Reach`, `SinkAccepts`, `SinkFails` | rows arrive at a sink; the answer, success or not |
| `ClosingFails` | the sinks are through and the statement with the final status throws, or the one on the feed's row after it |
| `SyncCrash` | the process dies, possibly in the middle of the writes |

Whatever throws inside the `try` of `runSyncJob` comes to one catch, which writes
`failed` (`FailJob`): over `partial` and `completed` as well, and whether or not the
cursor has moved on.  If that statement throws too, the row stays as it is and the
runner is gone (`Stopped`), as it is after a crash.  A job remembers the page it
owes its sinks only from the moment the cursor is saved (`Left`).  What throws
before the `try` (`sync-engine.ts:75-88`) leaves a queued or running row that has
fetched nothing; no action stands for it.

Nothing keeps two jobs of a feed apart, so each works from the cursor it read at
its start.  The history `overlapped` says that this happened, and `newest`
remembers the newest change a row ever held: overlapping jobs may put an older
change back, and `NothingMissed` says precisely that and nothing worse.

`SyncInit`, `SyncNext`, `SyncTypeOK` and their like are named for the module, so that
`WorkersProofs` can extend it beside `RequestDesk`.

Properties: `NothingMissed`, `UndeliveredHasACause` (a change behind the cursor that a
configured sink lacks is with a job that is serving it, says partial, says failed
though the cursor had moved on, or was cut off), `SinksFollowStore` (a sink never
has a change that a rule dropped or that the store has not got), `JobsEnd`.

### Sessions and SessionLife

One user with several browsers.  `tokens` is `refresh_tokens`, `states` is
`oauth_state`, `cookie` what each browser holds, `requests` what is on its way: a
request carries the cookie of the moment it was sent, and its answer changes the
cookie when it arrives, if it does.  The routes of `routes/login.ts` and
`lib/oauth.ts` are `Consume`, `LoginFails`, `CreateSession`, `Rotate`,
`DetectReuse`, `RefuseExpired`, `Logout` and `RevokeAll`; browsers and network
are `Send*`, `Arrive` and `Lose`.  `Crash` may come between the INSERT and the
UPDATE of `rotateRefreshToken` (the history `torn` holds that family).

`SessionLife` is the promise without tokens: a login permit opens one session, an
open one may close, a closed one stays closed.  A family is mapped to "open"
while it has a live token; `LivesAsPromised` is the refinement.

Properties: `OneLivePerFamily`, `QuietBrowsersAreTrusted` (a browser that never
overlaps requests and gets its answers is never told `token_reuse_detected`),
`LivesAsPromised`.

### RequestDesk

`status`, `closedAt` and `audit` are the columns and audit tables of `prr` and
`access_request`; `notes` is `access_request_notification`; `pass` holds what
each running pass of the worker has still to post.  `Intake`, `Transition` and
`Close` are one transaction each.  `StartPass` is the claim, `Deliver`, `Fail`
and `GiveUp` the three ways the body of the loop ends (an error of the catch
block itself leaves the loop), `Arrive` the webhook, `ComeDue` the back-off,
`Crash` the process.

Properties: `TrailAgrees`, `HeldOnce`, `NoTryUncounted` (the webhook takes a
notification no more often than its row says, and none is given up with a try
left), `DeliveredIsFinal`, `NotesSettle`.

### SealKeys

A key is the number of its key pair, a key id a tenant and a version.  `rows` is
`seal_keys`, `active` and `cache` the two maps of `key-store.ts`, `stamping` the
calls of `sign` that wait for the timestamp authority, `issued` the tokens handed
out.  `Start` is `initKeyStore` under any environment: the newest key of a tenant,
an older one, a foreign one or none.  Once the private key is in memory a start has
three outcomes for a tenant: its row is there and the other versions are read into
the cache (`restored`); the INSERT throws (`unrecorded`); or the SELECT after it
(`unread`).  The catch of the loop takes nothing back, so a tenant without rows
then signs under version 1 with no row to say so, and the next rotation takes
version 1 again.  `Rotate` is `rotateKey` (the provisioner calls it too),
`RotateHalfway` its failure between UPDATE and INSERT.

Three histories say whose seals nobody can promise.  `misset` collects the key ids a
process started under with a key that is not theirs; `unrecorded` the key ids and
keys that signed without a row, which matters until that row comes (`RowLost`);
`restored` holds the tenants whose key the running process found and whose rows it
read, as only they can verify older versions.

Properties: `SealsVerify`, `OneKeyPerId` (two tokens under one key id were made with
one key), `ServedKeySigns`; each names its exemptions in these terms.

### CaseHolds

One case space under one scope.  `pack` is the active rule pack, `state` the row
of `case_space_action_state` of each action, `holds` the holds by run and action,
`runs` and `proofs` what runs and resolutions left, `call` the call between its
transaction and its proof event.  `Verdict` is `decideVault` for one action,
`Persist` is `persistDecision`, `Output` and `ProveRun` the rest of
`runPipeline`, `Resolve` and `ProveResolution` are `resolveHold`, and `Cut` ends a
call after what it committed.  Calls are synchronous, so one runs at a time.  A
run without a module or an environment finds no pack and goes by the floor; it
writes under the pack's name as module, so the model describes scopes whose
module has that name, the case in which both kinds of run share their rows.
The histories `verdict` and `resolved` hold, of each action, the last verdict a run
persisted and the hold resolved last since then: the row must say what these two say.

Properties: `StateFollowsHolds`, `MoneyIsApproved`, `ChangesAreProved`.

## Runs and bounds

| run | shows | bounds, and why they are enough |
|---|---|---|
| `gate` | four safety invariants, an action property, the refinement and that overdue rows close | 1 approval, 3 requests, 3 users, 2 templates.  Rows never read each other; what meets at a row is requests and officers.  Three requests put an execute, its replay and a dispatch, or three dispatches, on one row.  The templates are the built-in one-step one and a four-step one: a parallel group, then two single ones.  The theorems cover any number of each. |
| `idempotency` | three invariants, two action properties and that calls settle | 1 id, 2 payloads, 2 schema versions, 3 calls: an owner, one that waits for it, one that comes later.  Ids meet only when the process ends, which `Restart` and `crashing` cover with one. |
| `dispatch` | three invariants and termination | 4 plans with every kind of step, 2 files, 3 attempts (the policy of `server.ts`): a first file, a next file and the end of the files differ, and so do a first, a middle and a last attempt.  Steps meet only in their order: two steps with calls in one plan are enough. |
| `archieve` | three invariants, the refinement and delivery | 2 tenants, queue depth 3, 4 events: a restart and an overtaking delivery can fall before, between and after others, and the depth can be reached.  Tenants share nothing but that depth. |
| `sync` | three invariants and that jobs end | 2 records, a configured and an unconfigured sink, 2 changes, 2 jobs, 1 crash: an older job can write after a newer one, a batch can be cut in its middle, and a statement can throw in one job before and after the other saves its cursor. |
| `sessions` | two invariants and the refinement | 2 browsers, 2 requests on their way, 3 tokens, 2 logins: a rotation, its replay and a second family.  Browsers and request slots are interchangeable, so this run uses symmetry; it checks no liveness. |
| `desk` | three invariants, an action property and that notifications settle | a request of each kind, 2 tries, batches of 2, 2 passes, 1 crash: a close beside its intake's notification, and the pass of a slow webhook beside the next one. |
| `seal` | three invariants | 1 tenant (tenants share nothing), 4 key pairs, 4 starts: rotate, restart with the old key, rotate again; start without a row, rotate to the same key id, restart with the first key. |
| `holds` | three invariants | 2 actions of `finance.biz`, its own rules and looser ones, amounts at and under the threshold, 2 runs (it also passes with 3): two holds over one row. |
| `rejection_terminal`, `replay_gated`, `archieve_gaps` | one documented statement each that the code does not keep | the same instances (the gate's with 2 requests) |

Bounds of the models that the code does not have: `MaxEvents`, `MaxFiles`,
`MaxChanges`, `MaxJobs`, `MaxTokens`, `MaxStates`, `MaxKeys`, `MaxStarts`,
`MaxRuns`, `MaxCrashes`, `MaxSyncCrashes`, `Passes` and `Requests`; each occurs in a guard or sizes
a set of slots.  No state constraint and no view is used.  Deadlock is checked in
`gate`, `idempotency`, `dispatch`, `archieve` and `sessions`.  In `sync`, `desk`,
`seal` and `holds` nothing is left to do once the bounded changes, requests, keys
or runs are used up and everything has settled, so there it is not.

The type invariants are theorems only and not repeated in the runs, which they would
slow down and show less.  Each property of a passing run has a mutant in `PROJECT.json`: a plausible slip in one mapped definition that
makes TLC report that property.

## Fairness

Users are never obliged to act.  What is assumed is what the process does by
itself:

- *Gate.*  The maintenance timer fires (`WF` of `ExpirePending`).  Of handlers
  nothing is assumed: no property of the gate needs them to end.
- *Idempotency.*  Evaluations end: the policy client aborts each try after 5 s and
  stops retrying, and the canonical source is given 3 s; polling is a timer with a
  deadline of 5 s; a process with an unhandled rejection exits and is started
  again.
- *Dispatch.*  Every fetch ends in an answer or an exception and every back-off is
  a timer (`WF` of `Progress`); the run ends because attempts are counted.
- *ARCHIEVE.*  The delivery loop runs every 5 s over the oldest entries, and the
  oldest entry of a tenant is delivered in the end (`WF` of `DeliverOne(t, 1)`):
  delivery is a local SQLite transaction.  Failures are allowed any number of
  times, just not for ever.
- *SYNCRONATE.*  A running job's await is settled: `fetch` has limits of its own
  on headers and body, the rest is synchronous (`WF` of `Progress` per job).
  Nobody owes a start, and no sink owes a success.
- *Requests.*  The worker's timer fires, a due date passes, an await of `fetch`
  ends (`WF` of `StartPass`, of `ComeDue` per notification and of `Settle` per
  pass).  `Settle` includes failing every time: what ends is the counting of tries.
- `Sessions`, `SealKeys` and `CaseHolds` state safety only and assume no fairness.

## Proofs

Proofs are in modules of their own; every statement holds for all values of the
constants that satisfy the assumptions below.

Assumptions: `RolesAssumption` (the distinguished values are outside the sets),
`PlansAssumption` (plans are sequences of steps of the known kinds, a policy
allows at least one attempt), `TemplatesAssumption` (templates are non-empty, finite orders from 0 without
gaps, which `createTemplate` and `updateTemplate` check), `BoundsAssumption`
(depth and number of events are naturals) and `DistinctAssumption` of
`Idempotency` (answers and rows differ from the placeholders), `SealAssumption`
(bounds are positive), `CaseAssumption` (needs and ceilings are on the ladder;
what moves money needs more than its lowest rung, as every such action of
`PACK_ACTIONS` does; `None`, which stands for a row that is not there, is no
status), `SessionAssumption`, `DeskAssumption` (requests of the two kinds have
different ids; retries and batch size are positive, as the worker's configuration
reads them) and `FeedAssumption` (a feed has a sink; bounds are naturals).  TLC
evaluates them on the instances.

| module | proves about |
|---|---|
| `ApprovalGateProofs` | `ApprovalGate`, `ApprovalLifecycle` |
| `IdempotencyProofs` | `Idempotency` |
| `DispatchPlanProofs` | `DispatchPlan` |
| `ArchieveChainProofs` | `ArchieveChain`, `EventLog` |
| `SealKeysProofs` | `SealKeys` |
| `CaseHoldsProofs` | `CaseHolds` |
| `SessionsProofs` | `Sessions`, `SessionLife` |
| `WorkersProofs` | `RequestDesk` and `FeedSync`, which it both extends |

Every invariant and action property of a passing run is a theorem that states it by
name, and so is every refinement.

**ApprovalGateProofs.**  `TypeCorrect` first, with `References`: a suspended
request names an approval, and a chain belongs to a row that exists.  Then the chain: `ChainFrontier` is not inductive, as
it says nothing of a chain whose steps have orders with gaps; the invariant
`GoodChains` adds the density of orders that `InstantiateChain` inherits from
the template, and lemmas show that `RejectStep` and `ApproveStep` keep it.  With it
`SignOff` is inductive: when `CompletesChain` reports the end every step is
approved (`CompletionApprovesAll`), a chain with no active step is never written
again, and a chain is created only for a row that has none.  `SoleDispatcherHolds` and
`OneRunHolds` rest on `DispatchInv`: the two themselves, plus the fact that a
plan whose release is still being checked has not run.  Without it a granted
release could be a second run.  `StallsHaveACauseHolds` uses both.  `NoLateDecisionHolds` and
`GateImplementsLifecycle` are step-wise consequences: each action maps to an
action of the lifecycle or to a stutter.

**ArchieveChainProofs.**  The argument is over a tenant's line, delivered events
followed by queued ones.  `Log` appends to it, `DeliverOne` permutes it (and
leaves it alone for the oldest entry), `Restart` does not touch it.
`NoEventLost` needs `IdsGivenOut` (no event carries an id not yet given out), so
that a new event is a new one; `LeadsBackToGenesis` needs in addition `TailHeld`
(the event a tail names is on the tenant's line), which `Restart` restores from
the last delivered event.  `OneChain` is inductive by itself: a tenant that a
restart leaves undisturbed has an empty queue, so the restored tail is the end of
its line.  `ChainKeepsTheLog` is the refinement: `LogAccepts` needs `IdsGivenOut`
again, as `EventLog` accepts no id twice; `DeliveryStores` needs `NoEventLost`, for
taking one row from the queue takes its event from what waits only if no other row
holds the same (`RowsDiffer`); a restart is a stutter, whatever it does to the tails.

**DispatchPlanProofs.**  A call must remember what the step has achieved: the
strengthening `CallOk` says, for each kind of awaited call, which part of the
work is done by then (the branch exists, the files before the current one carry
the plan's contents).  It survives retries because a step never takes anything
back from its repository: lemmas show that every call leaves what was there and
touches the current step's entry only.  `DispatchedMeansDone`, `PrsAreComplete`
and `OnceAnAttempt` then hold at each `Settle`; the dry-run property needs that
a dry run is always at `Begin`, so that no action with a call is enabled.

**SealKeysProofs.**  The invariant says of every token, handed out or waiting, that
the row of its version has the key it was signed with, unless that key id is in
`misset` or the token is in `unrecorded` (`Known`); and the same of the cache of a
process that found its tenant's key and read its rows (`CacheMatches`).
`Start` is the heart of it: the newest id is bound to the environment's key, which
is the row's or else puts the id into `misset`, and where there is no row the INSERT
makes it or its failure puts the key into `unrecorded`.  `ServedKeySigns` needs two
more parts: no tenant has more versions than keys were made (`RowsBounded`), and what
signs is known and is what the cache holds under that version (`ActiveMatches`).
`OneKeyPerId` follows from the first part: a row's key never changes, so tokens of
different processes that agree with the row agree with each other.

**CaseHoldsProofs.**  `MoneyIsApproved` is inductive beside the types, because a
run clears only what is allowed, and what moves money is allowed neither by the
floor nor under a pack that forbids it; a pack, once active, stays.
`ChangesAreProved` needs `Unproved`: a hold that waits, or whose resolution is
between its transaction and its event, has no event and was not cut short before.
Without it a resolution could meet an event of the same hold that says something
else.  `StateFollowsHolds` is inductive beside the types and `HasNewest` (an action
with a hold has one of the latest run): `Newest` is a CHOOSE, and only with a
maximum does it name the hold a step adds or leaves alone.  `Follows` states it of
one action; a run that decides sets it anew for every action (`PersistFollows`), a
resolution for its own and leaves the others alone (`ResolveFollows`).  The proof
brought up an assumption nobody had written down: `None` must be neither a status
nor a hold, or an action without a row would count as pending.

**IdempotencyProofs.**  The invariant `Sound` is a predicate of three arguments,
the table, the map and the calls, because `claim` prunes first and acts on what
pruning left.  `PruneKeeps` shows that pruning keeps it and `LookupFinds` what the
claim then sees; each is used in the place of the values it is about.
`OneEvaluation` is not inductive: it needs that a promise in the map has its row
and an evaluation behind it (`FlightsHaveOwners`), or a pruned id could be claimed
while it is evaluated.  `OwnAnswers` needs that who waits sent the payload of the
promise (`JoinedMatch`) and that a stored result is of its row's payload and schema
(`ResultsFit`).  `StoredResultsStand` is a step-wise consequence: nobody evaluates
an id whose result is stored, so nobody stores a second one.  `VerdictsAreOnRecord`
has one step per way to an answer: a replay reads the row it is about
(`ProceedAnswers`), a waiter gets what settles its promise (`SettledAnswers`), which
is a verdict only in `StoreResult`, and every other end is a refusal.  It needs no
exemption: an evaluation that outlived its entry still answers with what it wrote.

**SessionsProofs.**  `OneLivePerFamily` is inductive beside the types.
`QuietBrowsersAreTrusted` is far from it; it only says that something has not
happened.  `Quiet` says of each undisturbed browser that the token it will send, has
sent or is being answered with is no reuse; that this survives the rotations and
logouts of *other* browsers needs `Owned` (what a browser carries was issued to it)
and `Permits` (an OAuth state is consumed once and opens one family).
`SessionsLiveAsPromised` is the refinement: each action maps to an action of
`SessionLife` or to a stutter, and that no more families are opened than there are
permits is the pigeonhole principle over the injection `ticket`.

**WorkersProofs, requests.**  `TrailAgrees` counts the notifications of a request,
so that a step must be known to add one to the right request and to leave the
other counts alone (`CountedUp`, `Moves`); `Trails` adds that only a trail that
ends in "closed" ends with a close, and that a request not yet taken in has left
nothing.  `TypeOK` itself needs `Rows`: a notification that may be claimed has a try
left, or `tries` would pass `MaxRetries`.  `HeldOnce` is inductive with `Hands`
(nothing in hand is stranded), since `Due` never offers what is in processing; and
`DeliveredIsFinal` follows from both, with the fact that a delivered notification is
due and has arrived.  `NoTryUncounted` is not inductive either: that the webhook may
take one more message is no harm only while the pass that sends it has a try the
row counts and the webhook has not used (`Unused`), except for the notification the
pass has just handed over.  `Counted` says so of everything in hand, and `HeldOnce`
keeps a second pass from using the same try.

**WorkersProofs, feeds.**  A saved cursor is a promise about every change behind it:
`Covered` says of a change that a row was written with it and that each configured
sink has it or is owed it by a job.  `Covered` never ends (`CoveredStays`, and
`ServedKeeps` for the sinks), so it is enough to know it of the changes behind each
cursor that may be saved: the saved one, the one a job began from (`Began`), and the
one its page leads to, where what is not covered is on the page (`Page`).  Overlapping
jobs need no case of their own, which is why `NothingMissed` holds for them too; that
rows do not go back without an overlap is `Alone`.  A job that throws or is cut off
goes on owing what it owed (`StoppedJob`); that a job which says partial or failed
is over (`Over`) keeps a running one from being excused by its row.  `SinksFollowStore` needs to know
the same of what is about to be sent as of what was: `Following` says that a job
that serves holds only what is kept and written.  Overlapping jobs may put an older
change into a row, hence it speaks of the newest change a row ever held.

Only model-checked: the liveness properties (`OverdueRowsClose`,
`CallsSettle`, `PlanEnds`, `EventsAreDelivered`, `JobsEnd`, `NotesSettle`), because
liveness under fairness is outside what the prover handles.  The three documented statements of the violation runs are false of the
code and have no theorem.

## Findings

Each is a run that TLC ends with a counterexample; `PROJECT.json` quotes the line
it disagrees with.

1. **A rejected chain can still be released** (`RejectionIsTerminal`,
   `approvals.ts:276`).  After a crash between `decideStep` and
   `approvalStore.decide` the approval is pending and its chain is over; the
   route takes it for one without a chain and an admin's approve goes through.
2. **A replayed execute is answered ungated** (`ReplayStaysGated`,
   `governance.ts:291`).  The UNIQUE violation is logged and the route goes on to
   answer 200 with the plan.
3. **A restart forks the ARCHIEVE chain and verification does not see it**
   (`GapsAreDetected`, `logger.ts:70`).  Tails are restored from delivered events
   only; the verify route reads a table that nothing fills.

Met on the way; certain rather than a matter of order, so told here and, where they
change state, part of the models:

*Gate and engine.*  A dry-run dispatch takes the dispatch lock before `dryRun` is
read and marks the approval dispatched although its plan never ran
(`approvals.ts:347, 382, 399`; `ops/SYSTEM-GUIDE.md:171-175`, and
`approval-e2e.test.ts:313`, "dry-run dispatch does not mutate state").  A denied
release leaves its row in `dispatching` for good, as does a crash during a
dispatch.  `abandon` and `pruneExpired` reject a promise that usually nobody
awaits, which ends the process; calls that joined a promise wait until the process
ends when `storeResult` throws.  `expectedPlanHash` is part of the action that is
hashed (`governanceEngine.ts:739-749`), so it cannot match the hash of an earlier
evaluation (`FEATURES.md:99`).

*Dispatch.*  A comment (`dispatch.ts:151`) and `ops/ARCHITECTURE-NORTH-STAR.md:62`
call 5xx answers transient, but the errors of the GitHub dispatcher ("Failed to
update file x: 503") do not match the pattern that looks for them, so a GitHub
step fails at its first 503; the doc comment says "fail-fast" (`dispatch.ts:235`),
the loop goes on after a failed step; after a lost answer to the pull request the
retry reports none although it is open; the Google plans that `connectors.ts`
builds have an operation that `GoogleDrivePlanSchema` does not know, so these
steps fail; a step whose connector has no dispatcher is skipped and the plan still
counts as a success.

*ARCHIEVE.*  `verifyChain`, run on the table that holds the events, rejects a chain
nobody touched: `log` computes the hash before it sets the hmac
(`logger.ts:116-130`), `verifyChain` recomputes it over the event with it
(`chain.ts:111`; `USER_GUIDE.md:572`).

*SYNCRONATE.*  A statement that throws after the cursor was saved
(`sync-engine.ts:188, 233, 236`) ends in the same catch as a failed fetch: the job
says failed although its changes are behind the cursor, where no later job fetches
them, and their sinks may not have been served; a job that was written down as
partial or completed is overwritten with failed (`:258`).  If the catch's own
statement throws the row never gets a final status.  retry-sinks does not retry the sinks of its job, it starts a new
job from the saved cursor (`api.ts:437-451`; `syncronate/README.md:76`), whatever
the feed's status; sync and retry-sinks answer with the id of an additional row
that stays queued; cancel uses `require` in an ES module, answers 500 and changes
nothing; the README of the module calls retired feeds final, activate asks for no
particular status, and each activate adds a timer.

*Sessions.*  A logout that overtakes a refresh leaves the rotated session alive, and
`pj_sso` is not cleared.  Two tabs that refresh together, or one lost answer, end
the session as `token_reuse_detected` (`FEATURES.md:83`).  `SECURITY.md:30-31`
says that the refresh token is not rotated.

*Requests.*  The status route lets `closed` through: such a request has no
`closed_at`, nobody is notified, and it cannot be closed properly any more
(`prrStore.ts:785`).  Notifications in `processing` are never taken up again.

*SEAL.*  When the INSERT of a start fails, the catch (`key-store.ts:107`) lists the
tenant as one without a key but leaves its private key in memory: it signs, its
public key is not served (404), and the next rotation takes version 1, so the same
key id, for another key.  A start with the key of before the last rotation binds the newest key id to
it.  Tenants that a start finds no key for lose verification too, as only loaded
tenants are restored into the cache (`key-store.ts:56, 94`).  Rotation is two
statements without a transaction; the warning of `provisioner.ts:21` and
`api.ts:150` names an environment variable with a dash where `key-store.ts:53`
reads an underscore, and tenants `a-b` and `a_b` share one.

*Holds.*  An older hold that is approved after a later run denied its action clears
it, a payment under `no_auto_money_movement` included, which `vault.ts:28` says is
forbidden outright (`MoneyIsApproved` states what is left of that).  The pipeline
package has no caller outside its tests at this commit.

## What is not modelled

Inside the modelled components: template CRUD beyond its checks, list and read
endpoints, `markDispatching` (no caller), the tier counter (all limits -1), the
health checks and plan building of the connectors, two steps of one plan that
share a repository and a branch, the `decision_audit` row (same transaction as the
result), the checks inside one evaluation (pure; their verdict is a choice),
`close` (tests only), ARCHIEVE's notarisation, retention and export. A replay
that throws inside `initArchieve` would leave no delivery loop; the fairness
above assumes that it does not.

Of the components of the second picture: SYNCRONATE's field maps, DLP rules (a
change is kept or not), page cursors of single sources and tombstones; the
token-exchange route, an admin's revocation for another user and the access JWT,
which stays valid for its hour; names, dates and ids of requests, their read-only
routes, and an answer of the webhook that comes after its pass is gone; the
cryptography and the bytes of seals and the check of a timestamp token; the
enrichment and the text of an output.  `COOKIE_DOMAIN` is taken as unset, and the
pipeline as running in one process.

Other components: WATCHLAYER's alerts and reviews, LogicBridge and FormKey update
rows in one synchronous handler each; escalation and tier limits have no caller or
no effect at this commit (the second escalation level starts at 72 h, approvals
expire at 48 h); CRUD stores, scrapers, user interfaces and pure guards have no
behaviour over time worth a model.  The flow runtime is next.

## Plan

Order: what governs an action first, then what loses data quietly, then what can
be proved about the rest.

| # | content | aimed at |
|---|---|---|
| done | `ApprovalGate`, `ApprovalLifecycle`, `Idempotency`, `DispatchPlan`, `ArchieveChain`, `EventLog`, `FeedSync`, `Sessions`, `SessionLife`, `RequestDesk`, `SealKeys`, `CaseHolds` | above |
| 1 | the checks inside one evaluation (`governanceEngine.ts:450-554`) against those of the policy provider (`policyProvider.ts:294-398`), which repeat each other | one verdict, whoever asks |
| 2 | `FlowRuntime`: subscriptions, activation and the event loop of `civic/synchron8` | one failing flow does not stop the others |

Theorems to come: those of the two modules above, once they are checked.  Of the
modules there are, what safety the runs check is proved.
