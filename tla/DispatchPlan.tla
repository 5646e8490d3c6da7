---------------------------- MODULE DispatchPlan ----------------------------
(***************************************************************************)
(* One run of an approved plan (engine/dispatch.ts): the steps in order,   *)
(* each handed to its connector's dispatcher and retried after a transient *)
(* failure.  The GitHub dispatcher (dispatchers/github.ts) makes several   *)
(* calls per step, the webhook dispatcher one; every retry starts the step *)
(* from its first call.                                                    *)
(*                                                                         *)
(* Each call is awaited.  It may take effect and be answered, be refused,  *)
(* or fail with a 5xx status or without an answer, and in the last two     *)
(* cases nobody knows whether it took effect.  The services are external;  *)
(* they are modelled by the effects the dispatchers ask of them, on a      *)
(* repository or an endpoint of each step's own that nobody else writes.   *)
(*                                                                         *)
(* dispatchWithRetry tells transient from permanent failures by the text   *)
(* of the error (isTransientFailure): "Webhook failed: 503" is transient,  *)
(* "Failed to update file x: 503" is not.  Repositories and files are taken *)
(* not to have one of the words it looks for ("timeout", "network") in     *)
(* their names.                                                            *)
(***************************************************************************)
EXTENDS Naturals, Sequences

CONSTANTS
  Plans,         \* the plans that may be run
  MaxFiles,      \* bound: files of one GitHub step
  MaxAttempts    \* RetryPolicy.maxAttempts

\* What a step asks for.  "none": not ready, without a connector, or with one
\* that has no dispatcher.  "stub": a connector that only knows dry runs.
\* "invalid": refused by the dispatcher's own checks; "unknown": refused after
\* the dry-run check (an unknown GitHub operation, a URL fetch cannot parse).
Kinds == {"branch_and_pr", "direct_commit", "webhook", "none", "stub", "invalid", "unknown"}
Files == 1..MaxFiles

ASSUME PlansAssumption ==
  /\ Plans \subseteq Seq([kind : Kinds, files : 0..MaxFiles])
  /\ MaxFiles \in Nat
  /\ MaxAttempts \in Nat \ {0}

VARIABLES
  plan,      \* the steps
  dry,       \* DispatchContext.dryRun
  results,   \* the results of the steps so far
  attempt,   \* of the current step
  call,      \* the call awaited: its kind and the file it is about
  remote,    \* what each step did to its repository or endpoint
  process    \* the handler dies with the process

vars == <<plan, dry, results, attempt, call, remote, process>>

Contents == {"absent", "old", "new"}   \* "new": as the plan has it
RemoteState == [branch : BOOLEAN, file : [Files -> Contents], pr : BOOLEAN, received : Nat]

\* "begin": the first call of an attempt, whichever it is.
CallKinds == {"begin", "ref", "branch", "put", "look", "update", "pr",
              "lookDefault", "putDefault", "updateDefault"}

\* "torn": an ok status whose body cannot be read; "server": a 5xx status;
\* "lost": fetch threw.
Answers == {"ok", "torn", "refused", "server", "lost"}
Failures == {"refused", "server"}

Begin == [kind |-> "begin", file |-> 1]

Init ==
  /\ plan \in Plans
  /\ dry \in BOOLEAN
  /\ results = <<>>
  /\ attempt = 1
  /\ call = Begin
  /\ remote \in [DOMAIN plan ->
                   {[branch |-> branch, file |-> file, pr |-> FALSE, received |-> 0] :
                      branch \in BOOLEAN, file \in [Files -> {"absent", "old"}]}]
  /\ process = "running"

pos == Len(results) + 1
step == plan[pos]
Busy == process = "running" /\ pos \in DOMAIN plan
AwaitsBegin(kind) == Busy /\ ~dry /\ call = Begin /\ step.kind = kind
Awaits(kind) == Busy /\ call.kind = kind

(***************************************************************************)
(* dispatchPlan and dispatchWithRetry                                      *)
(***************************************************************************)
GoTo(kind, file) ==
  /\ call' = [kind |-> kind, file |-> file]
  /\ UNCHANGED <<results, attempt>>

\* The step's result is pushed; the loop goes on, after a failure as well.
Settle(status, prReported) ==
  /\ results' = Append(results, [status |-> status, prReported |-> prReported])
  /\ attempt' = 1
  /\ call' = Begin

FailPermanently == Settle("failed", FALSE)

Retry ==
  /\ attempt' = attempt + 1
  /\ call' = Begin
  /\ UNCHANGED results

\* Mutant: attempts are not counted.
FailTransientlyUncounted ==
  /\ call' = Begin
  /\ UNCHANGED <<results, attempt>>

FailTransiently ==
  \/ attempt < MaxAttempts /\ Retry
  \/ attempt = MaxAttempts /\ FailPermanently

\* Mutant: a step without a connector gets no result.
SettlesWithoutCallIfConnected(status) ==
  \/ step.kind = "stub" /\ status \in {"dispatched", "skipped"}
  \/ step.kind = "invalid" /\ status = "failed"
  \/ step.kind = "unknown" /\ ~dry /\ status = "failed"
  \/ step.kind = "direct_commit" /\ step.files = 0 /\ status = "dispatched"
  \/ step.kind \notin {"none", "stub", "invalid"} /\ dry /\ status = "dispatched"

\* The result a step may get without any call.
SettlesWithoutCall(status) ==
  \/ step.kind = "none" /\ status = "skipped"
  \/ step.kind = "stub" /\ status \in {"dispatched", "skipped"}
  \/ step.kind = "invalid" /\ status = "failed"
  \/ step.kind = "unknown" /\ ~dry /\ status = "failed"
  \/ step.kind = "direct_commit" /\ step.files = 0 /\ status = "dispatched"
  \/ step.kind \notin {"none", "stub", "invalid"} /\ dry /\ status = "dispatched"

SettleWithoutCall ==
  /\ Busy
  /\ call = Begin
  /\ \E status \in {"dispatched", "failed", "skipped"} : SettlesWithoutCall(status) /\ Settle(status, FALSE)
  /\ UNCHANGED <<plan, dry, remote, process>>

(***************************************************************************)
(* Calls and what they do to the current step's repository or endpoint     *)
(***************************************************************************)
here == remote[pos]
WithBranch == [branch |-> TRUE, file |-> here.file, pr |-> here.pr, received |-> here.received]
WithFile(f) ==
  [branch |-> here.branch, file |-> [here.file EXCEPT ![f] = "new"], pr |-> here.pr, received |-> here.received]
WithPr == [branch |-> here.branch, file |-> here.file, pr |-> TRUE, received |-> here.received]
WithRequest == [branch |-> here.branch, file |-> here.file, pr |-> here.pr, received |-> here.received + 1]

\* A call that changes the remote side to state `changed`, if it is possible.
Writes(answer, possible, changed) ==
  /\ \/ possible /\ answer # "refused" /\ remote' = [remote EXCEPT ![pos] = changed]
     \/ answer \notin {"ok", "torn"} /\ UNCHANGED remote
  /\ UNCHANGED <<plan, dry, process>>

Reads(answer, possible) ==
  /\ answer \in {"ok", "torn"} => possible
  /\ UNCHANGED <<plan, dry, remote, process>>

(***************************************************************************)
(* GitHubDispatcher.createBranchAndPr                                      *)
(***************************************************************************)
FetchRepo(answer) ==
  /\ AwaitsBegin("branch_and_pr")
  /\ Reads(answer, TRUE)
  /\ \/ answer = "ok" /\ GoTo("ref", 1)
     \/ answer \in Failures \cup {"torn"} /\ FailPermanently
     \/ answer = "lost" /\ FailTransiently

FetchRef(answer) ==
  /\ Awaits("ref")
  /\ Reads(answer, TRUE)
  /\ \/ answer = "ok" /\ GoTo("branch", 1)
     \/ answer \in Failures \cup {"torn"} /\ FailPermanently
     \/ answer = "lost" /\ FailTransiently

\* Where the files begin, or the pull request if there are none (left).
FromFile(f) == IF f <= step.files THEN GoTo("put", f) ELSE GoTo("pr", 1)

\* "Reference already exists" is taken for success.  The body of any other
\* answer is part of the error, so its words may make it transient.
CreateBranch(answer) ==
  /\ Awaits("branch")
  /\ answer # "torn"
  /\ Writes(answer, ~here.branch, WithBranch)
  /\ \/ answer = "ok" /\ FromFile(1)
     \/ answer = "refused" /\ here.branch /\ FromFile(1)
     \/ answer \in Failures /\ (FailPermanently \/ FailTransiently)
     \/ answer = "lost" /\ FailTransiently

\* The PUT carries no sha: it can only create the file.
PutFile(answer) ==
  /\ Awaits("put")
  /\ answer # "torn"
  /\ Writes(answer, here.file[call.file] = "absent", WithFile(call.file))
  /\ \/ answer = "ok" /\ FromFile(call.file + 1)
     \/ answer \in Failures /\ GoTo("look", call.file)
     \/ answer = "lost" /\ FailTransiently

\* Mutant: a file that is there is taken for committed.
LookAtFileOnly(answer) ==
  /\ Awaits("look")
  /\ Reads(answer, here.file[call.file] # "absent")
  /\ \/ answer = "ok" /\ FromFile(call.file + 1)
     \/ answer \in Failures \cup {"torn"} /\ FailPermanently
     \/ answer = "lost" /\ FailTransiently

LookAtFile(answer) ==
  /\ Awaits("look")
  /\ Reads(answer, here.file[call.file] # "absent")
  /\ \/ answer = "ok" /\ GoTo("update", call.file)
     \/ answer \in Failures \cup {"torn"} /\ FailPermanently
     \/ answer = "lost" /\ FailTransiently

\* Mutant: the answer to the update is not looked at.
UpdateFileBlindly(answer) ==
  /\ Awaits("update")
  /\ answer # "torn"
  /\ Writes(answer, here.file[call.file] # "absent", WithFile(call.file))
  /\ \/ answer # "lost" /\ FromFile(call.file + 1)
     \/ answer = "lost" /\ FailTransiently

UpdateFile(answer) ==
  /\ Awaits("update")
  /\ answer # "torn"
  /\ Writes(answer, here.file[call.file] # "absent", WithFile(call.file))
  /\ \/ answer = "ok" /\ FromFile(call.file + 1)
     \/ answer \in Failures /\ FailPermanently
     \/ answer = "lost" /\ FailTransiently

\* "PR creation failure is not fatal".
OpenPr(answer) ==
  /\ Awaits("pr")
  /\ Writes(answer, ~here.pr, WithPr)
  /\ \/ answer = "ok" /\ Settle("dispatched", TRUE)
     \/ answer \in Failures /\ Settle("dispatched", FALSE)
     \/ answer = "torn" /\ FailPermanently
     \/ answer = "lost" /\ FailTransiently

(***************************************************************************)
(* GitHubDispatcher.directCommit                                           *)
(***************************************************************************)
LookAtDefault(answer) ==
  /\ AwaitsBegin("direct_commit") \/ Awaits("lookDefault")
  /\ call.file <= step.files
  /\ Reads(answer, here.file[call.file] # "absent")
  /\ \/ answer = "ok" /\ GoTo("updateDefault", call.file)
     \/ answer \in Failures /\ GoTo("putDefault", call.file)
     \/ answer = "torn" /\ FailPermanently
     \/ answer = "lost" /\ FailTransiently

\* With the sha of the file that was seen, or without one.
CommitToDefault(answer) ==
  /\ \/ Awaits("updateDefault") /\ Writes(answer, here.file[call.file] # "absent", WithFile(call.file))
     \/ Awaits("putDefault") /\ Writes(answer, here.file[call.file] = "absent", WithFile(call.file))
  /\ answer # "torn"
  /\ \/ /\ answer = "ok"
        /\ \/ call.file < step.files /\ GoTo("lookDefault", call.file + 1)
           \/ call.file = step.files /\ Settle("dispatched", FALSE)
     \/ answer \in Failures /\ FailPermanently
     \/ answer = "lost" /\ FailTransiently

(***************************************************************************)
(* WebhookDispatcher                                                       *)
(***************************************************************************)
SendWebhook(answer) ==
  /\ AwaitsBegin("webhook")
  /\ answer # "torn"
  /\ Writes(answer, TRUE, WithRequest)
  /\ \/ answer = "ok" /\ Settle("dispatched", FALSE)
     \/ answer = "refused" /\ FailPermanently
     \/ answer \in {"server", "lost"} /\ FailTransiently

(***************************************************************************)
(* The run                                                                 *)
(***************************************************************************)
\* The process dies; the row stays "dispatching" and nothing resumes the plan.
Crash ==
  /\ Busy
  /\ process' = "dead"
  /\ UNCHANGED <<plan, dry, results, attempt, call, remote>>

Progress ==
  \/ SettleWithoutCall
  \/ \E answer \in Answers :
       \/ FetchRepo(answer) \/ FetchRef(answer) \/ CreateBranch(answer)
       \/ PutFile(answer) \/ LookAtFile(answer) \/ UpdateFile(answer) \/ OpenPr(answer)
       \/ LookAtDefault(answer) \/ CommitToDefault(answer)
       \/ SendWebhook(answer)

\* The plan is over: the handler answers and marks the row.
Over == ~Busy /\ UNCHANGED vars

Next == Progress \/ Crash \/ Over

\* Every fetch ends, every back-off is a timer.
Fairness == WF_vars(Progress)

Spec == Init /\ [][Next]_vars /\ Fairness

(***************************************************************************)
(* Properties                                                              *)
(***************************************************************************)
TypeOK ==
  /\ plan \in Plans
  /\ dry \in BOOLEAN
  /\ results \in Seq([status : {"dispatched", "failed", "skipped"}, prReported : BOOLEAN])
  /\ Len(results) <= Len(plan)
  /\ attempt \in 1..MaxAttempts
  /\ call \in [kind : CallKinds, file : Nat]
  /\ remote \in [DOMAIN plan -> RemoteState]
  /\ process \in {"running", "dead"}

FilesIn(i, upTo) == \A f \in 1..upTo : remote[i].file[f] = "new"

\* A step reported "dispatched" by a real run did all it was asked for,
\* whichever of its calls were repeated, refused or left unanswered before.
\* A pull request is the exception the code makes; one that is reported exists.
DispatchedMeansDone ==
  \A i \in DOMAIN results : ~dry /\ results[i].status = "dispatched" =>
    /\ plan[i].kind = "branch_and_pr" => remote[i].branch /\ FilesIn(i, plan[i].files)
    /\ plan[i].kind = "direct_commit" => FilesIn(i, plan[i].files)
    /\ plan[i].kind = "webhook" => remote[i].received > 0
    /\ results[i].prReported => remote[i].pr

\* A pull request is opened only from a branch that carries every file.
PrsAreComplete ==
  \A i \in DOMAIN remote : remote[i].pr => remote[i].branch /\ FilesIn(i, plan[i].files)

\* An endpoint receives a webhook at most once per attempt, so at most
\* MaxAttempts times, although lost answers make the dispatcher send again.
OnceAnAttempt ==
  \A i \in DOMAIN remote :
    /\ i < pos => remote[i].received <= MaxAttempts
    /\ i = pos => remote[i].received < attempt
    /\ i > pos => remote[i].received = 0

\* A dry run reaches nobody, on any step, after any failure.
DryRunTouchesNothing == [][dry => UNCHANGED remote]_vars

\* The run ends, with a result for every step, unless the process dies.
PlanEnds == <>(process = "dead" \/ Len(results) = Len(plan))
=============================================================================
