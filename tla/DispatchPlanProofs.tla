-------------------------- MODULE DispatchPlanProofs --------------------------
(***************************************************************************)
(* Theorems about a run of a plan, for any set of plans, number of files   *)
(* and number of attempts.                                                 *)
(*                                                                         *)
(* A call only adds to what the current step has done (Touches), so what a *)
(* step relied on when it went from one call to the next stays true, over  *)
(* retries as well.  CallOk says what that is for each call; the three     *)
(* lemmas of the second section say that the invariant survives the three  *)
(* ways a call can end: the next call, a retry, the step's result.         *)
(***************************************************************************)
EXTENDS DispatchPlan, TLAPS

\* What is known of the current step when its call is awaited.
CallOk ==
  /\ call.kind = "begin" => call.file = 1
  /\ call.kind # "begin" => pos \in DOMAIN plan /\ ~dry
  /\ call.kind \in {"ref", "branch"} => step.kind = "branch_and_pr"
  /\ call.kind \in {"put", "look", "update"} =>
       step.kind = "branch_and_pr" /\ here.branch /\ call.file \in 1..step.files /\ FilesIn(pos, call.file - 1)
  /\ call.kind = "pr" => step.kind = "branch_and_pr" /\ here.branch /\ FilesIn(pos, step.files)
  /\ call.kind \in {"lookDefault", "putDefault", "updateDefault"} =>
       step.kind = "direct_commit" /\ call.file \in 1..step.files /\ FilesIn(pos, call.file - 1)

\* What a real step reported "dispatched" has done.
Done(i) ==
  /\ plan[i].kind = "branch_and_pr" => remote[i].branch /\ FilesIn(i, plan[i].files)
  /\ plan[i].kind = "direct_commit" => FilesIn(i, plan[i].files)
  /\ plan[i].kind = "webhook" => remote[i].received > 0

Inv == TypeOK /\ CallOk /\ DispatchedMeansDone /\ PrsAreComplete /\ OnceAnAttempt

(***************************************************************************)
(* Effects of a call                                                       *)
(***************************************************************************)
Grows(a, b) ==
  /\ a.branch => b.branch
  /\ \A f \in Files : a.file[f] = "new" => b.file[f] = "new"
  /\ a.pr => b.pr

\* Only the current step's side changes, and only by growing.
Touches ==
  /\ UNCHANGED <<plan, dry, process>>
  /\ remote' \in [DOMAIN plan -> RemoteState]
  /\ \A i \in DOMAIN plan : i # pos => remote'[i] = remote[i]
  /\ Grows(remote[pos], remote'[pos])
  /\ remote'[pos].pr => remote[pos].pr \/ (remote'[pos].branch /\ \A f \in 1..step.files : remote'[pos].file[f] = "new")
  /\ remote'[pos].received \in {remote[pos].received, remote[pos].received + 1}

\* The shape of plan, steps and remote side.
LEMMA Shape ==
  ASSUME TypeOK
  PROVE  /\ DOMAIN plan = 1..Len(plan) /\ Len(plan) \in Nat
         /\ \A i \in DOMAIN plan : plan[i] \in [kind : Kinds, files : 0..MaxFiles]
         /\ DOMAIN remote = DOMAIN plan
         /\ \A i \in DOMAIN plan : remote[i] \in RemoteState
         /\ Len(results) \in Nat /\ pos \in Nat \ {0} /\ pos <= Len(plan) + 1
         /\ DOMAIN results = 1..Len(results) /\ DOMAIN results \subseteq DOMAIN plan
         /\ MaxFiles \in Nat /\ MaxAttempts \in Nat \ {0}
<1>1. plan \in Seq([kind : Kinds, files : 0..MaxFiles])
  BY PlansAssumption DEF TypeOK
<1> QED
  <2> DEFINE R == [status : {"dispatched", "failed", "skipped"}, prReported : BOOLEAN]
             S == [kind : Kinds, files : 0..MaxFiles]
  <2>1. plan \in Seq(S) /\ results \in Seq(R) /\ Len(results) <= Len(plan)
    BY <1>1 DEF TypeOK
  <2>2. remote \in [DOMAIN plan -> RemoteState]
    BY DEF TypeOK
  <2> HIDE DEF R, S
  <2>3. DOMAIN plan = 1..Len(plan) /\ Len(plan) \in Nat /\ \A i \in DOMAIN plan : plan[i] \in S
    BY <2>1
  <2>4. DOMAIN results = 1..Len(results) /\ Len(results) \in Nat
    BY <2>1
  <2>5. DOMAIN results \subseteq DOMAIN plan
    BY <2>1, <2>3, <2>4
  <2>6. pos \in Nat \ {0} /\ pos <= Len(plan) + 1
    BY <2>1, <2>3, <2>4 DEF pos
  <2> QED BY <2>2, <2>3, <2>4, <2>5, <2>6, PlansAssumption DEF S

\* A reading call touches nothing.
LEMMA ReadsTouch ==
  ASSUME TypeOK, Busy, NEW answer, NEW possible, Reads(answer, possible)
  PROVE  Touches /\ remote' = remote
<1>1. remote' = remote /\ UNCHANGED <<plan, dry, process>>
  BY DEF Reads
<1>2. remote \in [DOMAIN plan -> RemoteState] /\ remote[pos] \in RemoteState
  BY Shape DEF TypeOK, Busy
<1>3. remote[pos].received = remote'[pos].received
  BY <1>1
<1> QED
  BY <1>1, <1>2, <1>3 DEF Touches, Grows

\* A writing call that takes effect leaves the state asked for.
LEMMA WritesEffect ==
  ASSUME TypeOK, Busy, NEW answer \in Answers, NEW possible \in BOOLEAN,
         NEW changed \in RemoteState, Writes(answer, possible, changed)
  PROVE  /\ remote' \in [DOMAIN plan -> RemoteState]
         /\ \A i \in DOMAIN plan : i # pos => remote'[i] = remote[i]
         /\ remote'[pos] \in {remote[pos], changed}
         /\ answer \in {"ok", "torn"} => remote'[pos] = changed
         /\ answer = "refused" => remote'[pos] = remote[pos]
         /\ UNCHANGED <<plan, dry, process>>
<1>1. remote \in [DOMAIN plan -> RemoteState] /\ pos \in DOMAIN plan
  BY DEF TypeOK, Busy
<1> QED
  BY <1>1 DEF Writes, Answers

\* The four things a call can do.
LEMMA Changes ==
  ASSUME TypeOK, Busy
  PROVE  /\ WithBranch \in RemoteState /\ Grows(here, WithBranch)
         /\ WithBranch.branch /\ WithBranch.pr = here.pr /\ WithBranch.received = here.received
         /\ WithBranch.file = here.file
         /\ \A f \in Files : /\ WithFile(f) \in RemoteState /\ Grows(here, WithFile(f))
                             /\ WithFile(f).pr = here.pr /\ WithFile(f).received = here.received
                             /\ WithFile(f).branch = here.branch
                             /\ WithFile(f).file[f] = "new"
         /\ WithPr \in RemoteState /\ Grows(here, WithPr)
         /\ WithPr.pr /\ WithPr.received = here.received /\ WithPr.branch = here.branch /\ WithPr.file = here.file
         /\ WithRequest \in RemoteState /\ Grows(here, WithRequest)
         /\ WithRequest.received = here.received + 1 /\ WithRequest.pr = here.pr
<1>1. here \in RemoteState
  BY Shape DEF Busy, here
<1>2. here.branch \in BOOLEAN /\ here.file \in [Files -> Contents] /\ here.pr \in BOOLEAN /\ here.received \in Nat
  BY <1>1 DEF RemoteState
<1>3. ASSUME NEW f \in Files
      PROVE  /\ WithFile(f) \in RemoteState /\ Grows(here, WithFile(f))
             /\ WithFile(f).pr = here.pr /\ WithFile(f).received = here.received
             /\ WithFile(f).branch = here.branch
             /\ WithFile(f).file[f] = "new"
  <2> DEFINE g == [here.file EXCEPT ![f] = "new"]
  <2>1. g \in [Files -> Contents] /\ g[f] = "new" /\ \A h \in Files : here.file[h] = "new" => g[h] = "new"
    BY <1>2 DEF Contents
  <2>2. WithFile(f) = [branch |-> here.branch, file |-> g, pr |-> here.pr, received |-> here.received]
    BY DEF WithFile
  <2> HIDE DEF g
  <2> QED BY <1>2, <2>1, <2>2 DEF RemoteState, Grows
<1> QED
  BY <1>2, <1>3 DEF RemoteState, Grows, WithBranch, WithPr, WithRequest

(***************************************************************************)
(* The three ways a call ends                                              *)
(***************************************************************************)
\* What earlier steps have done, and the pull requests, survive any call.
LEMMA TouchesKeeps ==
  ASSUME Inv, Busy, Touches
  PROVE  /\ \A i \in DOMAIN results : ~dry /\ results[i].status = "dispatched" => Done(i)'
         /\ \A i \in DOMAIN results : ~dry /\ results[i].status = "dispatched" /\ results[i].prReported => remote'[i].pr
         /\ PrsAreComplete'
         /\ \A i \in DOMAIN plan : i < pos => remote'[i].received <= MaxAttempts
         /\ \A i \in DOMAIN plan : i > pos => remote'[i].received = 0
         /\ remote'[pos].received <= attempt
         /\ remote'[pos].received \in Nat
         /\ DOMAIN remote' = DOMAIN plan
<1>0. TypeOK
  BY DEF Inv
<1>1. pos \in DOMAIN plan /\ plan' = plan /\ DOMAIN remote' = DOMAIN plan /\ DOMAIN remote = DOMAIN plan
  BY <1>0, Shape DEF Busy, Touches
<1>2. \A i \in DOMAIN results : i \in DOMAIN plan /\ i # pos
  BY <1>0, Shape DEF pos
<1>3. \A i \in DOMAIN results : remote'[i] = remote[i]
  BY <1>2 DEF Touches
<1>4. ASSUME NEW i \in DOMAIN results, ~dry, results[i].status = "dispatched"
      PROVE  Done(i)' /\ (results[i].prReported => remote'[i].pr)
  BY <1>1, <1>3, <1>4 DEF Inv, DispatchedMeansDone, Done, FilesIn
<1>5. PrsAreComplete'
  <2> SUFFICES ASSUME NEW i \in DOMAIN plan, remote'[i].pr
               PROVE  remote'[i].branch /\ \A f \in 1..plan[i].files : remote'[i].file[f] = "new"
    BY <1>1 DEF PrsAreComplete, FilesIn
  <2>1. 1..plan[i].files \subseteq Files
    <3>1. plan[i].files \in 0..MaxFiles /\ MaxFiles \in Nat
      BY <1>0, Shape
    <3> QED BY <3>1 DEF Files
  <2>2. remote[i].pr => remote[i].branch /\ \A f \in 1..plan[i].files : remote[i].file[f] = "new"
    BY <1>1 DEF Inv, PrsAreComplete, FilesIn
  <2>3. CASE i # pos
    BY <2>2, <2>3 DEF Touches
  <2>4. CASE i = pos
    BY <2>1, <2>2, <2>4 DEF Touches, Grows, step
  <2> QED BY <2>3, <2>4
<1>6. \A i \in DOMAIN plan : i < pos => remote'[i].received <= MaxAttempts
  BY <1>0, <1>1, Shape DEF Touches, Inv, OnceAnAttempt
<1>7. \A i \in DOMAIN plan : i > pos => remote'[i].received = 0
  BY <1>0, <1>1, Shape DEF Touches, Inv, OnceAnAttempt
<1>8. remote'[pos].received <= attempt /\ remote'[pos].received \in Nat
  <2>1. remote[pos].received < attempt
    BY <1>1 DEF Inv, OnceAnAttempt
  <2>2. remote[pos].received \in Nat /\ attempt \in Nat
    BY <1>0, <1>1, Shape DEF TypeOK, RemoteState
  <2> QED BY <2>1, <2>2 DEF Touches
<1> QED
  BY <1>1, <1>4, <1>5, <1>6, <1>7, <1>8

\* The next call: it finds what it relies on, and no webhook was sent.
LEMMA GoToKeeps ==
  ASSUME Inv, Busy, Touches, NEW kind \in CallKinds, NEW file \in Nat, GoTo(kind, file),
         remote'[pos].received = remote[pos].received, CallOk'
  PROVE  Inv'
<1>0. TypeOK
  BY DEF Inv
<1>1. results' = results /\ attempt' = attempt /\ pos' = pos /\ plan' = plan /\ dry' = dry
  BY DEF GoTo, pos, Touches
<1>2. TypeOK'
  BY <1>0, <1>1 DEF TypeOK, GoTo, Touches
<1>3. DispatchedMeansDone'
  BY <1>1, TouchesKeeps DEF DispatchedMeansDone, Done
<1>4. OnceAnAttempt'
  <2>1. remote'[pos].received < attempt
    BY <1>0, Shape DEF Inv, OnceAnAttempt, Busy
  <2> QED BY <1>1, <2>1, TouchesKeeps DEF OnceAnAttempt
<1> QED
  BY <1>2, <1>3, <1>4, TouchesKeeps DEF Inv

\* The step's result: "dispatched" needs the work done.
LEMMA SettleKeeps ==
  ASSUME Inv, Busy, Touches, NEW status \in {"dispatched", "failed", "skipped"}, NEW prReported \in BOOLEAN,
         Settle(status, prReported),
         status = "dispatched" /\ ~dry =>
           /\ step.kind = "branch_and_pr" => remote'[pos].branch /\ \A f \in 1..step.files : remote'[pos].file[f] = "new"
           /\ step.kind = "direct_commit" => \A f \in 1..step.files : remote'[pos].file[f] = "new"
           /\ step.kind = "webhook" => remote'[pos].received > 0,
         prReported => remote'[pos].pr
  PROVE  Inv'
<1>0. TypeOK
  BY DEF Inv
<1> DEFINE R == [status : {"dispatched", "failed", "skipped"}, prReported : BOOLEAN]
           n == Len(results)
           res == [status |-> status, prReported |-> prReported]
<1>1. results \in Seq(R) /\ res \in R /\ n \in Nat /\ pos = n + 1 /\ pos \in DOMAIN plan /\ DOMAIN plan = 1..Len(plan)
      /\ Len(plan) \in Nat
  BY <1>0, Shape DEF TypeOK, pos, Busy
<1>2. results' = Append(results, res) /\ attempt' = 1 /\ call' = Begin
  BY DEF Settle
<1> HIDE DEF R, res
<1>3. /\ results' \in Seq(R) /\ Len(results') = n + 1 /\ DOMAIN results' = 1..(n + 1)
      /\ results'[pos] = res /\ \A i \in 1..n : results'[i] = results[i]
  BY <1>1, <1>2
<1>4. pos' = pos + 1 /\ plan' = plan /\ dry' = dry /\ process' = process
  BY <1>1, <1>3 DEF pos, Touches
<1>5. TypeOK'
  <2>1. Len(results') <= Len(plan)
    BY <1>1, <1>3
  <2>2. attempt' \in 1..MaxAttempts /\ call' \in [kind : CallKinds, file : Nat]
    BY <1>2, PlansAssumption DEF Begin, CallKinds
  <2> QED BY <1>0, <1>3, <1>4, <2>1, <2>2 DEF TypeOK, Touches, R
<1>6. CallOk'
  BY <1>2 DEF CallOk, Begin
<1>7. DispatchedMeansDone'
  <2> SUFFICES ASSUME NEW i \in 1..(n + 1), ~dry, results'[i].status = "dispatched"
               PROVE  Done(i)' /\ (results'[i].prReported => remote'[i].pr)
    BY <1>3, <1>4 DEF DispatchedMeansDone, Done
  <2>1. CASE i = pos
    BY <1>3, <1>4, <2>1 DEF Done, FilesIn, step, res
  <2>2. CASE i # pos
    <3>1. i \in 1..n /\ i \in DOMAIN results
      BY <1>0, <1>1, <2>2, Shape
    <3> QED BY <1>3, <3>1, TouchesKeeps
  <2> QED BY <2>1, <2>2
<1>8. OnceAnAttempt'
  <2> SUFFICES ASSUME NEW i \in DOMAIN plan
               PROVE  /\ i < pos + 1 => remote'[i].received <= MaxAttempts
                      /\ i = pos + 1 => remote'[i].received < 1
                      /\ i > pos + 1 => remote'[i].received = 0
    BY <1>2, <1>4, TouchesKeeps DEF OnceAnAttempt
  <2>1. remote'[pos].received <= MaxAttempts
    <3>1. attempt \in 1..MaxAttempts /\ MaxAttempts \in Nat
      BY <1>0, PlansAssumption DEF TypeOK
    <3> QED BY <3>1, TouchesKeeps
  <2>2. i \in Nat /\ pos \in Nat
    BY <1>1
  <2> QED BY <2>1, <2>2, TouchesKeeps
<1> QED
  BY <1>5, <1>6, <1>7, <1>8, TouchesKeeps DEF Inv

\* A failure: the same step again, or its result.
LEMMA FailKeeps ==
  ASSUME Inv, Busy, Touches, FailTransiently \/ FailPermanently
  PROVE  Inv'
<1>1. CASE FailPermanently
  BY <1>1, SettleKeeps DEF FailPermanently
<1>2. CASE attempt < MaxAttempts /\ Retry
  <2>0. TypeOK
    BY DEF Inv
  <2>1. results' = results /\ attempt' = attempt + 1 /\ call' = Begin
        /\ pos' = pos /\ plan' = plan /\ dry' = dry /\ process' = process
    BY <1>2 DEF Retry, pos, Touches
  <2>2. attempt \in 1..MaxAttempts /\ MaxAttempts \in Nat
    BY <2>0, PlansAssumption DEF TypeOK
  <2>3. TypeOK'
    <3>1. attempt' \in 1..MaxAttempts /\ call' \in [kind : CallKinds, file : Nat]
      BY <1>2, <2>1, <2>2 DEF Begin, CallKinds
    <3> QED BY <2>0, <2>1, <3>1 DEF TypeOK, Touches
  <2>4. CallOk'
    BY <2>1 DEF CallOk, Begin
  <2>5. DispatchedMeansDone'
    BY <2>1, TouchesKeeps DEF DispatchedMeansDone, Done
  <2>6. OnceAnAttempt'
    <3>1. remote'[pos].received < attempt + 1
      BY <2>2, TouchesKeeps
    <3> QED BY <2>1, <3>1, TouchesKeeps DEF OnceAnAttempt
  <2> QED BY <2>3, <2>4, <2>5, <2>6, TouchesKeeps DEF Inv
<1> QED
  BY <1>1, <1>2 DEF FailTransiently

(***************************************************************************)
(* The calls                                                               *)
(***************************************************************************)
\* What a call that goes on to the next one must have achieved.
LEMMA GoToNext ==
  ASSUME TypeOK, Busy, Touches, NEW kind, NEW file, GoTo(kind, file), ~dry,
         kind = "begin" => file = 1,
         kind \in {"ref", "branch"} => step.kind = "branch_and_pr",
         kind \in {"put", "look", "update"} =>
           /\ step.kind = "branch_and_pr" /\ remote'[pos].branch /\ file \in 1..step.files
           /\ \A f \in 1..(file - 1) : remote'[pos].file[f] = "new",
         kind = "pr" =>
           step.kind = "branch_and_pr" /\ remote'[pos].branch /\ \A f \in 1..step.files : remote'[pos].file[f] = "new",
         kind \in {"lookDefault", "putDefault", "updateDefault"} =>
           /\ step.kind = "direct_commit" /\ file \in 1..step.files
           /\ \A f \in 1..(file - 1) : remote'[pos].file[f] = "new"
  PROVE  CallOk'
<1>1. /\ pos' = pos /\ plan' = plan /\ dry' = dry /\ step' = step
      /\ call'.kind = kind /\ call'.file = file /\ pos \in DOMAIN plan /\ here' = remote'[pos]
  BY DEF GoTo, pos, step, here, Touches, Busy
<1>2. FilesIn(pos, call.file - 1)' <=> \A f \in 1..(file - 1) : remote'[pos].file[f] = "new"
  BY <1>1 DEF FilesIn
<1>3. FilesIn(pos, step.files)' <=> \A f \in 1..step.files : remote'[pos].file[f] = "new"
  BY <1>1 DEF FilesIn
<1> QED
  BY <1>1, <1>2, <1>3 DEF CallOk

\* The files of the current step, and where its calls stand among them.
LEMMA StepFiles ==
  ASSUME TypeOK, Busy
  PROVE  /\ step.files \in Nat /\ 1..step.files \subseteq Files
         /\ call.kind \in CallKinds /\ call.file \in Nat
<1>1. step \in [kind : Kinds, files : 0..MaxFiles] /\ MaxFiles \in Nat
  BY Shape DEF Busy, step
<1> QED
  BY <1>1 DEF Files, TypeOK

\* On to file f, or to the pull request once every file is there.
LEMMA FromFileKeeps ==
  ASSUME Inv, Busy, Touches, ~dry, step.kind = "branch_and_pr", remote'[pos].branch,
         remote'[pos].received = remote[pos].received,
         NEW f \in Nat \ {0}, f - 1 <= step.files, \A g \in 1..(f - 1) : remote'[pos].file[g] = "new",
         FromFile(f)
  PROVE  Inv'
<1>0. TypeOK /\ step.files \in Nat
  BY StepFiles DEF Inv
<1>1. CASE f <= step.files
  <2>1. GoTo("put", f)
    BY <1>1 DEF FromFile
  <2>2. f \in 1..step.files
    BY <1>0, <1>1
  <2>3. CallOk'
    BY <1>0, <2>1, <2>2, GoToNext
  <2> QED BY <2>1, <2>3, GoToKeeps DEF CallKinds
<1>2. CASE ~(f <= step.files)
  <2>1. GoTo("pr", 1)
    BY <1>2 DEF FromFile
  <2>2. f - 1 = step.files
    BY <1>0, <1>2
  <2>3. CallOk'
    BY <1>0, <2>1, <2>2, GoToNext
  <2> QED BY <2>1, <2>3, GoToKeeps DEF CallKinds
<1> QED
  BY <1>1, <1>2

LEMMA FetchRepoKeeps ==
  ASSUME Inv, NEW answer \in Answers, FetchRepo(answer)
  PROVE  Inv'
<1>1. TypeOK /\ Busy /\ ~dry /\ step.kind = "branch_and_pr" /\ Reads(answer, TRUE)
  BY DEF FetchRepo, AwaitsBegin, Inv
<1>2. Touches /\ remote' = remote
  BY <1>1, ReadsTouch
<1>3. CASE GoTo("ref", 1)
  <2>1. CallOk'
    BY <1>1, <1>2, <1>3, GoToNext
  <2> QED BY <1>1, <1>2, <1>3, <2>1, GoToKeeps DEF CallKinds
<1> QED
  BY <1>1, <1>2, <1>3, FailKeeps DEF FetchRepo

LEMMA FetchRefKeeps ==
  ASSUME Inv, NEW answer \in Answers, FetchRef(answer)
  PROVE  Inv'
<1>1. TypeOK /\ Busy /\ ~dry /\ step.kind = "branch_and_pr" /\ Reads(answer, TRUE)
  BY DEF FetchRef, Awaits, Inv, CallOk
<1>2. Touches /\ remote' = remote
  BY <1>1, ReadsTouch
<1>3. CASE GoTo("branch", 1)
  <2>1. CallOk'
    BY <1>1, <1>2, <1>3, GoToNext
  <2> QED BY <1>1, <1>2, <1>3, <2>1, GoToKeeps DEF CallKinds
<1> QED
  BY <1>1, <1>2, <1>3, FailKeeps DEF FetchRef

LEMMA CreateBranchKeeps ==
  ASSUME Inv, NEW answer \in Answers, CreateBranch(answer)
  PROVE  Inv'
<1>1. TypeOK /\ Busy /\ ~dry /\ step.kind = "branch_and_pr" /\ Writes(answer, ~here.branch, WithBranch)
  BY DEF CreateBranch, Awaits, Inv, CallOk
<1>2. /\ remote' \in [DOMAIN plan -> RemoteState] /\ \A i \in DOMAIN plan : i # pos => remote'[i] = remote[i]
      /\ remote'[pos] \in {remote[pos], WithBranch} /\ UNCHANGED <<plan, dry, process>>
      /\ answer = "ok" => remote'[pos] = WithBranch
      /\ answer = "refused" => remote'[pos] = remote[pos]
  BY <1>1, Changes, WritesEffect
<1>3. Grows(remote[pos], remote'[pos]) /\ remote'[pos].pr = remote[pos].pr /\ remote'[pos].received = remote[pos].received
  BY <1>1, <1>2, Changes DEF Grows, here
<1>4. Touches
  BY <1>2, <1>3 DEF Touches
<1>5. CASE FromFile(1) /\ (answer = "ok" \/ (answer = "refused" /\ here.branch))
  <2>1. remote'[pos].branch
    BY <1>1, <1>2, <1>5, Changes DEF here
  <2>2. 1 - 1 <= step.files /\ 1..(1 - 1) = {}
    BY <1>1, StepFiles
  <2> QED BY <1>1, <1>3, <1>4, <1>5, <2>1, <2>2, FromFileKeeps
<1> QED
  BY <1>1, <1>4, <1>5, FailKeeps DEF CreateBranch

\* A write to the file the call is about.
LEMMA WritesFile ==
  ASSUME TypeOK, Busy, call.file \in 1..step.files, NEW answer \in Answers, NEW possible \in BOOLEAN,
         Writes(answer, possible, WithFile(call.file))
  PROVE  /\ Touches
         /\ remote'[pos].received = remote[pos].received
         /\ remote'[pos].branch = remote[pos].branch
         /\ answer = "ok" => remote'[pos].file[call.file] = "new"
         /\ \A f \in Files : remote[pos].file[f] = "new" => remote'[pos].file[f] = "new"
<1>1. call.file \in Files
  BY StepFiles
<1>2. /\ remote' \in [DOMAIN plan -> RemoteState] /\ \A i \in DOMAIN plan : i # pos => remote'[i] = remote[i]
      /\ remote'[pos] \in {remote[pos], WithFile(call.file)} /\ UNCHANGED <<plan, dry, process>>
      /\ answer = "ok" => remote'[pos] = WithFile(call.file)
  BY <1>1, Changes, WritesEffect
<1>3. /\ Grows(remote[pos], remote'[pos]) /\ remote'[pos].pr = remote[pos].pr
      /\ remote'[pos].received = remote[pos].received /\ remote'[pos].branch = remote[pos].branch
      /\ answer = "ok" => remote'[pos].file[call.file] = "new"
  BY <1>1, <1>2, Changes DEF Grows, here
<1> QED
  BY <1>2, <1>3 DEF Touches, Grows

\* One file further: what the earlier ones hold, this one does now.
LEMMA OneFileFurther ==
  ASSUME TypeOK, Busy, call.file \in 1..step.files, FilesIn(pos, call.file - 1),
         \A f \in Files : remote[pos].file[f] = "new" => remote'[pos].file[f] = "new"
  PROVE  /\ \A f \in 1..(call.file - 1) : remote'[pos].file[f] = "new"
         /\ remote'[pos].file[call.file] = "new" =>
              \A f \in 1..((call.file + 1) - 1) : remote'[pos].file[f] = "new"
         /\ call.file + 1 \in Nat \ {0} /\ (call.file + 1) - 1 <= step.files
<1>1. step.files \in Nat /\ 1..step.files \subseteq Files
  BY StepFiles
<1>2. 1..(call.file - 1) \subseteq Files
  BY <1>1
<1> QED
  BY <1>1, <1>2 DEF FilesIn

LEMMA PutFileKeeps ==
  ASSUME Inv, NEW answer \in Answers, PutFile(answer)
  PROVE  Inv'
<1>1. /\ TypeOK /\ Busy /\ ~dry /\ step.kind = "branch_and_pr" /\ remote[pos].branch
      /\ call.file \in 1..step.files /\ FilesIn(pos, call.file - 1)
      /\ Writes(answer, here.file[call.file] = "absent", WithFile(call.file))
  BY DEF PutFile, Awaits, Inv, CallOk, here
<1>2. /\ Touches /\ remote'[pos].received = remote[pos].received /\ remote'[pos].branch
      /\ answer = "ok" => remote'[pos].file[call.file] = "new"
      /\ \A f \in Files : remote[pos].file[f] = "new" => remote'[pos].file[f] = "new"
  BY <1>1, WritesFile
<1>3. CASE answer = "ok" /\ FromFile(call.file + 1)
  BY <1>1, <1>2, <1>3, OneFileFurther, FromFileKeeps
<1>4. CASE GoTo("look", call.file)
  <2>1. CallOk'
    BY <1>1, <1>2, <1>4, OneFileFurther, GoToNext
  <2> QED BY <1>1, <1>2, <1>4, <2>1, GoToKeeps, StepFiles DEF CallKinds
<1> QED
  BY <1>1, <1>2, <1>3, <1>4, FailKeeps DEF PutFile

LEMMA LookAtFileKeeps ==
  ASSUME Inv, NEW answer \in Answers, LookAtFile(answer)
  PROVE  Inv'
<1>1. /\ TypeOK /\ Busy /\ ~dry /\ step.kind = "branch_and_pr" /\ remote[pos].branch
      /\ call.file \in 1..step.files /\ FilesIn(pos, call.file - 1)
      /\ Reads(answer, here.file[call.file] # "absent")
  BY DEF LookAtFile, Awaits, Inv, CallOk, here
<1>2. Touches /\ remote' = remote
  BY <1>1, ReadsTouch
<1>3. CASE GoTo("update", call.file)
  <2>1. CallOk'
    BY <1>1, <1>2, <1>3, OneFileFurther, GoToNext
  <2> QED BY <1>1, <1>2, <1>3, <2>1, GoToKeeps, StepFiles DEF CallKinds
<1> QED
  BY <1>1, <1>2, <1>3, FailKeeps DEF LookAtFile

LEMMA UpdateFileKeeps ==
  ASSUME Inv, NEW answer \in Answers, UpdateFile(answer)
  PROVE  Inv'
<1>1. /\ TypeOK /\ Busy /\ ~dry /\ step.kind = "branch_and_pr" /\ remote[pos].branch
      /\ call.file \in 1..step.files /\ FilesIn(pos, call.file - 1)
      /\ Writes(answer, here.file[call.file] # "absent", WithFile(call.file))
  BY DEF UpdateFile, Awaits, Inv, CallOk, here
<1>2. /\ Touches /\ remote'[pos].received = remote[pos].received /\ remote'[pos].branch
      /\ answer = "ok" => remote'[pos].file[call.file] = "new"
      /\ \A f \in Files : remote[pos].file[f] = "new" => remote'[pos].file[f] = "new"
  BY <1>1, WritesFile
<1>3. CASE answer = "ok" /\ FromFile(call.file + 1)
  BY <1>1, <1>2, <1>3, OneFileFurther, FromFileKeeps
<1> QED
  BY <1>1, <1>2, <1>3, FailKeeps DEF UpdateFile

LEMMA OpenPrKeeps ==
  ASSUME Inv, NEW answer \in Answers, OpenPr(answer)
  PROVE  Inv'
<1>1. /\ TypeOK /\ Busy /\ ~dry /\ step.kind = "branch_and_pr" /\ remote[pos].branch
      /\ FilesIn(pos, step.files) /\ Writes(answer, ~here.pr, WithPr)
  BY DEF OpenPr, Awaits, Inv, CallOk, here
<1>2. /\ remote' \in [DOMAIN plan -> RemoteState] /\ \A i \in DOMAIN plan : i # pos => remote'[i] = remote[i]
      /\ remote'[pos] \in {remote[pos], WithPr} /\ UNCHANGED <<plan, dry, process>>
      /\ answer = "ok" => remote'[pos] = WithPr
  BY <1>1, Changes, WritesEffect
<1>3. /\ Grows(remote[pos], remote'[pos]) /\ remote'[pos].received = remote[pos].received
      /\ remote'[pos].branch /\ remote'[pos].file = remote[pos].file
      /\ answer = "ok" => remote'[pos].pr
  BY <1>1, <1>2, Changes DEF Grows, here
<1>4. \A f \in 1..step.files : remote'[pos].file[f] = "new"
  BY <1>1, <1>3 DEF FilesIn
<1>5. Touches
  BY <1>2, <1>3, <1>4 DEF Touches
<1>6. CASE answer = "ok" /\ Settle("dispatched", TRUE)
  BY <1>1, <1>3, <1>4, <1>5, <1>6, SettleKeeps
<1>7. CASE Settle("dispatched", FALSE)
  BY <1>1, <1>3, <1>4, <1>5, <1>7, SettleKeeps
<1> QED
  BY <1>1, <1>5, <1>6, <1>7, FailKeeps DEF OpenPr

LEMMA LookAtDefaultKeeps ==
  ASSUME Inv, NEW answer \in Answers, LookAtDefault(answer)
  PROVE  Inv'
<1>1. /\ TypeOK /\ Busy /\ ~dry /\ step.kind = "direct_commit"
      /\ Reads(answer, here.file[call.file] # "absent")
  BY DEF LookAtDefault, AwaitsBegin, Awaits, Inv, CallOk
<1>2. call.file \in 1..step.files /\ FilesIn(pos, call.file - 1)
  <2>1. CASE call = Begin
    <3>1. call.file = 1 /\ 1 <= step.files /\ step.files \in Nat
      BY <1>1, <2>1, StepFiles DEF LookAtDefault, Begin
    <3> QED BY <3>1 DEF FilesIn
  <2>2. CASE Awaits("lookDefault")
    BY <2>2 DEF Awaits, Inv, CallOk
  <2> QED BY <2>1, <2>2 DEF LookAtDefault, AwaitsBegin
<1>3. Touches /\ remote' = remote
  BY <1>1, ReadsTouch
<1>4. ASSUME NEW kind \in {"updateDefault", "putDefault"}, GoTo(kind, call.file)
      PROVE  Inv'
  <2>1. CallOk'
    BY <1>1, <1>2, <1>3, <1>4, OneFileFurther, GoToNext
  <2> QED BY <1>1, <1>3, <1>4, <2>1, GoToKeeps, StepFiles DEF CallKinds
<1> QED
  BY <1>1, <1>3, <1>4, FailKeeps DEF LookAtDefault

LEMMA CommitToDefaultKeeps ==
  ASSUME Inv, NEW answer \in Answers, CommitToDefault(answer)
  PROVE  Inv'
<1>1. /\ TypeOK /\ Busy /\ ~dry /\ step.kind = "direct_commit"
      /\ call.file \in 1..step.files /\ FilesIn(pos, call.file - 1)
  BY DEF CommitToDefault, Awaits, Inv, CallOk
<1>2. \E possible \in BOOLEAN : Writes(answer, possible, WithFile(call.file))
  BY DEF CommitToDefault
<1>3. /\ Touches /\ remote'[pos].received = remote[pos].received
      /\ answer = "ok" => remote'[pos].file[call.file] = "new"
      /\ \A f \in Files : remote[pos].file[f] = "new" => remote'[pos].file[f] = "new"
  BY <1>1, <1>2, WritesFile
<1>4. CASE answer = "ok" /\ call.file < step.files /\ GoTo("lookDefault", call.file + 1)
  <2>1. call.file + 1 \in 1..step.files /\ call.file + 1 \in Nat
    BY <1>1, <1>4, StepFiles
  <2>2. \A f \in 1..((call.file + 1) - 1) : remote'[pos].file[f] = "new"
    BY <1>1, <1>3, <1>4, OneFileFurther
  <2>3. CallOk'
    BY <1>1, <1>3, <1>4, <2>1, <2>2, GoToNext
  <2> QED BY <1>1, <1>3, <1>4, <2>1, <2>3, GoToKeeps DEF CallKinds
<1>5. CASE answer = "ok" /\ call.file = step.files /\ Settle("dispatched", FALSE)
  <2>1. \A f \in 1..((call.file + 1) - 1) : remote'[pos].file[f] = "new"
    BY <1>1, <1>3, <1>5, OneFileFurther
  <2>2. \A f \in 1..step.files : remote'[pos].file[f] = "new"
    BY <1>1, <1>5, <2>1, StepFiles
  <2> QED BY <1>1, <1>3, <1>5, <2>2, SettleKeeps
<1> QED
  BY <1>1, <1>3, <1>4, <1>5, FailKeeps DEF CommitToDefault

LEMMA SendWebhookKeeps ==
  ASSUME Inv, NEW answer \in Answers, SendWebhook(answer)
  PROVE  Inv'
<1>1. TypeOK /\ Busy /\ step.kind = "webhook" /\ Writes(answer, TRUE, WithRequest)
  BY DEF SendWebhook, AwaitsBegin, Inv
<1>2. /\ remote' \in [DOMAIN plan -> RemoteState] /\ \A i \in DOMAIN plan : i # pos => remote'[i] = remote[i]
      /\ remote'[pos] \in {remote[pos], WithRequest} /\ UNCHANGED <<plan, dry, process>>
      /\ answer = "ok" => remote'[pos] = WithRequest
  BY <1>1, Changes, WritesEffect
<1>3. /\ Grows(remote[pos], remote'[pos]) /\ remote'[pos].pr = remote[pos].pr
      /\ remote'[pos].received \in {remote[pos].received, remote[pos].received + 1}
      /\ answer = "ok" => remote'[pos].received = remote[pos].received + 1
  BY <1>1, <1>2, Changes DEF Grows, here
<1>4. Touches
  BY <1>2, <1>3 DEF Touches
<1>5. CASE answer = "ok" /\ Settle("dispatched", FALSE)
  <2>1. remote[pos].received \in Nat
    BY <1>1, Shape DEF Busy, RemoteState
  <2>2. remote'[pos].received > 0
    BY <1>3, <1>5, <2>1
  <2> QED BY <1>1, <1>4, <1>5, <2>2, SettleKeeps
<1> QED
  BY <1>1, <1>4, <1>5, FailKeeps DEF SendWebhook

LEMMA SettleWithoutCallKeeps ==
  ASSUME Inv, SettleWithoutCall
  PROVE  Inv'
<1>1. TypeOK /\ Busy /\ remote' = remote /\ UNCHANGED <<plan, dry, process>>
  BY DEF SettleWithoutCall, Inv
<1>2. Touches
  <2>1. remote \in [DOMAIN plan -> RemoteState]
    BY <1>1 DEF TypeOK
  <2> QED BY <1>1, <2>1 DEF Touches, Grows
<1>3. PICK status \in {"dispatched", "failed", "skipped"} : SettlesWithoutCall(status) /\ Settle(status, FALSE)
  BY DEF SettleWithoutCall
<1>4. status = "dispatched" /\ ~dry =>
        step.kind = "stub" \/ (step.kind = "direct_commit" /\ step.files = 0)
  BY <1>3 DEF SettlesWithoutCall
<1>5. status = "dispatched" /\ ~dry =>
        /\ step.kind # "branch_and_pr" /\ step.kind # "webhook"
        /\ step.kind = "direct_commit" => \A f \in 1..step.files : remote'[pos].file[f] = "new"
  BY <1>4
<1> QED
  BY <1>1, <1>2, <1>3, <1>5, SettleKeeps

(***************************************************************************)
(* Theorems                                                                *)
(***************************************************************************)
LEMMA InitInv == Init => Inv
<1> SUFFICES ASSUME Init PROVE Inv
  OBVIOUS
<1>1. plan \in Seq([kind : Kinds, files : 0..MaxFiles]) /\ MaxAttempts \in Nat \ {0}
  <2>1. plan \in Plans
    BY DEF Init
  <2> QED BY <2>1, PlansAssumption
<1>2. pos = 1 /\ Len(results) = 0 /\ DOMAIN results = {} /\ Len(results) <= Len(plan)
  BY <1>1 DEF Init, pos
<1>3. \A i \in DOMAIN plan : remote[i] \in RemoteState /\ ~remote[i].pr /\ remote[i].received = 0
  <2> DEFINE R == {[branch |-> branch, file |-> file, pr |-> FALSE, received |-> 0] :
                     branch \in BOOLEAN, file \in [Files -> {"absent", "old"}]}
  <2>1. remote \in [DOMAIN plan -> R]
    BY DEF Init
  <2>2. \A r \in R : r \in RemoteState /\ ~r.pr /\ r.received = 0
    <3>1. [Files -> {"absent", "old"}] \subseteq [Files -> Contents]
      BY DEF Contents
    <3>2. ASSUME NEW branch \in BOOLEAN, NEW file \in [Files -> {"absent", "old"}]
          PROVE  [branch |-> branch, file |-> file, pr |-> FALSE, received |-> 0] \in RemoteState
      <4>1. file \in [Files -> Contents]
        BY <3>1
      <4> QED BY <4>1 DEF RemoteState
    <3> QED BY <3>2
  <2> HIDE DEF R
  <2> QED BY <2>1, <2>2
<1>4. remote \in [DOMAIN plan -> RemoteState]
  BY <1>3 DEF Init
<1>5. TypeOK
  <2>1. results \in Seq([status : {"dispatched", "failed", "skipped"}, prReported : BOOLEAN])
    BY DEF Init
  <2>2. attempt \in 1..MaxAttempts /\ call \in [kind : CallKinds, file : Nat]
    BY <1>1 DEF Init, Begin, CallKinds
  <2> QED BY <1>2, <1>4, <2>1, <2>2 DEF Init, TypeOK
<1>6. CallOk
  BY DEF Init, Begin, CallOk
<1>7. DispatchedMeansDone /\ PrsAreComplete /\ OnceAnAttempt
  <2>1. DOMAIN remote = DOMAIN plan /\ attempt = 1 /\ MaxAttempts >= 0
    BY <1>1, <1>4 DEF Init
  <2>2. DispatchedMeansDone
    BY <1>2 DEF DispatchedMeansDone
  <2>3. PrsAreComplete
    BY <1>3, <2>1 DEF PrsAreComplete
  <2>4. OnceAnAttempt
    BY <1>3, <2>1 DEF OnceAnAttempt
  <2> QED BY <2>2, <2>3, <2>4
<1> QED
  BY <1>5, <1>6, <1>7 DEF Inv

LEMMA StepInv == Inv /\ [Next]_vars => Inv'
<1> SUFFICES ASSUME Inv, [Next]_vars PROVE Inv'
  OBVIOUS
<1>1. CASE Progress
  BY <1>1, FetchRepoKeeps, FetchRefKeeps, CreateBranchKeeps, PutFileKeeps, LookAtFileKeeps,
     UpdateFileKeeps, OpenPrKeeps, LookAtDefaultKeeps, CommitToDefaultKeeps, SendWebhookKeeps,
     SettleWithoutCallKeeps DEF Progress
<1>2. CASE UNCHANGED <<plan, dry, results, attempt, call, remote>> /\ process' \in {process, "dead"}
  <2>1. pos' = pos /\ step' = step /\ here' = here
    BY <1>2 DEF pos, step, here
  <2>2. TypeOK'
    BY <1>2 DEF Inv, TypeOK
  <2>3. CallOk'
    BY <1>2, <2>1 DEF Inv, CallOk, FilesIn
  <2>4. DispatchedMeansDone' /\ PrsAreComplete' /\ OnceAnAttempt'
    BY <1>2, <2>1 DEF Inv, DispatchedMeansDone, PrsAreComplete, OnceAnAttempt, FilesIn
  <2> QED BY <2>2, <2>3, <2>4 DEF Inv
<1> QED
  BY <1>1, <1>2 DEF Next, Crash, Over, vars

LEMMA InvHolds == Spec => []Inv
<1> QED BY InitInv, StepInv, PTL DEF Spec

\* The variables keep their types; in particular no step gets an attempt
\* beyond MaxAttempts and no plan more results than steps.
THEOREM PlanTypeCorrect == Spec => []TypeOK
<1>1. Inv => TypeOK
  BY DEF Inv
<1> QED BY <1>1, InvHolds, PTL

\* What is reported as dispatched was done, for every plan and every pattern
\* of refused, failed and unanswered calls.
THEOREM DispatchedMeansDoneHolds == Spec => []DispatchedMeansDone
<1>1. Inv => DispatchedMeansDone
  BY DEF Inv
<1> QED BY <1>1, InvHolds, PTL

\* Pull requests are opened from complete branches only.
THEOREM PrsAreCompleteHolds == Spec => []PrsAreComplete
<1>1. Inv => PrsAreComplete
  BY DEF Inv
<1> QED BY <1>1, InvHolds, PTL

\* A webhook is received at most once per attempt.
THEOREM OnceAnAttemptHolds == Spec => []OnceAnAttempt
<1>1. Inv => OnceAnAttempt
  BY DEF Inv
<1> QED BY <1>1, InvHolds, PTL

\* A dry run never gets past the first call of a step, which it does not make.
THEOREM DryRunTouchesNothingHolds == Spec => DryRunTouchesNothing
<1>1. Inv /\ [Next]_vars => [dry => UNCHANGED remote]_vars
  <2> SUFFICES ASSUME Inv, [Next]_vars, dry PROVE UNCHANGED remote
    OBVIOUS
  <2>1. call.kind = "begin"
    BY DEF Inv, CallOk
  <2>2. CASE Progress
    <3>1. SettleWithoutCall
      BY <2>1, <2>2 DEF Progress, FetchRepo, FetchRef, CreateBranch, PutFile, LookAtFile, UpdateFile,
         OpenPr, LookAtDefault, CommitToDefault, SendWebhook, Awaits, AwaitsBegin
    <3> QED BY <3>1 DEF SettleWithoutCall
  <2> QED BY <2>2 DEF Next, Crash, Over, vars
<1> QED BY <1>1, InvHolds, PTL DEF Spec, DryRunTouchesNothing
=============================================================================
