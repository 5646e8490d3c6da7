------------------------- MODULE ApprovalLifecycle -------------------------
(***************************************************************************)
(* What the approval gate promises to whoever looks only at the approvals  *)
(* table (ops/SYSTEM-GUIDE.md, "Approval Gate & Dispatch"):                *)
(*                                                                         *)
(*   pending -> approved -> dispatching -> dispatched | dispatch_failed    *)
(*           -> rejected                                                   *)
(*           -> expired                                                    *)
(*                                                                         *)
(* and a plan is executed at most once, by the caller that moved the row   *)
(* to "dispatching".  ApprovalGate implements this specification.          *)
(***************************************************************************)
EXTENDS Naturals

CONSTANT Approvals   \* the rows of the approvals table

VARIABLES
  approvalStatus,    \* approval_status of each row; "none" before the INSERT
  planRuns           \* how many times the row's plan was handed to the connectors

Statuses == {"none", "pending", "approved", "rejected", "expired",
             "dispatching", "dispatched", "dispatch_failed"}

\* The states no action of the lifecycle leaves.
Terminal == {"rejected", "expired", "dispatched", "dispatch_failed"}

Init ==
  /\ approvalStatus = [a \in Approvals |-> "none"]
  /\ planRuns = [a \in Approvals |-> 0]

Move(a, from, to) ==
  /\ approvalStatus[a] = from
  /\ approvalStatus' = [approvalStatus EXCEPT ![a] = to]

Create(a) == Move(a, "none", "pending") /\ UNCHANGED planRuns

Decide(a, verdict) == Move(a, "pending", verdict) /\ UNCHANGED planRuns

\* The maintenance timer expires every overdue row in one statement.
Expire(overdue) ==
  /\ \A a \in overdue : approvalStatus[a] = "pending"
  /\ approvalStatus' = [a \in Approvals |-> IF a \in overdue THEN "expired" ELSE approvalStatus[a]]
  /\ UNCHANGED planRuns

\* The winner of the compare-and-swap may start the plan at once, or only
\* after the release check.
Consume(a) ==
  /\ Move(a, "approved", "dispatching")
  /\ planRuns' \in {planRuns, [planRuns EXCEPT ![a] = 1]}

Run(a) ==
  /\ approvalStatus[a] = "dispatching"
  /\ planRuns[a] = 0
  /\ planRuns' = [planRuns EXCEPT ![a] = 1]
  /\ UNCHANGED approvalStatus

Conclude(a, outcome) == Move(a, "dispatching", outcome) /\ UNCHANGED planRuns

Next ==
  \/ \E a \in Approvals :
       \/ Create(a)
       \/ \E verdict \in {"approved", "rejected"} : Decide(a, verdict)
       \/ Consume(a)
       \/ Run(a)
       \/ \E outcome \in {"dispatched", "dispatch_failed"} : Conclude(a, outcome)
  \/ \E overdue \in SUBSET Approvals : Expire(overdue)

Spec == Init /\ [][Next]_<<approvalStatus, planRuns>>
=============================================================================
