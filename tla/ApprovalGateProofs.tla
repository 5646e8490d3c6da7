------------------------- MODULE ApprovalGateProofs -------------------------
(***************************************************************************)
(* The safety properties of ApprovalGate, for any sets of approvals,       *)
(* users, request slots and templates.  The chain lemmas come first; then  *)
(* one inductive argument per concern, each resting on the ones before it: *)
(* types, references between the variables, chains, sign-off, dispatch,    *)
(* stalls; and the refinement of ApprovalLifecycle at the end.             *)
(***************************************************************************)
EXTENDS ApprovalGate, TLAPS

\* A chain as approval_chain_steps can hold it.
TypedChain(c) == DOMAIN c \subseteq Steps /\ c \in [DOMAIN c -> StepRow]

\* What every chain satisfies between two actions.
GoodChain(c) ==
  /\ Dense(c)
  /\ FrontierIsOneGroup(c)
  /\ PendingWaitsForActive(c)
  /\ RejectionEndsChain(c)

(***************************************************************************)
(* Chains                                                                  *)
(***************************************************************************)
\* createChainForApproval starts a good chain with somebody to ask.
LEMMA InstantiateIsGood ==
  ASSUME NEW t \in Templates
  PROVE  LET c == InstantiateChain(t)
         IN TypedChain(c) /\ GoodChain(c) /\ c # NoChain /\ ActiveSteps(c) # {}
<1> DEFINE c == InstantiateChain(t)
<1>1. /\ DOMAIN t \subseteq Steps
      /\ DOMAIN t # {}
      /\ t \in [DOMAIN t -> [order : Nat, role : Roles]]
      /\ Dense(t)
  BY TemplatesAssumption
<1>2. /\ DOMAIN c = DOMAIN t
      /\ \A s \in DOMAIN t :
           /\ c[s].order = t[s].order
           /\ c[s].role = t[s].role
           /\ c[s].status = IF t[s].order = 0 THEN "active" ELSE "pending"
  BY DEF InstantiateChain
<1>3. TypedChain(c)
  BY <1>1 DEF TypedChain, InstantiateChain, StepRow, StepStatuses
<1>4. Dense(c)
  BY <1>1, <1>2 DEF Dense
<1>5. FrontierIsOneGroup(c) /\ RejectionEndsChain(c)
  BY <1>1, <1>2 DEF FrontierIsOneGroup, RejectionEndsChain, HasRejection, Before
<1>6. \A s \in DOMAIN t : \E p \in DOMAIN t : t[p].order = 0
  <2> TAKE s \in DOMAIN t
  <2>1. CASE t[s].order = 0
    BY <2>1
  <2>2. CASE t[s].order # 0
    <3>1. 0 \in 0..(t[s].order - 1)
      BY <1>1, <2>2
    <3> QED BY <1>1, <3>1 DEF Dense
  <2> QED BY <2>1, <2>2
<1>7. ActiveSteps(c) # {}
  BY <1>1, <1>2, <1>6 DEF ActiveSteps
<1>8. PendingWaitsForActive(c)
  BY <1>1, <1>2, <1>6 DEF PendingWaitsForActive, ActiveSteps, Before
<1>9. c # NoChain
  BY <1>1, <1>2 DEF NoChain
<1> QED BY <1>3, <1>4, <1>5, <1>7, <1>8, <1>9 DEF GoodChain

\* The status column after a rejection; nothing else changes.
LEMMA RejectedRows ==
  ASSUME NEW c, TypedChain(c), NEW s \in DOMAIN c
  PROVE  LET d == RejectStep(c, s)
         IN /\ TypedChain(d)
            /\ DOMAIN d = DOMAIN c
            /\ \A x \in DOMAIN c :
                 /\ d[x].order = c[x].order
                 /\ d[x].status = IF x = s THEN "rejected"
                                  ELSE IF x \in SkippedBy(c, s) THEN "skipped" ELSE c[x].status
BY DEF TypedChain, RejectStep, SetStatus, StepRow, StepStatuses

\* The status column after an approval; nothing else changes.
LEMMA ApprovedRows ==
  ASSUME NEW c, TypedChain(c), NEW s \in DOMAIN c
  PROVE  LET d == ApproveStep(c, s)
         IN /\ TypedChain(d)
            /\ DOMAIN d = DOMAIN c
            /\ \A x \in DOMAIN c :
                 /\ d[x].order = c[x].order
                 /\ d[x].status = IF x = s THEN "approved"
                                  ELSE IF x \in ActivatedBy(c, s) THEN "active" ELSE c[x].status
BY DEF TypedChain, ApproveStep, SetStatus, StepRow, StepStatuses

\* A rejection ends a chain: it stays good and nothing is active any more.
LEMMA RejectKeepsGood ==
  ASSUME NEW c, TypedChain(c), GoodChain(c), NEW s \in ActiveSteps(c)
  PROVE  LET d == RejectStep(c, s)
         IN TypedChain(d) /\ GoodChain(d) /\ d # NoChain /\ ActiveSteps(d) = {}
<1> DEFINE d == RejectStep(c, s)
<1> HIDE DEF d
<1>1. s \in DOMAIN c /\ c[s].status = "active"
  BY DEF ActiveSteps
<1>2. \A x \in DOMAIN c : c[x].order \in Nat /\ c[x].status \in StepStatuses
  BY DEF TypedChain, StepRow
<1>3. /\ TypedChain(d)
      /\ DOMAIN d = DOMAIN c
      /\ \A x \in DOMAIN c :
           /\ d[x].order = c[x].order
           /\ d[x].status = IF x = s THEN "rejected"
                            ELSE IF x \in SkippedBy(c, s) THEN "skipped" ELSE c[x].status
  BY <1>1, RejectedRows DEF d
\* What the rejection does not skip was decided before: a waiting or active
\* step of an earlier group contradicts the frontier.
<1>4. \A x \in DOMAIN c : d[x].status \notin {"active", "pending"}
  <2> SUFFICES ASSUME NEW x \in DOMAIN c, x # s, x \notin SkippedBy(c, s)
               PROVE  c[x].status \notin {"active", "pending"}
    BY <1>3
  <2>1. CASE c[x].order < c[s].order
    BY <1>1, <2>1 DEF GoodChain, FrontierIsOneGroup, Before
  <2>2. CASE c[x].order = c[s].order
    <3>1. c[x].status # "active"
      BY <2>2 DEF SkippedBy
    <3>2. ASSUME c[x].status = "pending" PROVE FALSE
      <4>1. PICK t \in ActiveSteps(c) : c[t].order < c[x].order
        BY <3>2 DEF GoodChain, PendingWaitsForActive, Before
      <4> QED BY <1>1, <2>2, <4>1 DEF GoodChain, FrontierIsOneGroup, Before, ActiveSteps
    <3> QED BY <3>1, <3>2
  <2>3. CASE c[x].order > c[s].order
    BY <2>3 DEF SkippedBy
  <2> QED BY <1>1, <1>2, <2>1, <2>2, <2>3
<1>5. HasRejection(d)
  BY <1>1, <1>3 DEF HasRejection
<1>6. Dense(d)
  BY <1>3 DEF Dense, GoodChain
<1>7. ActiveSteps(d) = {} /\ d # NoChain
  BY <1>1, <1>3, <1>4 DEF ActiveSteps, NoChain
<1>8. FrontierIsOneGroup(d) /\ PendingWaitsForActive(d) /\ RejectionEndsChain(d)
  BY <1>3, <1>4, <1>5 DEF FrontierIsOneGroup, PendingWaitsForActive, RejectionEndsChain
<1> QED BY <1>3, <1>6, <1>7, <1>8 DEF GoodChain, d

\* The steps of an active step's group were all active or are approved.
LEMMA GroupOfActive ==
  ASSUME NEW c, TypedChain(c), GoodChain(c), NEW s \in ActiveSteps(c),
         NEW x \in DOMAIN c, c[x].order = c[s].order
  PROVE  c[x].status \in {"active", "approved"}
<1>1. s \in DOMAIN c /\ c[s].status = "active"
  BY DEF ActiveSteps
<1>2. c[x].status \in StepStatuses /\ c[x].order \in Nat
  BY DEF TypedChain, StepRow
<1>3. c[x].status \notin {"rejected", "skipped"}
  BY <1>1 DEF GoodChain, RejectionEndsChain, HasRejection
<1>4. ASSUME c[x].status = "pending" PROVE FALSE
  <2>1. PICK t \in ActiveSteps(c) : c[t].order < c[x].order
    BY <1>4 DEF GoodChain, PendingWaitsForActive, Before
  <2> QED BY <1>1, <2>1 DEF GoodChain, FrontierIsOneGroup, Before, ActiveSteps
<1> QED BY <1>2, <1>3, <1>4 DEF StepStatuses

\* All active steps belong to one group; what is above it waits, what is
\* below it is approved.
LEMMA AroundActive ==
  ASSUME NEW c, TypedChain(c), GoodChain(c), NEW s \in ActiveSteps(c), NEW x \in DOMAIN c
  PROVE  /\ c[x].order < c[s].order => c[x].status = "approved"
         /\ c[x].order > c[s].order => c[x].status = "pending"
         /\ c[x].status = "active" => c[x].order = c[s].order
<1>1. s \in DOMAIN c /\ c[s].status = "active" /\ c[s].order \in Nat /\ c[x].order \in Nat
  BY DEF ActiveSteps, TypedChain, StepRow
<1> QED BY <1>1 DEF GoodChain, FrontierIsOneGroup, Before

\* Above an active step there is either nothing or a waiting next group.
LEMMA NextGroupExists ==
  ASSUME NEW c, TypedChain(c), GoodChain(c), NEW s \in ActiveSteps(c),
         NEW x \in DOMAIN c, c[x].order > c[s].order
  PROVE  \E q \in NextGroup(c, s) : c[q].order <= c[x].order
<1>1. s \in DOMAIN c /\ c[s].order \in Nat /\ \A y \in DOMAIN c : c[y].order \in Nat
  BY DEF ActiveSteps, TypedChain, StepRow
<1>2. \E q \in DOMAIN c : c[q].order = c[s].order + 1
  <2>1. CASE c[x].order = c[s].order + 1
    BY <2>1
  <2>2. CASE c[x].order # c[s].order + 1
    <3>1. c[s].order + 1 \in 0..(c[x].order - 1)
      BY <1>1, <2>2
    <3> QED BY <3>1 DEF GoodChain, Dense
  <2> QED BY <2>1, <2>2
<1>3. PICK q \in DOMAIN c : c[q].order = c[s].order + 1
  BY <1>2
<1>4. c[q].status = "pending"
  BY <1>1, <1>3, AroundActive
<1> QED BY <1>1, <1>3, <1>4 DEF NextGroup

\* The last decision of a chain leaves every step approved.
LEMMA CompletionApprovesAll ==
  ASSUME NEW c, TypedChain(c), GoodChain(c), NEW s \in ActiveSteps(c), CompletesChain(c, s)
  PROVE  LET d == ApproveStep(c, s)
         IN /\ d # NoChain
            /\ \A x \in DOMAIN d : d[x].status = "approved"
<1>1. s \in DOMAIN c /\ c[s].order \in Nat /\ \A y \in DOMAIN c : c[y].order \in Nat
  BY DEF ActiveSteps, TypedChain, StepRow
<1>2. \A x \in DOMAIN c : x = s \/ c[x].status = "approved"
  <2> SUFFICES ASSUME NEW x \in DOMAIN c, x # s PROVE c[x].status = "approved"
    OBVIOUS
  <2>1. CASE c[x].order < c[s].order
    BY <2>1, AroundActive
  <2>2. CASE c[x].order = c[s].order
    BY <2>2, GroupOfActive DEF CompletesChain, ActiveSiblings, ActiveSteps
  <2>3. CASE c[x].order > c[s].order
    BY <2>3, NextGroupExists DEF CompletesChain
  <2> QED BY <1>1, <2>1, <2>2, <2>3
<1>3. ActivatedBy(c, s) = {}
  BY DEF CompletesChain, ActivatedBy
<1> DEFINE d == ApproveStep(c, s)
<1> HIDE DEF d
<1>4. /\ DOMAIN d = DOMAIN c
      /\ \A x \in DOMAIN c :
           d[x].status = IF x = s THEN "approved"
                         ELSE IF x \in ActivatedBy(c, s) THEN "active" ELSE c[x].status
  BY <1>1, ApprovedRows DEF d
<1>5. \A x \in DOMAIN c : d[x].status = "approved"
  BY <1>2, <1>3, <1>4
<1>6. d # NoChain
  BY <1>1, <1>4 DEF NoChain
<1> QED BY <1>4, <1>5, <1>6 DEF d

\* An approval that does not complete the chain leaves somebody to ask.
LEMMA ProgressLeavesActive ==
  ASSUME NEW c, TypedChain(c), GoodChain(c), NEW s \in ActiveSteps(c), ~CompletesChain(c, s)
  PROVE  LET d == ApproveStep(c, s) IN ActiveSteps(d) # {}
<1>1. s \in DOMAIN c
  BY DEF ActiveSteps
<1>2. CASE ActiveSiblings(c, s) # {}
  <2>1. PICK y \in ActiveSiblings(c, s) : TRUE
    BY <1>2
  <2>2. y \in DOMAIN c /\ y # s /\ c[y].status = "active"
    BY <2>1 DEF ActiveSiblings, ActiveSteps
  <2> QED BY <1>1, <2>2, ApprovedRows DEF ActiveSteps
<1>3. CASE ActiveSiblings(c, s) = {}
  <2>1. PICK q \in NextGroup(c, s) : TRUE
    BY <1>3 DEF CompletesChain
  <2>2. q \in DOMAIN c /\ q # s /\ q \in ActivatedBy(c, s)
    BY <1>3, <2>1 DEF NextGroup, ActivatedBy, ActiveSteps
  <2> QED BY <1>1, <2>2, ApprovedRows DEF ActiveSteps
<1> QED BY <1>2, <1>3

\* An approval keeps a chain good, whether it waits for siblings, activates
\* the next group or completes the chain.
LEMMA ApproveKeepsGood ==
  ASSUME NEW c, TypedChain(c), GoodChain(c), NEW s \in ActiveSteps(c)
  PROVE  LET d == ApproveStep(c, s) IN TypedChain(d) /\ GoodChain(d) /\ d # NoChain
<1> DEFINE d == ApproveStep(c, s)
<1> HIDE DEF d
<1>1. s \in DOMAIN c /\ c[s].status = "active" /\ \A x \in DOMAIN c : c[x].order \in Nat
  BY DEF ActiveSteps, TypedChain, StepRow
<1>2. /\ TypedChain(d)
      /\ DOMAIN d = DOMAIN c
      /\ \A x \in DOMAIN c :
           /\ d[x].order = c[x].order
           /\ d[x].status = IF x = s THEN "approved"
                            ELSE IF x \in ActivatedBy(c, s) THEN "active" ELSE c[x].status
  BY <1>1, ApprovedRows DEF d
<1>3. Dense(d) /\ d # NoChain
  BY <1>1, <1>2 DEF Dense, GoodChain, NoChain
<1>4. ~HasRejection(c)
  BY <1>1 DEF GoodChain, RejectionEndsChain
<1>5. RejectionEndsChain(d)
  BY <1>2, <1>4 DEF RejectionEndsChain, HasRejection, GoodChain
<1>6. CASE ActiveSiblings(c, s) # {}
  <2>1. ActivatedBy(c, s) = {}
    BY <1>6 DEF ActivatedBy
  <2>2. PICK y \in ActiveSiblings(c, s) : TRUE
    BY <1>6
  <2>3. y \in DOMAIN c /\ y # s /\ c[y].status = "active" /\ c[y].order = c[s].order
    BY <2>2 DEF ActiveSiblings, ActiveSteps
  <2>4. FrontierIsOneGroup(d)
    BY <1>1, <1>2, <2>1, <2>3 DEF GoodChain, FrontierIsOneGroup, Before
  <2>5. PendingWaitsForActive(d)
    <3> SUFFICES ASSUME NEW x \in DOMAIN c, c[x].status = "pending"
                 PROVE  \E t \in ActiveSteps(d) : d[t].order < d[x].order
      BY <1>2, <2>1 DEF PendingWaitsForActive, Before
    <3>1. PICK t \in ActiveSteps(c) : c[t].order < c[x].order
      BY DEF GoodChain, PendingWaitsForActive, Before
    <3>2. c[s].order < c[x].order
      BY <1>1, <3>1, AroundActive DEF ActiveSteps
    <3> QED BY <1>2, <2>1, <2>3, <3>2 DEF ActiveSteps
  <2> QED BY <1>2, <1>3, <1>5, <2>4, <2>5 DEF GoodChain, d
<1>7. CASE ActiveSiblings(c, s) = {}
  <2>1. ActivatedBy(c, s) = NextGroup(c, s)
    BY <1>7 DEF ActivatedBy
  <2>2. \A x \in DOMAIN c : c[x].order <= c[s].order => d[x].status = "approved"
    <3> SUFFICES ASSUME NEW x \in DOMAIN c, x # s, c[x].order <= c[s].order
                 PROVE  d[x].status = "approved"
      BY <1>2
    <3>1. x \notin NextGroup(c, s)
      BY <1>1 DEF NextGroup
    <3>2. c[x].status = "approved"
      <4>1. CASE c[x].order < c[s].order
        BY <4>1, AroundActive
      <4>2. CASE c[x].order = c[s].order
        BY <1>7, <4>2, GroupOfActive DEF ActiveSiblings, ActiveSteps
      <4> QED BY <1>1, <4>1, <4>2
    <3> QED BY <1>2, <2>1, <3>1, <3>2
  <2>3. \A x \in DOMAIN c : c[x].order > c[s].order =>
          d[x].status = IF c[x].order = c[s].order + 1 THEN "active" ELSE "pending"
    BY <1>1, <1>2, <2>1, AroundActive DEF NextGroup
  <2>4. FrontierIsOneGroup(d)
    BY <1>1, <1>2, <2>2, <2>3 DEF FrontierIsOneGroup, Before
  <2>5. PendingWaitsForActive(d)
    <3> SUFFICES ASSUME NEW x \in DOMAIN c, d[x].status = "pending"
                 PROVE  \E t \in ActiveSteps(d) : d[t].order < d[x].order
      BY <1>2 DEF PendingWaitsForActive, Before
    <3>1. c[x].order > c[s].order /\ c[x].order # c[s].order + 1
      BY <1>1, <2>2, <2>3
    <3>2. PICK q \in NextGroup(c, s) : c[q].order <= c[x].order
      BY <3>1, NextGroupExists
    <3>3. q \in DOMAIN c /\ c[q].order = c[s].order + 1
      BY <3>2 DEF NextGroup
    <3> QED BY <1>1, <1>2, <2>3, <3>1, <3>3 DEF ActiveSteps
  <2> QED BY <1>2, <1>3, <1>5, <2>4, <2>5 DEF GoodChain, d
<1> QED BY <1>6, <1>7

(***************************************************************************)
(* Types, and what a suspended handler refers to                           *)
(***************************************************************************)
\* A suspended handler works on a row; one that awaits its chain template has
\* inserted it; a chain belongs to a row.
Suspended(r) == request[r].pc # "idle"

References ==
  /\ \A r \in Requests : Suspended(r) => request[r].approval \in Approvals
  /\ \A r \in Requests : request[r].pc = "template" => approvalStatus[request[r].approval] # "none"
  /\ \A a \in Approvals : chain[a] # NoChain => approvalStatus[a] # "none"

\* Init establishes the types.
LEMMA InitTypes == Init => TypeOK /\ References
<1> SUFFICES ASSUME Init PROVE TypeOK /\ References
  OBVIOUS
<1>1. \A a \in Approvals : DOMAIN chain[a] \subseteq Steps /\ chain[a] \in [DOMAIN chain[a] -> StepRow]
  BY DEF Init, NoChain
<1>2. TypeOK
  BY <1>1 DEF Init, TypeOK, Statuses, Lifecycle!Statuses, Idle, Pcs
<1>3. References
  BY DEF Init, References, Suspended, Idle
<1> QED BY <1>2, <1>3

\* What StoreDecide leaves of one row.
LEMMA StoreDecideEffect ==
  ASSUME TypeOK, NEW a \in Approvals, NEW u \in Users, NEW verdict \in {"approved", "rejected"},
         StoreDecide(a, u, verdict)
  PROVE  /\ approvalStatus' \in [Approvals -> Statuses]
         /\ approver' \in [Approvals -> Users \cup {NoUser}]
         /\ \A b \in Approvals \ {a} : approvalStatus'[b] = approvalStatus[b] /\ approver'[b] = approver[b]
         /\ \/ approvalStatus[a] # "pending" /\ approvalStatus'[a] = approvalStatus[a] /\ approver'[a] = approver[a]
            \/ /\ approvalStatus[a] = "pending" /\ overdue[a]
               /\ approvalStatus'[a] = "expired" /\ approver'[a] = approver[a]
            \/ /\ approvalStatus[a] = "pending" /\ ~overdue[a]
               /\ approvalStatus'[a] = verdict /\ approver'[a] = u
BY DEF StoreDecide, TypeOK, Statuses, Lifecycle!Statuses

\* What a decision on an active step does to the row and its chain.
LEMMA DecideStepEffect ==
  ASSUME TypeOK, NEW a \in Approvals, NEW u \in Users, NEW s \in DOMAIN chain[a],
         NEW verdict \in {"approved", "rejected"}, DecideStep(a, u, s, verdict)
  PROVE  /\ s \in ActiveSteps(chain[a])
         /\ chain' = [chain EXCEPT ![a] =
                       IF verdict = "rejected" THEN RejectStep(chain[a], s) ELSE ApproveStep(chain[a], s)]
         /\ \/ (verdict = "rejected" \/ CompletesChain(chain[a], s)) /\ StoreDecide(a, u, verdict)
            \/ /\ verdict = "approved" /\ ~CompletesChain(chain[a], s)
               /\ UNCHANGED <<approvalStatus, approver>>
         /\ UNCHANGED <<overdue, manifest, request, planRuns, cutShort, toldReady>>
BY DEF DecideStep

\* TypeOK's conjuncts about the chains.
TypedChains(f) == f = [a \in Approvals |-> f[a]] /\ \A a \in Approvals : TypedChain(f[a])

\* Deciding a step keeps the chains typed, whatever happens to the row.
LEMMA DecidedChainTyped ==
  ASSUME TypeOK, NEW a \in Approvals, NEW s \in ActiveSteps(chain[a]),
         NEW verdict \in {"approved", "rejected"}
  PROVE  TypedChain(IF verdict = "rejected" THEN RejectStep(chain[a], s) ELSE ApproveStep(chain[a], s))
<1>1. TypedChain(chain[a]) /\ s \in DOMAIN chain[a]
  BY DEF TypeOK, TypedChain, ActiveSteps
<1> QED BY <1>1, RejectedRows, ApprovedRows

\* Every step keeps the types and the references.
LEMMA StepTypes == TypeOK /\ References /\ [Next]_vars => TypeOK' /\ References'
<1> SUFFICES ASSUME TypeOK, References, [Next]_vars PROVE TypeOK' /\ References'
  OBVIOUS
<1> DEFINE Verdicts == {"approved", "rejected"}
<1>0. TypedChains(chain)
  BY DEF TypeOK, TypedChains, TypedChain
<1>1. ASSUME NEW r \in Requests, ManifestRejected(r) PROVE TypeOK' /\ References'
  BY <1>1 DEF ManifestRejected, Finish, Idle, Pcs, TypeOK, References, Suspended
<1>2. ASSUME NEW r \in Requests, NEW registered \in BOOLEAN, CreateApproval(r, registered)
      PROVE TypeOK' /\ References'
  <2>1. request[r].approval \in Approvals
    BY <1>2 DEF CreateApproval, References, Suspended
  <2>2. TypeOK'
    BY <1>2, <2>1 DEF CreateApproval, InsertApproval, Suspend, Pcs, TypeOK, Statuses, Lifecycle!Statuses
  <2>3. References'
    BY <1>2, <2>1 DEF CreateApproval, InsertApproval, Suspend, TypeOK, References, Suspended
  <2> QED BY <2>2, <2>3
<1>3. ASSUME NEW r \in Requests, DuplicateCreate(r) PROVE TypeOK' /\ References'
  BY <1>3 DEF DuplicateCreate, Finish, Idle, Pcs, TypeOK, References, Suspended
<1>4. ASSUME NEW r \in Requests, NEW t \in Templates, CreateChain(r, t) PROVE TypeOK' /\ References'
  <2> DEFINE a == request[r].approval
  <2>1. a \in Approvals /\ approvalStatus[a] # "none"
    BY <1>4 DEF CreateChain, References, Suspended
  <2>2. TypedChain(InstantiateChain(t))
    BY InstantiateIsGood
  <2>3. TypedChains(chain') /\ \A b \in Approvals \ {a} : chain'[b] = chain[b]
    BY <1>0, <1>4, <2>1, <2>2 DEF CreateChain, TypedChains
  <2>4. TypeOK'
    BY <1>4, <2>3 DEF CreateChain, Finish, Idle, Pcs, TypeOK, TypedChains, TypedChain
  <2>5. References'
    BY <1>4, <2>1, <2>3 DEF CreateChain, Finish, Idle, TypeOK, References, Suspended
  <2> QED BY <2>4, <2>5
<1>5. ASSUME NEW r \in Requests, ChainCreationFails(r) PROVE TypeOK' /\ References'
  BY <1>5 DEF ChainCreationFails, Finish, Idle, Pcs, TypeOK, References, Suspended
<1>6. ASSUME NEW r \in Requests, ReleaseDenied(r) PROVE TypeOK' /\ References'
  <2>1. request[r].approval \in Approvals
    BY <1>6 DEF ReleaseDenied, References, Suspended
  <2> QED BY <1>6, <2>1 DEF ReleaseDenied, Finish, Idle, Pcs, TypeOK, References, Suspended
<1>7. ASSUME NEW r \in Requests, ReleaseGranted(r) PROVE TypeOK' /\ References'
  <2>1. request[r].approval \in Approvals
    BY <1>7 DEF ReleaseGranted, References, Suspended
  <2>2. TypeOK'
    BY <1>7, <2>1 DEF ReleaseGranted, Pcs, TypeOK
  <2>3. References'
    BY <1>7, <2>1 DEF ReleaseGranted, TypeOK, References, Suspended
  <2> QED BY <2>2, <2>3
<1>8. ASSUME NEW r \in Requests, NEW outcome \in {"dispatched", "dispatch_failed"}, FinishDispatch(r, outcome)
      PROVE TypeOK' /\ References'
  <2>1. request[r].approval \in Approvals
    BY <1>8 DEF FinishDispatch, References, Suspended
  <2>2. TypeOK'
    BY <1>8, <2>1 DEF FinishDispatch, Finish, Idle, Pcs, TypeOK, Statuses, Lifecycle!Statuses
  <2>3. References'
    BY <1>8, <2>1 DEF FinishDispatch, Finish, Idle, TypeOK, References, Suspended
  <2> QED BY <2>2, <2>3
<1>9. ASSUME NEW r \in Requests, NEW a \in Approvals, StartExecute(r, a) PROVE TypeOK' /\ References'
  BY <1>9 DEF StartExecute, Suspend, Pcs, TypeOK, References, Suspended
<1>10. ASSUME NEW r \in Requests, NEW a \in Approvals, NEW dry \in BOOLEAN, StartDispatch(r, a, dry)
       PROVE TypeOK' /\ References'
  <2>1. PICK pc \in {"release", "running"} :
          request' = [request EXCEPT ![r] = [pc |-> pc, approval |-> a, dry |-> dry]]
    BY <1>10 DEF StartDispatch, Suspend
  <2>2. planRuns' \in [Approvals -> Nat]
    BY <1>10 DEF StartDispatch, TypeOK
  <2>3. TypeOK'
    BY <1>10, <2>1, <2>2 DEF StartDispatch, Pcs, TypeOK, Statuses, Lifecycle!Statuses
  <2>4. References'
    BY <1>10, <2>1 DEF StartDispatch, TypeOK, References, Suspended
  <2> QED BY <2>3, <2>4
<1>11. ASSUME NEW a \in Approvals, CreateByMcp(a) PROVE TypeOK' /\ References'
  BY <1>11 DEF CreateByMcp, InsertApproval, TypeOK, Statuses, Lifecycle!Statuses, References, Suspended
<1>12. ASSUME NEW a \in Approvals, CreateWebhook(a) PROVE TypeOK' /\ References'
  <2>1. TypedChain(InstantiateChain(DefaultTemplate))
    BY InstantiateIsGood, TemplatesAssumption
  <2>2. TypedChains(chain') /\ \A b \in Approvals \ {a} : chain'[b] = chain[b]
    <3>1. chain' = [chain EXCEPT ![a] = InstantiateChain(DefaultTemplate)]
      BY <1>12 DEF CreateWebhook
    <3> QED BY <1>0, <2>1, <3>1 DEF TypedChains
  <2>3. TypeOK'
    BY <1>12, <2>2 DEF CreateWebhook, InsertApproval, TypeOK, TypedChains, TypedChain, Statuses, Lifecycle!Statuses
  <2>4. References'
    BY <1>12, <2>2 DEF CreateWebhook, InsertApproval, TypeOK, References, Suspended
  <2> QED BY <2>3, <2>4
<1>13. ASSUME NEW a \in Approvals, DeadlinePasses(a) PROVE TypeOK' /\ References'
  BY <1>13 DEF DeadlinePasses, TypeOK, References, Suspended
<1>14. ASSUME NEW a \in Approvals, NEW u \in Users, NEW verdict \in Verdicts,
              NEW s \in DOMAIN chain[a], DecideStep(a, u, s, verdict)
       PROVE TypeOK' /\ References'
  <2> DEFINE d == IF verdict = "rejected" THEN RejectStep(chain[a], s) ELSE ApproveStep(chain[a], s)
  <2>1. s \in ActiveSteps(chain[a]) /\ chain' = [chain EXCEPT ![a] = d]
    BY <1>14, DecideStepEffect
  <2>2. TypedChain(d)
    BY <2>1, DecidedChainTyped
  <2> HIDE DEF d
  <2>3. TypedChains(chain') /\ \A b \in Approvals \ {a} : chain'[b] = chain[b]
    BY <1>0, <2>1, <2>2 DEF TypedChains
  <2>4. /\ approvalStatus' \in [Approvals -> Statuses]
        /\ approver' \in [Approvals -> Users \cup {NoUser}]
        /\ \A b \in Approvals : approvalStatus[b] # "none" => approvalStatus'[b] # "none"
        /\ UNCHANGED <<overdue, manifest, request, planRuns, cutShort, toldReady>>
    BY <1>14, DecideStepEffect, StoreDecideEffect DEF TypeOK
  <2>5. approvalStatus[a] # "none"
    <3>1. chain[a] # NoChain
      BY <2>1 DEF ActiveSteps, NoChain
    <3> QED BY <3>1 DEF References
  <2>6. TypeOK'
    BY <2>3, <2>4 DEF TypeOK, TypedChains, TypedChain
  <2>7. References'
    BY <2>3, <2>4, <2>5 DEF TypeOK, References, Suspended
  <2> QED BY <2>6, <2>7
<1>15. ASSUME NEW a \in Approvals, NEW u \in Users, NEW verdict \in Verdicts,
              NEW s \in DOMAIN chain[a], DecideStepThenCrash(a, u, s, verdict)
       PROVE TypeOK' /\ References'
  <2> DEFINE d == IF verdict = "rejected" THEN RejectStep(chain[a], s) ELSE ApproveStep(chain[a], s)
  <2>1. s \in ActiveSteps(chain[a]) /\ chain' = [chain EXCEPT ![a] = d]
    BY <1>15 DEF DecideStepThenCrash
  <2>2. TypedChain(d)
    BY <2>1, DecidedChainTyped
  <2> HIDE DEF d
  <2>3. TypedChains(chain') /\ \A b \in Approvals \ {a} : chain'[b] = chain[b]
    BY <1>0, <2>1, <2>2 DEF TypedChains
  <2>4. approvalStatus[a] # "none"
    <3>1. chain[a] # NoChain
      BY <2>1 DEF ActiveSteps, NoChain
    <3> QED BY <3>1 DEF References
  <2>5. HeldRows \subseteq Approvals
    BY DEF HeldRows, Dispatching, References, Suspended
  <2>6. TypeOK'
    BY <1>15, <2>3, <2>5 DEF DecideStepThenCrash, Idle, Pcs, TypeOK, TypedChains, TypedChain
  <2>7. References'
    BY <1>15, <2>3, <2>4 DEF DecideStepThenCrash, Idle, TypeOK, References, Suspended
  <2> QED BY <2>6, <2>7
<1>16. ASSUME NEW a \in Approvals, NEW u \in Users, NEW verdict \in Verdicts, DecideLegacy(a, u, verdict)
       PROVE TypeOK' /\ References'
  <2>1. /\ approvalStatus' \in [Approvals -> Statuses]
        /\ approver' \in [Approvals -> Users \cup {NoUser}]
        /\ \A b \in Approvals : approvalStatus[b] # "none" => approvalStatus'[b] # "none"
    BY <1>16, StoreDecideEffect DEF DecideLegacy, TypeOK
  <2>2. UNCHANGED <<overdue, manifest, chain, request, planRuns, cutShort, toldReady>>
    BY <1>16 DEF DecideLegacy
  <2> QED BY <2>1, <2>2 DEF TypeOK, References, Suspended
<1>17. CASE ExpirePending
  BY <1>17 DEF ExpirePending, TypeOK, Statuses, Lifecycle!Statuses, References, Suspended
<1>18. CASE Crash
  <2>1. HeldRows \subseteq Approvals
    BY DEF HeldRows, Dispatching, References, Suspended
  <2> QED BY <1>18, <2>1 DEF Crash, Idle, Pcs, TypeOK, References, Suspended
<1>19. CASE UNCHANGED vars
  BY <1>19 DEF vars, TypeOK, References, Suspended
<1> QED
  BY <1>1, <1>2, <1>3, <1>4, <1>5, <1>6, <1>7, <1>8, <1>9, <1>10, <1>11, <1>12, <1>13, <1>14,
     <1>15, <1>16, <1>17, <1>18, <1>19
  DEF Next, ExecuteStep, DispatchStep

\* Spec => []TypeOK: every table keeps its columns' types, and with it the
\* references between rows, chains and suspended handlers.
THEOREM TypeCorrect == Spec => []TypeOK
<1>1. Spec => [](TypeOK /\ References)
  BY InitTypes, StepTypes, PTL DEF Spec
<1> QED BY <1>1, PTL

LEMMA ReferencesHold == Spec => []References
<1>1. Spec => [](TypeOK /\ References)
  BY InitTypes, StepTypes, PTL DEF Spec
<1> QED BY <1>1, PTL

(***************************************************************************)
(* Chains                                                                  *)
(***************************************************************************)
GoodChains == \A a \in Approvals : GoodChain(chain[a])

\* What one step can do to the chain of a row: nothing, create it, or decide
\* one of its active steps.
LEMMA ChainMoves ==
  ASSUME TypeOK, References, [Next]_vars, NEW a \in Approvals
  PROVE  \/ chain'[a] = chain[a]
         \/ \E t \in Templates : chain[a] = NoChain /\ chain'[a] = InstantiateChain(t)
         \/ \E s \in ActiveSteps(chain[a]) : chain'[a] \in {RejectStep(chain[a], s), ApproveStep(chain[a], s)}
<1> DEFINE Goal == \/ chain'[a] = chain[a]
                   \/ \E t \in Templates : chain[a] = NoChain /\ chain'[a] = InstantiateChain(t)
                   \/ \E s \in ActiveSteps(chain[a]) : chain'[a] \in {RejectStep(chain[a], s), ApproveStep(chain[a], s)}
<1>0. chain = [b \in Approvals |-> chain[b]]
  BY DEF TypeOK
<1>1. ASSUME NEW r \in Requests, NEW t \in Templates, CreateChain(r, t) PROVE Goal
  BY <1>0, <1>1 DEF CreateChain
<1>2. ASSUME NEW b \in Approvals, CreateWebhook(b) PROVE Goal
  <2>1. chain' = [chain EXCEPT ![b] = InstantiateChain(DefaultTemplate)] /\ approvalStatus[b] = "none"
    BY <1>2 DEF CreateWebhook, InsertApproval
  <2>2. chain[b] = NoChain
    BY <2>1 DEF References
  <2> QED BY <1>0, <2>1, <2>2, TemplatesAssumption
<1>3. ASSUME NEW b \in Approvals, NEW u \in Users, NEW verdict \in {"approved", "rejected"},
             NEW s \in DOMAIN chain[b],
             DecideStep(b, u, s, verdict) \/ DecideStepThenCrash(b, u, s, verdict)
      PROVE Goal
  <2>1. /\ s \in ActiveSteps(chain[b])
        /\ \E d \in {RejectStep(chain[b], s), ApproveStep(chain[b], s)} : chain' = [chain EXCEPT ![b] = d]
    BY <1>3 DEF DecideStep, DecideStepThenCrash
  <2> QED BY <1>0, <2>1
<1>4. CASE UNCHANGED chain
  BY <1>4
<1> QED
  BY <1>1, <1>2, <1>3, <1>4
  DEF Next, vars, ExecuteStep, DispatchStep, ManifestRejected, CreateApproval, DuplicateCreate,
      ChainCreationFails, ReleaseDenied, ReleaseGranted, FinishDispatch, StartExecute, StartDispatch,
      CreateByMcp, DeadlinePasses, DecideLegacy, ExpirePending, Crash

\* No chain is good, trivially.
LEMMA InitChains == Init => GoodChains
BY DEF Init, GoodChains, GoodChain, NoChain, Dense, FrontierIsOneGroup, PendingWaitsForActive,
       RejectionEndsChain

LEMMA StepChains == TypeOK /\ References /\ GoodChains /\ [Next]_vars => GoodChains'
<1> SUFFICES ASSUME TypeOK, References, GoodChains, [Next]_vars, NEW a \in Approvals
             PROVE  GoodChain(chain'[a])
  BY DEF GoodChains
<1>1. TypedChain(chain[a]) /\ GoodChain(chain[a])
  BY DEF TypeOK, TypedChain, GoodChains
<1>2. CASE chain'[a] = chain[a]
  BY <1>1, <1>2
<1>3. CASE \E t \in Templates : chain'[a] = InstantiateChain(t)
  BY <1>3, InstantiateIsGood
<1>4. CASE \E s \in ActiveSteps(chain[a]) : chain'[a] \in {RejectStep(chain[a], s), ApproveStep(chain[a], s)}
  BY <1>1, <1>4, RejectKeepsGood, ApproveKeepsGood
<1> QED BY <1>2, <1>3, <1>4, ChainMoves

LEMMA GoodChainsHold == Spec => []GoodChains
<1>1. Init /\ [][Next]_vars => [](TypeOK /\ References /\ GoodChains)
  BY InitTypes, StepTypes, InitChains, StepChains, PTL
<1> QED BY <1>1, PTL DEF Spec

\* Spec => []ChainFrontier: decideStep and createChainForApproval keep every
\* chain to one active group with everything before it approved, everything
\* after it waiting and nothing alive after a rejection.
THEOREM ChainFrontierHolds == Spec => []ChainFrontier
<1>1. GoodChains => ChainFrontier
  BY DEF GoodChains, GoodChain, ChainFrontier
<1> QED BY <1>1, GoodChainsHold, PTL

(***************************************************************************)
(* Sign-off                                                                *)
(***************************************************************************)
\* How a row can come to be, or stay, on the way to a dispatch.
LEMMA ReleaseMoves ==
  ASSUME TypeOK, References, [Next]_vars, NEW a \in Approvals, approvalStatus'[a] \in ReleasedStatuses
  PROVE  \/ approvalStatus[a] \in ReleasedStatuses /\ approver'[a] = approver[a]
         \/ RoleOf[approver'[a]] = AdminRole
         \/ \E s \in ActiveSteps(chain[a]) :
              CompletesChain(chain[a], s) /\ chain'[a] = ApproveStep(chain[a], s)
<1> DEFINE Goal == \/ approvalStatus[a] \in ReleasedStatuses /\ approver'[a] = approver[a]
                   \/ RoleOf[approver'[a]] = AdminRole
                   \/ \E s \in ActiveSteps(chain[a]) :
                        CompletesChain(chain[a], s) /\ chain'[a] = ApproveStep(chain[a], s)
<1>0. chain = [b \in Approvals |-> chain[b]] /\ approvalStatus \in [Approvals -> Statuses]
  BY DEF TypeOK
<1>1. ASSUME NEW r \in Requests, NEW registered \in BOOLEAN, CreateApproval(r, registered) PROVE Goal
  BY <1>0, <1>1 DEF CreateApproval, InsertApproval, ReleasedStatuses
<1>2. ASSUME NEW b \in Approvals, CreateByMcp(b) \/ CreateWebhook(b) PROVE Goal
  BY <1>0, <1>2 DEF CreateByMcp, CreateWebhook, InsertApproval, ReleasedStatuses
<1>3. ASSUME NEW r \in Requests, NEW outcome \in {"dispatched", "dispatch_failed"}, FinishDispatch(r, outcome),
             References
      PROVE Goal
  <2> DEFINE b == request[r].approval
  <2>1. CASE approvalStatus[b] # "dispatching"
    BY <1>3, <2>1 DEF FinishDispatch
  <2>2. CASE approvalStatus[b] = "dispatching"
    BY <1>0, <1>3, <2>2 DEF FinishDispatch, ReleasedStatuses
  <2> QED BY <2>1, <2>2
<1>4. ASSUME NEW r \in Requests, NEW b \in Approvals, NEW dry \in BOOLEAN, StartDispatch(r, b, dry) PROVE Goal
  BY <1>0, <1>4 DEF StartDispatch, ReleasedStatuses
<1>5. ASSUME NEW b \in Approvals, NEW u \in Users, NEW verdict \in {"approved", "rejected"},
             NEW s \in DOMAIN chain[b], DecideStep(b, u, s, verdict)
      PROVE Goal
  <2>1. CASE a # b
    BY <1>5, <2>1, DecideStepEffect, StoreDecideEffect
  <2>2. CASE a = b /\ UNCHANGED <<approvalStatus, approver>>
    BY <2>2
  <2>3. CASE a = b /\ StoreDecide(a, u, verdict) /\ (verdict = "rejected" \/ CompletesChain(chain[a], s))
    <3>1. CASE approvalStatus'[a] = approvalStatus[a] /\ approver'[a] = approver[a]
      BY <3>1
    <3>2. CASE approvalStatus'[a] = verdict
      <4>1. verdict = "approved" /\ CompletesChain(chain[a], s)
        BY <2>3, <3>2 DEF ReleasedStatuses
      <4>2. s \in ActiveSteps(chain[a]) /\ chain' = [chain EXCEPT ![a] = ApproveStep(chain[a], s)]
        BY <1>5, <2>3, <4>1, DecideStepEffect
      <4>3. chain'[a] = ApproveStep(chain[a], s)
        BY <1>0, <4>2
      <4> QED BY <4>1, <4>2, <4>3
    <3> QED BY <2>3, <3>1, <3>2, StoreDecideEffect DEF ReleasedStatuses
  <2> QED BY <1>5, <2>1, <2>2, <2>3, DecideStepEffect
<1>6. ASSUME NEW b \in Approvals, NEW u \in Users, NEW verdict \in {"approved", "rejected"}, DecideLegacy(b, u, verdict)
      PROVE Goal
  <2>1. StoreDecide(b, u, verdict) /\ RoleOf[u] = AdminRole
    BY <1>6 DEF DecideLegacy
  <2> QED BY <2>1, StoreDecideEffect DEF ReleasedStatuses
<1>7. CASE ExpirePending
  BY <1>0, <1>7 DEF ExpirePending, ReleasedStatuses
<1>8. CASE UNCHANGED <<approvalStatus, approver>>
  BY <1>8
<1> QED
  BY <1>1, <1>2, <1>3, <1>4, <1>5, <1>6, <1>7, <1>8
  DEF Next, vars, ExecuteStep, DispatchStep, ManifestRejected, DuplicateCreate, CreateChain,
      ChainCreationFails, ReleaseDenied, ReleaseGranted, StartExecute, DeadlinePasses,
      DecideStepThenCrash, Crash

SignedOff(a) ==
  chain[a] # NoChain /\ \A s \in DOMAIN chain[a] : chain[a][s].status = "approved"

\* A row released by somebody else than an admin stays signed off: a finished
\* chain cannot be decided again or replaced.
LEMMA StepSignOff == TypeOK /\ References /\ GoodChains /\ SignOff /\ [Next]_vars => SignOff'
<1> SUFFICES ASSUME TypeOK, References, GoodChains, SignOff, [Next]_vars, NEW a \in Approvals,
                    approvalStatus'[a] \in ReleasedStatuses, RoleOf[approver'[a]] # AdminRole
             PROVE  chain'[a] # NoChain /\ \A s \in DOMAIN chain'[a] : chain'[a][s].status = "approved"
  BY DEF SignOff
<1>1. TypedChain(chain[a]) /\ GoodChain(chain[a])
  BY DEF TypeOK, TypedChain, GoodChains
<1>2. CASE approvalStatus[a] \in ReleasedStatuses /\ approver'[a] = approver[a]
  <2>1. SignedOff(a)
    BY <1>2 DEF SignOff, SignedOff
  <2>2. ActiveSteps(chain[a]) = {}
    BY <2>1 DEF SignedOff, ActiveSteps
  <2>3. chain'[a] = chain[a]
    BY <2>1, <2>2, ChainMoves DEF SignedOff
  <2> QED BY <2>1, <2>3 DEF SignedOff
<1>3. CASE \E s \in ActiveSteps(chain[a]) :
             CompletesChain(chain[a], s) /\ chain'[a] = ApproveStep(chain[a], s)
  BY <1>1, <1>3, CompletionApprovesAll
<1> QED BY <1>2, <1>3, ReleaseMoves

\* Spec => []SignOff: whatever the interleaving of creation, chain creation,
\* decisions, crashes and dispatches, a row that a non-admin released has a
\* chain whose every step is approved.
THEOREM SignOffHolds == Spec => []SignOff
<1>1. Init => SignOff
  BY DEF Init, SignOff, ReleasedStatuses
<1>2. Init /\ [][Next]_vars => [](TypeOK /\ References /\ GoodChains /\ SignOff)
  BY <1>1, InitTypes, StepTypes, InitChains, StepChains, StepSignOff, PTL
<1> QED BY <1>2, PTL DEF Spec

(***************************************************************************)
(* Dispatch                                                                *)
(***************************************************************************)
\* SoleDispatcher and OneRun are inductive once a plan whose release is still
\* being checked is known not to have run.
DispatchInv ==
  /\ SoleDispatcher
  /\ OneRun
  /\ \A r \in Requests : request[r].pc = "release" => planRuns[request[r].approval] = 0

\* Steps that leave dispatching rows, their handlers and the run counts alone.
DispatchUntouched ==
  /\ planRuns' = planRuns
  /\ \A a \in Approvals :
       approvalStatus[a] \in {"dispatching", "dispatched", "dispatch_failed"} => approvalStatus'[a] = approvalStatus[a]
  /\ \A r \in Requests : request'[r] = request[r] \/ request'[r].pc \notin {"release", "running"}

LEMMA UntouchedKeepsDispatch ==
  ASSUME TypeOK, References, DispatchInv, DispatchUntouched
  PROVE  DispatchInv'
<1>1. \A r \in Requests : Dispatching(r)' => /\ request'[r] = request[r]
                                             /\ Dispatching(r)
                                             /\ request[r].approval \in Approvals
  BY DEF DispatchUntouched, Dispatching, References, Suspended
<1>2. SoleDispatcher'
  BY <1>1 DEF DispatchInv, SoleDispatcher, DispatchUntouched
<1>3. OneRun'
  BY DEF DispatchInv, OneRun, DispatchUntouched
<1>4. \A r \in Requests : request'[r].pc = "release" => planRuns'[request'[r].approval] = 0
  BY DEF DispatchInv, DispatchUntouched
<1> QED BY <1>2, <1>3, <1>4 DEF DispatchInv

LEMMA StepDispatch == TypeOK /\ References /\ DispatchInv /\ [Next]_vars => DispatchInv'
<1> SUFFICES ASSUME TypeOK, References, DispatchInv, [Next]_vars PROVE DispatchInv'
  OBVIOUS
<1>0. request \in [Requests -> [pc : Pcs, approval : Approvals \cup {NoApproval}, dry : BOOLEAN]]
  BY DEF TypeOK
<1>1. ASSUME NEW r \in Requests, NEW a \in Approvals, NEW dry \in BOOLEAN, StartDispatch(r, a, dry)
      PROVE DispatchInv'
  <2>1. approvalStatus[a] = "approved" /\ approvalStatus' = [approvalStatus EXCEPT ![a] = "dispatching"]
    BY <1>1 DEF StartDispatch
  <2>2. PICK pc \in {"release", "running"} :
          request' = [request EXCEPT ![r] = [pc |-> pc, approval |-> a, dry |-> dry]]
             /\ (pc = "release" => planRuns' = planRuns)
    BY <1>1 DEF StartDispatch, Suspend
  <2>3. planRuns' = planRuns \/ planRuns' = [planRuns EXCEPT ![a] = planRuns[a] + 1]
    BY <1>1 DEF StartDispatch, TypeOK
  <2>4. planRuns[a] = 0
    <3>1. planRuns[a] \in Nat /\ planRuns[a] <= 1
      BY DEF DispatchInv, OneRun, TypeOK
    <3>2. planRuns[a] # 1
      BY <2>1 DEF DispatchInv, OneRun
    <3> QED BY <3>1, <3>2
  <2>5. /\ planRuns' \in [Approvals -> Nat]
        /\ planRuns'[a] <= 1
        /\ \A b \in Approvals \ {a} : planRuns'[b] = planRuns[b]
    BY <2>3, <2>4 DEF TypeOK
  <2>6. \A q \in Requests : Dispatching(q) => request[q].approval \in Approvals \ {a}
    BY <2>1 DEF DispatchInv, SoleDispatcher, References, Suspended, Dispatching
  <2>7. /\ request'[r].approval = a
        /\ \A q \in Requests \ {r} : request'[q] = request[q]
    BY <1>0, <2>2
  <2>8. SoleDispatcher'
    <3> SUFFICES ASSUME NEW q \in Requests, Dispatching(q)'
                 PROVE  /\ approvalStatus'[request'[q].approval] = "dispatching"
                        /\ \A p \in Requests \ {q} : Dispatching(p)' => request'[p].approval # request'[q].approval
      BY DEF SoleDispatcher
    <3>1. \A p \in Requests \ {r} : Dispatching(p)' => Dispatching(p)
      BY <2>7 DEF Dispatching
    <3>2. CASE q = r
      BY <2>1, <2>6, <2>7, <3>1, <3>2 DEF TypeOK
    <3>3. CASE q # r
      BY <2>1, <2>6, <2>7, <3>1, <3>3 DEF DispatchInv, SoleDispatcher, TypeOK
    <3> QED BY <3>2, <3>3
  <2>9. OneRun'
    BY <2>1, <2>5 DEF DispatchInv, OneRun, TypeOK
  <2>10. ASSUME NEW q \in Requests, request'[q].pc = "release" PROVE planRuns'[request'[q].approval] = 0
    <3>1. CASE q = r
      BY <1>0, <2>2, <2>4, <2>7, <2>10, <3>1
    <3>2. CASE q # r
      BY <2>5, <2>6, <2>7, <2>10, <3>2 DEF DispatchInv, Dispatching
    <3> QED BY <3>1, <3>2
  <2> QED BY <2>8, <2>9, <2>10 DEF DispatchInv
<1>2. ASSUME NEW r \in Requests, ReleaseGranted(r) PROVE DispatchInv'
  <2> DEFINE a == request[r].approval
  <2>1. a \in Approvals /\ planRuns[a] = 0 /\ approvalStatus[a] = "dispatching" /\ approvalStatus' = approvalStatus
    BY <1>2 DEF ReleaseGranted, References, Suspended, DispatchInv, SoleDispatcher, Dispatching
  <2>2. /\ \A q \in Requests : request'[q].approval = request[q].approval
        /\ \A q \in Requests \ {r} : request'[q] = request[q]
        /\ request'[r].pc = "running" /\ request[r].pc = "release"
    BY <1>0, <1>2 DEF ReleaseGranted
  <2>3. planRuns' = planRuns \/ planRuns' = [planRuns EXCEPT ![a] = planRuns[a] + 1]
    BY <1>2 DEF ReleaseGranted, TypeOK
  <2>4. /\ planRuns' \in [Approvals -> Nat]
        /\ planRuns'[a] <= 1
        /\ \A b \in Approvals \ {a} : planRuns'[b] = planRuns[b]
    BY <2>1, <2>3 DEF TypeOK
  <2>5. SoleDispatcher'
    <3>1. \A q \in Requests : Dispatching(q)' => Dispatching(q)
      BY <2>2 DEF Dispatching
    <3> QED BY <2>1, <2>2, <3>1 DEF DispatchInv, SoleDispatcher
  <2>6. OneRun'
    BY <2>1, <2>4 DEF DispatchInv, OneRun
  <2>7. ASSUME NEW q \in Requests, request'[q].pc = "release" PROVE planRuns'[request'[q].approval] = 0
    <3>1. q # r /\ request[q].pc = "release"
      BY <2>2, <2>7
    <3>2. request[q].approval \in Approvals \ {a}
      BY <2>2, <3>1 DEF DispatchInv, SoleDispatcher, Dispatching, References, Suspended
    <3> QED BY <2>2, <2>4, <3>1, <3>2 DEF DispatchInv
  <2> QED BY <2>5, <2>6, <2>7 DEF DispatchInv
<1>3. ASSUME NEW r \in Requests, NEW outcome \in {"dispatched", "dispatch_failed"}, FinishDispatch(r, outcome)
      PROVE DispatchInv'
  <2> DEFINE a == request[r].approval
  <2>1. a \in Approvals /\ approvalStatus[a] = "dispatching" /\ Dispatching(r)
    BY <1>3 DEF FinishDispatch, References, Suspended, DispatchInv, SoleDispatcher, Dispatching
  <2>2. /\ approvalStatus' = [approvalStatus EXCEPT ![a] = outcome]
        /\ request' = [request EXCEPT ![r] = Idle]
        /\ planRuns' = planRuns
    BY <1>3, <2>1 DEF FinishDispatch, Finish
  <2>3. \A q \in Requests : Dispatching(q)' =>
          /\ q # r /\ Dispatching(q) /\ request'[q] = request[q]
          /\ request[q].approval \in Approvals \ {a}
    BY <1>0, <2>1, <2>2 DEF DispatchInv, SoleDispatcher, Dispatching, Idle, References, Suspended
  <2>4. SoleDispatcher'
    BY <2>2, <2>3 DEF DispatchInv, SoleDispatcher, TypeOK
  <2>5. OneRun'
    BY <2>1, <2>2 DEF DispatchInv, OneRun, TypeOK
  <2>6. \A q \in Requests : request'[q].pc = "release" => planRuns'[request'[q].approval] = 0
    BY <2>2, <2>3 DEF DispatchInv, Dispatching
  <2> QED BY <2>4, <2>5, <2>6 DEF DispatchInv
<1>4. ASSUME NEW a \in Approvals, NEW u \in Users, NEW verdict \in {"approved", "rejected"},
             \/ \E s \in DOMAIN chain[a] : DecideStep(a, u, s, verdict)
             \/ DecideLegacy(a, u, verdict)
      PROVE DispatchInv'
  <2>1. /\ UNCHANGED <<planRuns, request>>
        /\ StoreDecide(a, u, verdict) \/ UNCHANGED approvalStatus
    BY <1>4 DEF DecideStep, DecideLegacy
  <2>2. DispatchUntouched
    BY <2>1, StoreDecideEffect DEF DispatchUntouched
  <2> QED BY <2>2, UntouchedKeepsDispatch
<1>5. ASSUME NEW r \in Requests, NEW registered \in BOOLEAN, CreateApproval(r, registered) PROVE DispatchUntouched
  BY <1>0, <1>5 DEF CreateApproval, InsertApproval, Suspend, DispatchUntouched, TypeOK
<1>6. ASSUME NEW a \in Approvals, CreateByMcp(a) \/ CreateWebhook(a) PROVE DispatchUntouched
  BY <1>6 DEF CreateByMcp, CreateWebhook, InsertApproval, DispatchUntouched, TypeOK
<1>7. ASSUME NEW r \in Requests, NEW a \in Approvals, StartExecute(r, a) PROVE DispatchUntouched
  BY <1>0, <1>7 DEF StartExecute, Suspend, DispatchUntouched
<1>8. ASSUME NEW r \in Requests,
             \/ ManifestRejected(r) \/ DuplicateCreate(r) \/ ChainCreationFails(r) \/ ReleaseDenied(r)
             \/ \E t \in Templates : CreateChain(r, t)
      PROVE DispatchUntouched
  <2>1. request' = [request EXCEPT ![r] = Idle] /\ UNCHANGED <<approvalStatus, planRuns>>
    BY <1>8 DEF ManifestRejected, DuplicateCreate, ChainCreationFails, ReleaseDenied, CreateChain, Finish
  <2> QED BY <1>0, <2>1 DEF Idle, DispatchUntouched
<1>9. CASE ExpirePending
  BY <1>9, UntouchedKeepsDispatch DEF ExpirePending, DispatchUntouched, TypeOK
<1>10. ASSUME \/ Crash
              \/ \E a \in Approvals, u \in Users, verdict \in {"approved", "rejected"} :
                   \E s \in DOMAIN chain[a] : DecideStepThenCrash(a, u, s, verdict)
       PROVE DispatchUntouched
  BY <1>10 DEF Crash, DecideStepThenCrash, Idle, DispatchUntouched
<1>11. CASE UNCHANGED <<approvalStatus, request, planRuns>>
  BY <1>11, UntouchedKeepsDispatch DEF DispatchUntouched
<1> QED
  BY <1>1, <1>2, <1>3, <1>4, <1>5, <1>6, <1>7, <1>8, <1>9, <1>10, <1>11, UntouchedKeepsDispatch
  DEF Next, vars, ExecuteStep, DispatchStep, DeadlinePasses

LEMMA DispatchInvHolds == Spec => []DispatchInv
<1>1. Init => DispatchInv
  BY DEF Init, DispatchInv, SoleDispatcher, OneRun, Dispatching, Idle
<1>2. Init /\ [][Next]_vars => [](TypeOK /\ References /\ DispatchInv)
  BY <1>1, InitTypes, StepTypes, StepDispatch, PTL
<1> QED BY <1>2, PTL DEF Spec

\* Spec => []SoleDispatcher: consumeForDispatch is a lock that only its holder
\* gives back, for any number of concurrent dispatch requests.
THEOREM SoleDispatcherHolds == Spec => []SoleDispatcher
<1>1. DispatchInv => SoleDispatcher
  BY DEF DispatchInv
<1> QED BY <1>1, DispatchInvHolds, PTL

\* Spec => []OneRun: a plan reaches the connectors at most once.
THEOREM OneRunHolds == Spec => []OneRun
<1>1. DispatchInv => OneRun
  BY DEF DispatchInv
<1> QED BY <1>1, DispatchInvHolds, PTL

(***************************************************************************)
(* Stalls                                                                  *)
(***************************************************************************)
ChainStalled(a) == approvalStatus[a] = "pending" /\ chain[a] # NoChain /\ ActiveSteps(chain[a]) = {}
DispatchStalled(a) == approvalStatus[a] = "dispatching" /\ a \notin HeldRows

\* The history only grows, and no step makes a row pending again.
LEMMA HistoryGrows ==
  ASSUME TypeOK, References, [Next]_vars
  PROVE  /\ cutShort \subseteq cutShort'
         /\ \A a \in Approvals : approvalStatus'[a] = "pending" => approvalStatus[a] \in {"none", "pending"}
<1> DEFINE Goal == \A a \in Approvals : approvalStatus'[a] = "pending" => approvalStatus[a] \in {"none", "pending"}
<1>1. cutShort \subseteq cutShort'
  <2>1. ASSUME NEW r \in Requests, ReleaseDenied(r) PROVE cutShort \subseteq cutShort'
    BY <2>1 DEF ReleaseDenied
  <2>2. ASSUME NEW a \in Approvals, NEW u \in Users, NEW verdict \in {"approved", "rejected"},
               NEW s \in DOMAIN chain[a], DecideStepThenCrash(a, u, s, verdict)
        PROVE cutShort \subseteq cutShort'
    BY <2>2 DEF DecideStepThenCrash
  <2>3. ASSUME Crash PROVE cutShort \subseteq cutShort'
    BY <2>3 DEF Crash
  <2>4. ASSUME UNCHANGED cutShort PROVE cutShort \subseteq cutShort'
    BY <2>4
  <2> QED
    BY <2>1, <2>2, <2>3, <2>4
    DEF Next, vars, ExecuteStep, DispatchStep, ManifestRejected, CreateApproval, DuplicateCreate, CreateChain,
        ChainCreationFails, ReleaseGranted, FinishDispatch, StartExecute, StartDispatch, CreateByMcp,
        CreateWebhook, DeadlinePasses, DecideStep, DecideLegacy, ExpirePending
<1>2. ASSUME NEW a \in Approvals, NEW u \in Users, NEW verdict \in {"approved", "rejected"},
             \/ \E s \in DOMAIN chain[a] : DecideStep(a, u, s, verdict)
             \/ DecideLegacy(a, u, verdict)
      PROVE Goal
  <2>1. StoreDecide(a, u, verdict) \/ UNCHANGED approvalStatus
    BY <1>2 DEF DecideStep, DecideLegacy
  <2> QED BY <2>1, StoreDecideEffect
<1>3. ASSUME NEW a \in Approvals, InsertApproval(a, TRUE) \/ InsertApproval(a, FALSE)
      PROVE Goal
  BY <1>3 DEF InsertApproval, TypeOK
<1>4. ASSUME NEW r \in Requests, NEW registered \in BOOLEAN, CreateApproval(r, registered) PROVE Goal
  <2>1. request[r].approval \in Approvals
    BY <1>4 DEF CreateApproval, References, Suspended
  <2> QED BY <1>3, <1>4, <2>1 DEF CreateApproval
<1>5. ASSUME NEW a \in Approvals, CreateByMcp(a) \/ CreateWebhook(a) PROVE Goal
  BY <1>3, <1>5 DEF CreateByMcp, CreateWebhook
<1>6. ASSUME NEW r \in Requests, NEW outcome \in {"dispatched", "dispatch_failed"}, FinishDispatch(r, outcome)
      PROVE Goal
  BY <1>6 DEF FinishDispatch, TypeOK
<1>7. ASSUME NEW r \in Requests, NEW a \in Approvals, NEW dry \in BOOLEAN, StartDispatch(r, a, dry) PROVE Goal
  BY <1>7 DEF StartDispatch, TypeOK
<1>8. ASSUME ExpirePending PROVE Goal
  BY <1>8 DEF ExpirePending
<1>9. ASSUME UNCHANGED approvalStatus PROVE Goal
  BY <1>9
<1>10. Goal
  BY <1>2, <1>4, <1>5, <1>6, <1>7, <1>8, <1>9
  DEF Next, vars, ExecuteStep, DispatchStep, ManifestRejected, DuplicateCreate, CreateChain,
      ChainCreationFails, ReleaseDenied, ReleaseGranted, StartExecute, DeadlinePasses,
      DecideStepThenCrash, Crash
<1> QED BY <1>1, <1>10

\* A decided active step ends its chain only together with the row, or in a crash.
LEMMA DecisionStalls ==
  ASSUME TypeOK, References, GoodChains, [Next]_vars, NEW a \in Approvals,
         chain'[a] # chain[a], ChainStalled(a)'
  PROVE  a \in cutShort'
<1>0. chain = [b \in Approvals |-> chain[b]] /\ TypedChain(chain[a]) /\ GoodChain(chain[a])
  BY DEF TypeOK, TypedChain, GoodChains
<1>1. ASSUME NEW r \in Requests, NEW t \in Templates, CreateChain(r, t) PROVE FALSE
  <2>1. chain'[a] = InstantiateChain(t)
    BY <1>0, <1>1 DEF CreateChain
  <2> QED BY <2>1, InstantiateIsGood DEF ChainStalled
<1>2. ASSUME NEW b \in Approvals, CreateWebhook(b) PROVE FALSE
  <2>1. chain'[a] = InstantiateChain(DefaultTemplate)
    BY <1>0, <1>2 DEF CreateWebhook
  <2> QED BY <2>1, InstantiateIsGood, TemplatesAssumption DEF ChainStalled
<1>3. ASSUME NEW b \in Approvals, NEW u \in Users, NEW verdict \in {"approved", "rejected"},
             NEW s \in DOMAIN chain[b], DecideStep(b, u, s, verdict)
      PROVE FALSE
  <2>1. b = a /\ s \in ActiveSteps(chain[a])
    BY <1>0, <1>3, DecideStepEffect
  <2>2. CASE verdict = "approved" /\ ~CompletesChain(chain[a], s)
    <3>1. chain'[a] = ApproveStep(chain[a], s)
      BY <1>0, <1>3, <2>1, <2>2, DecideStepEffect
    <3> QED BY <1>0, <2>1, <2>2, <3>1, ProgressLeavesActive DEF ChainStalled
  <2>3. CASE StoreDecide(a, u, verdict)
    BY <2>3, StoreDecideEffect DEF ChainStalled
  <2> QED BY <1>3, <2>1, <2>2, <2>3, DecideStepEffect
<1>4. ASSUME NEW b \in Approvals, NEW u \in Users, NEW verdict \in {"approved", "rejected"},
             NEW s \in DOMAIN chain[b], DecideStepThenCrash(b, u, s, verdict)
      PROVE a \in cutShort'
  BY <1>0, <1>4 DEF DecideStepThenCrash
<1>5. ~UNCHANGED chain
  OBVIOUS
<1> QED
  BY <1>1, <1>2, <1>3, <1>4, <1>5
  DEF Next, vars, ExecuteStep, DispatchStep, ManifestRejected, CreateApproval, DuplicateCreate,
      ChainCreationFails, ReleaseDenied, ReleaseGranted, FinishDispatch, StartExecute, StartDispatch,
      CreateByMcp, DeadlinePasses, DecideLegacy, ExpirePending, Crash

\* A dispatching row loses its handler only with its status, or on record.
LEMMA HolderMoves ==
  ASSUME TypeOK, References, DispatchInv, [Next]_vars, NEW a \in Approvals,
         approvalStatus'[a] = "dispatching", approvalStatus[a] = "dispatching" => a \in HeldRows
  PROVE  a \in HeldRows' \cup cutShort'
<1>0. request \in [Requests -> [pc : Pcs, approval : Approvals \cup {NoApproval}, dry : BOOLEAN]]
  BY DEF TypeOK
<1> DEFINE Held == \E r \in Requests : Dispatching(r)' /\ request'[r].approval = a
           Goal == Held \/ a \in cutShort'
<1>1. ASSUME approvalStatus[a] # "dispatching" PROVE Goal
  <2>1. ASSUME NEW r \in Requests, NEW b \in Approvals, NEW dry \in BOOLEAN, StartDispatch(r, b, dry) PROVE Goal
    <3>1. b = a
      BY <1>1, <2>1 DEF StartDispatch, TypeOK
    <3> QED BY <1>0, <2>1, <3>1 DEF StartDispatch, Suspend, Dispatching
  <2>2. ASSUME NEW b \in Approvals, NEW u \in Users, NEW verdict \in {"approved", "rejected"},
               \/ \E s \in DOMAIN chain[b] : DecideStep(b, u, s, verdict)
               \/ DecideLegacy(b, u, verdict)
        PROVE FALSE
    <3>1. StoreDecide(b, u, verdict) \/ UNCHANGED approvalStatus
      BY <2>2 DEF DecideStep, DecideLegacy
    <3> QED BY <1>1, <3>1, StoreDecideEffect
  <2>3. ASSUME NEW r \in Requests, NEW registered \in BOOLEAN, CreateApproval(r, registered) PROVE FALSE
    BY <1>1, <2>3 DEF CreateApproval, InsertApproval, TypeOK
  <2>4. ASSUME NEW b \in Approvals, CreateByMcp(b) \/ CreateWebhook(b) PROVE FALSE
    BY <1>1, <2>4 DEF CreateByMcp, CreateWebhook, InsertApproval, TypeOK
  <2>5. ASSUME NEW r \in Requests, NEW outcome \in {"dispatched", "dispatch_failed"}, FinishDispatch(r, outcome)
        PROVE FALSE
    BY <1>1, <2>5 DEF FinishDispatch, TypeOK
  <2>6. ~ExpirePending
    BY <1>1 DEF ExpirePending
  <2>7. ~UNCHANGED approvalStatus
    BY <1>1
  <2> QED
    BY <2>1, <2>2, <2>3, <2>4, <2>5, <2>6, <2>7
    DEF Next, vars, ExecuteStep, DispatchStep, ManifestRejected, DuplicateCreate, CreateChain,
        ChainCreationFails, ReleaseDenied, ReleaseGranted, StartExecute, DeadlinePasses,
        DecideStepThenCrash, Crash
<1>2. ASSUME approvalStatus[a] = "dispatching" PROVE Goal
  <2>1. PICK h \in Requests : Dispatching(h) /\ request[h].approval = a
    BY <1>2 DEF HeldRows
  <2>2. CASE request'[h] = request[h] \/ (request'[h].pc = "running" /\ request'[h].approval = a)
    BY <2>1, <2>2 DEF Dispatching
  <2>3. CASE a \in cutShort'
    BY <2>3
  <2>4. ASSUME NEW r \in Requests, NEW outcome \in {"dispatched", "dispatch_failed"}, FinishDispatch(r, outcome)
        PROVE request'[h] = request[h]
    <3>1. r # h
      BY <1>0, <2>1, <2>4 DEF FinishDispatch, TypeOK
    <3> QED BY <1>0, <2>4, <3>1 DEF FinishDispatch, Finish
  <2>5. ASSUME NEW r \in Requests, ReleaseGranted(r)
        PROVE request'[h] = request[h] \/ (request'[h].pc = "running" /\ request'[h].approval = a)
    BY <1>0, <2>1, <2>5 DEF ReleaseGranted
  <2>6. ASSUME NEW r \in Requests, ReleaseDenied(r) PROVE request'[h] = request[h] \/ a \in cutShort'
    BY <1>0, <2>1, <2>6 DEF ReleaseDenied, Finish
  <2>7. ASSUME NEW r \in Requests, NEW rec, request[r].pc \notin {"release", "running"},
               request' = [request EXCEPT ![r] = rec]
        PROVE request'[h] = request[h]
    BY <1>0, <2>1, <2>7 DEF Dispatching
  <2>8. ASSUME NEW r \in Requests,
               \/ ManifestRejected(r) \/ DuplicateCreate(r) \/ ChainCreationFails(r)
               \/ \E registered \in BOOLEAN : CreateApproval(r, registered)
               \/ \E t \in Templates : CreateChain(r, t)
               \/ \E b \in Approvals : StartExecute(r, b)
               \/ \E b \in Approvals, dry \in BOOLEAN : StartDispatch(r, b, dry)
        PROVE request'[h] = request[h]
    BY <2>7, <2>8 DEF ManifestRejected, DuplicateCreate, ChainCreationFails, CreateApproval, CreateChain,
                      StartExecute, StartDispatch, Suspend, Finish
  <2>9. ASSUME \/ Crash
               \/ \E b \in Approvals, u \in Users, verdict \in {"approved", "rejected"} :
                    \E s \in DOMAIN chain[b] : DecideStepThenCrash(b, u, s, verdict)
        PROVE a \in cutShort'
    BY <2>1, <2>9 DEF Crash, DecideStepThenCrash, HeldRows
  <2>10. CASE UNCHANGED request
    BY <2>10, <2>2
  <2> QED
    BY <2>2, <2>3, <2>4, <2>5, <2>6, <2>8, <2>9, <2>10
    DEF Next, vars, ExecuteStep, DispatchStep, CreateByMcp, CreateWebhook, DeadlinePasses,
        DecideStep, DecideLegacy, ExpirePending
<1>3. HeldRows' = {request'[r].approval : r \in {x \in Requests : Dispatching(x)'}}
  BY DEF HeldRows
<1> QED BY <1>1, <1>2, <1>3

LEMMA StepStalls ==
  TypeOK /\ References /\ GoodChains /\ DispatchInv /\ StallsHaveACause /\ [Next]_vars => StallsHaveACause'
<1> SUFFICES ASSUME TypeOK, References, GoodChains, DispatchInv, StallsHaveACause, [Next]_vars,
                    NEW a \in Approvals, ChainStalled(a)' \/ DispatchStalled(a)'
             PROVE  a \in cutShort'
  BY DEF StallsHaveACause, Stalled, ChainStalled, DispatchStalled
<1>1. CASE ChainStalled(a)'
  <2>1. CASE chain'[a] # chain[a]
    BY <1>1, <2>1, DecisionStalls
  <2>2. CASE chain'[a] = chain[a]
    <3>1. ChainStalled(a)
      BY <1>1, <2>2, HistoryGrows DEF ChainStalled, References
    <3> QED BY <3>1, HistoryGrows DEF StallsHaveACause, Stalled, ChainStalled
  <2> QED BY <2>1, <2>2
<1>2. CASE DispatchStalled(a)'
  <2>1. CASE approvalStatus[a] = "dispatching" /\ a \notin HeldRows
    BY <2>1, HistoryGrows DEF StallsHaveACause, Stalled
  <2>2. CASE approvalStatus[a] = "dispatching" => a \in HeldRows
    BY <1>2, <2>2, HolderMoves DEF DispatchStalled
  <2> QED BY <2>1, <2>2
<1> QED BY <1>1, <1>2

\* Spec => []StallsHaveACause: a row that waits for nobody has been left by a
\* handler that died or was refused between its two writes; no interleaving of
\* live handlers strands a row.
THEOREM StallsHaveACauseHolds == Spec => []StallsHaveACause
<1>1. Init => StallsHaveACause
  BY DEF Init, StallsHaveACause, Stalled
<1>2. Init => DispatchInv
  BY DEF Init, DispatchInv, SoleDispatcher, OneRun, Dispatching, Idle
<1>3. Init /\ [][Next]_vars => [](TypeOK /\ References /\ GoodChains /\ DispatchInv /\ StallsHaveACause)
  BY <1>1, <1>2, InitTypes, StepTypes, InitChains, StepChains, StepDispatch, StepStalls, PTL
<1> QED BY <1>3, PTL DEF Spec

(***************************************************************************)
(* The approvals table alone                                               *)
(***************************************************************************)
LifecycleVars == <<approvalStatus, planRuns>>

\* A decision on a row is a Decide, an Expire or nothing to the table.
LEMMA StoreDecideIsLifecycle ==
  ASSUME TypeOK, NEW a \in Approvals, NEW u \in Users, NEW verdict \in {"approved", "rejected"},
         StoreDecide(a, u, verdict), UNCHANGED planRuns
  PROVE  [Lifecycle!Next]_LifecycleVars
<1>1. CASE UNCHANGED approvalStatus
  BY <1>1 DEF LifecycleVars
<1>2. CASE approvalStatus[a] = "pending" /\ approvalStatus' = [approvalStatus EXCEPT ![a] = verdict]
  <2>1. Lifecycle!Decide(a, verdict)
    BY <1>2 DEF Lifecycle!Decide, Lifecycle!Move
  <2> QED BY <2>1 DEF Lifecycle!Next
<1>3. CASE approvalStatus[a] = "pending" /\ approvalStatus' = [approvalStatus EXCEPT ![a] = "expired"]
  <2>1. approvalStatus' = [b \in Approvals |-> IF b \in {a} THEN "expired" ELSE approvalStatus[b]]
    BY <1>3 DEF TypeOK
  <2>2. Lifecycle!Expire({a})
    BY <1>3, <2>1 DEF Lifecycle!Expire
  <2> QED BY <2>2 DEF Lifecycle!Next
<1> QED BY <1>1, <1>2, <1>3 DEF StoreDecide

\* Every step of the gate is a step of the lifecycle or does not touch it.
LEMMA StepLifecycle ==
  TypeOK /\ References /\ DispatchInv /\ [Next]_vars => [Lifecycle!Next]_LifecycleVars
<1> SUFFICES ASSUME TypeOK, References, DispatchInv, [Next]_vars PROVE [Lifecycle!Next]_LifecycleVars
  OBVIOUS
<1>1. ASSUME NEW a \in Approvals, InsertApproval(a, TRUE) \/ InsertApproval(a, FALSE), UNCHANGED planRuns
      PROVE [Lifecycle!Next]_LifecycleVars
  <2>1. Lifecycle!Create(a)
    BY <1>1 DEF InsertApproval, Lifecycle!Create, Lifecycle!Move
  <2> QED BY <2>1 DEF Lifecycle!Next
<1>2. ASSUME NEW r \in Requests, NEW registered \in BOOLEAN, CreateApproval(r, registered)
      PROVE [Lifecycle!Next]_LifecycleVars
  <2>1. request[r].approval \in Approvals
    BY <1>2 DEF CreateApproval, References, Suspended
  <2> QED BY <1>1, <1>2, <2>1 DEF CreateApproval
<1>3. ASSUME NEW a \in Approvals, CreateByMcp(a) \/ CreateWebhook(a) PROVE [Lifecycle!Next]_LifecycleVars
  BY <1>1, <1>3 DEF CreateByMcp, CreateWebhook
<1>4. ASSUME NEW a \in Approvals, NEW u \in Users, NEW verdict \in {"approved", "rejected"},
             \/ \E s \in DOMAIN chain[a] : DecideStep(a, u, s, verdict)
             \/ DecideLegacy(a, u, verdict)
      PROVE [Lifecycle!Next]_LifecycleVars
  <2>1. (StoreDecide(a, u, verdict) \/ UNCHANGED approvalStatus) /\ UNCHANGED planRuns
    BY <1>4 DEF DecideStep, DecideLegacy
  <2> QED BY <2>1, StoreDecideIsLifecycle DEF LifecycleVars
<1>5. ASSUME NEW r \in Requests, NEW a \in Approvals, NEW dry \in BOOLEAN, StartDispatch(r, a, dry)
      PROVE [Lifecycle!Next]_LifecycleVars
  <2>1. planRuns[a] = 0
    <3>1. approvalStatus[a] = "approved" /\ planRuns[a] \in Nat
      BY <1>5 DEF StartDispatch, TypeOK
    <3> QED BY <3>1 DEF DispatchInv, OneRun
  <2>2. planRuns' = planRuns \/ planRuns' = [planRuns EXCEPT ![a] = 1]
    BY <1>5, <2>1 DEF StartDispatch, TypeOK
  <2>3. Lifecycle!Consume(a)
    BY <1>5, <2>2 DEF StartDispatch, Lifecycle!Consume, Lifecycle!Move
  <2> QED BY <2>3 DEF Lifecycle!Next
<1>6. ASSUME NEW r \in Requests, ReleaseGranted(r) PROVE [Lifecycle!Next]_LifecycleVars
  <2> DEFINE a == request[r].approval
  <2>1. a \in Approvals /\ planRuns[a] = 0 /\ approvalStatus[a] = "dispatching" /\ approvalStatus' = approvalStatus
    BY <1>6 DEF ReleaseGranted, References, Suspended, DispatchInv, SoleDispatcher, Dispatching
  <2>2. planRuns' = planRuns \/ planRuns' = [planRuns EXCEPT ![a] = 1]
    <3>1. planRuns' = planRuns \/ planRuns' = [planRuns EXCEPT ![a] = planRuns[a] + 1]
      BY <1>6 DEF ReleaseGranted, TypeOK
    <3> QED BY <2>1, <3>1
  <2>3. CASE planRuns' = [planRuns EXCEPT ![a] = 1]
    BY <2>1, <2>3 DEF Lifecycle!Run, Lifecycle!Next
  <2> QED BY <2>1, <2>2, <2>3 DEF LifecycleVars
<1>7. ASSUME NEW r \in Requests, NEW outcome \in {"dispatched", "dispatch_failed"}, FinishDispatch(r, outcome)
      PROVE [Lifecycle!Next]_LifecycleVars
  <2> DEFINE a == request[r].approval
  <2>1. a \in Approvals /\ approvalStatus[a] = "dispatching"
    BY <1>7 DEF FinishDispatch, References, Suspended, DispatchInv, SoleDispatcher, Dispatching
  <2>2. Lifecycle!Conclude(a, outcome)
    BY <1>7, <2>1 DEF FinishDispatch, Lifecycle!Conclude, Lifecycle!Move
  <2> QED BY <2>1, <2>2 DEF Lifecycle!Next
<1>8. ASSUME ExpirePending PROVE [Lifecycle!Next]_LifecycleVars
  <2> DEFINE late == {a \in Approvals : approvalStatus[a] = "pending" /\ overdue[a]}
  <2>1. Lifecycle!Expire(late)
    BY <1>8 DEF ExpirePending, Lifecycle!Expire
  <2> QED BY <2>1 DEF Lifecycle!Next
<1>9. ASSUME UNCHANGED LifecycleVars PROVE [Lifecycle!Next]_LifecycleVars
  BY <1>9
<1> QED
  BY <1>2, <1>3, <1>4, <1>5, <1>6, <1>7, <1>8, <1>9
  DEF Next, vars, LifecycleVars, ExecuteStep, DispatchStep, ManifestRejected, DuplicateCreate, CreateChain,
      ChainCreationFails, ReleaseDenied, StartExecute, DeadlinePasses, DecideStepThenCrash, Crash

\* The gate implements the lifecycle: rows only move along its arrows and a
\* plan runs at most once, under the lock.
THEOREM GateImplementsLifecycle == Spec => ImplementsLifecycle
<1>1. Init => Lifecycle!Init
  BY DEF Init, Lifecycle!Init
<1>2. Init => DispatchInv
  BY DEF Init, DispatchInv, SoleDispatcher, OneRun, Dispatching, Idle
<1>3. Init /\ [][Next]_vars => [](TypeOK /\ References /\ DispatchInv)
  BY <1>2, InitTypes, StepTypes, StepDispatch, PTL
<1>4. Init /\ [][Next]_vars => Lifecycle!Init /\ [][Lifecycle!Next]_LifecycleVars
  BY <1>1, <1>3, StepLifecycle, PTL
<1> QED BY <1>4 DEF Spec, ImplementsLifecycle, Lifecycle!Spec, LifecycleVars

\* A pending row past its deadline stays pending or expires.
LEMMA StepNoLateDecision ==
  ASSUME TypeOK, References, DispatchInv, [Next]_vars, NEW a \in Approvals,
         approvalStatus[a] = "pending", overdue[a]
  PROVE  approvalStatus'[a] \in {"pending", "expired"}
<1> DEFINE Goal == approvalStatus'[a] \in {"pending", "expired"}
<1>1. ASSUME NEW b \in Approvals, NEW u \in Users, NEW verdict \in {"approved", "rejected"},
             \/ \E s \in DOMAIN chain[b] : DecideStep(b, u, s, verdict)
             \/ DecideLegacy(b, u, verdict)
      PROVE Goal
  <2>1. StoreDecide(b, u, verdict) \/ UNCHANGED approvalStatus
    BY <1>1 DEF DecideStep, DecideLegacy
  <2> QED BY <2>1, StoreDecideEffect
<1>2. ASSUME NEW r \in Requests, NEW registered \in BOOLEAN, CreateApproval(r, registered) PROVE Goal
  BY <1>2 DEF CreateApproval, InsertApproval, TypeOK
<1>3. ASSUME NEW b \in Approvals, CreateByMcp(b) \/ CreateWebhook(b) PROVE Goal
  BY <1>3 DEF CreateByMcp, CreateWebhook, InsertApproval, TypeOK
<1>4. ASSUME NEW r \in Requests, NEW outcome \in {"dispatched", "dispatch_failed"}, FinishDispatch(r, outcome)
      PROVE Goal
  BY <1>4 DEF FinishDispatch, TypeOK
<1>5. ASSUME NEW r \in Requests, NEW b \in Approvals, NEW dry \in BOOLEAN, StartDispatch(r, b, dry) PROVE Goal
  BY <1>5 DEF StartDispatch, TypeOK
<1>6. ASSUME ExpirePending PROVE Goal
  BY <1>6 DEF ExpirePending
<1>7. ASSUME UNCHANGED approvalStatus PROVE Goal
  BY <1>7
<1> QED
  BY <1>1, <1>2, <1>3, <1>4, <1>5, <1>6, <1>7
  DEF Next, vars, ExecuteStep, DispatchStep, ManifestRejected, DuplicateCreate, CreateChain,
      ChainCreationFails, ReleaseDenied, ReleaseGranted, StartExecute, DeadlinePasses,
      DecideStepThenCrash, Crash

\* Spec => NoLateDecision: neither a chain nor an admin decides a row whose
\* deadline has passed, however late the timer is.
THEOREM NoLateDecisionHolds == Spec => NoLateDecision
<1> DEFINE InTime == \A a \in Approvals :
             approvalStatus[a] = "pending" /\ overdue[a] => approvalStatus'[a] \in {"pending", "expired"}
<1>1. TypeOK /\ References /\ DispatchInv /\ [Next]_vars => InTime
  BY StepNoLateDecision
<1>2. Spec => [](TypeOK /\ References /\ DispatchInv)
  BY TypeCorrect, ReferencesHold, DispatchInvHolds, PTL
<1>3. Spec => [][InTime]_vars
  BY <1>1, <1>2, PTL DEF Spec
<1> QED BY <1>3 DEF NoLateDecision
=============================================================================
