----------------------------- MODULE CaseHolds -----------------------------
(***************************************************************************)
(* The pipeline's verdicts, action state and holds over one case space     *)
(* (packages/pipeline: run.ts, vault.ts, state.ts, rulepack.ts, output.ts).*)
(*                                                                         *)
(* A run decides every action of its pack under the rules of the active    *)
(* rule pack, persists the verdicts and the holds in one transaction, and  *)
(* then writes its output and its proof event.  A person resolves a hold   *)
(* later: one transaction, then a proof event.  Every run of a case writes *)
(* the same row of case_space_action_state for an action, so holds of      *)
(* several runs stand for one row.  A statement that throws, or the death  *)
(* of the process, ends a run or a resolution after what it committed.     *)
(***************************************************************************)
EXTENDS Naturals, Sequences, FiniteSets

CONSTANTS
  Actions,      \* PACK_ACTIONS of the pack
  NeedsOf,      \* the autonomy an action needs, as an index of AUTONOMY_LADDER
  MovesMoney,   \* the actions with moves_money
  AmountGated,  \* the actions with amount_gated
  RulePacks,    \* contents a rule pack can be seeded with
  Amounts,      \* amounts an item can carry
  MaxRuns,      \* bound: runs of the pipeline
  None          \* absent: SQL's NULL, no row, no call

Ladder == 0..2     \* suggest, help_manage, run_routine
HoldIds == (1..MaxRuns) \X Actions

ASSUME CaseAssumption ==
  /\ NeedsOf \in [Actions -> Ladder]
  /\ MovesMoney \subseteq Actions /\ AmountGated \subseteq Actions
  /\ \A p \in RulePacks :
       p \in [ceiling : Ladder, noMoney : BOOLEAN, threshold : Nat \union {None}]
  /\ Amounts \subseteq Nat \union {None}
  \* What moves money needs more than the lowest autonomy (vault.ts PACK_ACTIONS).
  /\ \A a \in MovesMoney : NeedsOf[a] > 0
  /\ MaxRuns \in Nat
  /\ None \notin HoldIds \union {"attempted", "pending", "approved", "denied", "run", "hold"}

VARIABLES
  pack,     \* content of the active rule pack of the scope
  state,    \* case_space_action_state.status of each action; None: no row
  holds,    \* the holds rows, by the run and the action they were raised for
  runs,     \* each run: where it stopped, and the output row it wrote
  proofs,   \* audit_events: of runs, and of resolutions
  call,     \* the call under way, between its transaction and its proof
  verdict,  \* history: the last verdict persisted for each action
  resolved, \* history: the hold of each action last resolved since that verdict
  cut       \* history: calls that ended before their proof event

vars == <<pack, state, holds, runs, proofs, call, verdict, resolved, cut>>

Hold == [status : {"held", "released"}, resolution : {None, "approved", "denied"}]
Held == [status |-> "held", resolution |-> None]
Run == [stopped : {"no_op", "denied", None}, output : {None, "generated", "failed"}]
NoCall == [of |-> None]
RunCall(n, next) == [of |-> "run", run |-> n, next |-> next]
ResolveCall(h) == [of |-> "hold", hold |-> h]

RunProof(n) == [of |-> "run", run |-> n]
HoldProof(h, resolution) == [of |-> "hold", hold |-> h, resolution |-> resolution]

Init ==
  /\ pack = None
  /\ state = [a \in Actions |-> None]
  /\ holds = [h \in {} |-> Held] /\ runs = <<>> /\ proofs = {}
  /\ call = NoCall
  /\ verdict = [a \in Actions |-> None] /\ resolved = verdict /\ cut = {}

-----------------------------------------------------------------------------
(* Rule packs and verdicts.                                                *)

\* seedRulePack and seedTriadPack: a second active pack of the scope is
\* refused by the unique index, and nothing deactivates one.
Seed(content) ==
  /\ call = NoCall
  /\ pack = None
  /\ pack' = content
  /\ UNCHANGED <<state, holds, runs, proofs, call, verdict, resolved, cut>>

\* The mutant's floor is not the lowest autonomy.
HighFloor == [ceiling |-> 2, noMoney |-> FALSE, threshold |-> None]

\* readCeiling, noMoneyMovement and readThreshold of no pack.
Floor == [ceiling |-> 0, noMoney |-> FALSE, threshold |-> None]

\* The rules of a run: those of the active pack if its input names a module
\* and an environment, else the floor.
Rules(scoped) == IF scoped /\ pack # None THEN pack ELSE Floor

\* decideVault, for one action: the first rule that applies.
Verdict(a, rules, amount) ==
  IF a \in MovesMoney /\ rules.noMoney THEN "denied"
  ELSE IF \/ NeedsOf[a] > rules.ceiling
          \/ /\ a \in AmountGated
             /\ rules.threshold # None /\ amount # None
             /\ amount >= rules.threshold
       THEN "approval_required"
  ELSE "allowed"

\* The status a verdict is persisted as.
StateOf == [allowed |-> "attempted", approval_required |-> "pending", denied |-> "failed"]

-----------------------------------------------------------------------------
(* runPipeline.                                                            *)

CanRun == call = NoCall /\ Len(runs) < MaxRuns

\* SUBSTANCE_CHECK or ACCESS_GATE ends the run with one event and no state.
StopEarly(outcome) ==
  /\ CanRun
  /\ runs' = Append(runs, [stopped |-> outcome, output |-> None])
  /\ proofs' = proofs \union {RunProof(Len(runs) + 1)}
  /\ UNCHANGED <<pack, state, holds, call, verdict, resolved, cut>>

\* The verdicts of a run.
Decided(scoped, amount) == [a \in Actions |-> Verdict(a, Rules(scoped), amount)]

\* The mutant leaves alone a row that is already there.
InsertedOnly(decided) ==
  [a \in Actions |-> IF state[a] = None THEN StateOf[decided[a]] ELSE state[a]]

\* upsertActionState: the row of every action gets the new verdict's status.
Upserted(decided) == [a \in Actions |-> StateOf[decided[a]]]

\* insertHold, for every action of run n that asks approval.
WithHolds(n, decided) ==
  LET raised == {n} \X {a \in Actions : decided[a] = "approval_required"}
  IN [h \in DOMAIN holds \union raised |-> IF h \in raised THEN Held ELSE holds[h]]

\* What a run goes on with: its output, if its rules can name a template.
AfterState(n, scoped) == RunCall(n, IF scoped /\ pack # None THEN "output" ELSE "proof")

\* persistDecision: one transaction for all verdicts and holds.
Persist(scoped, amount) ==
  LET decided == Decided(scoped, amount)
      n == Len(runs) + 1 IN
  /\ CanRun
  /\ verdict' = decided /\ resolved' = [a \in Actions |-> None]
  /\ state' = Upserted(decided)
  /\ holds' = WithHolds(n, decided)
  /\ runs' = Append(runs, [stopped |-> None, output |-> None])
  /\ call' = AfterState(n, scoped)
  /\ UNCHANGED <<pack, proofs, cut>>

\* A pack the code does not know: one no_op verdict, which is not persisted.
PersistNothing(scoped) ==
  /\ CanRun
  /\ runs' = Append(runs, [stopped |-> None, output |-> None])
  /\ call' = AfterState(Len(runs) + 1, scoped)
  /\ UNCHANGED <<pack, state, holds, proofs, verdict, resolved, cut>>

\* generateOutput: the row says "failed" without a template or a required
\* anchor.  A rule pack need not name a template.
Output(status) ==
  /\ call.of = "run" /\ call.next = "output"
  /\ runs' = [runs EXCEPT ![call.run].output = status]
  /\ call' = [call EXCEPT !.next = "proof"]
  /\ UNCHANGED <<pack, state, holds, proofs, verdict, resolved, cut>>

ProveRun ==
  /\ call.of = "run" /\ call.next = "proof"
  /\ proofs' = proofs \union {RunProof(call.run)}
  /\ call' = NoCall
  /\ UNCHANGED <<pack, state, holds, runs, verdict, resolved, cut>>

-----------------------------------------------------------------------------
(* resolveHold.                                                            *)

\* The status an action resumes with.
Resumed == [approved |-> "attempted", denied |-> "failed"]

Release(h, resolution) ==
  /\ holds' = [holds EXCEPT ![h].status = "released", ![h].resolution = resolution]
  /\ state' = [state EXCEPT ![h[2]] = Resumed[resolution]]
  /\ resolved' = [resolved EXCEPT ![h[2]] = h]
  /\ call' = ResolveCall(h)
  /\ UNCHANGED <<pack, runs, proofs, verdict, cut>>

\* The mutant does not look at the hold's status.
ResolveAgain(h, resolution) ==
  /\ call = NoCall
  /\ Release(h, resolution)

Resolve(h, resolution) ==
  /\ call = NoCall
  /\ holds[h].status = "held"
  /\ Release(h, resolution)

ProveResolution ==
  /\ call.of = "hold"
  /\ proofs' = proofs \union {HoldProof(call.hold, holds[call.hold].resolution)}
  /\ call' = NoCall
  /\ UNCHANGED <<pack, state, holds, runs, verdict, resolved, cut>>

\* A statement after the transaction throws, or the process dies there.
Cut ==
  /\ call # NoCall
  /\ cut' = cut \union
       {IF call.of = "run" THEN RunCall(call.run, "proof") ELSE call}
  /\ call' = NoCall
  /\ UNCHANGED <<pack, state, holds, runs, proofs, verdict, resolved>>

-----------------------------------------------------------------------------
Next ==
  \/ \E content \in RulePacks : Seed(content)
  \/ \E outcome \in {"no_op", "denied"} : StopEarly(outcome)
  \/ \E scoped \in BOOLEAN, amount \in Amounts : Persist(scoped, amount)
  \/ \E scoped \in BOOLEAN : PersistNothing(scoped)
  \/ \E status \in {None, "generated", "failed"} : Output(status)
  \/ ProveRun
  \/ \E h \in DOMAIN holds, resolution \in {"approved", "denied"} : Resolve(h, resolution)
  \/ ProveResolution
  \/ Cut

Spec == Init /\ [][Next]_vars

-----------------------------------------------------------------------------
(* Properties.                                                             *)

\* The tables keep their types; proofs and history name runs and holds that exist.
TypeOK ==
  /\ pack \in RulePacks \union {None}
  /\ state \in [Actions -> {None, "attempted", "pending", "failed"}]
  /\ DOMAIN holds \subseteq HoldIds
  /\ \A h \in DOMAIN holds : h[1] \in DOMAIN runs /\ holds[h] \in Hold
  /\ runs \in Seq(Run) /\ Len(runs) <= MaxRuns
  /\ proofs \subseteq
       {RunProof(n) : n \in DOMAIN runs}
       \union {HoldProof(h, r) : h \in DOMAIN holds, r \in {"approved", "denied"}}
  /\ call \in {NoCall}
       \union {RunCall(n, next) : n \in DOMAIN runs, next \in {"output", "proof"}}
       \union {ResolveCall(h) : h \in DOMAIN holds}
  /\ verdict \in [Actions -> {None, "allowed", "approval_required", "denied"}]
  /\ resolved \in [Actions -> DOMAIN holds \union {None}]
  /\ cut \subseteq {RunCall(n, "proof") : n \in DOMAIN runs}
       \union {ResolveCall(h) : h \in DOMAIN holds}

HoldsOf(a) == {h \in DOMAIN holds : h[2] = a}
Newest(a) == CHOOSE h \in HoldsOf(a) : \A g \in HoldsOf(a) : g[1] <= h[1]

\* However many holds stand for one row: an action is pending exactly while the
\* newest of them is held, no later run had another verdict, and no older one was
\* resolved since the last run; and if one was, the row says what the last of these
\* resolutions says in its hold.  persistDecision and resolveHold write the row without
\* a look at the action's other holds.
StateFollowsHolds ==
  \A a \in Actions :
    /\ state[a] = "pending" <=>
         /\ HoldsOf(a) # {} /\ holds[Newest(a)].status = "held"
         /\ verdict[a] = "approval_required" /\ resolved[a] = None
    /\ resolved[a] # None =>
         /\ resolved[a] \in HoldsOf(a) /\ holds[resolved[a]].status = "released"
         /\ state[a] = Resumed[holds[resolved[a]].resolution]

\* An action that moves money is cleared to act only on somebody's word, under
\* a pack that forbids it and under no pack at all, over any number of runs
\* with and without their scope.
MoneyIsApproved ==
  \A a \in MovesMoney :
    /\ state[a] = "attempted"
    /\ pack = None \/ pack.noMoney
    => \E h \in HoldsOf(a) : holds[h].resolution = "approved"

\* A released hold has one proof event, which says what its row says, and a
\* run that persisted verdicts has its own, unless the call that did it is
\* still between its transaction and its event or was cut short there.
ChangesAreProved ==
  /\ \A h \in DOMAIN holds :
       holds[h].status = "released" /\ ResolveCall(h) \notin cut \union {call} =>
         {p \in proofs : p.of = "hold" /\ p.hold = h} = {HoldProof(h, holds[h].resolution)}
  /\ \A n \in DOMAIN runs :
       RunCall(n, "proof") \notin cut /\ (call.of = "run" => call.run # n)
         => RunProof(n) \in proofs
=============================================================================
