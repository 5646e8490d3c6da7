--------------------------- MODULE CaseHoldsProofs ---------------------------
(***************************************************************************)
(* Theorems about the pipeline's holds, for any actions, rule packs,       *)
(* amounts and number of runs.                                             *)
(*                                                                         *)
(* That money moves only on somebody's word is inductive beside the types: *)
(* a run writes "attempted" only for an allowed action, which one that     *)
(* moves money is neither under the floor nor under a pack that forbids    *)
(* it.  For the proof events one has to know that a hold has none of its   *)
(* own, nor a call that was cut short, before it is released (Unproved);   *)
(* for the rows, that an action with a hold has a newest one (HasNewest).  *)
(***************************************************************************)
EXTENDS CaseHolds, TLAPS

ProofsOf(h) == {p \in proofs : p.of = "hold" /\ p.hold = h}

\* A hold that waits, or whose resolution is under way, has no event yet.
Unproved ==
  \A h \in DOMAIN holds :
    /\ holds[h].status = "held" => ProofsOf(h) = {} /\ ResolveCall(h) \notin cut \union {call}
    /\ holds[h].status = "released" => holds[h].resolution \in {"approved", "denied"}
    /\ call = ResolveCall(h) => ProofsOf(h) = {} /\ ResolveCall(h) \notin cut

Inv == TypeOK /\ Unproved /\ ChangesAreProved

\* The two kinds of calls, and none.
LEMMA CallCases ==
  ASSUME TypeOK
  PROVE  \/ call = NoCall /\ call.of = None
         \/ call.of = "run" /\ call.run \in DOMAIN runs /\ call.next \in {"output", "proof"}
            /\ call = RunCall(call.run, call.next)
         \/ call.of = "hold" /\ call.hold \in DOMAIN holds /\ call = ResolveCall(call.hold)
<1>1. NoCall.of = None
  BY DEF NoCall
<1>2. \A n, next : /\ RunCall(n, next).of = "run" /\ RunCall(n, next).run = n
                   /\ RunCall(n, next).next = next
  BY DEF RunCall
<1>3. \A h : ResolveCall(h).of = "hold" /\ ResolveCall(h).hold = h
  BY DEF ResolveCall
<1>4. call = NoCall \/ (\E n \in DOMAIN runs, next \in {"output", "proof"} : call = RunCall(n, next))
      \/ (\E h \in DOMAIN holds : call = ResolveCall(h))
  BY DEF TypeOK
<1>5. QED
  BY <1>1, <1>2, <1>3, <1>4

\* Calls of different kinds, or of different holds, are different calls.
LEMMA CallsDiffer ==
  /\ \A h : ResolveCall(h) # NoCall
  /\ \A h, n, next : ResolveCall(h) # RunCall(n, next)
  /\ \A h, g : ResolveCall(h) = ResolveCall(g) => h = g
  /\ \A n, m, a, b : RunCall(n, a) = RunCall(m, b) => n = m /\ a = b
<1>1. \A h : ResolveCall(h).of = "hold" /\ ResolveCall(h).hold = h
  BY DEF ResolveCall
<1>2. NoCall.of = None /\ None # "hold"
  BY CaseAssumption DEF NoCall
<1>3. \A n, next : RunCall(n, next).of = "run" /\ RunCall(n, next).run = n /\ RunCall(n, next).next = next
  BY DEF RunCall
<1>4. QED
  BY <1>1, <1>2, <1>3

\* A verdict is one of the three, and its status one of theirs.
LEMMA Verdicts ==
  ASSUME NEW a \in Actions, NEW rules, NEW amount
  PROVE  /\ Verdict(a, rules, amount) \in {"allowed", "approval_required", "denied"}
         /\ StateOf[Verdict(a, rules, amount)] \in {"attempted", "pending", "failed"}
         /\ StateOf[Verdict(a, rules, amount)] = "attempted" => Verdict(a, rules, amount) = "allowed"
<1>1. Verdict(a, rules, amount) \in {"allowed", "approval_required", "denied"}
  BY DEF Verdict
<1>2. StateOf["allowed"] = "attempted" /\ StateOf["approval_required"] = "pending" /\ StateOf["denied"] = "failed"
  BY DEF StateOf
<1>3. QED
  BY <1>1, <1>2

\* What a run adds to the holds: its own.
LEMMA HoldsGrow ==
  ASSUME TypeOK, CanRun, NEW decided
  PROVE  LET n == Len(runs) + 1
             now == WithHolds(n, decided) IN
         /\ DOMAIN holds \subseteq DOMAIN now
         /\ DOMAIN now \subseteq HoldIds
         /\ \A h \in DOMAIN holds : now[h] = holds[h] /\ h[1] # n
         /\ \A h \in DOMAIN now \ DOMAIN holds : now[h] = Held /\ h[1] = n
<1> DEFINE n == Len(runs) + 1
           raised == {n} \X {a \in Actions : decided[a] = "approval_required"}
           now == [h \in DOMAIN holds \union raised |-> IF h \in raised THEN Held ELSE holds[h]]
<1>1. runs \in Seq(Run) /\ Len(runs) \in Nat /\ DOMAIN runs = 1..Len(runs) /\ n \in 1..MaxRuns
  BY CaseAssumption DEF TypeOK, CanRun
<1>2. \A h \in raised : h \in HoldIds /\ h[1] = n
  BY <1>1 DEF HoldIds
<1>3. \A h \in DOMAIN holds : h \in HoldIds /\ h[1] # n
  BY <1>1 DEF TypeOK
<1>4. WithHolds(n, decided) = now
  BY DEF WithHolds
<1> HIDE DEF raised, n
<1>5. QED
  BY <1>2, <1>3, <1>4 DEF n

-----------------------------------------------------------------------------
\* An empty case space.
LEMMA InitInv == Init => Inv
<1> SUFFICES ASSUME Init PROVE Inv
  OBVIOUS
<1>1. DOMAIN holds = {} /\ runs = <<>> /\ DOMAIN runs = {} /\ proofs = {} /\ cut = {}
  BY DEF Init
<1>2. TypeOK
  BY <1>1, CaseAssumption DEF Init, TypeOK
<1>3. Unproved /\ ChangesAreProved
  BY <1>1 DEF Unproved, ChangesAreProved
<1>4. QED
  BY <1>2, <1>3 DEF Inv

\* A rule pack is seeded where there was none; nothing cleared so far moved money
\* without an approval, and the other tables stay.
LEMMA SeedKeeps == ASSUME Inv, NEW content \in RulePacks, Seed(content) PROVE Inv'
<1>1. TypeOK'
  BY DEF Inv, TypeOK, Seed
<1>2. Unproved' /\ ChangesAreProved'
  BY DEF Inv, Unproved, ChangesAreProved, ProofsOf, Seed
<1>3. QED
  BY <1>1, <1>2 DEF Inv

\* The appended run, and what the earlier ones keep.
LEMMA RunsGrow ==
  ASSUME TypeOK, CanRun, NEW row \in Run, runs' = Append(runs, row)
  PROVE  /\ runs' \in Seq(Run) /\ Len(runs') <= MaxRuns
         /\ DOMAIN runs' = DOMAIN runs \union {Len(runs) + 1}
         /\ Len(runs) + 1 \notin DOMAIN runs
  BY CaseAssumption DEF TypeOK, CanRun

\* A run that stops before its verdicts writes its event at once and owes none.
LEMMA StopEarlyKeeps ==
  ASSUME Inv, NEW outcome \in {"no_op", "denied"}, StopEarly(outcome) PROVE Inv'
<1> DEFINE n == Len(runs) + 1
<1>1. TypeOK /\ CanRun /\ call = NoCall
  BY DEF Inv, StopEarly, CanRun
<1>2. /\ runs' \in Seq(Run) /\ Len(runs') <= MaxRuns
      /\ DOMAIN runs' = DOMAIN runs \union {n}
  BY <1>1, RunsGrow DEF StopEarly, Run
<1>3. proofs' = proofs \union {RunProof(n)}
      /\ UNCHANGED <<pack, state, holds, call, verdict, resolved, cut>>
  BY DEF StopEarly
<1> HIDE DEF n
<1>4. TypeOK'
  BY <1>1, <1>2, <1>3 DEF TypeOK
<1>5. \A h \in DOMAIN holds : ProofsOf(h)' = ProofsOf(h)
  <2>1. RunProof(n).of # "hold"
    BY DEF RunProof
  <2>2. QED
    BY <1>3, <2>1 DEF ProofsOf
<1>6. Unproved'
  BY <1>3, <1>5 DEF Inv, Unproved
<1>7. ChangesAreProved'
  BY <1>2, <1>3, <1>5 DEF Inv, ChangesAreProved, ProofsOf
<1>8. QED
  BY <1>4, <1>6, <1>7 DEF Inv

\* A run that goes on after its transaction: its call owes the event.
LEMMA RunBegins ==
  ASSUME Inv, CanRun, NEW scoped \in BOOLEAN,
         runs' = Append(runs, [stopped |-> None, output |-> None]),
         call' = AfterState(Len(runs) + 1, scoped),
         UNCHANGED <<pack, proofs, cut>>,
         DOMAIN holds \subseteq DOMAIN holds', DOMAIN holds' \subseteq HoldIds,
         \A h \in DOMAIN holds : holds'[h] = holds[h],
         \A h \in DOMAIN holds' \ DOMAIN holds : holds'[h] = Held /\ h[1] = Len(runs) + 1,
         state' \in [Actions -> {None, "attempted", "pending", "failed"}],
         verdict' \in [Actions -> {None, "allowed", "approval_required", "denied"}],
         resolved' \in [Actions -> DOMAIN holds \union {None}]
  PROVE  Inv'
<1> DEFINE n == Len(runs) + 1
<1>1. TypeOK /\ call = NoCall
  BY DEF Inv, CanRun
<1>2. /\ runs' \in Seq(Run) /\ Len(runs') <= MaxRuns
      /\ DOMAIN runs' = DOMAIN runs \union {n} /\ n \notin DOMAIN runs
  BY <1>1, RunsGrow DEF Run
<1>3. PICK next \in {"output", "proof"} : call' = RunCall(n, next)
  BY DEF AfterState
<1> HIDE DEF n
<1>4. Held \in Hold /\ Held.status = "held"
  BY DEF Held, Hold
<1>5. TypeOK'
  <2>1. \A h \in DOMAIN holds' : h[1] \in DOMAIN runs' /\ holds'[h] \in Hold
    BY <1>1, <1>2, <1>4 DEF TypeOK, n
  <2>2. proofs' \subseteq
          {RunProof(m) : m \in DOMAIN runs'}
          \union {HoldProof(h, r) : h \in DOMAIN holds', r \in {"approved", "denied"}}
    BY <1>1, <1>2 DEF TypeOK
  <2>3. cut' \subseteq {RunCall(m, "proof") : m \in DOMAIN runs'} \union {ResolveCall(h) : h \in DOMAIN holds'}
    BY <1>1, <1>2 DEF TypeOK
  <2>4. call' \in {RunCall(m, k) : m \in DOMAIN runs', k \in {"output", "proof"}}
    BY <1>2, <1>3
  <2>5. QED
    BY <1>1, <1>2, <2>1, <2>2, <2>3, <2>4 DEF TypeOK
<1>6. ASSUME NEW h \in DOMAIN holds' \ DOMAIN holds
      PROVE  ProofsOf(h)' = {} /\ ResolveCall(h) \notin cut
  <2>1. \A p \in proofs : p.of = "hold" => p.hold \in DOMAIN holds
    <3>1. \A m \in DOMAIN runs : RunProof(m).of # "hold"
      BY DEF RunProof
    <3>2. \A g, r : HoldProof(g, r).hold = g
      BY DEF HoldProof
    <3>3. proofs \subseteq
            {RunProof(m) : m \in DOMAIN runs}
            \union {HoldProof(g, r) : g \in DOMAIN holds, r \in {"approved", "denied"}}
      BY <1>1 DEF TypeOK
    <3>4. QED
      BY <3>1, <3>2, <3>3
  <2>2. proofs' = proofs /\ {p \in proofs : p.of = "hold" /\ p.hold = h} = {}
    BY <1>6, <2>1
  <2>3. cut \subseteq {RunCall(m, "proof") : m \in DOMAIN runs} \union {ResolveCall(g) : g \in DOMAIN holds}
    BY <1>1 DEF TypeOK
  <2>4. ResolveCall(h) \notin cut
    BY <1>6, <2>3, CallsDiffer
  <2>5. QED
    BY <2>2, <2>4 DEF ProofsOf
<1>7. \A h : ResolveCall(h) # call' /\ ResolveCall(h) # call
  BY <1>1, <1>3, CallsDiffer
<1>8. Unproved'
  <2> SUFFICES ASSUME NEW h \in DOMAIN holds'
               PROVE  /\ holds'[h].status = "held" => ProofsOf(h)' = {} /\ ResolveCall(h) \notin cut'
                      /\ holds'[h].status = "released" => holds'[h].resolution \in {"approved", "denied"}
    BY <1>7 DEF Unproved
  <2>1. CASE h \in DOMAIN holds
    BY <2>1 DEF Inv, Unproved, ProofsOf
  <2>2. CASE h \notin DOMAIN holds
    BY <1>4, <1>6, <2>2
  <2>3. QED
    BY <2>1, <2>2
<1>9. ChangesAreProved'
  <2>1. ASSUME NEW h \in DOMAIN holds', holds'[h].status = "released", ResolveCall(h) \notin cut'
        PROVE  {p \in proofs' : p.of = "hold" /\ p.hold = h} = {HoldProof(h, holds'[h].resolution)}
    <3>1. h \in DOMAIN holds
      BY <1>4, <2>1
    <3>2. QED
      BY <1>7, <2>1, <3>1 DEF Inv, ChangesAreProved
  <2>2. ASSUME NEW m \in DOMAIN runs', RunCall(m, "proof") \notin cut', call'.of = "run" => call'.run # m
        PROVE  RunProof(m) \in proofs'
    <3>1. call'.of = "run" /\ call'.run = n
      BY <1>3 DEF RunCall
    <3>2. m \in DOMAIN runs
      BY <1>2, <2>2, <3>1
    <3>3. call.of # "run"
      BY <1>1, CaseAssumption DEF NoCall
    <3>4. QED
      BY <2>2, <3>2, <3>3 DEF Inv, ChangesAreProved
  <2>3. QED
    BY <2>1, <2>2 DEF ChangesAreProved
<1>10. QED
  BY <1>5, <1>8, <1>9 DEF Inv

\* The verdicts of a run rewrite every row: an action that moves money is
\* allowed only by a pack that does not forbid it.
LEMMA PersistKeeps ==
  ASSUME Inv, NEW scoped \in BOOLEAN, NEW amount \in Amounts, Persist(scoped, amount) PROVE Inv'
<1> DEFINE decided == Decided(scoped, amount)
<1>1. /\ CanRun /\ TypeOK
      /\ verdict' = decided /\ resolved' = [a \in Actions |-> None] /\ state' = Upserted(decided)
      /\ holds' = WithHolds(Len(runs) + 1, decided)
      /\ runs' = Append(runs, [stopped |-> None, output |-> None])
      /\ call' = AfterState(Len(runs) + 1, scoped)
      /\ UNCHANGED <<pack, proofs, cut>>
  BY DEF Persist, Inv
<1>2. /\ decided \in [Actions -> {None, "allowed", "approval_required", "denied"}]
      /\ Upserted(decided) \in [Actions -> {None, "attempted", "pending", "failed"}]
  BY Verdicts DEF Decided, Upserted
<1> HIDE DEF decided
<1>3. LET n == Len(runs) + 1
          now == WithHolds(n, decided) IN
      /\ DOMAIN holds \subseteq DOMAIN now
      /\ DOMAIN now \subseteq HoldIds
      /\ \A h \in DOMAIN holds : now[h] = holds[h] /\ h[1] # n
      /\ \A h \in DOMAIN now \ DOMAIN holds : now[h] = Held /\ h[1] = n
  BY <1>1, HoldsGrow
<1>4. QED
  BY <1>1, <1>2, <1>3, RunBegins

\* A run of an unknown pack writes no row, and goes on to its event.
LEMMA PersistNothingKeeps ==
  ASSUME Inv, NEW scoped \in BOOLEAN, PersistNothing(scoped) PROVE Inv'
<1>1. TypeOK /\ CanRun
  BY DEF Inv, PersistNothing
<1>2. /\ DOMAIN holds \subseteq HoldIds
      /\ state \in [Actions -> {None, "attempted", "pending", "failed"}]
      /\ verdict \in [Actions -> {None, "allowed", "approval_required", "denied"}]
      /\ resolved \in [Actions -> DOMAIN holds \union {None}]
  BY <1>1 DEF TypeOK
<1>3. QED
  BY <1>1, <1>2, RunBegins DEF PersistNothing

\* The output row changes what its own run shows and nothing else.
LEMMA OutputKeeps ==
  ASSUME Inv, NEW status \in {None, "generated", "failed"}, Output(status) PROVE Inv'
<1> DEFINE n == call.run
<1>1. TypeOK
  BY DEF Inv
<1>2. call = RunCall(n, "output") /\ n \in DOMAIN runs
  BY <1>1, CallCases, CaseAssumption DEF Output
<1>3. call' = RunCall(n, "proof")
  BY <1>2 DEF Output, RunCall
<1>4. /\ runs' \in Seq(Run) /\ DOMAIN runs' = DOMAIN runs /\ Len(runs') = Len(runs)
      /\ UNCHANGED <<pack, state, holds, proofs, verdict, resolved, cut>>
  <2> DEFINE row == [runs[n] EXCEPT !.output = status]
  <2>1. runs \in Seq(Run) /\ runs[n] \in Run
    BY <1>1, <1>2 DEF TypeOK
  <2>2. row \in Run
    BY <2>1 DEF Run
  <2>3. runs' = [runs EXCEPT ![n] = row]
    BY DEF Output
  <2> HIDE DEF row, n
  <2>4. runs' \in Seq(Run) /\ DOMAIN runs' = DOMAIN runs /\ Len(runs') = Len(runs)
    BY <1>2, <2>1, <2>2, <2>3
  <2>5. QED
    BY <2>4 DEF Output
<1> HIDE DEF n
<1>5. TypeOK'
  BY <1>1, <1>2, <1>3, <1>4 DEF TypeOK
<1>6. \A h : ResolveCall(h) # call /\ ResolveCall(h) # call'
  BY <1>2, <1>3, CallsDiffer
<1>7. Unproved'
  BY <1>4, <1>6 DEF Inv, Unproved, ProofsOf
<1>8. call.of = "run" /\ call'.of = "run" /\ call.run = n /\ call'.run = n
  BY <1>2, <1>3 DEF RunCall
<1>9. ChangesAreProved'
  BY <1>4, <1>6, <1>8 DEF Inv, ChangesAreProved
<1>10. QED
  BY <1>5, <1>7, <1>9 DEF Inv

\* The event of a run is the one its call owed.
LEMMA ProveRunKeeps == ASSUME Inv, ProveRun PROVE Inv'
<1> DEFINE n == call.run
<1>1. TypeOK
  BY DEF Inv
<1>2. call = RunCall(n, "proof") /\ n \in DOMAIN runs /\ call.of = "run"
  BY <1>1, CallCases, CaseAssumption DEF ProveRun
<1>3. proofs' = proofs \union {RunProof(n)} /\ call' = NoCall
      /\ UNCHANGED <<pack, state, holds, runs, verdict, resolved, cut>>
  BY DEF ProveRun
<1> HIDE DEF n
<1>4. TypeOK'
  BY <1>1, <1>2, <1>3 DEF TypeOK
<1>5. RunProof(n).of # "hold"
  BY DEF RunProof
<1>6. \A h : ResolveCall(h) # call /\ ResolveCall(h) # call'
  BY <1>2, <1>3, CallsDiffer
<1>7. Unproved'
  BY <1>3, <1>5, <1>6 DEF Inv, Unproved, ProofsOf
<1>8. ChangesAreProved'
  <2>1. \A h \in DOMAIN holds : {p \in proofs' : p.of = "hold" /\ p.hold = h}
                               = {p \in proofs : p.of = "hold" /\ p.hold = h}
    BY <1>3, <1>5
  <2>2. call.run = n
    BY DEF n
  <2>3. QED
    BY <1>3, <1>6, <2>1, <2>2 DEF Inv, ChangesAreProved
<1>9. QED
  BY <1>4, <1>7, <1>8 DEF Inv

\* A resolution releases a held hold, which has no event yet, and its call owes
\* one; what it clears to act was approved.
LEMMA ResolveKeeps ==
  ASSUME Inv, NEW h \in DOMAIN holds, NEW resolution \in {"approved", "denied"}, Resolve(h, resolution)
  PROVE  Inv'
<1>1. TypeOK /\ call = NoCall /\ holds[h].status = "held" /\ h[2] \in Actions
  BY DEF Inv, Resolve, TypeOK, HoldIds
<1>2. /\ DOMAIN holds' = DOMAIN holds
      /\ holds'[h].status = "released" /\ holds'[h].resolution = resolution /\ holds'[h] \in Hold
      /\ \A g \in DOMAIN holds : g # h => holds'[g] = holds[g]
  <2> DEFINE released == [holds[h] EXCEPT !.status = "released", !.resolution = resolution]
  <2>1. holds[h] \in Hold
    BY <1>1 DEF TypeOK
  <2>2. released.status = "released" /\ released.resolution = resolution /\ released \in Hold
    BY <2>1 DEF Hold
  <2>3. holds' = [holds EXCEPT ![h] = released]
    BY DEF Resolve, Release
  <2> HIDE DEF released
  <2>4. QED
    BY <2>2, <2>3
<1>3. state' \in [Actions -> {None, "attempted", "pending", "failed"}]
  <2>1. Resumed[resolution] \in {"attempted", "failed"}
    BY DEF Resumed
  <2>2. QED
    BY <1>1, <2>1 DEF Resolve, Release, TypeOK
<1>4. /\ call' = ResolveCall(h) /\ resolved' = [resolved EXCEPT ![h[2]] = h]
      /\ UNCHANGED <<pack, runs, proofs, verdict, cut>>
  BY DEF Resolve, Release
<1>5. TypeOK'
  BY <1>1, <1>2, <1>3, <1>4 DEF TypeOK
<1>6. ProofsOf(h) = {} /\ ResolveCall(h) \notin cut
  BY <1>1 DEF Inv, Unproved
<1>7. \A g : ResolveCall(g) # call /\ (g # h => ResolveCall(g) # call')
  BY <1>1, <1>4, CallsDiffer
<1>8. Unproved'
  <2> SUFFICES ASSUME NEW g \in DOMAIN holds
               PROVE  /\ holds'[g].status = "held" => ProofsOf(g) = {} /\ ResolveCall(g) \notin cut \union {call'}
                      /\ holds'[g].status = "released" => holds'[g].resolution \in {"approved", "denied"}
                      /\ call' = ResolveCall(g) => ProofsOf(g) = {} /\ ResolveCall(g) \notin cut
    BY <1>2, <1>4 DEF Unproved, ProofsOf
  <2>1. CASE g = h
    BY <1>2, <1>6, <2>1
  <2>2. CASE g # h
    BY <1>2, <1>7, <2>2 DEF Inv, Unproved
  <2>3. QED
    BY <2>1, <2>2
<1>9. ChangesAreProved'
  <2>1. call.of # "run" /\ call'.of = "hold"
    BY <1>1, <1>4, CaseAssumption DEF NoCall, ResolveCall
  <2>2. ASSUME NEW g \in DOMAIN holds, holds'[g].status = "released", ResolveCall(g) \notin cut \union {call'}
        PROVE  {p \in proofs : p.of = "hold" /\ p.hold = g} = {HoldProof(g, holds'[g].resolution)}
    <3>1. g # h
      BY <1>4, <2>2
    <3>2. QED
      BY <1>2, <1>7, <2>2, <3>1 DEF Inv, ChangesAreProved
  <2>3. \A n \in DOMAIN runs : RunCall(n, "proof") \notin cut => RunProof(n) \in proofs
    BY <2>1 DEF Inv, ChangesAreProved
  <2>4. QED
    BY <1>2, <1>4, <2>2, <2>3 DEF ChangesAreProved
<1>10. QED
  BY <1>5, <1>8, <1>9 DEF Inv

\* The event of a resolution says what the hold's row says, and is its first.
LEMMA ProveResolutionKeeps == ASSUME Inv, ProveResolution PROVE Inv'
<1>1. TypeOK
  BY DEF Inv
<1> PICK h \in DOMAIN holds : call = ResolveCall(h) /\ call.of = "hold" /\ call.hold = h
  BY <1>1, CallCases, CaseAssumption DEF ProveResolution
<1> PICK r : r = holds[h].resolution
  OBVIOUS
<1>2. call = ResolveCall(h) /\ h \in DOMAIN holds /\ call.of = "hold"
  OBVIOUS
<1>3. proofs' = proofs \union {HoldProof(h, r)} /\ call' = NoCall
      /\ UNCHANGED <<pack, state, holds, runs, verdict, resolved, cut>>
  BY DEF ProveResolution
<1>4. ProofsOf(h) = {} /\ ResolveCall(h) \notin cut /\ holds[h].status = "released"
      /\ r \in {"approved", "denied"}
  <2>1. holds[h] \in Hold
    BY <1>1, <1>2 DEF TypeOK
  <2>2. QED
    BY <1>2, <2>1 DEF Inv, Unproved, Hold
<1>5. HoldProof(h, r).of = "hold" /\ HoldProof(h, r).hold = h
  BY DEF HoldProof
<1>6. TypeOK'
  BY <1>1, <1>2, <1>3, <1>4 DEF TypeOK
<1>7. \A g : ResolveCall(g) # call' /\ (g # h => ResolveCall(g) # call)
  BY <1>2, <1>3, CallsDiffer
<1>8. \A g \in DOMAIN holds : g # h => ProofsOf(g)' = ProofsOf(g)
  BY <1>3, <1>5 DEF ProofsOf
<1>9. ProofsOf(h)' = {HoldProof(h, r)}
  BY <1>3, <1>4, <1>5 DEF ProofsOf
<1>10. Unproved'
  BY <1>3, <1>4, <1>7, <1>8 DEF Inv, Unproved
<1>11. ChangesAreProved'
  <2>1. ASSUME NEW g \in DOMAIN holds, holds[g].status = "released", ResolveCall(g) \notin cut
        PROVE  ProofsOf(g)' = {HoldProof(g, holds[g].resolution)}
    <3>1. CASE g = h
      BY <1>9, <3>1
    <3>2. CASE g # h
      BY <1>7, <1>8, <2>1, <3>2 DEF Inv, ChangesAreProved, ProofsOf
    <3>3. QED
      BY <3>1, <3>2
  <2>2. \A n \in DOMAIN runs : RunCall(n, "proof") \notin cut => RunProof(n) \in proofs
    BY <1>2 DEF Inv, ChangesAreProved
  <2>3. QED
    BY <1>3, <2>1, <2>2 DEF ChangesAreProved, ProofsOf
<1>12. QED
  BY <1>6, <1>10, <1>11 DEF Inv

\* A call that ends before its event is remembered as cut.
LEMMA CutKeeps == ASSUME Inv, Cut PROVE Inv'
<1>1. TypeOK
  BY DEF Inv
<1>2. call' = NoCall /\ UNCHANGED <<pack, state, holds, runs, proofs, verdict, resolved>>
  BY DEF Cut
<1>3. \A g : ResolveCall(g) # call'
  BY <1>2, CallsDiffer
<1>4. CASE call.of = "run"
  <2> DEFINE n == call.run
  <2>1. call = RunCall(n, call.next) /\ n \in DOMAIN runs
    BY <1>1, <1>4, CallCases, CaseAssumption
  <2>2. cut' = cut \union {RunCall(n, "proof")}
    BY <1>4 DEF Cut
  <2> HIDE DEF n
  <2>3. TypeOK'
    BY <1>1, <1>2, <2>1, <2>2 DEF TypeOK
  <2>4. \A g : ResolveCall(g) # call /\ (ResolveCall(g) \in cut' <=> ResolveCall(g) \in cut)
    BY <2>1, <2>2, CallsDiffer
  <2>5. Unproved'
    BY <1>2, <1>3, <2>4 DEF Inv, Unproved, ProofsOf
  <2>6. call.run = n
    BY DEF n
  <2>7. ChangesAreProved'
    BY <1>2, <1>3, <2>2, <2>4, <2>6 DEF Inv, ChangesAreProved
  <2>8. QED
    BY <2>3, <2>5, <2>7 DEF Inv
<1>5. CASE call.of # "run"
  <2> DEFINE h == call.hold
  <2>1. call = ResolveCall(h) /\ h \in DOMAIN holds
    BY <1>1, <1>5, CallCases DEF Cut
  <2>2. cut' = cut \union {ResolveCall(h)}
    BY <1>5, <2>1 DEF Cut
  <2> HIDE DEF h
  <2>3. TypeOK'
    BY <1>1, <1>2, <2>1, <2>2 DEF TypeOK
  <2>4. holds[h].status = "released"
    <3>1. holds[h] \in Hold
      BY <1>1, <2>1 DEF TypeOK
    <3>2. QED
      BY <2>1, <3>1 DEF Inv, Unproved, Hold
  <2>5. \A g : g # h => ResolveCall(g) # call /\ (ResolveCall(g) \in cut' <=> ResolveCall(g) \in cut)
    BY <2>1, <2>2, CallsDiffer
  <2>6. Unproved'
    BY <1>2, <1>3, <2>4, <2>5 DEF Inv, Unproved, ProofsOf
  <2>7. ChangesAreProved'
    <3>1. \A n \in DOMAIN runs : RunCall(n, "proof") \notin cut => RunProof(n) \in proofs
      BY <1>5 DEF Inv, ChangesAreProved
    <3>2. ASSUME NEW g \in DOMAIN holds, holds[g].status = "released", ResolveCall(g) \notin cut'
          PROVE  {p \in proofs : p.of = "hold" /\ p.hold = g} = {HoldProof(g, holds[g].resolution)}
      <4>1. g # h
        BY <2>2, <3>2
      <4>2. QED
        BY <2>5, <3>2, <4>1 DEF Inv, ChangesAreProved
    <3>3. QED
      BY <1>2, <2>2, <3>1, <3>2 DEF ChangesAreProved
  <2>8. QED
    BY <2>3, <2>6, <2>7 DEF Inv
<1>6. QED
  BY <1>4, <1>5

\* Every step keeps the invariant.
LEMMA NextKeeps == Inv /\ [Next]_vars => Inv'
<1> SUFFICES ASSUME Inv, [Next]_vars PROVE Inv'
  OBVIOUS
<1>1. ASSUME NEW content \in RulePacks, Seed(content) PROVE Inv'
  BY <1>1, SeedKeeps
<1>2. ASSUME NEW outcome \in {"no_op", "denied"}, StopEarly(outcome) PROVE Inv'
  BY <1>2, StopEarlyKeeps
<1>3. ASSUME NEW scoped \in BOOLEAN, NEW amount \in Amounts, Persist(scoped, amount) PROVE Inv'
  BY <1>3, PersistKeeps
<1>4. ASSUME NEW scoped \in BOOLEAN, PersistNothing(scoped) PROVE Inv'
  BY <1>4, PersistNothingKeeps
<1>5. ASSUME NEW status \in {None, "generated", "failed"}, Output(status) PROVE Inv'
  BY <1>5, OutputKeeps
<1>6. CASE ProveRun
  BY <1>6, ProveRunKeeps
<1>7. ASSUME NEW h \in DOMAIN holds, NEW resolution \in {"approved", "denied"}, Resolve(h, resolution)
      PROVE  Inv'
  BY <1>7, ResolveKeeps
<1>8. CASE ProveResolution
  BY <1>8, ProveResolutionKeeps
<1>9. CASE Cut
  BY <1>9, CutKeeps
<1>10. CASE UNCHANGED vars
  <2>1. TypeOK'
    BY <1>10 DEF Inv, TypeOK, vars
  <2>2. Unproved' /\ ChangesAreProved'
    BY <1>10 DEF Inv, Unproved, ChangesAreProved, ProofsOf, vars
  <2>3. QED
    BY <2>1, <2>2 DEF Inv
<1>11. QED
  BY <1>1, <1>2, <1>3, <1>4, <1>5, <1>6, <1>7, <1>8, <1>9, <1>10 DEF Next

\* The inductive invariant holds in every state.
THEOREM Invariant == Spec => []Inv
<1>1. Init => Inv
  BY InitInv
<1>2. QED
  BY <1>1, NextKeeps, PTL DEF Spec

-----------------------------------------------------------------------------
\* Rows, events and calls keep their types and name what exists.
THEOREM TypesHold == Spec => []TypeOK
<1>1. Inv => TypeOK
  BY DEF Inv
<1>2. QED
  BY <1>1, Invariant, PTL

\* Every resolution and every run that changed state has its one proof event,
\* unless its call was cut short after the transaction.
THEOREM ChangesAreAlwaysProved == Spec => []ChangesAreProved
<1>1. Inv => ChangesAreProved
  BY DEF Inv
<1>2. QED
  BY <1>1, Invariant, PTL

\* Whatever packs are seeded, however often a case is run with or without its
\* scope, an action that moves money is cleared only where a hold was approved.
THEOREM MoneyIsAlwaysApproved == Spec => []MoneyIsApproved
<1>1. ASSUME Init PROVE MoneyIsApproved
  BY <1>1, CaseAssumption DEF Init, MoneyIsApproved
<1>2. ASSUME TypeOK, MoneyIsApproved, [Next]_vars PROVE MoneyIsApproved'
  <2> SUFFICES ASSUME NEW a \in MovesMoney, state'[a] = "attempted",
                      pack' = None \/ pack'.noMoney
               PROVE  \E h \in HoldsOf(a)' : holds'[h].resolution = "approved"
    BY DEF MoneyIsApproved
  <2>1. a \in Actions /\ NeedsOf[a] \in Nat /\ NeedsOf[a] > 0
    BY CaseAssumption DEF Ladder
  <2>2. ASSUME UNCHANGED <<state, holds>>, pack' = pack \/ pack = None
        PROVE  \E h \in HoldsOf(a)' : holds'[h].resolution = "approved"
    BY <1>2, <2>2 DEF MoneyIsApproved, HoldsOf
  <2>3. ASSUME NEW scoped \in BOOLEAN, NEW amount \in Amounts, Persist(scoped, amount) PROVE FALSE
    <3> DEFINE rules == Rules(scoped)
    <3>1. Verdict(a, rules, amount) # "allowed"
      <4>1. CASE scoped /\ pack # None
        BY <2>3, <4>1 DEF Verdict, Rules, Persist
      <4>2. CASE ~(scoped /\ pack # None)
        <5>1. rules = Floor /\ rules.ceiling = 0
          BY <4>2 DEF Rules, Floor
        <5>2. QED
          BY <2>1, <5>1 DEF Verdict
      <4>3. QED
        BY <4>1, <4>2
    <3>2. state'[a] = StateOf[Verdict(a, rules, amount)]
      BY <2>1, <2>3 DEF Persist, Upserted, Decided
    <3> HIDE DEF rules
    <3>3. QED
      BY <2>1, <3>1, <3>2, Verdicts
  <2>4. ASSUME NEW g \in DOMAIN holds, NEW resolution \in {"approved", "denied"}, Resolve(g, resolution)
        PROVE  \E h \in HoldsOf(a)' : holds'[h].resolution = "approved"
    <3>1. /\ holds' = [holds EXCEPT ![g].status = "released", ![g].resolution = resolution]
          /\ state' = [state EXCEPT ![g[2]] = Resumed[resolution]] /\ pack' = pack
          /\ g[2] \in Actions /\ holds[g] \in Hold
      BY <1>2, <2>4 DEF Resolve, Release, TypeOK, HoldIds
    <3>2. DOMAIN holds' = DOMAIN holds /\ holds'[g].resolution = resolution
          /\ \A h \in DOMAIN holds : h # g => holds'[h] = holds[h]
      BY <3>1 DEF Hold
    <3>3. CASE a = g[2]
      <4>1. state'[a] = Resumed[resolution]
        BY <1>2, <2>1, <3>1, <3>3 DEF TypeOK
      <4>2. resolution = "approved"
        BY <4>1 DEF Resumed
      <4>3. QED
        BY <3>2, <3>3, <4>2 DEF HoldsOf
    <3>4. CASE a # g[2]
      <4>1. state[a] = "attempted" /\ (pack = None \/ pack.noMoney)
        BY <1>2, <2>1, <3>1, <3>4 DEF TypeOK
      <4>2. PICK h \in DOMAIN holds : h[2] = a /\ holds[h].resolution = "approved"
        BY <1>2, <4>1 DEF MoneyIsApproved, HoldsOf
      <4>3. QED
        BY <3>2, <3>4, <4>2 DEF HoldsOf
    <3>5. QED
      BY <3>3, <3>4
  <2>5. ASSUME NEW content \in RulePacks, Seed(content)
        PROVE  UNCHANGED <<state, holds>> /\ pack = None
    BY <2>5 DEF Seed
  <2>6. ASSUME \/ \E outcome \in {"no_op", "denied"} : StopEarly(outcome)
               \/ \E scoped \in BOOLEAN : PersistNothing(scoped)
               \/ \E status \in {None, "generated", "failed"} : Output(status)
               \/ ProveRun \/ ProveResolution \/ Cut \/ UNCHANGED vars
        PROVE  UNCHANGED <<state, holds, pack>>
    BY <2>6 DEF StopEarly, PersistNothing, Output, ProveRun, ProveResolution, Cut, vars
  <2>7. QED
    BY <1>2, <2>2, <2>3, <2>4, <2>5, <2>6 DEF Next
<1>3. QED
  BY <1>1, <1>2, TypesHold, PTL DEF Spec

-----------------------------------------------------------------------------
\* The holds of an action have a newest, which no other of its holds is as new as.
HasNewest ==
  \A a \in Actions : HoldsOf(a) # {} =>
    \E h \in HoldsOf(a) : \A g \in HoldsOf(a) : g[1] <= h[1]

LEMMA NewestHold ==
  ASSUME TypeOK, HasNewest, NEW a \in Actions, HoldsOf(a) # {}
  PROVE  /\ Newest(a) \in HoldsOf(a)
         /\ \A g \in HoldsOf(a) : g[1] <= Newest(a)[1]
BY DEF HasNewest, Newest

\* A hold of a new run is the newest of its action.
LEMMA RaisedIsNewest ==
  ASSUME TypeOK, NEW a \in Actions, NEW n, n = Len(runs) + 1,
         HoldsOf(a)' = HoldsOf(a) \union {<<n, a>>}
  PROVE  /\ Newest(a)' = <<n, a>>
         /\ \A g \in HoldsOf(a)' : g[1] <= n
<1>1. runs \in Seq(Run) /\ Len(runs) \in Nat /\ DOMAIN runs = 1..Len(runs)
  BY DEF TypeOK
<1>2. \A g \in HoldsOf(a) : g[1] \in 1..Len(runs)
  BY <1>1 DEF TypeOK, HoldsOf
<1>3. \A g \in HoldsOf(a)' : g[1] <= n /\ (g # <<n, a>> => g[1] < n)
  BY <1>1, <1>2
<1>4. \A h \in HoldsOf(a)' : (\A g \in HoldsOf(a)' : g[1] <= h[1]) <=> h = <<n, a>>
  <2> SUFFICES ASSUME NEW h \in HoldsOf(a)'
               PROVE  (\A g \in HoldsOf(a)' : g[1] <= h[1]) <=> h = <<n, a>>
    OBVIOUS
  <2>1. CASE h = <<n, a>>
    BY <1>3, <2>1
  <2>2. CASE h # <<n, a>>
    <3>1. h \in HoldsOf(a) /\ h[1] \in Nat /\ h[1] < n /\ <<n, a>>[1] = n
      BY <1>1, <1>2, <1>3, <2>2
    <3>2. <<n, a>> \in HoldsOf(a)' /\ ~(<<n, a>>[1] <= h[1])
      BY <1>1, <3>1
    <3>3. QED
      BY <2>2, <3>2
  <2>3. QED
    BY <2>1, <2>2
<1>5. <<n, a>> \in HoldsOf(a)'
  OBVIOUS
<1>6. QED
  BY <1>3, <1>4, <1>5 DEF Newest

\* What a run that persists its verdicts does to the holds of one action.
LEMMA PersistHolds ==
  ASSUME TypeOK, NEW scoped \in BOOLEAN, NEW amount \in Amounts, Persist(scoped, amount), NEW a \in Actions
  PROVE  LET n == Len(runs) + 1
             decided == Verdict(a, Rules(scoped), amount)
         IN /\ verdict'[a] = decided /\ state'[a] = StateOf[decided] /\ resolved'[a] = None
            /\ decided = "approval_required" =>
                 HoldsOf(a)' = HoldsOf(a) \union {<<n, a>>} /\ holds'[<<n, a>>] = Held
            /\ decided # "approval_required" => HoldsOf(a)' = HoldsOf(a)
            /\ \A h \in HoldsOf(a) : holds'[h] = holds[h]
<1> DEFINE n == Len(runs) + 1
           decided == Verdict(a, Rules(scoped), amount)
           raised == {n} \X {b \in Actions : Decided(scoped, amount)[b] = "approval_required"}
<1>1. verdict'[a] = decided /\ state'[a] = StateOf[decided] /\ resolved'[a] = None
  BY DEF Persist, Decided, Upserted
<1>2. holds' = [h \in DOMAIN holds \union raised |-> IF h \in raised THEN Held ELSE holds[h]]
  BY DEF Persist, WithHolds
<1>3. \A h : h \in raised /\ h[2] = a <=> h = <<n, a>> /\ decided = "approval_required"
  BY DEF Decided
<1>4. runs \in Seq(Run) /\ \A h \in DOMAIN holds : h[1] \in DOMAIN runs
  BY DEF TypeOK
<1>5. <<n, a>> \notin DOMAIN holds /\ \A h \in DOMAIN holds : h \notin raised
  BY <1>4
<1> HIDE DEF n, decided, raised
<1>6. \A h \in HoldsOf(a) : holds'[h] = holds[h]
  BY <1>2, <1>5 DEF HoldsOf
<1>7. DOMAIN holds' = DOMAIN holds \union raised
  BY <1>2
<1>8. decided = "approval_required" => HoldsOf(a)' = HoldsOf(a) \union {<<n, a>>} /\ holds'[<<n, a>>] = Held
  BY <1>2, <1>3, <1>7 DEF HoldsOf
<1>9. decided # "approval_required" => HoldsOf(a)' = HoldsOf(a)
  BY <1>3, <1>7 DEF HoldsOf
<1>10. QED
  BY <1>1, <1>6, <1>8, <1>9 DEF n, decided

\* Every step but a run's and a resolution's leaves states, holds and their history alone.
LEMMA OtherSteps ==
  ASSUME \/ \E content \in RulePacks : Seed(content)
         \/ \E outcome \in {"no_op", "denied"} : StopEarly(outcome)
         \/ \E scoped \in BOOLEAN : PersistNothing(scoped)
         \/ \E status \in {None, "generated", "failed"} : Output(status)
         \/ ProveRun \/ ProveResolution \/ Cut \/ UNCHANGED vars
  PROVE  UNCHANGED <<state, holds, verdict, resolved>>
BY DEF Seed, StopEarly, PersistNothing, Output, ProveRun, ProveResolution, Cut, vars

\* What a resolution does to the holds of one action: they are the same, and
\* the one resolved says what the action resumes with.
LEMMA ResolveHolds ==
  ASSUME TypeOK, NEW h \in DOMAIN holds, NEW resolution \in {"approved", "denied"}, Resolve(h, resolution)
  PROVE  /\ \A a \in Actions : HoldsOf(a)' = HoldsOf(a)
         /\ h[2] \in Actions /\ h \in HoldsOf(h[2])
         /\ holds'[h].status = "released" /\ holds'[h].resolution = resolution
         /\ \A g \in DOMAIN holds : g # h => holds'[g] = holds[g]
         /\ state'[h[2]] = Resumed[resolution] /\ Resumed[resolution] # "pending"
         /\ resolved'[h[2]] = h /\ h # None
         /\ \A a \in Actions : a # h[2] => state'[a] = state[a] /\ resolved'[a] = resolved[a]
         /\ verdict' = verdict
<1>1. /\ holds' = [holds EXCEPT ![h].status = "released", ![h].resolution = resolution]
      /\ state' = [state EXCEPT ![h[2]] = Resumed[resolution]]
      /\ resolved' = [resolved EXCEPT ![h[2]] = h] /\ h # None
      /\ verdict' = verdict /\ h[2] \in Actions /\ holds[h] \in Hold
  BY CaseAssumption DEF Resolve, Release, TypeOK, HoldIds
<1>2. /\ DOMAIN holds' = DOMAIN holds
      /\ holds'[h].status = "released" /\ holds'[h].resolution = resolution
      /\ \A g \in DOMAIN holds : g # h => holds'[g] = holds[g]
  BY <1>1 DEF Hold
<1>3. Resumed[resolution] # "pending"
  BY DEF Resumed
<1>4. QED
  BY <1>1, <1>2, <1>3 DEF HoldsOf, TypeOK

\* What StateFollowsHolds says of one action.
Follows(a) ==
  /\ state[a] = "pending" <=>
       /\ HoldsOf(a) # {} /\ holds[Newest(a)].status = "held"
       /\ verdict[a] = "approval_required" /\ resolved[a] = None
  /\ resolved[a] # None =>
       /\ resolved[a] \in HoldsOf(a) /\ holds[resolved[a]].status = "released"
       /\ state[a] = Resumed[holds[resolved[a]].resolution]

LEMMA PersistFollows ==
  ASSUME TypeOK, HasNewest, NEW scoped \in BOOLEAN, NEW amount \in Amounts, Persist(scoped, amount),
         NEW a \in Actions
  PROVE  /\ HoldsOf(a)' # {} => \E h \in HoldsOf(a)' : \A g \in HoldsOf(a)' : g[1] <= h[1]
         /\ Follows(a)'
<1> DEFINE n == Len(runs) + 1
           decided == Verdict(a, Rules(scoped), amount)
<1>1. /\ verdict'[a] = decided /\ state'[a] = StateOf[decided] /\ resolved'[a] = None
      /\ decided = "approval_required" =>
           HoldsOf(a)' = HoldsOf(a) \union {<<n, a>>} /\ holds'[<<n, a>>] = Held
      /\ decided # "approval_required" => HoldsOf(a)' = HoldsOf(a)
  BY PersistHolds
<1>2. decided \in {"allowed", "approval_required", "denied"}
  BY Verdicts
<1> HIDE DEF decided, n
<1>3. CASE decided = "approval_required"
  <2>1. state'[a] = "pending"
    BY <1>1, <1>3 DEF StateOf
  <2>2. Newest(a)' = <<n, a>> /\ \A g \in HoldsOf(a)' : g[1] <= n
    BY <1>1, <1>3, RaisedIsNewest DEF n
  <2>3. Held.status = "held"
    BY DEF Held
  <2>4. <<n, a>> \in HoldsOf(a)' /\ <<n, a>>[1] = n
    BY <1>1, <1>3
  <2>5. Follows(a)'
    BY <1>1, <1>3, <2>1, <2>2, <2>3, <2>4 DEF Follows
  <2>6. QED
    BY <2>2, <2>4, <2>5
<1>4. CASE decided # "approval_required"
  <2>1. state'[a] # "pending"
    BY <1>1, <1>2, <1>4 DEF StateOf
  <2>2. Follows(a)'
    BY <1>1, <1>4, <2>1 DEF Follows
  <2>3. QED
    BY <1>1, <1>4, <2>2 DEF HasNewest
<1>5. QED
  BY <1>3, <1>4

LEMMA ResolveFollows ==
  ASSUME TypeOK, HasNewest, NEW h \in DOMAIN holds, NEW resolution \in {"approved", "denied"},
         Resolve(h, resolution), NEW a \in Actions, Follows(a)
  PROVE  Follows(a)'
<1>1. /\ \A b \in Actions : HoldsOf(b)' = HoldsOf(b)
      /\ h[2] \in Actions /\ h \in HoldsOf(h[2])
      /\ holds'[h].status = "released" /\ holds'[h].resolution = resolution
      /\ \A g \in DOMAIN holds : g # h => holds'[g] = holds[g]
      /\ state'[h[2]] = Resumed[resolution] /\ Resumed[resolution] # "pending"
      /\ resolved'[h[2]] = h /\ h # None
      /\ \A b \in Actions : b # h[2] => state'[b] = state[b] /\ resolved'[b] = resolved[b]
      /\ verdict' = verdict
  BY ResolveHolds
<1>2. HoldsOf(a)' = HoldsOf(a) /\ Newest(a)' = Newest(a)
  BY <1>1 DEF Newest
<1>3. CASE a = h[2]
  BY <1>1, <1>2, <1>3 DEF Follows
<1>4. CASE a # h[2]
  <2>1. h \notin HoldsOf(a) /\ HoldsOf(a) \subseteq DOMAIN holds
    BY <1>4 DEF HoldsOf
  <2>2. \A g \in HoldsOf(a) : holds'[g] = holds[g]
    BY <1>1, <2>1
  <2>3. HoldsOf(a) # {} => Newest(a) \in HoldsOf(a)
    BY NewestHold
  <2>4. state'[a] = state[a] /\ verdict'[a] = verdict[a] /\ resolved'[a] = resolved[a]
    BY <1>1, <1>4
  <2>5. QED
    BY <1>2, <2>2, <2>3, <2>4 DEF Follows
<1>5. QED
  BY <1>3, <1>4

LEMMA StateFollowsStep ==
  ASSUME TypeOK, HasNewest, StateFollowsHolds, [Next]_vars
  PROVE  HasNewest' /\ StateFollowsHolds'
<1>1. \A a \in Actions : Follows(a)
  BY DEF StateFollowsHolds, Follows
<1>2. (\A a \in Actions : Follows(a)') => StateFollowsHolds'
  BY DEF StateFollowsHolds, Follows
<1>3. ASSUME NEW scoped \in BOOLEAN, NEW amount \in Amounts, Persist(scoped, amount)
      PROVE  HasNewest' /\ StateFollowsHolds'
  BY <1>2, <1>3, PersistFollows DEF HasNewest
<1>4. ASSUME NEW h \in DOMAIN holds, NEW resolution \in {"approved", "denied"}, Resolve(h, resolution)
      PROVE  HasNewest' /\ StateFollowsHolds'
  <2>1. \A a \in Actions : HoldsOf(a)' = HoldsOf(a)
    BY <1>4, ResolveHolds
  <2>2. HasNewest'
    BY <2>1 DEF HasNewest
  <2>3. QED
    BY <1>1, <1>2, <1>4, <2>2, ResolveFollows
<1>5. ASSUME UNCHANGED <<state, holds, verdict, resolved>> PROVE HasNewest' /\ StateFollowsHolds'
  BY <1>5 DEF HasNewest, StateFollowsHolds, HoldsOf, Newest
<1>6. QED
  BY <1>3, <1>4, <1>5, OtherSteps DEF Next

\* However often a case is run and in whatever order resolveHold is called, the row of
\* an action is pending exactly while its newest hold waits under the last verdict and no
\* other was resolved since; and it says what the last resolution since then says.
THEOREM StateAlwaysFollowsHolds == Spec => []StateFollowsHolds
<1>1. Init => HasNewest /\ StateFollowsHolds
  BY CaseAssumption DEF Init, HasNewest, StateFollowsHolds, HoldsOf
<1>2. TypeOK /\ HasNewest /\ StateFollowsHolds /\ [Next]_vars => HasNewest' /\ StateFollowsHolds'
  BY StateFollowsStep
<1>3. QED
  BY <1>1, <1>2, TypesHold, PTL DEF Spec
=============================================================================
