----------------------------- MODULE AnswerGate -----------------------------
(***************************************************************************)
(* What an inference cycle may answer.  The scenario contract binds the    *)
(* question (engine/scenario_contract.py, engine/controller.py); the model *)
(* declares an intent, calls the scenario tool and states evidence, a      *)
(* verdict and a weighing over its turns; engine/gates.py merges the turns *)
(* and judges the merged view; engine/core/validation.py may salvage it;   *)
(* engine/core/output.py composes, assembles and ships the answer.  Who    *)
(* calls these steps when is InferenceCycle's subject: here a cycle        *)
(* narrates and dispatches, is judged, is repaired a bounded number of     *)
(* times, and ships or fails.                                              *)
(***************************************************************************)
EXTENDS Integers, Sequences, FiniteSets, FiniteSetsExt

CONSTANTS
    Null,           \* None
    Texts,          \* what a model may write where a price belongs
    CanonicalOf,    \* [Texts -> canonical number, or Null for unparseable text]
    AskedTarget,    \* the contract's target as it was written, in Texts
    AskedHorizon,
    ScenarioHorizons, \* the horizons the tool knows
    Invited,        \* canonical targets the prompt's directive named besides
    Frames,         \* what the cycles to look at may have found
    ReasonTurns,    \* the turns a model may send
    FinalTurns,     \*   while it reasons, in a repair,
    Authored,       \*   and as the composed output
    ScenarioCalls,  \* the argument records of its scenario calls
    MaxReasonTurns, MaxCalls, MaxRepairs, MaxMerged, MaxSalvage

ASSUME AskedAssumption == AskedTarget \in Texts
ASSUME FramesAssumption ==
    Frames \subseteq [divergence : {"forbidden", "declared"}, dataGate : {"validated", "provisional"},
                      covered : BOOLEAN, fit : {Null, "r2"}, p : 0..100 \cup {Null}, directive : BOOLEAN]
\* A turn of the model, and an entry of its evidence, has its fields.
Turns == ReasonTurns \cup FinalTurns \cup Authored
Said == UNION {{turn.evidence[i] : i \in DOMAIN turn.evidence} : turn \in Turns}
ASSUME TurnsAssumption ==
    /\ \A turn \in Turns :
         /\ turn.evidence \in Seq(Said)
         /\ DOMAIN turn = {"evidence", "hypothesis", "confidence", "scenario", "weighing", "intent"}
    /\ \A e \in Said : e = [path |-> e.path, value |-> e.value, read |-> e.read]
ASSUME GateBoundsAssumption ==
    {MaxReasonTurns, MaxCalls, MaxRepairs, MaxMerged, MaxSalvage} \subseteq Nat

VARIABLES
    frame,     \* what the cycle found: [divergence, dataGate, covered, fit, p, directive]
    intent,    \* controller.scenario_intent
    outcomes,  \* the scenario dispatches recorded, oldest first
    payload,   \* accumulated_tool_results[scenario]: "absent", Null or a band
    view,      \* merge_interpretation of the turns so far
    stated,    \* every claim a turn made: <<path, value>>
    turns,     \* turns heard while reasoning
    repairs,   \* repairs and forced final spent
    stage,     \* "reasoning", "gate", "passed", "failed" or "shipped"
    shipped    \* [by, evidence, verdict, hard, conflicts]: the artifact

gateVars == <<frame, intent, outcomes, payload, view, stated, turns, repairs, stage, shipped>>

-----------------------------------------------------------------------------
(* Numbers and arguments: scenario_contract.py.                            *)

Canon(text) == IF text \in Texts THEN CanonicalOf[text] ELSE Null
NumbersEqual(a, b) == Canon(a) # Null /\ Canon(a) = Canon(b)
ArgsMatch(args, bound) == NumbersEqual(args.target, bound.target) /\ args.horizon = bound.horizon
ArgsEquivalent(a, b) == NumbersEqual(a.target, b.target) /\ a.horizon = b.horizon

Asked == [target |-> AskedTarget, horizon |-> AskedHorizon]
AllowedTargets == {Canon(AskedTarget)} \cup Invited

(* A declaration is disposed, never obeyed: as_asked and refuse bind the   *)
(* asked target, a revision must be permitted and grounded.                *)
RevisionPermitted(raw) ==
    /\ Canon(raw.target) # Null
    /\ ~ NumbersEqual(raw.target, AskedTarget)
    /\ frame.divergence = "forbidden" => Canon(raw.target) \in AllowedTargets
    /\ raw.horizon = Null \/ raw.horizon \in ScenarioHorizons
    /\ raw.grounded     \* a reason of 20 characters and a basis path
WithIntent(raw) ==
    LET horizon == IF raw.horizon = Null THEN AskedHorizon ELSE raw.horizon IN
    CASE raw.mode \in {"as_asked", "refuse"} ->
           [mode |-> raw.mode, target |-> AskedTarget, horizon |-> horizon]
      [] raw.mode = "revision" /\ RevisionPermitted(raw) ->
           [mode |-> "revision", target |-> Canon(raw.target), horizon |-> horizon]
      [] OTHER -> intent

(* The target and horizon the cycle is bound to: a revision wins.          *)
Bound == IF intent # Null /\ intent.mode = "revision"
         THEN [target |-> intent.target, horizon |-> intent.horizon]
         ELSE Asked
Carried(args) ==
    [target  |-> IF Canon(args.target) = Null THEN Bound.target ELSE args.target,
     horizon |-> IF args.horizon = Null THEN Bound.horizon ELSE args.horizon]

Genuine == {i \in DOMAIN outcomes : outcomes[i].result = "ok"}
ScenarioOutcome == IF Genuine = {} THEN Null ELSE outcomes[Max(Genuine)]
ScenarioState ==
    CASE Genuine = {} -> "not_called"
      [] Genuine # {} /\ (ScenarioOutcome.refused \/ ScenarioOutcome.band = Null) -> "refused"
      [] OTHER -> "evaluated"
IsRedundant(args) ==
    \E i \in DOMAIN outcomes : outcomes[i].refused /\ ArgsEquivalent(outcomes[i].args, args)

-----------------------------------------------------------------------------
(* Evidence: predicates.py.  A path is named for what it cites: "exceed"   *)
(* the scenario's exceedance, "refusal" its refusal, "fit" a field of the  *)
(* forward fit, "delta" the derived price delta, "state" a deterministic   *)
(* state key, "memory" agent memory, "nowhere" a tool that never ran.      *)

PathRoot(path) ==
    CASE path \in {"exceed", "refusal"} -> "scenario"
      [] path = "state" -> "deterministic_state"
      [] OTHER -> path
Truth(path) ==
    CASE path = "exceed" /\ payload # "absent" -> payload
      [] path = "fit" -> frame.fit
      [] OTHER -> Null
PathResolves(path) ==
    \/ path \in {"refusal", "state", "delta", "fit"}
    \/ path = "exceed" /\ payload # "absent"
Classify(entry) ==
    CASE entry.path = Null -> "no_path"
      [] entry.path # Null /\ entry.value = Null /\ entry.path # "refusal" -> "null_value"
      [] entry.path # Null /\ (entry.value # Null \/ entry.path = "refusal") /\ ~ entry.read -> "no_reading"
      [] OTHER -> "ok"
Mismatch(entry) ==
    entry.path # Null /\ entry.value # Null /\ Truth(entry.path) # Null /\ entry.value # Truth(entry.path)

(* The engine completes what the store can back and drops what nobody can. *)
(* What stays keeps its place: nothing looks at it for the order again.    *)
Completable(entry) == entry.path \notin {Null, "refusal"} /\ Truth(entry.path) # Null
Backed(entry) == entry.path # Null /\ (entry.path = "refusal" \/ Completable(entry) \/ entry.value # Null)
CompleteEvidenceFills(entries) ==
    [i \in {k \in DOMAIN entries : Backed(entries[k])} |->
        IF Completable(entries[i]) /\ entries[i].value = Null
        THEN [entries[i] EXCEPT !.value = Truth(entries[i].path)] ELSE entries[i]]
CompleteEvidence(entries) ==
    [i \in {k \in DOMAIN entries : Backed(entries[k])} |->
        IF Completable(entries[i])
        THEN [entries[i] EXCEPT !.value = Truth(entries[i].path)] ELSE entries[i]]
Presentable(entry) == Classify(entry) \notin {"no_path", "null_value"} /\ PathResolves(entry.path)
Assemble(entries) ==
    LET whole == CompleteEvidence(entries)
    IN  [i \in {k \in DOMAIN whole : Presentable(whole[k])} |-> whole[i]]

-----------------------------------------------------------------------------
(* The merged view: gates.merge_interpretation.                            *)

NoView == [evidence |-> <<>>, hypothesis |-> Null, confidence |-> Null,
           scenario |-> Null, weighing |-> Null]

FirstAt(entries, path) == CHOOSE i \in DOMAIN entries :
    entries[i].path = path /\ \A j \in 1..(i - 1) : entries[j].path # path
MergeEntryLatest(entries, entry) ==
    IF entry.path = Null \/ \A i \in DOMAIN entries : entries[i].path # entry.path
    THEN Append(entries, entry)
    ELSE [entries EXCEPT ![FirstAt(entries, entry.path)] = entry]
MergeEntry(entries, entry) ==
    IF entry.path = Null \/ \A i \in DOMAIN entries : entries[i].path # entry.path
    THEN Append(entries, entry)
    ELSE LET at == FirstAt(entries, entry.path)
             before == entries[at].value
         IN  CASE before = Null /\ entry.value # Null -> [entries EXCEPT ![at] = entry]
               [] before = entry.value ->
                    IF entry.read THEN [entries EXCEPT ![at] = entry] ELSE entries
               [] OTHER -> Append(entries, entry)
MergeEntries(entries, stream) ==
    LET merged[k \in 0..Len(stream)] ==
          IF k = 0 THEN entries ELSE MergeEntry(merged[k - 1], stream[k])
    IN  merged[Len(stream)]
Later(new, old) == IF new = Null THEN old ELSE new
Capped(entries) == IF Len(entries) > MaxMerged THEN SubSeq(entries, 1, MaxMerged) ELSE entries
Merge(v, turn) ==
    [evidence   |-> Capped(MergeEntries(v.evidence, turn.evidence)),
     hypothesis |-> Later(turn.hypothesis, v.hypothesis),
     confidence |-> Later(turn.confidence, v.confidence),
     scenario   |-> Later(turn.scenario, v.scenario),
     weighing   |-> Later(turn.weighing, v.weighing)]

-----------------------------------------------------------------------------
(* The content gate: gates.validate_final_turn.  Every rule names what it  *)
(* misses.                                                                 *)

Rule(broken, name) == IF broken THEN {name} ELSE {}
Roots(entries) == {PathRoot(entries[i].path) : i \in {k \in DOMAIN entries : Classify(entries[k]) \in {"ok", "no_reading"}}}
Cites(entries, path) == \E i \in DOMAIN entries : entries[i].path = path
CitesScenario(entries) == Cites(entries, "exceed") \/ Cites(entries, "refusal")

EvidenceMisses(entries) ==
    {<<"shape", i>> : i \in {k \in DOMAIN entries : Classify(entries[k]) \in {"no_path", "null_value"}}}
    \cup {<<"reading", i>> : i \in {k \in DOMAIN entries : Classify(entries[k]) = "no_reading"}}
    \cup {<<"mismatch", i>> : i \in {k \in DOMAIN entries : Mismatch(entries[k])}}
    \cup Rule(Cardinality(Roots(entries)) < 2 \/ Roots(entries) \subseteq {"deterministic_state"}, <<"roots", 0>>)
    \cup Rule(~ Cites(entries, "delta"), <<"delta", 0>>)

Verdicts == {"reachable", "not_reachable", "unevaluable"}
RefusedBlockUncited(v) ==
    LET b == v.scenario IN
    Rule(b = Null, <<"block", 0>>)
    \cup Rule(b # Null /\ b.verdict # "unevaluable", <<"verdict", 0>>)
    \cup Rule(b # Null /\ b.rationale # "cause", <<"rationale", 0>>)
    \cup Rule(~ CitesScenario(v.evidence), <<"refusal_citation", 0>>)
RefusedBlockMisses(v) ==
    LET b == v.scenario IN
    Rule(b = Null, <<"block", 0>>)
    \cup Rule(b # Null /\ b.verdict # "unevaluable", <<"verdict", 0>>)
    \cup Rule(b # Null /\ b.rationale # "cause", <<"rationale", 0>>)
    \cup Rule(~ Cites(v.evidence, "refusal"), <<"refusal_citation", 0>>)
OpenBlockMisses(v) ==
    LET b == v.scenario IN
    Rule(b = Null, <<"block", 0>>)
    \cup Rule(b # Null /\ b.verdict \notin Verdicts, <<"verdict", 0>>)
    \cup Rule(b # Null /\ ScenarioState = "not_called" /\ b.verdict = "unevaluable", <<"unevaluable", 0>>)
    \cup Rule(b # Null /\ (b.target = Null \/ b.horizon = Null \/ ~ b.echoes), <<"echo", 0>>)
    \cup Rule(b # Null /\ b.rationale = "thin", <<"rationale", 0>>)
    \cup Rule(~ CitesScenario(v.evidence), <<"scenario_citation", 0>>)

(* Adjudication: the choice follows the probabilities, which stand on tool *)
(* fields.  A tie is broken in favour of H0, the first key of the dict.    *)
Rank(level) == CASE level = "high" -> 2 [] level = "medium" -> 1 [] OTHER -> 0
Score(w) == 101 * Rank(w.level) + (IF w.p = Null THEN 50 ELSE w.p)
Sound(w) == w # Null /\ w.level \in {"low", "medium", "high"} /\ w.basis # Null /\ Truth(w.basis) # Null
Best(weighing) == IF Score(weighing.H1) > Score(weighing.H0) THEN "H1" ELSE "H0"
HighUnfounded(weighing) ==
    LET high == {h \in {"H0", "H1"} : weighing[h] # Null /\ weighing[h].level = "high"} IN
    IF frame.fit = Null THEN high # {} ELSE "H1" \in high /\ frame.p # Null /\ frame.p < 55
WeighingMisses(v) ==
    IF v.weighing = Null THEN {<<"weighing", 0>>}
    ELSE LET w == v.weighing
             scored == Sound(w.H0) /\ Sound(w.H1)
         IN  Rule(~ scored, <<"basis", 0>>)
             \cup Rule(\E h \in {"H0", "H1"} : Sound(w[h]) /\ w[h].value \notin {Null, Truth(w[h].basis)}, <<"basis_value", 0>>)
             \cup Rule(w.H0 # Null /\ w.H1 # Null /\ w.H0.p # Null /\ w.H1.p # Null
                       /\ w.H0.p + w.H1.p \notin 85..115, <<"sum", 0>>)
             \cup Rule(HighUnfounded(w), <<"high", 0>>)
             \cup Rule(w.chosen \notin {"H0", "H1"}, <<"chosen", 0>>)
             \cup Rule(scored /\ w.chosen \in {"H0", "H1"} /\ Score(w.H0) = Score(w.H1) /\ ~ w.tiebreak, <<"tiebreak", 0>>)
             \cup Rule(scored /\ w.chosen \in {"H0", "H1"} /\ w.chosen # Best(w)
                       /\ ~ Cites(v.evidence, "refusal"), <<"deviation", 0>>)

ContentMisses(v) ==
    Rule(~ frame.covered, <<"phases", 0>>)
    \cup Rule(v.hypothesis # "both", <<"hypotheses", 0>>)
    \cup Rule(v.confidence = "other", <<"confidence", 0>>)
    \cup EvidenceMisses(v.evidence)
    \cup (IF ScenarioState = "refused" THEN RefusedBlockMisses(v) ELSE OpenBlockMisses(v))
    \cup (IF ScenarioState = "refused" \/ v.hypothesis = Null THEN {} ELSE WeighingMisses(v))

-----------------------------------------------------------------------------
(* Scenario equality: gates.check_scenario_equality and                    *)
(* controller.scenario_verdict.                                            *)

Derived(band) ==
    CASE frame.dataGate # "validated" -> "inconclusive"
      [] frame.dataGate = "validated" /\ band = "zero" -> "invalidated"
      [] frame.dataGate = "validated" /\ band = "above" -> "validated"
      [] OTHER -> "inconclusive"
VerdictsFor(band) ==
    CASE Derived(band) = "invalidated" -> {"not_reachable"}
      [] Derived(band) = "validated"   -> {"reachable"}
      [] OTHER -> {"reachable", "not_reachable"}

EqualityMisses(block) ==
    LET o == ScenarioOutcome
        evaluated == ScenarioState = "evaluated" /\ block # Null
    IN
    CASE ScenarioState = "refused" -> Rule(~ ArgsMatch(o.args, Bound), <<"refused_other", 0>>)
      [] ScenarioState = "not_called" -> Rule(block # Null, <<"never_dispatched", 0>>)
      [] evaluated /\ ~ ArgsMatch(o.args, Bound) -> {<<"other_target", 0>>}
      [] evaluated /\ ArgsMatch(o.args, Bound)
         /\ (\/ block.target # Null /\ ~ NumbersEqual(block.target, Bound.target)
             \/ block.horizon # Null /\ block.horizon # Bound.horizon) -> {<<"other_echo", 0>>}
      [] evaluated /\ intent # Null /\ intent.mode = "revision" /\ ~ block.divergence -> {<<"divergence", 0>>}
      [] evaluated /\ block.verdict # "unevaluable" ->
           Rule(block.verdict \notin VerdictsFor(o.band), <<"derivation", 0>>)
      [] OTHER -> {}

DirectiveCited(v) == CitesScenario(v.evidence)
DirectiveMisses(v) == Rule(frame.directive /\ ~ DirectiveCited(v), <<"directive", 0>>)

(* run_validation: the content verdict decides; what the other checks miss *)
(* is only listed, and keeps salvage away.                                 *)
Misses(v) == ContentMisses(v) \cup EqualityMisses(v.scenario) \cup DirectiveMisses(v)
Passes(v) == ContentMisses(v) = {}

Salvaged(v) == [v EXCEPT !.evidence = CompleteEvidence(v.evidence)]
MaySalvage(v) ==
    /\ Misses(v) # {}
    /\ \A m \in Misses(v) : m[1] \in {"shape", "mismatch"}
    /\ Cardinality({m \in Misses(v) : m[1] = "shape"}) <= MaxSalvage
    /\ frame.directive /\ DirectiveCited(v) => DirectiveCited(Salvaged(v))
    /\ Passes(Salvaged(v))

-----------------------------------------------------------------------------
(* The relaxed gate of OUTPUT on what is authored:                         *)
(* synthesize.check_authored_output.  The choice already made is a miss at *)
(* first and only a conflict on the final pass.                            *)
ChoiceMisses(obj) ==
    Rule(obj.weighing # Null /\ view.weighing # Null /\ obj.weighing.chosen # view.weighing.chosen, <<"choice", 0>>)
AuthoredMisses(obj) ==
    Rule(obj.hypothesis = Null, <<"hypotheses", 0>>)
    \cup Rule(obj.weighing = Null \/ (obj.weighing # Null /\ obj.weighing.chosen \notin {"H0", "H1"}), <<"weighing", 0>>)
    \cup Rule(\A i \in DOMAIN obj.evidence : ~ PathResolves(obj.evidence[i].path), <<"evidence", 0>>)
    \cup Rule(frame.directive /\ ~ Cites(obj.evidence, "delta"), <<"delta", 0>>)
    \cup Rule(obj.scenario = Null, <<"block", 0>>)
    \cup Rule(obj.scenario # Null /\ obj.scenario.verdict \notin
                  (IF ScenarioState = "refused" THEN {"unevaluable"} ELSE Verdicts), <<"verdict", 0>>)
Assembled(turn) == [turn EXCEPT !.evidence = Assemble(turn.evidence)]

-----------------------------------------------------------------------------
NoAnswer == [by |-> "nobody", answer |-> Null, hard |-> {}, conflicts |-> {}]

GateInit ==
    /\ frame \in Frames
    /\ intent = Null /\ outcomes = <<>> /\ payload = "absent"
    /\ view = NoView /\ stated = {} /\ turns = 0 /\ repairs = 0
    /\ stage = "reasoning" /\ shipped = NoAnswer

Hear(turn) ==
    /\ view' = Merge(view, turn)
    /\ stated' = stated \cup
         {<<turn.evidence[i].path, turn.evidence[i].value>> : i \in DOMAIN turn.evidence}
    /\ intent' = IF turn.intent = Null THEN intent ELSE WithIntent(turn.intent)

(* A narration turn of the reasoning loop.                                 *)
Narrate ==
    /\ stage = "reasoning" /\ turns < MaxReasonTurns
    /\ \E turn \in ReasonTurns : Hear(turn)
    /\ turns' = turns + 1
    /\ UNCHANGED <<frame, outcomes, payload, repairs, stage, shipped>>

Record(args, result, refused, band) ==
    /\ outcomes' = Append(outcomes, [args |-> args, result |-> result, refused |-> refused, band |-> band])
    /\ payload' = band
    /\ UNCHANGED <<frame, intent, view, stated, turns, repairs, stage, shipped>>

(* A call of the scenario tool the membrane denies: recorded as it came.   *)
CallDenied ==
    /\ stage = "reasoning" /\ Len(outcomes) < MaxCalls
    /\ \E args \in ScenarioCalls : Record(args, "denied", FALSE, Null)
(* A call with the contract carried into what it left out: suppressed if   *)
(* the same was refused before, executed otherwise.                        *)
CallSuppressed ==
    /\ stage = "reasoning" /\ Len(outcomes) < MaxCalls
    /\ \E args \in ScenarioCalls :
         IsRedundant(Carried(args)) /\ Record(Carried(args), "denied", FALSE, Null)
CallExecuted ==
    /\ stage = "reasoning" /\ Len(outcomes) < MaxCalls
    /\ \E args \in ScenarioCalls :
         /\ ~ IsRedundant(Carried(args))
         /\ \/ \E band \in {"zero", "between", "above"} : Record(Carried(args), "ok", FALSE, band)
            \/ Record(Carried(args), "ok", TRUE, Null)
            \/ Record(Carried(args), "error", FALSE, Null)

(* The reasoning loop closes and the final is judged.                      *)
CloseReasoning ==
    /\ stage = "reasoning"
    /\ stage' = "gate"
    /\ UNCHANGED <<frame, intent, outcomes, payload, view, stated, turns, repairs, shipped>>

Judge ==
    /\ stage = "gate" /\ Passes(view)
    /\ stage' = "passed"
    /\ UNCHANGED <<frame, intent, outcomes, payload, view, stated, turns, repairs, shipped>>
(* A repair turn or the forced final; its tools cannot reach the scenario. *)
Repair ==
    /\ stage = "gate" /\ ~ Passes(view) /\ repairs < MaxRepairs
    /\ \E turn \in FinalTurns : Hear(turn)
    /\ repairs' = repairs + 1
    /\ UNCHANGED <<frame, outcomes, payload, turns, stage, shipped>>
Salvage ==
    /\ stage = "gate" /\ ~ Passes(view) /\ repairs = MaxRepairs /\ MaySalvage(view)
    /\ view' = Salvaged(view) /\ stage' = "passed"
    /\ UNCHANGED <<frame, intent, outcomes, payload, stated, turns, repairs, shipped>>
Reject ==
    /\ stage = "gate" /\ ~ Passes(view) /\ repairs = MaxRepairs /\ ~ MaySalvage(view)
    /\ stage' = "failed"
    /\ UNCHANGED <<frame, intent, outcomes, payload, view, stated, turns, repairs, shipped>>

Ship(answer) ==
    /\ stage' = "shipped" /\ shipped' = answer
    /\ UNCHANGED <<frame, intent, outcomes, payload, view, stated, turns, repairs>>
(* Synthesis failed: the judged final ships as it stands.                  *)
ShipStaged ==
    /\ stage = "passed"
    /\ Ship([by |-> "staged", answer |-> view, hard |-> {}, conflicts |-> {}])
(* The authored object, assembled; misses buy it one correction, whose own *)
(* equality misses are conflicts.                                          *)
ShipAuthored ==
    /\ stage = "passed"
    /\ \E turn \in Authored :
         LET obj == Assembled(turn)
             hard == AuthoredMisses(obj) \cup ChoiceMisses(obj) \cup EqualityMisses(obj.scenario)
         IN  Ship([by |-> "authored", answer |-> obj, hard |-> hard, conflicts |-> {}])
ShipCorrected ==
    /\ stage = "passed"
    /\ \E first \in Authored, turn \in Authored :
         LET before == Assembled(first)
             obj == Assembled(turn)
         IN  /\ AuthoredMisses(before) \cup ChoiceMisses(before) \cup EqualityMisses(before.scenario) # {}
             /\ Ship([by |-> "corrected", answer |-> obj, hard |-> AuthoredMisses(obj),
                      conflicts |-> ChoiceMisses(obj) \cup EqualityMisses(obj.scenario)])

GateNext ==
    \/ Narrate \/ CallDenied \/ CallSuppressed \/ CallExecuted \/ CloseReasoning
    \/ Judge \/ Repair \/ Salvage \/ Reject \/ ShipStaged \/ ShipAuthored \/ ShipCorrected

GateSpec == GateInit /\ [][GateNext]_gateVars

-----------------------------------------------------------------------------
(* Nothing the model claimed is merged away: until the view is full, a     *)
(* value stated for a path stays visible to the gate, contradictions and   *)
(* all.                                                                    *)
ClaimsStay ==
    stage \in {"reasoning", "gate"} /\ Len(view.evidence) < MaxMerged =>
        \A claim \in stated : Null \notin {claim[1], claim[2]} =>
            \E i \in DOMAIN view.evidence :
                <<view.evidence[i].path, view.evidence[i].value>> = claim

(* What ships beside a path the store knows is the store's value, whatever *)
(* was stated, salvaged or corrected on the way; and an authored object    *)
(* cites nothing that the run cannot back.                                 *)
ShippedTrue ==
    stage = "shipped" =>
        \A i \in DOMAIN shipped.answer.evidence :
            LET e == shipped.answer.evidence[i] IN
            /\ Truth(e.path) # Null /\ e.path # "refusal" => e.value = Truth(e.path)
            /\ shipped.by # "staged" => PathResolves(e.path) /\ (e.value # Null \/ e.path = "refusal")

(* A refused scenario is passed only as unevaluable with its refusal       *)
(* cited, and what ships over it says so or carries the miss.              *)
RefusalStands ==
    /\ stage \in {"passed", "shipped"} /\ ScenarioState = "refused" =>
         view.scenario.verdict = "unevaluable" /\ Cites(view.evidence, "refusal")
    /\ stage = "shipped" /\ ScenarioState = "refused" =>
         \/ shipped.answer.scenario # Null /\ shipped.answer.scenario.verdict = "unevaluable"
         \/ shipped.hard # {}

(* The doctrine of run_validation: the verdict that passes is the one      *)
(* derived from an evaluation of the bound question.  The gate does not    *)
(* enforce it: an equality miss is listed and never fails the verdict.     *)
VerdictObeysDerivation ==
    stage = "passed" /\ ScenarioState = "evaluated" =>
        /\ ArgsMatch(ScenarioOutcome.args, Bound)
        /\ view.scenario.verdict \in VerdictsFor(ScenarioOutcome.band)
=============================================================================
