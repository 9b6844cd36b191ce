--------------------------- MODULE InferenceCycle ---------------------------
(***************************************************************************)
(* One narration cycle of nooa_harness/engine/core: the seven stages of    *)
(* runner.OUTER_SEQUENCE driven under the governance membrane, with the    *)
(* model's turns, the dispatch rounds, the positions of the reasoning      *)
(* track and its halt, the failure node's one narration retry and its tool *)
(* mirror, and the validation gate with repairs, forced final and salvage. *)
(* What passes the gate is handed to OutputStage, and so is every failure. *)
(*                                                                         *)
(* A cycle is one coroutine over its own state.  What it does not control  *)
(* is a choice: what the model answers and whether it does, how a tool     *)
(* ends, what the content gate finds missing, which store is up.           *)
(***************************************************************************)
EXTENDS LoopMembrane, FiniteSets

CONSTANTS
    Tools,        \* canonical tool names
    Args,         \* what the arguments of a call may be
    Positions,    \* len(POSITION_ORDER)
    Position,     \* POSITION_TOOLS: [Tools -> 0..Positions], 0 if unordered
    Homes,        \* [Tools -> sets of <<loop, sub-loop>>]: tool_homes
    Needs,        \* [Tools -> SUBSET Tools]: one of them must have data
    Links,        \* chain links of this task; [link -> what makes it required]
    Repairable,   \* the links that live in validation (calc.discipline.audit)
    PlanBound,    \* tools the plan may have the engine call in gather
    Turns,        \* the tool calls a turn of the model may carry
    AssessmentDue, \* the task leaves something to the assessment turn
    MaxRounds,    \* AGENTIC_MAX_TOOL_ROUNDS
    MaxPerPass,   \* MAX_DISPATCHES_PER_PASS
    MaxTurns,     \* AGENTIC_MAX_LLM_TURNS
    PassBudget,   \* LOOP_PASS_BUDGET
    Retries       \* VALIDATION_RETRY_PASSES

Calls  == [tool : Tools, args : Args, shape : {"ok", "args", "cadence"}]
NoArgs == "none"                 \* {} : what a salvaged call is left with

ASSUME ToolsAssumption ==
    /\ Positions \in Nat \ {0} /\ Position \in [Tools -> 0..Positions]
    /\ Needs \in [Tools -> SUBSET Tools]
    /\ DOMAIN Links \subseteq Tools /\ Repairable \subseteq DOMAIN Links
    /\ PlanBound \subseteq Tools /\ Turns \subseteq Seq(Calls) /\ NoArgs \in Args
    /\ AssessmentDue \in BOOLEAN
    /\ {MaxRounds, MaxPerPass, MaxTurns, Retries} \subseteq Nat

Walked == Positions + 1          \* the track is walked
(* What the gates find: nothing, only that a verdict of the directive is    *)
(* not cited, only entries without a value, or something else or more.     *)
Findings == {"clean", "directive", "shape", "real"}
Tags   == {"comprehension", "evidence", "reasoning", "validation", "output"}

VARIABLES
    obs, terminal, opened,       \* the controller, as in AgenticLoop
    todo,      \* governed moves the stage has still to make
    pc,        \* where the stage is
    tag,       \* st.loop_tag
    turn,      \* the tool calls of st.parsed_current
    queue,     \* calls of this round that are still to come
    bad,       \* calls of this round to salvage
    mirroring, \* st._mirroring
    ran,       \* st._round_had_execution
    inPass,    \* st.dispatched_in_pass
    rounds,    \* st.tool_rounds_used
    llm,       \* st.llm_calls
    passes,    \* st.passes_per_loop
    retried,   \* the narration worker has spent its retry
    position,  \* st.reason_position, from 1
    hit,       \* position_hits of the active position
    halted,    \* st.chain_halt
    addr,      \* of each tool the last outcome that was not denied or an error
    acc,       \* tools with data in st.accumulated_tool_results
    refusals,  \* <<tool, args>> that refused
    finding,   \* what the content gate and the directive check last found
    passed,    \* st.final_validation: "no", "gate" or "salvage"
    retries,   \* st.validation_retries_used
    forced     \* st.forced_final_sent

ctl   == <<obs, terminal, opened>>
round == <<queue, bad, mirroring, ran, inPass, rounds>>
track == <<position, hit, halted>>
data  == <<addr, acc, refusals>>
gate  == <<finding, passed, retries, forced>>
vars  == <<ctl, todo, pc, tag, turn, round, llm, passes, retried, track, data, gate>>

CycleTypeOK ==
    /\ obs \in Observations \cup {Gone} /\ terminal \in Terminals \cup {"live"}
    /\ opened \subseteq SubLoops
    /\ tag \in Tags /\ turn \in Turns \cup {<<>>}
    /\ {mirroring, ran, retried, hit, halted, forced} \subseteq BOOLEAN
    /\ inPass \in 0..MaxPerPass /\ rounds \in 0..MaxRounds
    /\ llm \in Nat /\ passes \in [Tags -> Nat] /\ retries \in 0..Retries
    /\ position \in 1..Walked /\ acc \subseteq Tools
    /\ addr \in [Tools -> {"none", "evaluated", "refused"}]
    /\ finding \in Findings /\ passed \in {"no", "gate", "salvage"}

Init ==
    /\ obs = Initial /\ terminal = "live" /\ opened = {}
    /\ todo = <<>> /\ pc = "wake" /\ tag = "comprehension"
    /\ turn = <<>> /\ queue = <<>> /\ bad = <<>>
    /\ mirroring = FALSE /\ ran = FALSE /\ inPass = 0 /\ rounds = 0
    /\ llm = 0 /\ passes = [t \in Tags |-> 0] /\ retried = FALSE
    /\ position = 1 /\ hit = FALSE /\ halted = FALSE
    /\ addr = [t \in Tools |-> "none"] /\ acc = {} /\ refusals = {}
    /\ finding = "clean" /\ passed = "no" /\ retries = 0 /\ forced = FALSE

-----------------------------------------------------------------------------
(* The moves of a stage go through the membrane one by one.                *)

At(label)          == todo = <<>> /\ pc = label
Goto(label, moves) == pc' = label /\ todo' = moves
Fail(kind)         == Goto("failed", <<CycleFailed(kind)>>)

(* Mutant: a failure leaves the observation where it was.                  *)
GovernStays ==
    /\ todo # <<>> /\ Allowed(obs, Head(todo))
    /\ obs' = IF Head(todo).kind = "cycle_failed" THEN obs
              ELSE Successor(obs, Head(todo))
    /\ terminal' = IF Successor(obs, Head(todo)) = Gone THEN EndsAt(Head(todo))
                   ELSE terminal
    /\ opened' = IF Head(todo).kind = "open_subloop"
                 THEN opened \cup {Head(todo).to} ELSE opened
    /\ todo' = Tail(todo)
    /\ UNCHANGED <<pc, tag, turn, round, llm, passes, retried, track, data, gate>>

(* A move that the membrane denies raises GovernanceDenied, and            *)
(* narrate_cycle ends the cycle as infra_failed.                           *)
Govern ==
    /\ todo # <<>>
    /\ IF Allowed(obs, Head(todo))
       THEN /\ obs' = Successor(obs, Head(todo))
            /\ terminal' = IF obs' = Gone THEN EndsAt(Head(todo)) ELSE terminal
            /\ opened' = IF Head(todo).kind = "open_subloop"
                         THEN opened \cup {Head(todo).to} ELSE opened
            /\ todo' = Tail(todo)
            /\ UNCHANGED pc
       ELSE /\ Fail("infra_failed")
            /\ UNCHANGED ctl
    /\ UNCHANGED <<tag, turn, round, llm, passes, retried, track, data, gate>>

-----------------------------------------------------------------------------
(* A turn of the model: the call answers, at once or on the one retry the  *)
(* narration worker has for the whole cycle ...                            *)
Answers == retried' \in {retried, TRUE}
(* ... or fails with the retry spent, on this call if not before.          *)
Silent  == retried' = TRUE

Spend(t) == llm' = llm + 1 /\ passes' = [passes EXCEPT ![t] = @ + 1]

(* One turn that dispatches nothing of itself: its calls are kept and the  *)
(* stage goes on at next; an unparsable or missing answer ends the cycle.  *)
Hear(next, CannotRetry) ==
    \/ /\ Answers /\ Spend(tag)
       /\ turn' \in Turns
       /\ Goto(next, <<>>)
    \/ /\ Answers /\ Spend(tag)
       /\ Fail("parse_failed")
       /\ UNCHANGED turn
    \/ /\ (Silent \/ CannotRetry)
       /\ Fail("narration_failed")
       /\ UNCHANGED <<turn, llm, passes>>

-----------------------------------------------------------------------------
(* WAKE and COMPREHENSION.                                                 *)

Wake ==
    /\ At("wake")
    /\ Goto("comprehend", <<Open("intake")>>)
    /\ UNCHANGED <<ctl, tag, turn, round, llm, passes, retried, track, data, gate>>

(* The assessment turn, if the task makes it due, is the only turn here,   *)
(* and the cycle goes on without an answer.                                *)
Comprehend ==
    /\ At("comprehend")
    /\ llm' \in (IF AssessmentDue THEN {llm, llm + 1} ELSE {llm})
    /\ passes' = [passes EXCEPT !.comprehension = @ + 1]
    /\ \E cadence \in {<<>>, <<AdoptCadence>>} :
           Goto("plan", cadence \o <<Open("interpretation"), Open("framing")>>)
    /\ UNCHANGED <<ctl, tag, turn, round, retried, track, data, gate>>

(* The PLAN gate and the FRAMING gate, each of which may refuse.           *)
PlanGate ==
    /\ At("plan")
    /\ (Fail("gate_refused") \/ Goto("acquire", <<>>))
    /\ UNCHANGED <<ctl, tag, turn, round, llm, passes, retried, track, data, gate>>

(* Mutant: only a result overwrites a result.                              *)
ExecutedKeeps(c, result) ==
    /\ addr' = IF result = "error" THEN addr ELSE [addr EXCEPT ![c.tool] = result]
    /\ acc'  = IF result = "evaluated" THEN acc \cup {c.tool} ELSE acc
    /\ refusals' = IF result = "refused" THEN refusals \cup {<<c.tool, c.args>>}
                   ELSE refusals

(* How the execution of call c may end, and what that leaves behind.       *)
Executed(c, result) ==
    /\ addr' = IF result = "error" THEN addr ELSE [addr EXCEPT ![c.tool] = result]
    /\ acc'  = IF result = "evaluated" THEN acc \cup {c.tool} ELSE acc \ {c.tool}
    /\ refusals' = IF result = "refused" THEN refusals \cup {<<c.tool, c.args>>}
                   ELSE refusals

Results == {"evaluated", "refused", "error"}

(* Plan-bound acquisition: the forecast digest earns nothing; a native     *)
(* scenario counts as if the agent had called it.  Then EVIDENCE opens.    *)
Acquire ==
    /\ At("acquire")
    /\ \/ UNCHANGED data
       \/ \E t \in PlanBound, result \in Results :
              Executed([tool |-> t, args |-> "plan", shape |-> "ok"], result)
    /\ tag' = "evidence"
    /\ Goto("narrate", <<Open("sourcing"), Open("acquisition"),
                         SetTask("infer_order_flow")>>)
    /\ UNCHANGED <<ctl, turn, round, llm, passes, retried, track, gate>>

-----------------------------------------------------------------------------
(* _dispatch_turn: one round of calls under the budget gate and the        *)
(* ceiling of the pass; what does not fit is only named.                   *)

(* Mutant: the budget gate is not asked.                                   *)
BeginUnbudgeted(calls, spent) ==
    /\ queue' = SubSeq(calls, 1, IF Len(calls) < MaxPerPass - spent THEN Len(calls)
                                 ELSE MaxPerPass - spent)
    /\ rounds' = IF queue' = <<>> THEN rounds ELSE rounds + 1
    /\ inPass' = spent
    /\ ran' = FALSE
    /\ bad' = <<>>
    /\ Goto("call", <<>>)

Begin(calls, spent) ==
    LET room == IF rounds < MaxRounds THEN MaxPerPass - spent ELSE 0
    IN  /\ queue' = SubSeq(calls, 1, IF Len(calls) < room THEN Len(calls) ELSE room)
        /\ rounds' = IF queue' = <<>> THEN rounds ELSE rounds + 1
        /\ inPass' = spent
        /\ ran' = FALSE
        /\ bad' = <<>>
        /\ Goto("call", <<>>)

Crosswalk ==
    [comprehension |-> <<"context", "framing">>,
     evidence      |-> <<"context", "acquisition">>,
     reasoning     |-> <<"reasoning", "analysis">>,
     validation    |-> <<"validation", "recovery">>,
     output        |-> <<"output", "placement">>]

(* The homes of the tool first, then the home of the loop tag.             *)
MayWork(t) == \E h \in Homes[t] \cup {Crosswalk[tag]} : Authorized(obs, h[1], h[2])

OutOfPosition(t) ==
    tag = "reasoning" /\ ~halted /\ position < Walked /\ Position[t] > position

Premature(t) ==
    tag = "reasoning" /\ Needs[t] # {} /\ Needs[t] \cap acc = {}

(* The gates a call passes before it executes, in their order.             *)
Fate(c) ==
    IF c.shape = "args" THEN "malformed"
    ELSE IF c.shape = "cadence" \/ OutOfPosition(c.tool) \/ Premature(c.tool)
         THEN "named"
    ELSE IF ~MayWork(c.tool) \/ <<c.tool, c.args>> \in refusals THEN "denied"
    ELSE "execute"

NextCall ==
    /\ At("call") /\ queue # <<>>
    /\ queue' = Tail(queue)
    /\ UNCHANGED <<ctl, todo, pc, tag, turn, mirroring, rounds, llm, passes,
                   retried, position, halted, gate>>

(* args that are no object: the name is salvaged and nothing is counted.   *)
CallMalformed ==
    /\ NextCall /\ Fate(Head(queue)) = "malformed"
    /\ bad' = Append(bad, [Head(queue) EXCEPT !.args = NoArgs, !.shape = "ok"])
    /\ UNCHANGED <<ran, inPass, hit, data>>

(* Cadence, position, preconditions: a finding, and the name is pending.   *)
CallNamed ==
    /\ NextCall /\ Fate(Head(queue)) = "named"
    /\ inPass' = inPass + 1
    /\ UNCHANGED <<bad, ran, hit, data>>

(* Denied by the membrane, or suppressed as a repetition of a refusal: the *)
(* result of the tool is overwritten with nothing.                         *)
CallDenied ==
    /\ NextCall /\ Fate(Head(queue)) = "denied"
    /\ inPass' = inPass + 1
    /\ acc' = acc \ {Head(queue).tool}
    /\ UNCHANGED <<bad, ran, hit, addr, refusals>>

CallExecuted ==
    /\ NextCall /\ Fate(Head(queue)) = "execute"
    /\ inPass' = inPass + 1
    /\ ran' = TRUE
    /\ \E result \in Results :
          /\ Executed(Head(queue), result)
          /\ hit' = (hit \/ (/\ result # "error" /\ tag = "reasoning"
                             /\ Position[Head(queue).tool] = position))
    /\ UNCHANGED bad

(* The end of a round.  Salvaged calls go through the failure node's tool  *)
(* mirror, that is through a round of their own; then the stage goes on.   *)
(* What is left of the round is overwritten before it is read again.       *)
RoundEnds ==
    /\ At("call") /\ queue = <<>>
    /\ IF bad # <<>> /\ ~mirroring
       THEN Begin(bad, inPass) /\ mirroring' = TRUE
       ELSE /\ mirroring' = FALSE /\ bad' = <<>> /\ ran' = FALSE /\ inPass' = 0
            /\ Goto(CASE tag = "evidence"   -> "followup"
                      [] tag = "reasoning"  -> IF halted THEN "cleared" ELSE "position"
                      [] tag = "validation" -> IF ran THEN "followup" ELSE "judge",
                    <<>>)
            /\ UNCHANGED <<queue, rounds>>
    /\ UNCHANGED <<ctl, tag, turn, llm, passes, retried, track, data, gate>>

(* _followup_turn, and where each loop takes it up.                        *)
Followup ==
    /\ At("followup")
    /\ Hear(CASE tag = "evidence"   -> "evidence"
              [] tag = "reasoning"  -> IF halted THEN "reformed" ELSE "reasoning"
              [] tag = "validation" -> "judge", FALSE)
    /\ UNCHANGED <<ctl, tag, round, track, data, gate>>

-----------------------------------------------------------------------------
(* EVIDENCE.                                                               *)

(* The first turn.  Only a stall is retried; any other error ends it.      *)
Narrate ==
    /\ At("narrate")
    /\ Hear("evidence", retried' = retried)
    /\ inPass' = 0
    /\ UNCHANGED <<ctl, tag, queue, bad, mirroring, ran, rounds, track, data, gate>>

EvidencePass ==
    /\ At("evidence")
    /\ turn # <<>> /\ passes.evidence < PassBudget.evidence /\ llm < MaxTurns
    /\ Begin(turn, 0)
    /\ UNCHANGED <<ctl, tag, turn, mirroring, llm, passes, retried, track, data, gate>>

(* The evidence stands; calls that are still pending are only named.       *)
EvidenceDone ==
    /\ At("evidence")
    /\ (turn = <<>> \/ passes.evidence >= PassBudget.evidence \/ llm >= MaxTurns)
    /\ tag' = "reasoning"
    /\ Goto("reasoning", <<Open("verification"), CloseSub, Enter("reasoning"),
                           Open("hypothesis"), Open("analysis")>>)
    /\ UNCHANGED <<ctl, turn, round, llm, passes, retried, track, data, gate>>

-----------------------------------------------------------------------------
(* REASONING: three positions, one per pass, and the halt of the first.    *)

(* Mutant: the loop looks at the turns of the cycle alone.                 *)
PassLeftByTurns == llm < MaxTurns

PassLeft == passes.reasoning < PassBudget.reasoning /\ llm < MaxTurns

ReasonPass ==
    /\ At("reasoning") /\ PassLeft /\ turn # <<>>
    /\ Begin(turn, 0)
    /\ UNCHANGED <<ctl, tag, turn, mirroring, llm, passes, retried, track, data, gate>>

(* A turn without calls before the track is walked is steered into another,*)
(* as long as the reserve of validation is not touched.                    *)
Floor == position < Walked /\ llm < MaxTurns - 4

ReasonSteer ==
    /\ At("reasoning") /\ PassLeft /\ turn = <<>> /\ Floor
    /\ inPass' = 0
    /\ Goto("followup", <<>>)
    /\ UNCHANGED <<ctl, tag, turn, queue, bad, mirroring, ran, rounds, llm, passes,
                   retried, track, data, gate>>

(* Mutant: the loop is left only by a turn without calls.                  *)
ReasonDoneEmpty ==
    /\ At("reasoning")
    /\ turn = <<>> /\ ~Floor
    /\ Goto("validate", <<Open("synthesis"), CloseSub>>)
    /\ UNCHANGED <<ctl, tag, turn, round, llm, passes, retried, track, data, gate>>

ReasonDone ==
    /\ At("reasoning")
    /\ (~PassLeft \/ (turn = <<>> /\ ~Floor))
    /\ Goto("validate", <<Open("synthesis"), CloseSub>>)
    /\ UNCHANGED <<ctl, tag, turn, round, llm, passes, retried, track, data, gate>>

AtPosition(p) == {t \in Tools : Position[t] = p}

(* chain_halt_for: a tool of the first position refused last time.         *)
Halts == position = 1 /\ \E t \in AtPosition(1) : addr[t] = "refused"

(* Mutant: a pass is a position.                                           *)
TrackStepAlways ==
    /\ At("position")
    /\ halted' = Halts
    /\ IF ~Halts /\ position < Walked
       THEN position' = position + 1 /\ hit' = FALSE
       ELSE UNCHANGED <<position, hit>>
    /\ Goto("followup", <<>>)
    /\ UNCHANGED <<ctl, tag, turn, round, llm, passes, retried, data, gate>>

(* After a round: halt and ask for one reform, or advance by at most one   *)
(* position and ask for the next turn.                                     *)
TrackStep ==
    /\ At("position")
    /\ halted' = Halts
    /\ IF /\ ~Halts /\ hit /\ position < Walked
          /\ \A t \in AtPosition(position) : addr[t] # "none"
       THEN position' = position + 1 /\ hit' = FALSE
       ELSE UNCHANGED <<position, hit>>
    /\ inPass' = IF Halts THEN 0 ELSE inPass
    /\ Goto("followup", <<>>)
    /\ UNCHANGED <<ctl, tag, turn, queue, bad, mirroring, ran, rounds, llm, passes,
                   retried, data, gate>>

Reform ==
    /\ At("reformed") /\ turn # <<>>
    /\ Begin(turn, 0)
    /\ UNCHANGED <<ctl, tag, turn, mirroring, llm, passes, retried, track, data, gate>>

(* The refused tool has evaluated: the track resumes, with the same turn.  *)
HaltCleared ==
    /\ At("cleared") /\ ~Halts
    /\ halted' = FALSE
    /\ Goto("reasoning", <<>>)
    /\ UNCHANGED <<ctl, tag, turn, round, llm, passes, retried, position, hit, data,
                   gate>>

(* Mutant: the position is left open.                                      *)
HaltStandsOpen ==
    /\ ((At("cleared") /\ Halts) \/ (At("reformed") /\ turn = <<>>))
    /\ Goto("validate", <<>>)
    /\ UNCHANGED <<ctl, tag, turn, round, llm, passes, retried, track, data, gate>>

HaltStands ==
    /\ ((At("cleared") /\ Halts) \/ (At("reformed") /\ turn = <<>>))
    /\ Goto("validate", <<CloseSub>>)
    /\ UNCHANGED <<ctl, tag, turn, round, llm, passes, retried, track, data, gate>>

-----------------------------------------------------------------------------
(* VALIDATION.                                                             *)

EnterValidation ==
    /\ At("validate")
    /\ tag' = "validation"
    /\ passes' = [passes EXCEPT !.validation = @ + 1]
    /\ Goto("judge", <<Enter("validation"), Open("gate")>>)
    /\ UNCHANGED <<ctl, turn, round, llm, retried, track, data, gate>>

(* chain_completion: required links that nobody ever attempted.            *)
MissingLinks ==
    {t \in DOMAIN Links : /\ \A u \in Links[t] : addr[u] = "evaluated"
                          /\ addr[t] = "none"}

(* The CONTENT gate, the directive check and the CHAIN gate.  Of what is   *)
(* missing, entry-shape misses are the ones that salvage can repair; a     *)
(* missing directive verdict is named and does not count.                  *)
Judge ==
    /\ At("judge")
    /\ finding' \in Findings
    /\ passed' = IF /\ finding' \in {"clean", "directive"}
                    /\ MissingLinks = {} /\ ~halted
                 THEN "gate" ELSE "no"
    /\ Goto("gate", IF obs.sub = NoSub THEN <<Open("gate")>> ELSE <<>>)
    /\ UNCHANGED <<ctl, tag, turn, round, llm, passes, retried, track, data,
                   retries, forced>>

Spent == retries >= Retries

(* A refused gate: a repair while there are retries, in RECOVERY, which is *)
(* opened once.                                                            *)
RepairDue ==
    /\ At("gate") /\ passed = "no" /\ ~Spent
    /\ retries' = retries + 1
    /\ Goto("repair", IF obs.sub = "recovery" THEN <<>> ELSE <<Open("recovery")>>)
    /\ UNCHANGED <<ctl, tag, turn, round, llm, passes, retried, track, data,
                   finding, passed, forced>>

RepairTurn ==
    /\ At("repair")
    /\ Hear("repaired", FALSE)
    /\ UNCHANGED <<ctl, tag, round, track, data, gate>>

Repaired ==
    /\ At("repaired")
    /\ Begin(turn, 0)
    /\ UNCHANGED <<ctl, tag, turn, mirroring, llm, passes, retried, track, data, gate>>

(* The forced final, once: up to two turns, without tools.  A turn that    *)
(* came back is judged.                                                    *)
ForcedFinal ==
    /\ At("gate") /\ passed = "no" /\ Spent /\ ~forced
    /\ forced' = TRUE
    /\ \E answered \in 0..2, usable \in BOOLEAN :
          /\ usable => answered > 0
          /\ llm' = llm + answered
          /\ Goto(IF usable THEN "judge" ELSE "gate", <<>>)
    /\ turn' = <<>>
    /\ UNCHANGED <<ctl, tag, round, passes, retried, track, data, finding, passed,
                   retries>>

(* Mutant: a halt is not among the misses.                                 *)
SalvageableHalted == finding = "shape" /\ Repairable \cap MissingLinks = {}

(* salvage_entry_shape_misses looks at the list of finding, in which only   *)
(* the repairable links and the halt appear, and re-judges the content.    *)
Salvageable == finding = "shape" /\ Repairable \cap MissingLinks = {} /\ ~halted

Salvage ==
    /\ At("gate") /\ passed = "no" /\ Spent /\ forced /\ Salvageable
    /\ passed' = "salvage"
    /\ UNCHANGED <<ctl, todo, pc, tag, turn, round, llm, passes, retried, track,
                   data, finding, retries, forced>>

GateFails ==
    /\ At("gate") /\ passed = "no" /\ Spent /\ forced
    /\ Fail("validation_failed")
    /\ UNCHANGED <<ctl, tag, turn, round, llm, passes, retried, track, data, gate>>

GatePasses ==
    /\ At("gate") /\ passed # "no"
    /\ Goto("reasoned", IF obs.sub = NoSub THEN <<>> ELSE <<CloseSub>>)
    /\ UNCHANGED <<ctl, tag, turn, round, llm, passes, retried, track, data, gate>>

-----------------------------------------------------------------------------
Next ==
    \/ Govern
    \/ Wake \/ Comprehend \/ PlanGate \/ Acquire
    \/ Narrate \/ EvidencePass \/ EvidenceDone \/ Followup
    \/ CallMalformed \/ CallNamed \/ CallDenied \/ CallExecuted \/ RoundEnds
    \/ ReasonPass \/ ReasonSteer \/ ReasonDone \/ TrackStep
    \/ Reform \/ HaltCleared \/ HaltStands
    \/ EnterValidation \/ Judge \/ RepairDue \/ RepairTurn \/ Repaired
    \/ ForcedFinal \/ Salvage \/ GateFails \/ GatePasses

(* One coroutine, whose every await is bounded: model calls by a timeout,  *)
(* tools and stores by theirs.                                             *)
Spec == Init /\ [][Next]_vars /\ WF_vars(Next)

-----------------------------------------------------------------------------
(* The runtime moves the controller only by events that the membrane       *)
(* allows: every cycle is a behaviour of AgenticLoop.                      *)
Membrane == INSTANCE AgenticLoop WITH Kinds <- DOMAIN FailureTerminal
ImplementsMembrane == Membrane!LoopSpec

(* No stage ever asks for a move that the membrane denies, whatever path   *)
(* of repairs, halts and early exits led to it: GovernanceDenied is never  *)
(* how a cycle ends.                                                       *)
NeverDenied == todo # <<>> => Allowed(obs, Head(todo))

(* run_validation: what is handed to OUTPUT has no undecided halt, no      *)
(* finding but those that the gate or the salvage may pass over, its audit *)
(* attempted and, unless it was salvaged, every required link of the chain.*)
PassesSound ==
    passed # "no" =>
        /\ ~halted /\ finding # "real"
        /\ Repairable \cap MissingLinks = {}
        /\ passed = "gate" => MissingLinks = {}

(* The same of what was salvaged: "salvage never papers over a real gap"   *)
(* (validation.py, the comment above the salvage).                         *)
PassesWithoutGap == passed # "no" => MissingLinks = {}

(* What the model may cite is what a tool last evaluated: no refusal,      *)
(* error, denial or suppression leaves an older result to be cited.        *)
DataIsEvaluated == acc \subseteq {t \in Tools : addr[t] = "evaluated"}

(* The track is walked in order: a position is left behind only when each  *)
(* of its tools has been addressed by an execution.                        *)
PositionsEarned ==
    \A t \in Tools : Position[t] \in 1..(position - 1) => addr[t] # "none"

(* The turns before OUTPUT are bounded by the passes, the repairs and the  *)
(* forced final alone, though only two loops look at the turn ceiling.     *)
TurnsBounded ==
    llm <= 1 + PassBudget.evidence + PassBudget.reasoning + 2 * Retries + 2

(* Every cycle is handed to OUTPUT or ends at a failure terminal.          *)
CycleEnds ==
    <>(todo = <<>> /\ IF terminal = "live" THEN pc = "reasoned" ELSE pc = "failed")
=============================================================================
