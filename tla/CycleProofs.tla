----------------------------- MODULE CycleProofs -----------------------------
(***************************************************************************)
(* What holds of an inference cycle for all tools, positions, chain links, *)
(* turns and budgets: the citable results and the track of InferenceCycle, *)
(* what passes its gate, and that its controller moves only as AgenticLoop *)
(* allows.                                                                 *)
(***************************************************************************)
EXTENDS InferenceCycle, SequenceTheorems, TLAPS

Moves == Events(DOMAIN FailureTerminal)

(* The calls of a round fit into what is left of the pass, and what is     *)
(* governed is an event.                                                   *)
RoundOK ==
    /\ queue \in Seq(Calls) /\ bad \in Seq(Calls)
    /\ inPass + Len(queue) <= MaxPerPass
    /\ todo \in Seq(Moves)

(* What passed the gate has not been touched since.                        *)
PassedStays == passed # "no" => pc \in {"gate", "reasoned", "failed"} /\ PassesSound

(* The inductive invariant.                                                *)
CycleIInv == CycleTypeOK /\ RoundOK /\ DataIsEvaluated /\ PositionsEarned /\ PassedStays

-----------------------------------------------------------------------------
(* Events, sequences.                                                      *)

LEMMA OpensAreMoves ==
    ASSUME NEW l \in Loops, NEW i \in DOMAIN LoopSubLoops[l]
    PROVE  Open(LoopSubLoops[l][i]) \in Moves
  <1>1. LoopSubLoops[l][i] \in SubLoops
    BY DEF SubLoops, Range
  <1> QED
    BY <1>1 DEF Moves, Events

LEMMA LoopNames == {"context", "reasoning", "validation", "output"} \subseteq Loops
  <1>1. LoopOrder[1] = "context" /\ LoopOrder[2] = "reasoning" /\ LoopOrder[3] = "validation"
        /\ LoopOrder[4] = "output" /\ {1, 2, 3, 4} \subseteq DOMAIN LoopOrder
    BY DEF LoopOrder
  <1> QED
    BY <1>1 DEF Loops, Range

LEMMA MovesTyped ==
    /\ \A s \in {"intake", "interpretation", "framing", "sourcing", "acquisition", "verification",
                 "hypothesis", "analysis", "synthesis", "gate", "recovery"} : Open(s) \in Moves
    /\ CloseSub \in Moves /\ AdoptCadence \in Moves /\ SetTask("infer_order_flow") \in Moves
    /\ Enter("reasoning") \in Moves /\ Enter("validation") \in Moves
    /\ \A k \in {"infra_failed", "parse_failed", "narration_failed", "gate_refused", "validation_failed"} :
           CycleFailed(k) \in Moves
  <1>1. \A s \in {"intake", "interpretation", "framing", "sourcing", "acquisition", "verification"} :
           Open(s) \in Moves
    <2>1. /\ "context" \in Loops /\ 1..6 = DOMAIN LoopSubLoops["context"]
          /\ LoopSubLoops["context"][1] = "intake" /\ LoopSubLoops["context"][2] = "interpretation"
          /\ LoopSubLoops["context"][3] = "framing" /\ LoopSubLoops["context"][4] = "sourcing"
          /\ LoopSubLoops["context"][5] = "acquisition" /\ LoopSubLoops["context"][6] = "verification"
      BY LoopNames DEF LoopSubLoops
    <2>2. \A i \in 1..6 : Open(LoopSubLoops["context"][i]) \in Moves
      BY <2>1, OpensAreMoves
    <2> QED
      BY <2>1, <2>2
  <1>2. \A s \in {"hypothesis", "analysis", "synthesis"} : Open(s) \in Moves
    <2>1. /\ "reasoning" \in Loops /\ 1..3 = DOMAIN LoopSubLoops["reasoning"]
          /\ LoopSubLoops["reasoning"][1] = "hypothesis" /\ LoopSubLoops["reasoning"][2] = "analysis"
          /\ LoopSubLoops["reasoning"][3] = "synthesis"
      BY LoopNames DEF LoopSubLoops
    <2>2. \A i \in 1..3 : Open(LoopSubLoops["reasoning"][i]) \in Moves
      BY <2>1, OpensAreMoves
    <2> QED
      BY <2>1, <2>2
  <1>3. \A s \in {"gate", "recovery"} : Open(s) \in Moves
    <2>1. /\ "validation" \in Loops /\ 1..2 = DOMAIN LoopSubLoops["validation"]
          /\ LoopSubLoops["validation"][1] = "gate" /\ LoopSubLoops["validation"][2] = "recovery"
      BY LoopNames DEF LoopSubLoops
    <2>2. \A i \in 1..2 : Open(LoopSubLoops["validation"][i]) \in Moves
      BY <2>1, OpensAreMoves
    <2> QED
      BY <2>1, <2>2
  <1>4. "infer_order_flow" \in Intents
    <2>1. LoopIntents["context"][2] = "infer_order_flow" /\ 2 \in DOMAIN LoopIntents["context"]
      BY DEF LoopIntents
    <2> QED
      BY <2>1, LoopNames DEF Intents, Range
  <1>5. /\ CloseSub \in Moves /\ AdoptCadence \in Moves /\ SetTask("infer_order_flow") \in Moves
        /\ Enter("reasoning") \in Moves /\ Enter("validation") \in Moves
    BY <1>4, LoopNames DEF Moves, Events
  <1>6. ASSUME NEW k \in {"infra_failed", "parse_failed", "narration_failed", "gate_refused", "validation_failed"}
        PROVE  CycleFailed(k) \in Moves
    <2>1. k \in DOMAIN FailureTerminal
      BY <1>6 DEF FailureTerminal
    <2> QED
      BY <2>1 DEF Moves, Events
  <1> QED
    BY <1>1, <1>2, <1>3, <1>5, <1>6

(* The first calls of a turn.                                              *)
LEMMA Firsts ==
    ASSUME NEW calls \in Seq(Calls), NEW k \in Nat
    PROVE  LET n == IF Len(calls) < k THEN Len(calls) ELSE k
           IN  SubSeq(calls, 1, n) \in Seq(Calls) /\ Len(SubSeq(calls, 1, n)) = n /\ n <= k
  <1> DEFINE n == IF Len(calls) < k THEN Len(calls) ELSE k
  <1>1. n \in Nat /\ n <= Len(calls) /\ n <= k
    OBVIOUS
  <1> HIDE DEF n
  <1>2. \A i \in 1..n : calls[i] \in Calls
    BY <1>1
  <1>3. SubSeq(calls, 1, n) \in Seq(Calls) /\ Len(SubSeq(calls, 1, n)) = IF 1 <= n THEN n - 1 + 1 ELSE 0
    BY <1>1, <1>2, SubSeqProperties
  <1> QED
    BY <1>1, <1>3 DEF n

(* Where a move leads is an observation, how it ends is a terminal.        *)
LEMMA SuccessorType ==
    ASSUME NEW o \in Observations \cup {Gone}, NEW e \in Moves, Allowed(o, e)
    PROVE  /\ Successor(o, e) \in Observations \cup {Gone}
           /\ EndsAt(e) \in Terminals
           /\ e.kind = "open_subloop" => e.to \in SubLoops
  <1>1. o \in Observations
    BY DEF Allowed
  <1>2. CASE \E l \in Loops : e = Enter(l)
    <2>1. PICK l \in Loops : e = Enter(l)
      BY <1>2
    <2>2. l \in {"context", "reasoning", "validation", "output"}
      BY DEF Loops, LoopOrder, Range
    <2>3. LoopIntents[l][1] \in Intents
      <3>1. 1 \in DOMAIN LoopIntents[l]
        BY <2>2 DEF LoopIntents
      <3> QED
        BY <3>1 DEF Intents, Range
    <2> QED
      BY <2>1, <2>3 DEF Enter, Successor, Observations, EndsAt, TerminalFor, Terminals, FailureTerminals,
         FailureTerminal
  <1>3. CASE \E t \in Intents : e = SetTask(t)
    BY <1>1, <1>3 DEF SetTask, Successor, Observations, EndsAt, TerminalFor, Terminals, FailureTerminals,
       FailureTerminal
  <1>4. CASE \E s \in SubLoops : e = Open(s)
    BY <1>1, <1>4 DEF Open, Successor, Observations, EndsAt, TerminalFor, Terminals, FailureTerminals,
       FailureTerminal
  <1>5. CASE e = CloseSub
    BY <1>1, <1>5 DEF CloseSub, Successor, Observations, EndsAt, TerminalFor, Terminals, FailureTerminals,
       FailureTerminal
  <1>6. CASE e \in {Settle, AdoptCadence}
    BY <1>1, <1>6 DEF Settle, AdoptCadence, Successor, EndsAt, TerminalFor, Terminals, FailureTerminals,
       FailureTerminal
  <1>7. CASE \E k \in DOMAIN FailureTerminal : e = CycleFailed(k)
    <2>1. PICK k \in DOMAIN FailureTerminal : e = CycleFailed(k)
      BY <1>7
    <2>2. EndsAt(e) = FailureTerminal[k]
      BY <2>1 DEF CycleFailed, EndsAt, TerminalFor
    <2> QED
      BY <2>1, <2>2 DEF CycleFailed, Successor, Terminals, FailureTerminals
  <1> QED
    BY <1>2, <1>3, <1>4, <1>5, <1>6, <1>7 DEF Moves, Events

LEMMA BeginKeeps ==
    ASSUME CycleTypeOK, NEW calls \in Seq(Calls), NEW spent \in 0..MaxPerPass, Begin(calls, spent)
    PROVE  /\ queue' \in Seq(Calls) /\ bad' \in Seq(Calls) /\ todo' = <<>> /\ pc' = "call"
           /\ inPass' \in 0..MaxPerPass /\ inPass' + Len(queue') <= MaxPerPass
           /\ rounds' \in 0..MaxRounds /\ ran' \in BOOLEAN
  <1> DEFINE room == IF rounds < MaxRounds THEN MaxPerPass - spent ELSE 0
  <1>1. room \in Nat /\ room <= MaxPerPass - spent /\ rounds \in Nat /\ MaxPerPass \in Nat /\ MaxRounds \in Nat
    BY ToolsAssumption DEF CycleTypeOK
  <1>2. /\ queue' = SubSeq(calls, 1, IF Len(calls) < room THEN Len(calls) ELSE room)
        /\ rounds' = (IF queue' = <<>> THEN rounds ELSE rounds + 1)
        /\ inPass' = spent /\ ran' = FALSE /\ bad' = <<>> /\ todo' = <<>> /\ pc' = "call"
    BY DEF Begin, Goto
  <1>3. room = 0 \/ rounds < MaxRounds
    OBVIOUS
  <1> HIDE DEF room
  <1>4. queue' \in Seq(Calls) /\ Len(queue') \in Nat /\ Len(queue') <= room
    BY <1>1, <1>2, Firsts
  <1>5. queue' # <<>> => rounds < MaxRounds
    <2>1. queue' # <<>> => Len(queue') # 0
      BY <1>4
    <2> QED
      BY <1>1, <1>3, <1>4, <2>1
  <1>6. rounds' \in 0..MaxRounds
    BY <1>1, <1>2, <1>5 DEF CycleTypeOK
  <1>7. bad' \in Seq(Calls)
    BY <1>2
  <1>8. inPass' \in 0..MaxPerPass /\ inPass' + Len(queue') <= MaxPerPass
    <2>1. inPass' = spent /\ spent \in Nat
      BY <1>2
    <2> QED
      BY <1>1, <1>4, <2>1
  <1> QED
    BY <1>2, <1>4, <1>6, <1>7, <1>8

(* A turn that is heard.                                                   *)
LEMMA HearKeepsType ==
    ASSUME CycleTypeOK, NEW next, NEW CannotRetry \in BOOLEAN, Hear(next, CannotRetry),
           CannotRetry => retried' = retried
    PROVE  /\ turn' \in Turns \cup {<<>>} /\ llm' \in Nat /\ passes' \in [Tags -> Nat]
           /\ retried' \in BOOLEAN /\ todo' \in Seq(Moves) /\ pc' \in {next, "failed"}
  <1>1. retried' \in BOOLEAN
    BY DEF Hear, Answers, Silent, CycleTypeOK
  <1>2. turn' \in Turns \cup {<<>>} /\ llm' \in Nat /\ passes' \in [Tags -> Nat]
    BY DEF Hear, Spend, CycleTypeOK
  <1>3. <<>> \in Seq(Moves) /\ <<CycleFailed("parse_failed")>> \in Seq(Moves)
        /\ <<CycleFailed("narration_failed")>> \in Seq(Moves)
    BY MovesTyped
  <1>4. todo' \in Seq(Moves) /\ pc' \in {next, "failed"}
    BY <1>3 DEF Hear, Goto, Fail
  <1> QED
    BY <1>1, <1>2, <1>4

(* An execution overwrites what was there of its tool.                     *)
LEMMA ExecutedKeepsType ==
    ASSUME CycleTypeOK, DataIsEvaluated, NEW c, c.tool \in Tools, NEW result \in Results, Executed(c, result)
    PROVE  /\ acc' \subseteq Tools /\ addr' \in [Tools -> {"none", "evaluated", "refused"}]
           /\ DataIsEvaluated' /\ \A t \in Tools : addr[t] # "none" => addr'[t] # "none"
  BY DEF CycleTypeOK, DataIsEvaluated, Executed, Results

-----------------------------------------------------------------------------
(* The steps: their types, one after the other.                            *)

LEMMA CycleInitInv == Init => CycleIInv
  <1> SUFFICES ASSUME Init PROVE CycleIInv
    OBVIOUS
  <1>1. Initial \in Observations
    <2>1. LoopIntents["context"][1] = "understand_task" /\ 1 \in DOMAIN LoopIntents["context"]
      BY DEF LoopIntents
    <2>2. "understand_task" \in Intents
      BY <2>1, LoopNames DEF Intents, Range
    <2> QED
      BY <2>2, LoopNames DEF Initial, Observations
  <1>2. Positions \in Nat \ {0} /\ MaxPerPass \in Nat /\ MaxRounds \in Nat /\ Retries \in Nat
    BY ToolsAssumption
  <1>3. CycleTypeOK
    <2>1. 1 \in 1..Walked /\ 0 \in 0..MaxPerPass /\ 0 \in 0..MaxRounds /\ 0 \in 0..Retries
      BY <1>2 DEF Walked
    <2>2. tag \in Tags /\ passes \in [Tags -> Nat] /\ finding \in Findings
      BY DEF Init, Tags, Findings
    <2>3. addr \in [Tools -> {"none", "evaluated", "refused"}] /\ acc \subseteq Tools
      BY DEF Init
    <2> QED
      BY <1>1, <2>1, <2>2, <2>3 DEF Init, CycleTypeOK
  <1>4. RoundOK
    BY <1>2 DEF Init, RoundOK
  <1>5. DataIsEvaluated /\ PositionsEarned /\ PassedStays
    BY DEF Init, DataIsEvaluated, PositionsEarned, PassedStays
  <1> QED
    BY <1>3, <1>4, <1>5 DEF CycleIInv

(* A move, or its denial.                                                  *)
LEMMA GovernKeeps ==
    ASSUME CycleIInv, Govern
    PROVE  CycleTypeOK' /\ RoundOK'
  <1>1. Head(todo) \in Moves /\ Tail(todo) \in Seq(Moves)
    BY HeadTailProperties DEF Govern, CycleIInv, RoundOK
  <1>2. UNCHANGED <<tag, turn, round, llm, passes, retried, track, data, gate>>
    BY DEF Govern
  <1>3. obs' \in Observations \cup {Gone} /\ terminal' \in Terminals \cup {"live"} /\ opened' \subseteq SubLoops
    <2>1. CASE Allowed(obs, Head(todo))
      <3>1. /\ obs \in Observations \cup {Gone} /\ opened \subseteq SubLoops
            /\ terminal \in Terminals \cup {"live"}
        BY DEF CycleIInv, CycleTypeOK
      <3>2. /\ Successor(obs, Head(todo)) \in Observations \cup {Gone}
            /\ EndsAt(Head(todo)) \in Terminals
            /\ Head(todo).kind = "open_subloop" => Head(todo).to \in SubLoops
        BY <1>1, <2>1, <3>1, SuccessorType
      <3>3. /\ obs' = Successor(obs, Head(todo))
            /\ terminal' = (IF obs' = Gone THEN EndsAt(Head(todo)) ELSE terminal)
            /\ opened' = (IF Head(todo).kind = "open_subloop" THEN opened \cup {Head(todo).to} ELSE opened)
        BY <2>1 DEF Govern
      <3> QED
        BY <3>1, <3>2, <3>3
    <2>2. CASE ~Allowed(obs, Head(todo))
      BY <2>2 DEF Govern, ctl, CycleIInv, CycleTypeOK
    <2> QED
      BY <2>1, <2>2
  <1>4. todo' \in Seq(Moves)
    <2>1. <<CycleFailed("infra_failed")>> \in Seq(Moves)
      BY MovesTyped
    <2> QED
      BY <1>1, <2>1 DEF Govern, Fail, Goto
  <1> QED
    BY <1>2, <1>3, <1>4 DEF CycleIInv, CycleTypeOK, RoundOK, round, track, data, gate

(* The data and the position carry what is said of them.                   *)
LEMMA DataKept ==
    ASSUME CycleIInv, UNCHANGED <<data, position>>
    PROVE  DataIsEvaluated' /\ PositionsEarned'
  BY DEF CycleIInv, DataIsEvaluated, PositionsEarned, data

LEMMA NotPassed ==
    ASSUME CycleIInv, pc \notin {"gate", "reasoned", "failed"}, passed' = passed
    PROVE  passed = "no" /\ PassedStays'
  BY DEF CycleIInv, PassedStays

(* A stage that moves on and changes nothing but where it is, its tag, its *)
(* turns and the retries of its gate.                                      *)
StageMoves ==
    /\ UNCHANGED <<ctl, queue, bad, mirroring, ran, rounds, track, data, finding>>
    /\ retried' \in BOOLEAN /\ inPass' \in {0, inPass} /\ todo' \in Seq(Moves)
    /\ tag' \in Tags /\ turn' \in Turns \cup {<<>>} /\ llm' \in Nat /\ passes' \in [Tags -> Nat]
    /\ retries' \in 0..Retries /\ forced' \in BOOLEAN

LEMMA StageKeeps ==
    ASSUME CycleIInv, StageMoves, passed' = passed, PassedStays'
    PROVE  CycleIInv'
  <1>1. MaxPerPass \in Nat /\ Len(queue) \in Nat
    BY ToolsAssumption DEF CycleIInv, RoundOK
  <1>2. inPass' \in 0..MaxPerPass /\ inPass' + Len(queue) <= MaxPerPass
    BY <1>1 DEF CycleIInv, CycleTypeOK, RoundOK, StageMoves
  <1>3. CycleTypeOK'
    BY <1>2 DEF CycleIInv, CycleTypeOK, ctl, track, data, StageMoves
  <1>4. RoundOK'
    BY <1>2 DEF CycleIInv, RoundOK, StageMoves
  <1>5. DataIsEvaluated' /\ PositionsEarned'
    BY DataKept DEF StageMoves, track
  <1> QED
    BY <1>3, <1>4, <1>5 DEF CycleIInv

(* A turn's calls, and the round that is made of them.                     *)
LEMMA BeginStage ==
    ASSUME CycleIInv, Begin(turn, 0), pc \notin {"gate", "reasoned", "failed"},
           UNCHANGED <<ctl, tag, turn, mirroring, llm, passes, retried, track, data, gate>>
    PROVE  CycleIInv'
  <1>1. turn \in Seq(Calls) /\ 0 \in 0..MaxPerPass /\ <<>> \in Seq(Moves)
    <2>1. turn \in Turns \cup {<<>>} /\ Turns \subseteq Seq(Calls) /\ MaxPerPass \in Nat
      BY ToolsAssumption DEF CycleIInv, CycleTypeOK
    <2>2. <<>> \in Seq(Calls) /\ <<>> \in Seq(Moves) /\ 0 \in 0..MaxPerPass
      BY <2>1
    <2> QED
      BY <2>1, <2>2
  <1>2. /\ queue' \in Seq(Calls) /\ bad' \in Seq(Calls) /\ todo' = <<>>
        /\ inPass' \in 0..MaxPerPass /\ inPass' + Len(queue') <= MaxPerPass
        /\ rounds' \in 0..MaxRounds /\ ran' \in BOOLEAN
    BY <1>1, BeginKeeps DEF CycleIInv
  <1>3. CycleTypeOK'
    BY <1>2 DEF CycleIInv, CycleTypeOK, ctl, track, data, gate
  <1>4. RoundOK'
    BY <1>1, <1>2 DEF RoundOK
  <1>5. DataIsEvaluated' /\ PositionsEarned' /\ PassedStays'
    BY DataKept, NotPassed DEF track, gate
  <1> QED
    BY <1>3, <1>4, <1>5 DEF CycleIInv

(* A call of the round that does not execute.                              *)
LEMMA CallKeeps ==
    ASSUME CycleIInv, NextCall, inPass' \in {inPass, inPass + 1}, bad' \in Seq(Calls), ran' \in BOOLEAN,
           hit' \in BOOLEAN, acc' \subseteq Tools, addr' \in [Tools -> {"none", "evaluated", "refused"}],
           DataIsEvaluated', \A t \in Tools : addr[t] # "none" => addr'[t] # "none"
    PROVE  CycleIInv'
  <1>1. /\ Tail(queue) \in Seq(Calls) /\ Len(Tail(queue)) = Len(queue) - 1 /\ Len(queue) \in Nat
        /\ MaxPerPass \in Nat /\ Len(queue) # 0
    BY HeadTailProperties, ToolsAssumption DEF NextCall, CycleIInv, RoundOK
  <1>2. inPass' \in 0..MaxPerPass /\ inPass' + Len(Tail(queue)) <= MaxPerPass
    BY <1>1 DEF CycleIInv, CycleTypeOK, RoundOK
  <1>3. CycleTypeOK'
    BY <1>2 DEF NextCall, CycleIInv, CycleTypeOK, ctl, gate
  <1>4. RoundOK'
    BY <1>1, <1>2 DEF NextCall, CycleIInv, RoundOK
  <1>5. PositionsEarned'
    BY DEF NextCall, CycleIInv, PositionsEarned
  <1>6. PassedStays'
    BY NotPassed DEF NextCall, At, gate
  <1> QED
    BY <1>3, <1>4, <1>5, <1>6 DEF CycleIInv

LEMMA CycleStepInv == CycleIInv /\ [Next]_vars => CycleIInv'
  <1> SUFFICES ASSUME CycleIInv, [Next]_vars PROVE CycleIInv'
    OBVIOUS
  (* What a stage is before it moves.                                      *)
  <1>0. /\ tag \in Tags /\ {"evidence", "reasoning", "validation"} \subseteq Tags
        /\ turn \in Turns \cup {<<>>} /\ llm \in Nat /\ passes \in [Tags -> Nat]
        /\ retries \in 0..Retries /\ Retries \in Nat
        /\ {retried, forced, halted, hit, ran, mirroring} \subseteq BOOLEAN
        /\ <<>> \in Seq(Moves) /\ inPass \in 0..MaxPerPass /\ MaxPerPass \in Nat
    <2>1. <<>> \in Seq(Moves)
      OBVIOUS
    <2> QED
      BY <2>1, ToolsAssumption DEF CycleIInv, CycleTypeOK, Tags
  <1>1. CASE Govern
    <2>1. UNCHANGED <<round, track, data, gate>> /\ pc' \in {pc, "failed"}
      BY <1>1 DEF Govern, Fail, Goto
    <2>2. DataIsEvaluated' /\ PositionsEarned'
      BY <2>1, DataKept DEF track
    <2>3. PassedStays'
      BY <2>1 DEF CycleIInv, PassedStays, PassesSound, MissingLinks, track, data, gate
    <2> QED
      BY <1>1, <2>2, <2>3, GovernKeeps DEF CycleIInv
  <1>2. CASE Wake
    <2>1. <<Open("intake")>> \in Seq(Moves)
      BY MovesTyped
    <2>2. StageMoves /\ pc = "wake" /\ passed' = passed
      BY <1>0, <1>2, <2>1 DEF Wake, At, Goto, StageMoves, round, track, gate
    <2> QED
      BY <2>2, NotPassed, StageKeeps
  <1>3. CASE Comprehend
    <2>1. <<Open("interpretation"), Open("framing")>> \in Seq(Moves)
          /\ <<AdoptCadence>> \in Seq(Moves) /\ <<>> \in Seq(Moves)
      BY MovesTyped
    <2>2. todo' \in Seq(Moves)
      <3>1. PICK cadence \in {<<>>, <<AdoptCadence>>} :
               todo' = cadence \o <<Open("interpretation"), Open("framing")>>
        BY <1>3 DEF Comprehend, Goto
      <3> QED
        BY <2>1, <3>1, ConcatProperties
    <2>3. passes' \in [Tags -> Nat] /\ llm' \in Nat
      BY <1>0, <1>3 DEF Comprehend, Tags
    <2>4. StageMoves /\ pc = "comprehend" /\ passed' = passed
      BY <1>0, <1>3, <2>2, <2>3 DEF Comprehend, At, StageMoves, round, track, gate
    <2> QED
      BY <2>4, NotPassed, StageKeeps
  <1>4. CASE PlanGate
    <2>1. <<CycleFailed("gate_refused")>> \in Seq(Moves)
      BY MovesTyped
    <2>2. StageMoves /\ pc = "plan" /\ passed' = passed
      BY <1>0, <1>4, <2>1 DEF PlanGate, At, Fail, Goto, StageMoves, round, track, gate
    <2> QED
      BY <2>2, NotPassed, StageKeeps
  <1>5. CASE Acquire
    <2>1. todo' \in Seq(Moves)
      <3>1. <<Open("sourcing"), Open("acquisition"), SetTask("infer_order_flow")>> \in Seq(Moves)
        BY MovesTyped
      <3> QED
        BY <1>5, <3>1 DEF Acquire, Goto
    <2>2. /\ acc' \subseteq Tools /\ addr' \in [Tools -> {"none", "evaluated", "refused"}]
          /\ DataIsEvaluated' /\ \A t \in Tools : addr[t] # "none" => addr'[t] # "none"
      <3>1. CASE UNCHANGED data
        BY <3>1 DEF data, CycleIInv, CycleTypeOK, DataIsEvaluated
      <3>2. CASE \E t \in PlanBound, result \in Results :
                    Executed([tool |-> t, args |-> "plan", shape |-> "ok"], result)
        <4>1. PICK t \in PlanBound, result \in Results :
                 Executed([tool |-> t, args |-> "plan", shape |-> "ok"], result)
          BY <3>2
        <4> DEFINE c == [tool |-> t, args |-> "plan", shape |-> "ok"]
        <4>2. c.tool \in Tools
          BY ToolsAssumption
        <4> HIDE DEF c
        <4> QED
          BY <4>1, <4>2, ExecutedKeepsType DEF CycleIInv, c
      <3> QED
        BY <1>5, <3>1, <3>2 DEF Acquire
    <2>3. /\ tag' = "evidence" /\ pc = "acquire"
          /\ UNCHANGED <<ctl, turn, round, llm, passes, retried, track, gate>>
      BY <1>5 DEF Acquire, At
    <2>4. CycleTypeOK' /\ RoundOK'
      BY <1>0, <2>1, <2>2, <2>3 DEF CycleIInv, CycleTypeOK, RoundOK, ctl, round, track, gate
    <2>5. PositionsEarned'
      BY <2>2, <2>3 DEF CycleIInv, PositionsEarned, track
    <2>6. PassedStays'
      BY <2>3, NotPassed DEF gate
    <2> QED
      BY <2>2, <2>4, <2>5, <2>6 DEF CycleIInv
  <1>6. CASE Narrate
    <2>1. Hear("evidence", retried' = retried) /\ (retried' = retried) \in BOOLEAN
      BY <1>6 DEF Narrate
    <2>2. /\ turn' \in Turns \cup {<<>>} /\ llm' \in Nat /\ passes' \in [Tags -> Nat]
          /\ retried' \in BOOLEAN /\ todo' \in Seq(Moves)
      BY <2>1, HearKeepsType DEF CycleIInv
    <2>3. StageMoves /\ pc = "narrate" /\ passed' = passed
      BY <1>0, <1>6, <2>2 DEF Narrate, At, StageMoves, track, gate
    <2> QED
      BY <2>3, NotPassed, StageKeeps
  <1>7. CASE Followup
    <2>1. PICK next : Hear(next, FALSE)
      BY <1>7 DEF Followup
    <2>2. /\ turn' \in Turns \cup {<<>>} /\ llm' \in Nat /\ passes' \in [Tags -> Nat]
          /\ retried' \in BOOLEAN /\ todo' \in Seq(Moves)
      BY <2>1, HearKeepsType DEF CycleIInv
    <2>3. StageMoves /\ pc = "followup" /\ passed' = passed
      BY <1>0, <1>7, <2>2 DEF Followup, At, StageMoves, round, track, gate
    <2> QED
      BY <2>3, NotPassed, StageKeeps
  <1>8. CASE RepairTurn
    <2>1. Hear("repaired", FALSE)
      BY <1>8 DEF RepairTurn
    <2>2. /\ turn' \in Turns \cup {<<>>} /\ llm' \in Nat /\ passes' \in [Tags -> Nat]
          /\ retried' \in BOOLEAN /\ todo' \in Seq(Moves)
      BY <2>1, HearKeepsType DEF CycleIInv
    <2>3. StageMoves /\ pc = "repair" /\ passed' = passed
      BY <1>0, <1>8, <2>2 DEF RepairTurn, At, StageMoves, round, track, gate
    <2> QED
      BY <2>3, NotPassed, StageKeeps
  <1>9. CASE EvidencePass
    BY <1>9, BeginStage DEF EvidencePass, At
  <1>10. CASE ReasonPass
    BY <1>10, BeginStage DEF ReasonPass, At
  <1>11. CASE Reform
    BY <1>11, BeginStage DEF Reform, At
  <1>12. CASE Repaired
    BY <1>12, BeginStage DEF Repaired, At
  <1>13. CASE EvidenceDone
    <2>1. <<Open("verification"), CloseSub, Enter("reasoning"), Open("hypothesis"), Open("analysis")>>
             \in Seq(Moves)
      BY MovesTyped
    <2>2. StageMoves /\ pc = "evidence" /\ passed' = passed
      BY <1>0, <1>13, <2>1 DEF EvidenceDone, At, Goto, StageMoves, round, track, gate
    <2> QED
      BY <2>2, NotPassed, StageKeeps
  <1>14. CASE ReasonSteer
    <2>1. StageMoves /\ pc = "reasoning" /\ passed' = passed
      BY <1>0, <1>14 DEF ReasonSteer, At, Goto, StageMoves, track, gate
    <2> QED
      BY <2>1, NotPassed, StageKeeps
  <1>15. CASE ReasonDone
    <2>1. <<Open("synthesis"), CloseSub>> \in Seq(Moves)
      BY MovesTyped
    <2>2. StageMoves /\ pc = "reasoning" /\ passed' = passed
      BY <1>0, <1>15, <2>1 DEF ReasonDone, At, Goto, StageMoves, round, track, gate
    <2> QED
      BY <2>2, NotPassed, StageKeeps
  <1>16. CASE HaltStands
    <2>1. <<CloseSub>> \in Seq(Moves)
      BY MovesTyped
    <2>2. StageMoves /\ pc \in {"cleared", "reformed"} /\ passed' = passed
      BY <1>0, <1>16, <2>1 DEF HaltStands, At, Goto, StageMoves, round, track, gate
    <2> QED
      BY <2>2, NotPassed, StageKeeps
  <1>17. CASE EnterValidation
    <2>1. <<Enter("validation"), Open("gate")>> \in Seq(Moves)
      BY MovesTyped
    <2>2. passes' \in [Tags -> Nat]
      BY <1>0, <1>17 DEF EnterValidation, Tags
    <2>3. StageMoves /\ pc = "validate" /\ passed' = passed
      BY <1>0, <1>17, <2>1, <2>2 DEF EnterValidation, At, Goto, StageMoves, round, track, gate
    <2> QED
      BY <2>3, NotPassed, StageKeeps
  (* The calls of a round.                                                 *)
  <1>18. ASSUME NextCall
         PROVE  /\ Head(queue) \in Calls /\ Head(queue).tool \in Tools /\ bad \in Seq(Calls)
                /\ acc \subseteq Tools /\ addr \in [Tools -> {"none", "evaluated", "refused"}]
    <2>1. queue # <<>> /\ queue \in Seq(Calls) /\ bad \in Seq(Calls)
      BY <1>18 DEF NextCall, CycleIInv, RoundOK
    <2>2. Head(queue) \in Calls
      BY <2>1, HeadTailProperties
    <2>3. Head(queue).tool \in Tools
      BY <2>2 DEF Calls
    <2>4. acc \subseteq Tools /\ addr \in [Tools -> {"none", "evaluated", "refused"}]
      BY DEF CycleIInv, CycleTypeOK
    <2> QED
      BY <2>1, <2>2, <2>3, <2>4
  <1>19. CASE CallMalformed
    <2>1. NextCall /\ Head(queue) \in Calls /\ bad \in Seq(Calls)
      BY <1>18, <1>19 DEF CallMalformed
    <2>2. [Head(queue) EXCEPT !.args = NoArgs, !.shape = "ok"] \in Calls
      BY <2>1, ToolsAssumption DEF Calls
    <2>3. bad' \in Seq(Calls)
      BY <1>19, <2>1, <2>2, AppendProperties DEF CallMalformed
    <2> QED
      BY <1>0, <1>18, <1>19, <2>1, <2>3, CallKeeps DEF CallMalformed, data, CycleIInv, DataIsEvaluated
  <1>20. CASE CallNamed
    BY <1>0, <1>18, <1>20, CallKeeps DEF CallNamed, data, CycleIInv, DataIsEvaluated
  <1>21. CASE CallDenied
    BY <1>0, <1>18, <1>21, CallKeeps DEF CallDenied, CycleIInv, DataIsEvaluated
  <1>22. CASE CallExecuted
    <2>1. PICK result \in Results :
             /\ Executed(Head(queue), result)
             /\ hit' = (hit \/ (/\ result # "error" /\ tag = "reasoning"
                                /\ Position[Head(queue).tool] = position))
      BY <1>22 DEF CallExecuted
    <2>2. hit' \in BOOLEAN
      BY <1>0, <2>1
    <2>3. NextCall /\ inPass' = inPass + 1 /\ ran' = TRUE /\ bad' = bad
      BY <1>22 DEF CallExecuted
    <2>4. /\ acc' \subseteq Tools /\ addr' \in [Tools -> {"none", "evaluated", "refused"}]
          /\ DataIsEvaluated' /\ \A t \in Tools : addr[t] # "none" => addr'[t] # "none"
      BY <1>18, <2>1, <2>3, ExecutedKeepsType DEF CycleIInv
    <2> QED
      BY <1>18, <2>2, <2>3, <2>4, CallKeeps
  <1>23. CASE RoundEnds
    <2>1. pc = "call" /\ UNCHANGED <<ctl, tag, turn, llm, passes, retried, track, data, gate>>
      BY <1>23 DEF RoundEnds, At
    <2>2. DataIsEvaluated' /\ PositionsEarned' /\ PassedStays'
      BY <2>1, DataKept, NotPassed DEF track, gate
    <2>3. /\ queue' \in Seq(Calls) /\ bad' \in Seq(Calls) /\ todo' = <<>>
          /\ inPass' \in 0..MaxPerPass /\ inPass' + Len(queue') <= MaxPerPass
          /\ rounds' \in 0..MaxRounds /\ ran' \in BOOLEAN /\ mirroring' \in BOOLEAN
      <3>1. CASE bad # <<>> /\ ~mirroring
        <4>1. Begin(bad, inPass) /\ mirroring' = TRUE
          BY <1>23, <3>1 DEF RoundEnds
        <4> QED
          BY <1>0, <4>1, BeginKeeps DEF CycleIInv, RoundOK
      <3>2. CASE ~(bad # <<>> /\ ~mirroring)
        <4>1. /\ queue = <<>> /\ queue' = queue /\ bad' = <<>> /\ todo' = <<>> /\ inPass' = 0
              /\ rounds' = rounds /\ ran' = FALSE /\ mirroring' = FALSE
          BY <1>23, <3>2 DEF RoundEnds, Goto
        <4>2. queue \in Seq(Calls) /\ <<>> \in Seq(Calls) /\ Len(<<>>) = 0 /\ rounds \in 0..MaxRounds
          BY DEF CycleIInv, RoundOK, CycleTypeOK
        <4>3. queue' \in Seq(Calls) /\ bad' \in Seq(Calls) /\ Len(queue') = 0
          BY <4>1, <4>2
        <4>4. inPass' \in 0..MaxPerPass /\ inPass' + Len(queue') <= MaxPerPass
          BY <1>0, <4>1, <4>3
        <4> QED
          BY <4>1, <4>2, <4>3, <4>4
      <3> QED
        BY <3>1, <3>2
    <2>4. CycleTypeOK'
      BY <2>1, <2>3 DEF CycleIInv, CycleTypeOK, ctl, track, data, gate
    <2>5. RoundOK'
      BY <1>0, <2>3 DEF RoundOK
    <2> QED
      BY <2>2, <2>4, <2>5 DEF CycleIInv
  (* The track: a position is left behind when all of it was addressed.    *)
  <1>24. CASE TrackStep \/ HaltCleared
    <2>1. /\ UNCHANGED <<ctl, tag, turn, queue, bad, mirroring, ran, rounds, llm, passes, retried, data, gate>>
          /\ pc \notin {"gate", "reasoned", "failed"} /\ todo' = <<>> /\ inPass' \in {0, inPass}
          /\ halted' \in BOOLEAN
      BY <1>24 DEF TrackStep, HaltCleared, Halts, At, Goto, round
    <2>2. /\ position' \in {position, position + 1} /\ hit' \in {hit, FALSE}
          /\ position' = position \/ (/\ position < Walked
                                      /\ \A t \in AtPosition(position) : addr[t] # "none")
      BY <1>24 DEF TrackStep, HaltCleared
    <2>3. position \in Nat /\ position >= 1 /\ Walked \in Nat /\ Position \in [Tools -> 0..Positions]
          /\ Positions \in Nat
      BY ToolsAssumption DEF CycleIInv, CycleTypeOK, Walked
    <2>4. position' \in 1..Walked
      BY <2>2, <2>3 DEF CycleIInv, CycleTypeOK
    <2>5. MaxPerPass \in Nat /\ Len(queue) \in Nat
      BY ToolsAssumption DEF CycleIInv, RoundOK
    <2>6. inPass' \in 0..MaxPerPass /\ inPass' + Len(queue) <= MaxPerPass
      BY <2>1, <2>5 DEF CycleIInv, CycleTypeOK, RoundOK
    <2>7. CycleTypeOK'
      BY <1>0, <2>1, <2>2, <2>4, <2>6 DEF CycleIInv, CycleTypeOK, ctl, data, gate
    <2>8. RoundOK'
      BY <1>0, <2>1, <2>6 DEF CycleIInv, RoundOK
    <2>9. DataIsEvaluated'
      BY <2>1 DEF CycleIInv, DataIsEvaluated, data
    <2>10. PositionsEarned'
      <3> SUFFICES ASSUME NEW t \in Tools, Position[t] \in 1..(position' - 1)
                   PROVE  addr[t] # "none"
        BY <2>1 DEF PositionsEarned, data
      <3>1. Position[t] \in Nat
        BY <2>3
      <3>2. CASE Position[t] \in 1..(position - 1)
        BY <3>2 DEF CycleIInv, PositionsEarned
      <3>3. CASE Position[t] = position /\ position' = position + 1
        BY <2>2, <2>3, <3>3 DEF AtPosition
      <3> QED
        BY <2>2, <2>3, <3>1, <3>2, <3>3
    <2>11. PassedStays'
      BY <2>1, NotPassed DEF gate
    <2> QED
      BY <2>7, <2>8, <2>9, <2>10, <2>11 DEF CycleIInv
  (* The gate.                                                             *)
  <1>25. CASE Judge
    <2>1. /\ UNCHANGED <<ctl, tag, turn, round, llm, passes, retried, track, data, retries, forced>>
          /\ pc = "judge" /\ finding' \in Findings /\ pc' = "gate"
          /\ passed' = IF finding' \in {"clean", "directive"} /\ MissingLinks = {} /\ ~halted
                       THEN "gate" ELSE "no"
      BY <1>25 DEF Judge, At, Goto
    <2>2. todo' \in Seq(Moves)
      <3>1. <<Open("gate")>> \in Seq(Moves)
        BY MovesTyped
      <3> QED
        BY <1>0, <1>25, <3>1 DEF Judge, Goto
    <2>3. CycleTypeOK' /\ RoundOK'
      BY <2>1, <2>2 DEF CycleIInv, CycleTypeOK, RoundOK, ctl, round, track, data
    <2>4. DataIsEvaluated' /\ PositionsEarned'
      BY <2>1, DataKept DEF track
    <2>5. MissingLinks' = MissingLinks /\ halted' = halted
      BY <2>1 DEF MissingLinks, data, track
    <2>6. PassedStays'
      BY <2>1, <2>5 DEF PassedStays, PassesSound
    <2> QED
      BY <2>3, <2>4, <2>6 DEF CycleIInv
  <1>26. CASE Salvage
    <2>1. /\ UNCHANGED <<ctl, todo, pc, tag, turn, round, llm, passes, retried, track, data, finding, retries,
                         forced>>
          /\ pc = "gate" /\ passed' = "salvage" /\ Salvageable
      BY <1>26 DEF Salvage, At
    <2>2. CycleTypeOK' /\ RoundOK'
      BY <2>1 DEF CycleIInv, CycleTypeOK, RoundOK, ctl, round, track, data
    <2>3. DataIsEvaluated' /\ PositionsEarned'
      BY <2>1, DataKept DEF track
    <2>4. MissingLinks' = MissingLinks /\ halted' = halted
      BY <2>1 DEF MissingLinks, data, track
    <2>5. PassedStays'
      BY <2>1, <2>4 DEF PassedStays, PassesSound, Salvageable
    <2> QED
      BY <2>2, <2>3, <2>5 DEF CycleIInv
  <1>27. CASE RepairDue
    <2>1. <<Open("recovery")>> \in Seq(Moves)
      BY MovesTyped
    <2>2. retries' \in 0..Retries
      BY <1>0, <1>27 DEF RepairDue, Spent
    <2>3. StageMoves /\ passed = "no" /\ passed' = "no"
      BY <1>0, <1>27, <2>1, <2>2 DEF RepairDue, At, Goto, StageMoves, round, track
    <2> QED
      BY <2>3, StageKeeps DEF PassedStays
  <1>28. CASE ForcedFinal
    <2>1. llm' \in Nat /\ todo' = <<>>
      BY <1>0, <1>28 DEF ForcedFinal, Goto
    <2>2. StageMoves /\ passed = "no" /\ passed' = "no"
      BY <1>0, <1>28, <2>1 DEF ForcedFinal, At, StageMoves, round, track
    <2> QED
      BY <2>2, StageKeeps DEF PassedStays
  <1>29. CASE GateFails
    <2>1. <<CycleFailed("validation_failed")>> \in Seq(Moves)
      BY MovesTyped
    <2>2. StageMoves /\ passed = "no" /\ passed' = "no"
      BY <1>0, <1>29, <2>1 DEF GateFails, At, Fail, Goto, StageMoves, round, track, gate
    <2> QED
      BY <2>2, StageKeeps DEF PassedStays
  <1>30. CASE GatePasses
    <2>1. <<CloseSub>> \in Seq(Moves)
      BY MovesTyped
    <2>2. StageMoves /\ passed' = passed /\ pc' = "reasoned" /\ UNCHANGED <<finding, halted, addr>>
      BY <1>0, <1>30, <2>1 DEF GatePasses, At, Goto, StageMoves, round, track, data, gate
    <2>3. PassedStays'
      BY <2>2 DEF CycleIInv, PassedStays, PassesSound, MissingLinks
    <2> QED
      BY <2>2, <2>3, StageKeeps
  <1>31. CASE UNCHANGED vars
    <2>1. StageMoves /\ passed' = passed
      BY <1>0, <1>31 DEF vars, StageMoves, round, track, gate, CycleIInv, CycleTypeOK, RoundOK
    <2>2. PassedStays'
      BY <1>31 DEF vars, data, track, gate, CycleIInv, PassedStays, PassesSound, MissingLinks
    <2> QED
      BY <2>1, <2>2, StageKeeps
  <1> QED
    BY <1>1, <1>2, <1>3, <1>4, <1>5, <1>6, <1>7, <1>8, <1>9, <1>10, <1>11, <1>12, <1>13, <1>14, <1>15,
       <1>16, <1>17, <1>19, <1>20, <1>21, <1>22, <1>23, <1>24, <1>25, <1>26, <1>27, <1>28, <1>29, <1>30,
       <1>31 DEF Next

-----------------------------------------------------------------------------
(* The inductive invariant holds throughout.                               *)
THEOREM CycleInvariance == Spec => []CycleIInv
  BY CycleInitInv, CycleStepInv, PTL DEF Spec

(* What the model may cite is what a tool last evaluated                   *)
(* (st.accumulated_tool_results), through denials, suppressions, errors    *)
(* and refusals of any later call.                                         *)
THEOREM CitedIsEvaluated == Spec => []DataIsEvaluated
  <1>1. CycleIInv => DataIsEvaluated
    BY DEF CycleIInv
  <1> QED
    BY <1>1, CycleInvariance, PTL

(* No position of the track is left behind before each of its tools has    *)
(* been addressed by an execution (reasoning.py), for every track.         *)
THEOREM TrackEarned == Spec => []PositionsEarned
  <1>1. CycleIInv => PositionsEarned
    BY DEF CycleIInv
  <1> QED
    BY <1>1, CycleInvariance, PTL

(* What is handed to the output has no undecided halt, no real finding and *)
(* no missing link but what a salvage may pass over (run_validation).      *)
THEOREM GatePassesSound == Spec => []PassesSound
  <1>1. CycleIInv => PassesSound
    BY DEF CycleIInv, PassedStays, PassesSound
  <1> QED
    BY <1>1, CycleInvariance, PTL

(* The membrane that AgenticLoop speaks of is the membrane of the runtime.  *)
LEMMA SameMembrane ==
    /\ Membrane!Initial = Initial /\ Membrane!Gone = Gone
    /\ \A e : Membrane!EndsAt(e) = EndsAt(e)
    /\ \A o, e : Membrane!Successor(o, e) = Successor(o, e)
    /\ \A o, e : Membrane!Allowed(o, e) <=> Allowed(o, e)
    /\ Membrane!Events(DOMAIN FailureTerminal) = Moves
  <1>1. /\ Membrane!LoopOrder = LoopOrder /\ Membrane!LoopSubLoops = LoopSubLoops
        /\ Membrane!LoopIntents = LoopIntents /\ Membrane!FailureTerminal = FailureTerminal
        /\ Membrane!NoSub = NoSub
    BY DEF LoopOrder, LoopSubLoops, LoopIntents, FailureTerminal, NoSub, Membrane!LoopOrder,
       Membrane!LoopSubLoops, Membrane!LoopIntents, Membrane!FailureTerminal, Membrane!NoSub
  <1>2. Membrane!Initial = Initial /\ Membrane!Gone = Gone
    BY <1>1 DEF Initial, Gone, Membrane!Initial, Membrane!Gone
  <1>3. \A f : Membrane!Range(f) = Range(f)
    BY DEF Range, Membrane!Range
  <1>4. \A seq, x : Membrane!Follows(seq, x) = Follows(seq, x)
    BY <1>1 DEF Follows, Membrane!Follows
  <1>5. \A o : Membrane!NextSubLoop(o) = NextSubLoop(o)
    BY <1>1, <1>4 DEF NextSubLoop, Membrane!NextSubLoop
  <1>6. \A o, e : Membrane!Allowed(o, e) <=> Allowed(o, e)
    BY <1>1, <1>2, <1>3, <1>4, <1>5 DEF Allowed, Membrane!Allowed
  <1>7. \A o, e : Membrane!Successor(o, e) = Successor(o, e)
    BY <1>1, <1>2 DEF Successor, Membrane!Successor
  <1>8. \A e : Membrane!EndsAt(e) = EndsAt(e)
    BY <1>1 DEF EndsAt, TerminalFor, Membrane!EndsAt, Membrane!TerminalFor
  <1>9. Membrane!Loops = Loops /\ Membrane!SubLoops = SubLoops /\ Membrane!Intents = Intents
    BY <1>1, <1>3 DEF Loops, SubLoops, Intents, Membrane!Loops, Membrane!SubLoops, Membrane!Intents
  <1>10. Membrane!Events(DOMAIN FailureTerminal) = Moves
    BY <1>1, <1>9 DEF Moves, Events, Enter, SetTask, Open, CloseSub, Settle, CycleFailed, AdoptCadence,
       Membrane!Events, Membrane!Enter, Membrane!SetTask, Membrane!Open, Membrane!CloseSub,
       Membrane!Settle, Membrane!CycleFailed, Membrane!AdoptCadence
  <1> QED
    BY <1>2, <1>6, <1>7, <1>8, <1>10

(* The refinement: initial states map to initial states, a governed move   *)
(* is a move of AgenticLoop, and every other step leaves the controller    *)
(* alone.                                                                  *)
LEMMA CtlStep == CycleIInv /\ [Next]_vars => [Membrane!Move]_(Membrane!ctlVars)
  <1> SUFFICES ASSUME CycleIInv, [Next]_vars PROVE Membrane!Move \/ UNCHANGED Membrane!ctlVars
    OBVIOUS
  <1>1. CASE Govern
    <2>1. CASE Allowed(obs, Head(todo))
      <3>1. Head(todo) \in Membrane!Events(DOMAIN FailureTerminal)
        BY <1>1, HeadTailProperties, SameMembrane DEF Govern, CycleIInv, RoundOK
      <3>2. Membrane!Allowed(obs, Head(todo))
        BY <2>1, SameMembrane
      <3>3. /\ obs' = Membrane!Successor(obs, Head(todo))
            /\ terminal' = (IF obs' = Membrane!Gone THEN Membrane!EndsAt(Head(todo)) ELSE terminal)
            /\ opened' = (IF Head(todo).kind = "open_subloop" THEN opened \cup {Head(todo).to} ELSE opened)
        BY <1>1, <2>1, SameMembrane DEF Govern
      <3>4. Membrane!Transition(Head(todo))
        BY <3>2, <3>3 DEF Membrane!Transition
      <3> QED
        BY <3>1, <3>4 DEF Membrane!Move
    <2>2. CASE ~Allowed(obs, Head(todo))
      BY <1>1, <2>2 DEF Govern, ctl, Membrane!ctlVars
    <2> QED
      BY <2>1, <2>2
  <1>2. CASE UNCHANGED ctl
    BY <1>2 DEF ctl, Membrane!ctlVars
  <1>3. Next => Govern \/ UNCHANGED ctl
    BY DEF Next, Wake, Comprehend, PlanGate, Acquire, Narrate, EvidencePass, EvidenceDone, Followup,
       CallMalformed, CallNamed, CallDenied, CallExecuted, NextCall, RoundEnds, ReasonPass, ReasonSteer,
       ReasonDone, TrackStep, Reform, HaltCleared, HaltStands, EnterValidation, Judge, RepairDue,
       RepairTurn, Repaired, ForcedFinal, Salvage, GateFails, GatePasses
  <1> QED
    BY <1>1, <1>2, <1>3 DEF vars

(* Every cycle is a behaviour of the controller under its membrane         *)
(* (engine/fsm.py), whatever the model, the tools and the gates do.        *)
THEOREM ControllerObeys == Spec => ImplementsMembrane
  <1>1. Init => Membrane!CtlInit
    BY SameMembrane DEF Init, Membrane!CtlInit
  <1> QED
    BY <1>1, CycleInvariance, CtlStep, PTL DEF Spec, ImplementsMembrane, Membrane!LoopSpec


-----------------------------------------------------------------------------
(* No stage asks for a move that the membrane denies.                      *)

(* A leg: where the membrane sees the cycle and the moves still to make.   *)
Sees(l, s) == obs.loop = l /\ obs.sub = s
Leg(l, s, moves) == Sees(l, s) /\ todo = moves

Comprehending == Leg("context", NoSub, <<Open("intake")>>) \/ Leg("context", "intake", <<>>)

Planning ==
    \/ Leg("context", "intake", <<AdoptCadence, Open("interpretation"), Open("framing")>>)
    \/ Leg("context", "intake", <<Open("interpretation"), Open("framing")>>)
    \/ Leg("context", "interpretation", <<Open("framing")>>)
    \/ Leg("context", "framing", <<>>)

Narrating ==
    \/ Leg("context", "framing", <<Open("sourcing"), Open("acquisition"), SetTask("infer_order_flow")>>)
    \/ Leg("context", "sourcing", <<Open("acquisition"), SetTask("infer_order_flow")>>)
    \/ Leg("context", "acquisition", <<SetTask("infer_order_flow")>>)
    \/ Leg("context", "acquisition", <<>>)

Entering ==
    \/ Leg("context", "acquisition",
           <<Open("verification"), CloseSub, Enter("reasoning"), Open("hypothesis"), Open("analysis")>>)
    \/ Leg("context", "verification",
           <<CloseSub, Enter("reasoning"), Open("hypothesis"), Open("analysis")>>)
    \/ Leg("context", NoSub, <<Enter("reasoning"), Open("hypothesis"), Open("analysis")>>)
    \/ Leg("reasoning", NoSub, <<Open("hypothesis"), Open("analysis")>>)
    \/ Leg("reasoning", "hypothesis", <<Open("analysis")>>)
    \/ Leg("reasoning", "analysis", <<>>)

Leaving ==
    \/ Leg("reasoning", "analysis", <<Open("synthesis"), CloseSub>>)
    \/ Leg("reasoning", "synthesis", <<CloseSub>>)
    \/ Leg("reasoning", "analysis", <<CloseSub>>)
    \/ Leg("reasoning", NoSub, <<>>)

Judging ==
    \/ Leg("reasoning", NoSub, <<Enter("validation"), Open("gate")>>)
    \/ Leg("validation", NoSub, <<Open("gate")>>)
    \/ Leg("validation", "gate", <<>>)
    \/ Leg("validation", "recovery", <<>>)

Deciding == Leg("validation", "gate", <<>>) \/ Leg("validation", "recovery", <<>>)

Repairing ==
    Leg("validation", "gate", <<Open("recovery")>>) \/ Leg("validation", "recovery", <<>>)

Handing ==
    \/ Leg("validation", "gate", <<CloseSub>>)
    \/ Leg("validation", "recovery", <<CloseSub>>)
    \/ Leg("validation", NoSub, <<>>)

Falling ==
    \/ obs # Gone /\ \E k \in DOMAIN FailureTerminal : todo = <<CycleFailed(k)>>
    \/ todo = <<>>

InEvidence  == tag = "evidence"   /\ Leg("context", "acquisition", <<>>)
InReasoning == tag = "reasoning"  /\ Leg("reasoning", "analysis", <<>>)
InRecovery  == tag = "validation" /\ Leg("validation", "recovery", <<>>)

(* Where each stage may find the cycle.                                    *)
Route ==
    \/ pc = "wake" /\ Leg("context", NoSub, <<>>)
    \/ pc = "comprehend" /\ Comprehending
    \/ pc = "plan" /\ Planning
    \/ pc = "acquire" /\ Leg("context", "framing", <<>>)
    \/ pc = "narrate" /\ tag = "evidence" /\ Narrating
    \/ pc = "evidence" /\ InEvidence
    \/ pc \in {"call", "followup"} /\ (InEvidence \/ InReasoning \/ InRecovery)
    \/ pc = "reasoning" /\ tag = "reasoning" /\ Entering
    \/ pc \in {"position", "cleared", "reformed"} /\ InReasoning
    \/ pc = "validate" /\ Leaving
    \/ pc = "judge" /\ tag = "validation" /\ Judging
    \/ pc = "gate" /\ tag = "validation" /\ Deciding
    \/ pc = "repair" /\ tag = "validation" /\ Repairing
    \/ pc = "repaired" /\ InRecovery
    \/ pc = "reasoned" /\ Handing
    \/ pc = "failed" /\ Falling

LEMMA FirstAndRest ==
    ASSUME NEW a, NEW b, NEW c, NEW d, NEW e
    PROVE  /\ Head(<<a>>) = a /\ Tail(<<a>>) = <<>>
           /\ Head(<<a, b>>) = a /\ Tail(<<a, b>>) = <<b>>
           /\ Head(<<a, b, c>>) = a /\ Tail(<<a, b, c>>) = <<b, c>>
           /\ Head(<<a, b, c, d>>) = a /\ Tail(<<a, b, c, d>>) = <<b, c, d>>
           /\ Head(<<a, b, c, d, e>>) = a /\ Tail(<<a, b, c, d, e>>) = <<b, c, d, e>>
  OBVIOUS

LEMMA FollowsAt ==
    ASSUME NEW seq, Len(seq) \in Nat, NEW i \in 1..(Len(seq) - 1),
           \A j \in 1..(Len(seq) - 1) : seq[j] = seq[i] => j = i
    PROVE  Follows(seq, seq[i]) = seq[i + 1]
  BY DEF Follows
(* The successors of the sub-loops and of the loops that a cycle uses.     *)
LEMMA SubsOpen ==
    /\ Follows(LoopSubLoops["context"], "intake") = "interpretation"
    /\ Follows(LoopSubLoops["context"], "interpretation") = "framing"
    /\ Follows(LoopSubLoops["context"], "framing") = "sourcing"
    /\ Follows(LoopSubLoops["context"], "sourcing") = "acquisition"
    /\ Follows(LoopSubLoops["context"], "acquisition") = "verification"
    /\ Follows(LoopSubLoops["reasoning"], "hypothesis") = "analysis"
    /\ Follows(LoopSubLoops["reasoning"], "analysis") = "synthesis"
    /\ Follows(LoopSubLoops["validation"], "gate") = "recovery"
    /\ Follows(LoopOrder, "context") = "reasoning"
    /\ Follows(LoopOrder, "reasoning") = "validation"
  <1> DEFINE c == LoopSubLoops["context"]
             r == LoopSubLoops["reasoning"]
             v == LoopSubLoops["validation"]
  <1>1. /\ c = <<"intake", "interpretation", "framing", "sourcing", "acquisition", "verification">>
        /\ r = <<"hypothesis", "analysis", "synthesis">>
        /\ v = <<"gate", "recovery">>
    BY DEF LoopSubLoops
  <1> HIDE DEF c, r, v
  <1>2. Len(c) = 6 /\ Len(r) = 3 /\ Len(v) = 2 /\ Len(LoopOrder) = 4
    BY <1>1 DEF LoopOrder
  <1>3. ASSUME NEW i \in 1..5 PROVE Follows(c, c[i]) = c[i + 1]
    <2>1. \A j \in 1..5 : c[j] = c[i] => j = i
      BY <1>1
    <2> QED
      <3>1. Len(c) \in Nat /\ Len(c) - 1 = 5 /\ i \in 1..(Len(c) - 1)
        BY <1>2
      <3>2. \A j \in 1..(Len(c) - 1) : c[j] = c[i] => j = i
        BY <2>1, <3>1
      <3> QED
        BY <3>1, <3>2, FollowsAt
  <1>4. ASSUME NEW i \in 1..2 PROVE Follows(r, r[i]) = r[i + 1]
    <2>1. \A j \in 1..2 : r[j] = r[i] => j = i
      BY <1>1
    <2> QED
      <3>1. Len(r) \in Nat /\ Len(r) - 1 = 2 /\ i \in 1..(Len(r) - 1)
        BY <1>2
      <3>2. \A j \in 1..(Len(r) - 1) : r[j] = r[i] => j = i
        BY <2>1, <3>1
      <3> QED
        BY <3>1, <3>2, FollowsAt
  <1>5. Follows(v, v[1]) = v[2]
    <2>1. \A j \in 1..1 : v[j] = v[1] => j = 1
      BY <1>1
    <2> QED
      <3>1. Len(v) \in Nat /\ Len(v) - 1 = 1 /\ 1 \in 1..(Len(v) - 1)
        BY <1>2
      <3>2. \A j \in 1..(Len(v) - 1) : v[j] = v[1] => j = 1
        BY <2>1, <3>1
      <3> QED
        BY <3>1, <3>2, FollowsAt
  <1>6. ASSUME NEW i \in 1..3 PROVE Follows(LoopOrder, LoopOrder[i]) = LoopOrder[i + 1]
    <2>1. \A j \in 1..3 : LoopOrder[j] = LoopOrder[i] => j = i
      BY DEF LoopOrder
    <2> QED
      <3>1. Len(LoopOrder) \in Nat /\ Len(LoopOrder) - 1 = 3 /\ i \in 1..(Len(LoopOrder) - 1)
        BY <1>2
      <3>2. \A j \in 1..(Len(LoopOrder) - 1) : LoopOrder[j] = LoopOrder[i] => j = i
        BY <2>1, <3>1
      <3> QED
        BY <3>1, <3>2, FollowsAt
  <1>7. /\ Follows(c, "intake") = "interpretation" /\ Follows(c, "interpretation") = "framing"
        /\ Follows(c, "framing") = "sourcing" /\ Follows(c, "sourcing") = "acquisition"
        /\ Follows(c, "acquisition") = "verification"
    <2>1. Follows(c, c[1]) = c[2] /\ Follows(c, c[2]) = c[3] /\ Follows(c, c[3]) = c[4]
          /\ Follows(c, c[4]) = c[5] /\ Follows(c, c[5]) = c[6]
      BY <1>3
    <2> QED
      BY <1>1, <2>1
  <1>8. Follows(r, "hypothesis") = "analysis" /\ Follows(r, "analysis") = "synthesis"
    <2>1. Follows(r, r[1]) = r[2] /\ Follows(r, r[2]) = r[3]
      BY <1>4
    <2> QED
      BY <1>1, <2>1
  <1>9. Follows(v, "gate") = "recovery"
    BY <1>1, <1>5
  <1>10. Follows(LoopOrder, "context") = "reasoning" /\ Follows(LoopOrder, "reasoning") = "validation"
    <2>1. Follows(LoopOrder, LoopOrder[1]) = LoopOrder[2] /\ Follows(LoopOrder, LoopOrder[2]) = LoopOrder[3]
      BY <1>6
    <2>2. LoopOrder[1] = "context" /\ LoopOrder[2] = "reasoning" /\ LoopOrder[3] = "validation"
      BY DEF LoopOrder
    <2> QED
      BY <2>1, <2>2
  <1> QED
    BY <1>7, <1>8, <1>9, <1>10 DEF c, r, v

LEMMA NamesDiffer == "gone" \notin Loops /\ \A s \in SubLoops : s # NoSub
  <1>1. Loops = {"context", "reasoning", "validation", "output"}
    BY DEF Loops, LoopOrder, Range
  <1>2. ASSUME NEW l \in Loops PROVE \A s \in Range(LoopSubLoops[l]) : s # NoSub
    BY <1>1 DEF LoopSubLoops, Range, NoSub
  <1> QED
    BY <1>1, <1>2 DEF SubLoops

LEMMA LiveIsObservation ==
    ASSUME CycleTypeOK, obs.loop # "gone"
    PROVE  obs \in Observations /\ obs # Gone
  BY DEF CycleTypeOK, Gone

(* What each kind of move needs and does.                                  *)
Makes(l, s) ==
    /\ Allowed(obs, Head(todo))
    /\ Govern => Sees(l, s)' /\ todo' = Tail(todo) /\ pc' = pc /\ tag' = tag

LEMMA OpenMakes ==
    ASSUME CycleTypeOK, NEW l \in {"context", "reasoning", "validation", "output"}, NEW s,
           NEW x, Sees(l, s), x # NoSub, todo # <<>>, Head(todo) = Open(x),
           x = IF s = NoSub THEN LoopSubLoops[l][1] ELSE Follows(LoopSubLoops[l], s)
    PROVE  Makes(l, x)
  <1>1. obs \in Observations /\ obs # Gone
    BY LiveIsObservation DEF Sees
  <1>2. Allowed(obs, Head(todo))
    BY <1>1 DEF Allowed, Open, NextSubLoop, Sees
  <1>3. Successor(obs, Head(todo)) = [obs EXCEPT !.sub = x]
    BY DEF Successor, Open
  <1>4. Govern => obs' = [obs EXCEPT !.sub = x] /\ todo' = Tail(todo) /\ pc' = pc /\ tag' = tag
    BY <1>2, <1>3 DEF Govern
  <1>5. [obs EXCEPT !.sub = x].loop = l /\ [obs EXCEPT !.sub = x].sub = x
    BY <1>1 DEF Observations, Sees
  <1> QED
    BY <1>2, <1>4, <1>5 DEF Makes, Sees

LEMMA CloseMakes ==
    ASSUME CycleTypeOK, NEW l \in {"context", "reasoning", "validation", "output"}, NEW s, Sees(l, s),
           s # NoSub, todo # <<>>, Head(todo) = CloseSub
    PROVE  Makes(l, NoSub)
  <1>1. obs \in Observations /\ obs # Gone
    BY LiveIsObservation DEF Sees
  <1>2. Allowed(obs, Head(todo))
    BY <1>1 DEF Allowed, CloseSub, Sees
  <1>3. Successor(obs, Head(todo)) = [obs EXCEPT !.sub = NoSub]
    BY DEF Successor, CloseSub
  <1>4. Govern => obs' = [obs EXCEPT !.sub = NoSub] /\ todo' = Tail(todo) /\ pc' = pc /\ tag' = tag
    BY <1>2, <1>3 DEF Govern
  <1>5. [obs EXCEPT !.sub = NoSub].loop = l /\ [obs EXCEPT !.sub = NoSub].sub = NoSub
    BY <1>1 DEF Observations, Sees
  <1> QED
    BY <1>2, <1>4, <1>5 DEF Makes, Sees

LEMMA EnterMakes ==
    ASSUME CycleTypeOK, NEW l \in {"context", "reasoning"}, NEW x, Sees(l, NoSub),
           x = Follows(LoopOrder, l), todo # <<>>, Head(todo) = Enter(x)
    PROVE  Makes(x, NoSub)
  <1>1. obs \in Observations /\ obs # Gone
    BY LiveIsObservation DEF Sees
  <1>2. Allowed(obs, Head(todo))
    BY <1>1 DEF Allowed, Enter, Sees
  <1>3. Successor(obs, Head(todo)) = [loop |-> x, task |-> LoopIntents[x][1], sub |-> NoSub]
    BY DEF Successor, Enter
  <1>4. /\ Govern => /\ obs' = [loop |-> x, task |-> LoopIntents[x][1], sub |-> NoSub]
                     /\ todo' = Tail(todo) /\ pc' = pc /\ tag' = tag
    BY <1>2, <1>3 DEF Govern
  <1> QED
    BY <1>2, <1>4 DEF Makes, Sees

LEMMA TaskMakes ==
    ASSUME CycleTypeOK, Sees("context", "acquisition"), todo # <<>>,
           Head(todo) = SetTask("infer_order_flow")
    PROVE  Makes("context", "acquisition")
  <1>1. obs \in Observations /\ obs # Gone
    BY LiveIsObservation DEF Sees
  <1>2. "infer_order_flow" \in Range(LoopIntents["context"])
    <2>1. LoopIntents["context"][2] = "infer_order_flow" /\ 2 \in DOMAIN LoopIntents["context"]
      BY DEF LoopIntents
    <2> QED
      BY <2>1 DEF Range
  <1>3. Allowed(obs, Head(todo))
    BY <1>1, <1>2 DEF Allowed, SetTask, Sees
  <1>4. Successor(obs, Head(todo)) = [obs EXCEPT !.task = "infer_order_flow"]
    BY DEF Successor, SetTask
  <1>5. /\ Govern => /\ obs' = [obs EXCEPT !.task = "infer_order_flow"]
                     /\ todo' = Tail(todo) /\ pc' = pc /\ tag' = tag
    BY <1>3, <1>4 DEF Govern
  <1>6. [obs EXCEPT !.task = "infer_order_flow"].loop = "context"
        /\ [obs EXCEPT !.task = "infer_order_flow"].sub = "acquisition"
    BY <1>1 DEF Observations, Sees
  <1> QED
    BY <1>3, <1>5, <1>6 DEF Makes, Sees

LEMMA AdoptMakes ==
    ASSUME CycleTypeOK, Sees("context", "intake"), todo # <<>>, Head(todo) = AdoptCadence
    PROVE  Makes("context", "intake")
  <1>1. obs # Gone
    BY LiveIsObservation DEF Sees
  <1>2. Allowed(obs, Head(todo))
    BY <1>1 DEF Allowed, AdoptCadence
  <1>3. Successor(obs, Head(todo)) = obs
    BY DEF Successor, AdoptCadence
  <1> QED
    BY <1>2, <1>3 DEF Makes, Sees, Govern


(* A governed move of each leg: the membrane allows it, and the cycle is   *)
(* then on the leg after it.                                               *)
LEMMA ComprehendingGoes ==
    ASSUME CycleTypeOK, Comprehending, todo # <<>>
    PROVE  Allowed(obs, Head(todo)) /\ (Govern => Comprehending' /\ pc' = pc /\ tag' = tag)
  <1>1. CASE Leg("context", NoSub, <<Open("intake")>>)
    <2>1. Head(todo) = Open("intake") /\ Tail(todo) = <<>>
      BY <1>1, FirstAndRest DEF Leg
    <2>2. Makes("context", "intake")
      BY <1>1, <2>1, OpenMakes, SubsOpen DEF Leg, NoSub, LoopSubLoops
    <2> QED
      BY <2>1, <2>2 DEF Makes, Comprehending, Leg
  <1> QED
    BY <1>1 DEF Comprehending, Leg

LEMMA PlanningGoes ==
    ASSUME CycleTypeOK, Planning, todo # <<>>
    PROVE  Allowed(obs, Head(todo)) /\ (Govern => Planning' /\ pc' = pc /\ tag' = tag)
  <1>1. CASE Leg("context", "intake",
                 <<AdoptCadence, Open("interpretation"), Open("framing")>>)
    <2>1. Head(todo) = AdoptCadence /\ Tail(todo) = <<Open("interpretation"), Open("framing")>>
      BY <1>1, FirstAndRest DEF Leg
    <2>2. Makes("context", "intake")
      BY <1>1, <2>1, AdoptMakes DEF Leg, NoSub, LoopSubLoops
    <2> QED
      BY <2>1, <2>2 DEF Makes, Planning, Leg
  <1>2. CASE Leg("context", "intake", <<Open("interpretation"), Open("framing")>>)
    <2>1. Head(todo) = Open("interpretation") /\ Tail(todo) = <<Open("framing")>>
      BY <1>2, FirstAndRest DEF Leg
    <2>2. Makes("context", "interpretation")
      BY <1>2, <2>1, OpenMakes, SubsOpen DEF Leg, NoSub, LoopSubLoops
    <2> QED
      BY <2>1, <2>2 DEF Makes, Planning, Leg
  <1>3. CASE Leg("context", "interpretation", <<Open("framing")>>)
    <2>1. Head(todo) = Open("framing") /\ Tail(todo) = <<>>
      BY <1>3, FirstAndRest DEF Leg
    <2>2. Makes("context", "framing")
      BY <1>3, <2>1, OpenMakes, SubsOpen DEF Leg, NoSub, LoopSubLoops
    <2> QED
      BY <2>1, <2>2 DEF Makes, Planning, Leg
  <1> QED
    BY <1>1, <1>2, <1>3 DEF Planning, Leg

LEMMA NarratingGoes ==
    ASSUME CycleTypeOK, Narrating, todo # <<>>
    PROVE  Allowed(obs, Head(todo)) /\ (Govern => Narrating' /\ pc' = pc /\ tag' = tag)
  <1>1. CASE Leg("context", "framing",
                 <<Open("sourcing"), Open("acquisition"), SetTask("infer_order_flow")>>)
    <2>1. Head(todo) = Open("sourcing") /\ Tail(todo) = <<Open("acquisition"), SetTask("infer_order_flow")>>
      BY <1>1, FirstAndRest DEF Leg
    <2>2. Makes("context", "sourcing")
      BY <1>1, <2>1, OpenMakes, SubsOpen DEF Leg, NoSub, LoopSubLoops
    <2> QED
      BY <2>1, <2>2 DEF Makes, Narrating, Leg
  <1>2. CASE Leg("context", "sourcing",
                 <<Open("acquisition"), SetTask("infer_order_flow")>>)
    <2>1. Head(todo) = Open("acquisition") /\ Tail(todo) = <<SetTask("infer_order_flow")>>
      BY <1>2, FirstAndRest DEF Leg
    <2>2. Makes("context", "acquisition")
      BY <1>2, <2>1, OpenMakes, SubsOpen DEF Leg, NoSub, LoopSubLoops
    <2> QED
      BY <2>1, <2>2 DEF Makes, Narrating, Leg
  <1>3. CASE Leg("context", "acquisition", <<SetTask("infer_order_flow")>>)
    <2>1. Head(todo) = SetTask("infer_order_flow") /\ Tail(todo) = <<>>
      BY <1>3, FirstAndRest DEF Leg
    <2>2. Makes("context", "acquisition")
      BY <1>3, <2>1, TaskMakes DEF Leg, NoSub, LoopSubLoops
    <2> QED
      BY <2>1, <2>2 DEF Makes, Narrating, Leg
  <1> QED
    BY <1>1, <1>2, <1>3 DEF Narrating, Leg

LEMMA EnteringGoes ==
    ASSUME CycleTypeOK, Entering, todo # <<>>
    PROVE  Allowed(obs, Head(todo)) /\ (Govern => Entering' /\ pc' = pc /\ tag' = tag)
  <1>1. CASE Leg("context", "acquisition",
                 <<Open("verification"), CloseSub, Enter("reasoning"), Open("hypothesis"), Open("analysis")>>)
    <2>1. Head(todo) = Open("verification") /\ Tail(todo) = <<CloseSub, Enter("reasoning"), Open("hypothesis"), Open("analysis")>>
      BY <1>1, FirstAndRest DEF Leg
    <2>2. Makes("context", "verification")
      BY <1>1, <2>1, OpenMakes, SubsOpen DEF Leg, NoSub, LoopSubLoops
    <2> QED
      BY <2>1, <2>2 DEF Makes, Entering, Leg
  <1>2. CASE Leg("context", "verification",
                 <<CloseSub, Enter("reasoning"), Open("hypothesis"), Open("analysis")>>)
    <2>1. Head(todo) = CloseSub /\ Tail(todo) = <<Enter("reasoning"), Open("hypothesis"), Open("analysis")>>
      BY <1>2, FirstAndRest DEF Leg
    <2>2. Makes("context", NoSub)
      BY <1>2, <2>1, CloseMakes DEF Leg, NoSub, LoopSubLoops
    <2> QED
      BY <2>1, <2>2 DEF Makes, Entering, Leg
  <1>3. CASE Leg("context", NoSub,
                 <<Enter("reasoning"), Open("hypothesis"), Open("analysis")>>)
    <2>1. Head(todo) = Enter("reasoning") /\ Tail(todo) = <<Open("hypothesis"), Open("analysis")>>
      BY <1>3, FirstAndRest DEF Leg
    <2>2. Makes("reasoning", NoSub)
      BY <1>3, <2>1, EnterMakes, SubsOpen DEF Leg, NoSub, LoopSubLoops
    <2> QED
      BY <2>1, <2>2 DEF Makes, Entering, Leg
  <1>4. CASE Leg("reasoning", NoSub, <<Open("hypothesis"), Open("analysis")>>)
    <2>1. Head(todo) = Open("hypothesis") /\ Tail(todo) = <<Open("analysis")>>
      BY <1>4, FirstAndRest DEF Leg
    <2>2. Makes("reasoning", "hypothesis")
      BY <1>4, <2>1, OpenMakes, SubsOpen DEF Leg, NoSub, LoopSubLoops
    <2> QED
      BY <2>1, <2>2 DEF Makes, Entering, Leg
  <1>5. CASE Leg("reasoning", "hypothesis", <<Open("analysis")>>)
    <2>1. Head(todo) = Open("analysis") /\ Tail(todo) = <<>>
      BY <1>5, FirstAndRest DEF Leg
    <2>2. Makes("reasoning", "analysis")
      BY <1>5, <2>1, OpenMakes, SubsOpen DEF Leg, NoSub, LoopSubLoops
    <2> QED
      BY <2>1, <2>2 DEF Makes, Entering, Leg
  <1> QED
    BY <1>1, <1>2, <1>3, <1>4, <1>5 DEF Entering, Leg

LEMMA LeavingGoes ==
    ASSUME CycleTypeOK, Leaving, todo # <<>>
    PROVE  Allowed(obs, Head(todo)) /\ (Govern => Leaving' /\ pc' = pc /\ tag' = tag)
  <1>1. CASE Leg("reasoning", "analysis", <<Open("synthesis"), CloseSub>>)
    <2>1. Head(todo) = Open("synthesis") /\ Tail(todo) = <<CloseSub>>
      BY <1>1, FirstAndRest DEF Leg
    <2>2. Makes("reasoning", "synthesis")
      BY <1>1, <2>1, OpenMakes, SubsOpen DEF Leg, NoSub, LoopSubLoops
    <2> QED
      BY <2>1, <2>2 DEF Makes, Leaving, Leg
  <1>2. CASE Leg("reasoning", "synthesis", <<CloseSub>>)
    <2>1. Head(todo) = CloseSub /\ Tail(todo) = <<>>
      BY <1>2, FirstAndRest DEF Leg
    <2>2. Makes("reasoning", NoSub)
      BY <1>2, <2>1, CloseMakes DEF Leg, NoSub, LoopSubLoops
    <2> QED
      BY <2>1, <2>2 DEF Makes, Leaving, Leg
  <1>3. CASE Leg("reasoning", "analysis", <<CloseSub>>)
    <2>1. Head(todo) = CloseSub /\ Tail(todo) = <<>>
      BY <1>3, FirstAndRest DEF Leg
    <2>2. Makes("reasoning", NoSub)
      BY <1>3, <2>1, CloseMakes DEF Leg, NoSub, LoopSubLoops
    <2> QED
      BY <2>1, <2>2 DEF Makes, Leaving, Leg
  <1> QED
    BY <1>1, <1>2, <1>3 DEF Leaving, Leg

LEMMA JudgingGoes ==
    ASSUME CycleTypeOK, Judging, todo # <<>>
    PROVE  Allowed(obs, Head(todo)) /\ (Govern => Judging' /\ pc' = pc /\ tag' = tag)
  <1>1. CASE Leg("reasoning", NoSub, <<Enter("validation"), Open("gate")>>)
    <2>1. Head(todo) = Enter("validation") /\ Tail(todo) = <<Open("gate")>>
      BY <1>1, FirstAndRest DEF Leg
    <2>2. Makes("validation", NoSub)
      BY <1>1, <2>1, EnterMakes, SubsOpen DEF Leg, NoSub, LoopSubLoops
    <2> QED
      BY <2>1, <2>2 DEF Makes, Judging, Leg
  <1>2. CASE Leg("validation", NoSub, <<Open("gate")>>)
    <2>1. Head(todo) = Open("gate") /\ Tail(todo) = <<>>
      BY <1>2, FirstAndRest DEF Leg
    <2>2. Makes("validation", "gate")
      BY <1>2, <2>1, OpenMakes, SubsOpen DEF Leg, NoSub, LoopSubLoops
    <2> QED
      BY <2>1, <2>2 DEF Makes, Judging, Leg
  <1> QED
    BY <1>1, <1>2 DEF Judging, Leg

LEMMA RepairingGoes ==
    ASSUME CycleTypeOK, Repairing, todo # <<>>
    PROVE  Allowed(obs, Head(todo)) /\ (Govern => Repairing' /\ pc' = pc /\ tag' = tag)
  <1>1. CASE Leg("validation", "gate", <<Open("recovery")>>)
    <2>1. Head(todo) = Open("recovery") /\ Tail(todo) = <<>>
      BY <1>1, FirstAndRest DEF Leg
    <2>2. Makes("validation", "recovery")
      BY <1>1, <2>1, OpenMakes, SubsOpen DEF Leg, NoSub, LoopSubLoops
    <2> QED
      BY <2>1, <2>2 DEF Makes, Repairing, Leg
  <1> QED
    BY <1>1 DEF Repairing, Leg

LEMMA HandingGoes ==
    ASSUME CycleTypeOK, Handing, todo # <<>>
    PROVE  Allowed(obs, Head(todo)) /\ (Govern => Handing' /\ pc' = pc /\ tag' = tag)
  <1>1. CASE Leg("validation", "gate", <<CloseSub>>)
    <2>1. Head(todo) = CloseSub /\ Tail(todo) = <<>>
      BY <1>1, FirstAndRest DEF Leg
    <2>2. Makes("validation", NoSub)
      BY <1>1, <2>1, CloseMakes DEF Leg, NoSub, LoopSubLoops
    <2> QED
      BY <2>1, <2>2 DEF Makes, Handing, Leg
  <1>2. CASE Leg("validation", "recovery", <<CloseSub>>)
    <2>1. Head(todo) = CloseSub /\ Tail(todo) = <<>>
      BY <1>2, FirstAndRest DEF Leg
    <2>2. Makes("validation", NoSub)
      BY <1>2, <2>1, CloseMakes DEF Leg, NoSub, LoopSubLoops
    <2> QED
      BY <2>1, <2>2 DEF Makes, Handing, Leg
  <1> QED
    BY <1>1, <1>2 DEF Handing, Leg


(* A failed cycle's last move, or the end of it.                           *)
LEMMA FallingGoes ==
    ASSUME CycleTypeOK, Falling, todo # <<>>
    PROVE  Allowed(obs, Head(todo)) /\ (Govern => Falling' /\ pc' = pc)
  <1>1. PICK k \in DOMAIN FailureTerminal : todo = <<CycleFailed(k)>> /\ obs # Gone
    BY DEF Falling
  <1>2. Head(todo) = CycleFailed(k) /\ Tail(todo) = <<>>
    BY <1>1, FirstAndRest
  <1>3. Allowed(obs, Head(todo))
    BY <1>1, <1>2 DEF Allowed, CycleFailed
  <1>4. Govern => todo' = <<>> /\ pc' = pc
    BY <1>2, <1>3 DEF Govern
  <1> QED
    BY <1>3, <1>4 DEF Falling

LEMMA GovernRoute ==
    ASSUME CycleTypeOK, Route, todo # <<>>
    PROVE  Allowed(obs, Head(todo)) /\ (Govern => Route')
  <1>1. CASE pc = "comprehend" /\ Comprehending
    BY <1>1, ComprehendingGoes DEF Route
  <1>2. CASE pc = "plan" /\ Planning
    BY <1>2, PlanningGoes DEF Route
  <1>3. CASE pc = "narrate" /\ tag = "evidence" /\ Narrating
    BY <1>3, NarratingGoes DEF Route
  <1>4. CASE pc = "reasoning" /\ tag = "reasoning" /\ Entering
    BY <1>4, EnteringGoes DEF Route
  <1>5. CASE pc = "validate" /\ Leaving
    BY <1>5, LeavingGoes DEF Route
  <1>6. CASE pc = "judge" /\ tag = "validation" /\ Judging
    BY <1>6, JudgingGoes DEF Route
  <1>7. CASE pc = "repair" /\ tag = "validation" /\ Repairing
    BY <1>7, RepairingGoes DEF Route
  <1>8. CASE pc = "reasoned" /\ Handing
    BY <1>8, HandingGoes DEF Route
  <1>9. CASE pc = "failed" /\ Falling
    BY <1>9, FallingGoes DEF Route
  <1> QED
    BY <1>1, <1>2, <1>3, <1>4, <1>5, <1>6, <1>7, <1>8, <1>9
       DEF Route, InEvidence, InReasoning, InRecovery, Deciding, Leg

(* Where a stage stands when its moves are made.                           *)
LEMMA Standing ==
    ASSUME Route, todo = <<>>
    PROVE  /\ pc = "wake" => Sees("context", NoSub)
           /\ pc = "comprehend" => Sees("context", "intake")
           /\ pc \in {"plan", "acquire"} => Sees("context", "framing")
           /\ pc \in {"narrate", "evidence"} => tag = "evidence" /\ Sees("context", "acquisition")
           /\ pc \in {"call", "followup"} => InEvidence \/ InReasoning \/ InRecovery
           /\ pc \in {"reasoning", "position", "cleared", "reformed"} => InReasoning
           /\ pc = "validate" => Sees("reasoning", NoSub)
           /\ pc \in {"judge", "gate"} => tag = "validation" /\ Deciding
           /\ pc \in {"repair", "repaired"} => InRecovery
  <1>1. Comprehending => Sees("context", "intake")
    BY DEF Comprehending, Leg
  <1>2. Planning => Sees("context", "framing")
    BY DEF Planning, Leg
  <1>3. Narrating => Sees("context", "acquisition")
    BY DEF Narrating, Leg
  <1>4. Entering => Leg("reasoning", "analysis", <<>>)
    BY DEF Entering, Leg
  <1>5. Leaving => Sees("reasoning", NoSub)
    BY DEF Leaving, Leg
  <1>6. Judging => Deciding
    BY DEF Judging, Deciding, Leg
  <1>7. Repairing => Leg("validation", "recovery", <<>>)
    BY DEF Repairing, Leg
  <1>8. \A l, s : Leg(l, s, <<>>) => Sees(l, s)
    BY DEF Leg
  <1> QED
    BY <1>1, <1>2, <1>3, <1>4, <1>5, <1>6, <1>7, <1>8 DEF Route, InEvidence, InReasoning, InRecovery

(* The moves of the framing, with a cadence or without.                    *)
LEMMA Joined ==
    ASSUME NEW a, NEW b, NEW c
    PROVE  <<>> \o <<b, c>> = <<b, c>> /\ <<a>> \o <<b, c>> = <<a, b, c>>
  <1> DEFINE S == {a, b, c}
  <1>1. <<>> \in Seq(S) /\ <<a>> \in Seq(S) /\ <<b, c>> \in Seq(S) /\ <<a, b, c>> \in Seq(S)
    OBVIOUS
  <1>2. <<>> \o <<b, c>> = <<b, c>>
    BY <1>1, ConcatEmptySeq
  <1>3. /\ <<a>> \o <<b, c>> \in Seq(S) /\ Len(<<a>> \o <<b, c>>) = 3
        /\ (<<a>> \o <<b, c>>)[1] = a /\ (<<a>> \o <<b, c>>)[2] = b /\ (<<a>> \o <<b, c>>)[3] = c
    BY <1>1, ConcatProperties
  <1>4. \A i \in 1..3 : (<<a>> \o <<b, c>>)[i] = <<a, b, c>>[i]
    BY <1>3
  <1>5. <<a>> \o <<b, c>> = <<a, b, c>>
    <2> DEFINE s == <<a>> \o <<b, c>>
               t == <<a, b, c>>
    <2>1. s \in Seq(S) /\ t \in Seq(S) /\ Len(s) = 3 /\ Len(t) = 3 /\ \A i \in 1..3 : s[i] = t[i]
      BY <1>1, <1>3, <1>4
    <2> HIDE DEF s, t, S
    <2> QED
      BY <2>1, SeqEqual DEF s, t
  <1> QED
    BY <1>2, <1>5

(* A failure is heard of by a cycle that is still live.                    *)
LEMMA FailFalls ==
    ASSUME obs # Gone, obs' = obs,
           NEW k \in {"infra_failed", "parse_failed", "narration_failed", "gate_refused", "validation_failed"},
           Fail(k)
    PROVE  Route'
  <1>1. k \in DOMAIN FailureTerminal
    BY DEF FailureTerminal
  <1>2. pc' = "failed" /\ todo' = <<CycleFailed(k)>>
    BY DEF Fail, Goto
  <1>3. Falling'
    BY <1>1, <1>2 DEF Falling
  <1> QED
    BY <1>2, <1>3 DEF Route

LEMMA HearGoes ==
    ASSUME obs # Gone, obs' = obs, NEW next, NEW CannotRetry \in BOOLEAN, Hear(next, CannotRetry)
    PROVE  (pc' = next /\ todo' = <<>>) \/ Route'
  <1>1. CASE Goto(next, <<>>)
    BY <1>1 DEF Goto
  <1>2. CASE Fail("parse_failed") \/ Fail("narration_failed")
    BY <1>2, FailFalls
  <1> QED
    BY <1>1, <1>2 DEF Hear

LEMMA SeesLive == \A l \in Loops : \A s : Sees(l, s) => obs # Gone
  BY NamesDiffer DEF Sees, Gone

LEMMA RouteStep == CycleIInv /\ Route /\ [Next]_vars => Route'
  <1> SUFFICES ASSUME CycleIInv, Route, [Next]_vars PROVE Route'
    OBVIOUS
  <1>0. CycleTypeOK
    BY DEF CycleIInv
  <1>1. CASE Govern
    BY <1>0, <1>1, GovernRoute DEF Govern
  <1>2. CASE UNCHANGED vars
    BY <1>2 DEF vars, ctl, Route, Comprehending, Planning, Narrating, Entering, Leaving, Judging, Deciding,
       Repairing, Handing, Falling, InEvidence, InReasoning, InRecovery, Leg, Sees
  (* Every other action is taken where a stage stands, and leaves the      *)
  (* controller alone.                                                     *)
  <1>3. SUFFICES ASSUME ~Govern, Next PROVE Route'
    BY <1>1, <1>2
  <1>4. todo = <<>> /\ obs' = obs /\ \A l, s : Sees(l, s) => Sees(l, s)'
    BY <1>3 DEF Next, Wake, Comprehend, PlanGate, Acquire, Narrate, EvidencePass, EvidenceDone, Followup,
       CallMalformed, CallNamed, CallDenied, CallExecuted, NextCall, RoundEnds, ReasonPass, ReasonSteer,
       ReasonDone, TrackStep, Reform, HaltCleared, HaltStands, EnterValidation, Judge, RepairDue,
       RepairTurn, Repaired, ForcedFinal, Salvage, GateFails, GatePasses, At, ctl, Sees
  <1>5. CASE Wake
    BY <1>4, <1>5, Standing DEF Wake, At, Goto, Route, Comprehending, Leg
  <1>6. CASE Comprehend
    <2>1. PICK cadence \in {<<>>, <<AdoptCadence>>} :
             pc' = "plan" /\ todo' = cadence \o <<Open("interpretation"), Open("framing")>>
      BY <1>6 DEF Comprehend, Goto
    <2>2. /\ <<>> \o <<Open("interpretation"), Open("framing")>> = <<Open("interpretation"), Open("framing")>>
          /\ <<AdoptCadence>> \o <<Open("interpretation"), Open("framing")>>
               = <<AdoptCadence, Open("interpretation"), Open("framing")>>
      BY Joined
    <2>3. Sees("context", "intake")'
      BY <1>4, <1>6, Standing DEF Comprehend, At
    <2> QED
      BY <2>1, <2>2, <2>3 DEF Route, Planning, Leg
  <1>7. CASE PlanGate
    <2>1. Sees("context", "framing")' /\ obs # Gone
      BY <1>4, <1>7, Standing, SeesLive, LoopNames DEF PlanGate, At
    <2>2. CASE Goto("acquire", <<>>)
      BY <2>1, <2>2 DEF Goto, Route, Leg
    <2> QED
      BY <1>4, <1>7, <2>1, <2>2, FailFalls DEF PlanGate
  <1>8. CASE Acquire
    BY <1>4, <1>8, Standing DEF Acquire, At, Goto, Route, Narrating, Leg
  <1>9. CASE Narrate
    <2>1. Sees("context", "acquisition")' /\ obs # Gone /\ tag' = "evidence"
      BY <1>4, <1>9, Standing, SeesLive, LoopNames DEF Narrate, At
    <2>2. (pc' = "evidence" /\ todo' = <<>>) \/ Route'
      BY <1>4, <1>9, <2>1, HearGoes DEF Narrate
    <2> QED
      BY <2>1, <2>2 DEF Route, InEvidence, Leg
  <1>10. CASE EvidencePass \/ ReasonPass \/ Reform \/ Repaired
    <2>1. pc' = "call" /\ todo' = <<>> /\ tag' = tag
      BY <1>10 DEF EvidencePass, ReasonPass, Reform, Repaired, Begin, Goto
    <2>2. CASE pc = "evidence"
      BY <1>4, <2>1, <2>2, Standing DEF Route, InEvidence, Leg
    <2>3. CASE pc \in {"reasoning", "reformed"}
      BY <1>4, <2>1, <2>3, Standing DEF Route, InReasoning, Leg
    <2>4. CASE pc = "repaired"
      BY <1>4, <2>1, <2>4, Standing DEF Route, InRecovery, Leg
    <2> QED
      BY <1>10, <2>2, <2>3, <2>4 DEF EvidencePass, ReasonPass, Reform, Repaired, At
  <1>11. CASE EvidenceDone
    BY <1>4, <1>11, Standing DEF EvidenceDone, At, Goto, Route, Entering, Leg
  <1>12. CASE Followup
    <2>1. InEvidence \/ InReasoning \/ InRecovery
      BY <1>4, <1>12, Standing DEF Followup, At
    <2>2. obs # Gone
      BY <2>1, SeesLive, LoopNames DEF InEvidence, InReasoning, InRecovery, Leg
    <2>3. tag' = tag
      BY <1>12 DEF Followup
    <2>4. CASE InEvidence
      <3>1. Hear("evidence", FALSE)
        BY <1>12, <2>4 DEF Followup, InEvidence
      <3>2. (pc' = "evidence" /\ todo' = <<>>) \/ Route'
        BY <1>4, <2>2, <3>1, HearGoes
      <3> QED
        BY <1>4, <2>3, <2>4, <3>2 DEF Route, InEvidence, Leg
    <2>5. CASE InReasoning
      <3>1. PICK next \in {"reformed", "reasoning"} : Hear(next, FALSE)
        BY <1>12, <2>5 DEF Followup, InReasoning
      <3>2. (pc' = next /\ todo' = <<>>) \/ Route'
        BY <1>4, <2>2, <3>1, HearGoes
      <3> QED
        BY <1>4, <2>3, <2>5, <3>2 DEF Route, InReasoning, Entering, Leg
    <2>6. CASE InRecovery
      <3>1. Hear("judge", FALSE)
        BY <1>12, <2>6 DEF Followup, InRecovery
      <3>2. (pc' = "judge" /\ todo' = <<>>) \/ Route'
        BY <1>4, <2>2, <3>1, HearGoes
      <3> QED
        BY <1>4, <2>3, <2>6, <3>2 DEF Route, InRecovery, Judging, Leg
    <2> QED
      BY <2>1, <2>4, <2>5, <2>6
  <1>13. CASE CallMalformed \/ CallNamed \/ CallDenied \/ CallExecuted
    <2>1. pc = "call" /\ pc' = "call" /\ tag' = tag /\ todo' = <<>>
      BY <1>4, <1>13 DEF CallMalformed, CallNamed, CallDenied, CallExecuted, NextCall, At
    <2> QED
      BY <1>4, <2>1, Standing DEF Route, InEvidence, InReasoning, InRecovery, Leg
  <1>14. CASE RoundEnds
    <2>1. pc = "call" /\ tag' = tag
      BY <1>14 DEF RoundEnds, At
    <2>2. InEvidence \/ InReasoning \/ InRecovery
      BY <1>4, <2>1, Standing
    <2>3. CASE bad # <<>> /\ ~mirroring
      <3>1. pc' = "call" /\ todo' = <<>>
        BY <1>14, <2>3 DEF RoundEnds, Begin, Goto
      <3> QED
        BY <1>4, <2>1, <2>2, <3>1 DEF Route, InEvidence, InReasoning, InRecovery, Leg
    <2>4. CASE ~(bad # <<>> /\ ~mirroring)
      <3>1. /\ todo' = <<>>
            /\ pc' = CASE tag = "evidence"   -> "followup"
                       [] tag = "reasoning"  -> IF halted THEN "cleared" ELSE "position"
                       [] tag = "validation" -> IF ran THEN "followup" ELSE "judge"
        BY <1>14, <2>4 DEF RoundEnds, Goto
      <3>2. CASE InEvidence
        BY <1>4, <2>1, <3>1, <3>2 DEF Route, InEvidence, Leg
      <3>3. CASE InReasoning
        BY <1>4, <2>1, <3>1, <3>3 DEF Route, InReasoning, Leg
      <3>4. CASE InRecovery
        BY <1>4, <2>1, <3>1, <3>4 DEF Route, InRecovery, Judging, Leg
      <3> QED
        BY <2>2, <3>2, <3>3, <3>4
    <2> QED
      BY <2>3, <2>4
  <1>15. CASE ReasonSteer
    BY <1>4, <1>15, Standing DEF ReasonSteer, At, Goto, Route, InReasoning, Leg
  <1>16. CASE ReasonDone
    BY <1>4, <1>16, Standing DEF ReasonDone, At, Goto, Route, Leaving, InReasoning, Leg
  <1>17. CASE TrackStep
    BY <1>4, <1>17, Standing DEF TrackStep, At, Goto, Route, InReasoning, Leg
  <1>18. CASE HaltCleared
    BY <1>4, <1>18, Standing DEF HaltCleared, At, Goto, Route, InReasoning, Entering, Leg
  <1>19. CASE HaltStands
    BY <1>4, <1>19, Standing DEF HaltStands, At, Goto, Route, InReasoning, Leaving, Leg
  <1>20. CASE EnterValidation
    BY <1>4, <1>20, Standing DEF EnterValidation, At, Goto, Route, Judging, Leg
  <1>21. CASE Judge
    <2>1. tag = "validation" /\ Deciding /\ tag' = tag /\ pc' = "gate"
      BY <1>4, <1>21, Standing DEF Judge, At, Goto
    <2>2. obs.sub # NoSub
      BY <2>1 DEF Deciding, Leg, Sees, NoSub
    <2>3. todo' = <<>>
      BY <1>21, <2>2 DEF Judge, Goto
    <2> QED
      BY <1>4, <2>1, <2>3 DEF Route, Deciding, Leg
  <1>22. CASE RepairDue
    <2>1. tag = "validation" /\ Deciding /\ tag' = tag /\ pc' = "repair"
      BY <1>4, <1>22, Standing DEF RepairDue, At, Goto
    <2>2. todo' = IF obs.sub = "recovery" THEN <<>> ELSE <<Open("recovery")>>
      BY <1>22 DEF RepairDue, Goto
    <2>3. Repairing'
      BY <1>4, <2>1, <2>2 DEF Deciding, Repairing, Leg, Sees
    <2> QED
      BY <2>1, <2>3 DEF Route
  <1>23. CASE RepairTurn
    <2>1. InRecovery /\ tag' = tag
      BY <1>4, <1>23, Standing DEF RepairTurn, At
    <2>2. obs # Gone
      BY <2>1, SeesLive, LoopNames DEF InRecovery, Leg
    <2>3. (pc' = "repaired" /\ todo' = <<>>) \/ Route'
      BY <1>4, <1>23, <2>2, HearGoes DEF RepairTurn
    <2> QED
      BY <1>4, <2>1, <2>3 DEF Route, InRecovery, Leg
  <1>24. CASE ForcedFinal
    <2>1. tag = "validation" /\ Deciding /\ tag' = tag /\ pc' \in {"judge", "gate"} /\ todo' = <<>>
      BY <1>4, <1>24, Standing DEF ForcedFinal, At, Goto
    <2> QED
      BY <1>4, <2>1 DEF Route, Deciding, Judging, Leg
  <1>25. CASE Salvage
    <2>1. tag = "validation" /\ Deciding /\ tag' = tag /\ pc' = "gate" /\ todo' = <<>>
      BY <1>4, <1>25, Standing DEF Salvage, At
    <2> QED
      BY <1>4, <2>1 DEF Route, Deciding, Leg
  <1>26. CASE GateFails
    <2>1. Deciding
      BY <1>4, <1>26, Standing DEF GateFails, At
    <2>2. obs # Gone
      BY <2>1, SeesLive, LoopNames DEF Deciding, Leg
    <2> QED
      BY <1>4, <1>26, <2>2, FailFalls DEF GateFails
  <1>27. CASE GatePasses
    <2>1. Deciding /\ pc' = "reasoned" /\ todo' = IF obs.sub = NoSub THEN <<>> ELSE <<CloseSub>>
      BY <1>4, <1>27, Standing DEF GatePasses, At, Goto
    <2>2. todo' = <<CloseSub>>
      BY <2>1 DEF Deciding, Leg, Sees, NoSub
    <2>3. Handing'
      BY <1>4, <2>1, <2>2 DEF Deciding, Handing, Leg
    <2> QED
      BY <2>1, <2>3 DEF Route
  <1> QED
    BY <1>3, <1>5, <1>6, <1>7, <1>8, <1>9, <1>10, <1>11, <1>12, <1>13, <1>14, <1>15, <1>16, <1>17, <1>18,
       <1>19, <1>20, <1>21, <1>22, <1>23, <1>24, <1>25, <1>26, <1>27 DEF Next

LEMMA RouteInit == Init => Route
  BY DEF Init, Initial, Route, Leg, Sees

(* No stage ever asks for a move that the membrane denies, whatever path   *)
(* of repairs, halts and early exits led to it (runner.OUTER_SEQUENCE      *)
(* under fsm.decide): GovernanceDenied is never how a cycle ends.          *)
THEOREM MovesAllowed == Spec => []NeverDenied
  <1>1. CycleIInv /\ Route => NeverDenied
    BY GovernRoute DEF CycleIInv, NeverDenied
  <1>2. Init => CycleIInv /\ Route
    BY CycleInitInv, RouteInit
  <1>3. CycleIInv /\ Route /\ [Next]_vars => (CycleIInv /\ Route)'
    BY CycleStepInv, RouteStep
  <1> QED
    BY <1>1, <1>2, <1>3, PTL DEF Spec

=============================================================================
