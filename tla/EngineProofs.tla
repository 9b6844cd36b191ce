---------------------------- MODULE EngineProofs ----------------------------
(***************************************************************************)
(* Of the engine's parts, for all values of their constants: the end of a  *)
(* cycle (OutputStage), its failure node (FailureNode), the price-impact   *)
(* fits and the evidence they are recorded as (ImpactHistory), the forward *)
(* answers (ForwardForecast), the replay they rest on (ForwardTape), the   *)
(* answer a cycle may give (AnswerGate) and the agent's memory             *)
(* (EpisodicMemory).                                                       *)
(***************************************************************************)
EXTENDS OutputStage, FailureNode, ForwardTape, ForwardForecast, ImpactHistory,
        AnswerGate, EpisodicMemory, FiniteSetTheorems, SequenceTheorems, WellFoundedInduction, TLAPS

-----------------------------------------------------------------------------
(* The end of a cycle.                                                     *)

OutTypeOK ==
    /\ step \in [OutCycles -> Steps] /\ durable \in [OutCycles -> BOOLEAN]
    /\ authored \in [OutCycles -> BOOLEAN]
    /\ sent \in [OutCycles -> {"none", "delivered", "failed"}]
    /\ ending \in [OutCycles -> Endings]
    /\ errors \in [OutCycles -> SUBSET {"no_store", "insert", "projection", "receipt", "update"}]
    /\ rows \in [OutCycles -> Endings \cup {"absent"}]
    /\ latest \in [by : OutCycles \cup {Nobody}, ending : Endings]

(* What a cycle's terminal is at each of its steps.                        *)
EndingAt(c) ==
    /\ step[c] = "running" => ending[c] = "none"
    /\ step[c] \in {"composed", "delivered", "inserted", "recorded"} => ending[c] = "pending_settlement"
    /\ step[c] \in {"degraded", "placed"} =>
         ending[c] \in {"budget_exhausted", "validation_failed", "infra_failed"}
    /\ step[c] \in {"settling", "updated"} => ending[c] \in {"settled", "delivery_failed"}

(* An answer is delivered before it is inserted, and settled only when it  *)
(* was.                                                                    *)
SentAt(c) ==
    /\ step[c] \in {"delivered", "inserted", "recorded"} /\ authored[c] => sent[c] # "none"
    /\ ending[c] = "settled" => sent[c] # "failed" /\ (authored[c] => sent[c] = "delivered")

(* The row is that of the terminal, or of the one before it; a final row   *)
(* is the last thing written to it.                                        *)
RowAt(c) ==
    /\ rows[c] \in {"settled", "delivery_failed"} => ending[c] = rows[c]
    /\ step[c] \in {"inserted", "placed"} /\ durable[c] => rows[c] # "absent"
    /\ step[c] = "updated" => \/ rows[c] = ending[c]
                              \/ ~durable[c] /\ errors[c] # {}

(* The projection follows the row.                                         *)
LatestAt(c) ==
    latest.by = c /\ durable[c] =>
        /\ rows[c] # "absent"
        /\ latest.ending \in {"settled", "delivery_failed"} => rows[c] = latest.ending

(* The inductive invariant.                                                *)
OutIInv ==
    /\ OutTypeOK
    /\ \A c \in OutCycles : EndingAt(c) /\ SentAt(c) /\ RowAt(c) /\ LatestAt(c)
    /\ RowsHonest

LEMMA OutInitInv == OutInit => OutIInv
  BY NobodyAssumption
  DEF OutInit, OutIInv, OutTypeOK, EndingAt, SentAt, RowAt, LatestAt, RowsHonest, Steps, Endings

(* A step of one cycle leaves what is recorded of the others alone.        *)
LEMMA OthersAlone ==
    ASSUME OutIInv, NEW c \in OutCycles, NEW d \in OutCycles, d # c,
           step'[d] = step[d], durable' = durable, authored'[d] = authored[d], sent'[d] = sent[d],
           ending'[d] = ending[d], errors'[d] = errors[d], rows'[d] = rows[d],
           latest' = latest \/ latest'.by = c
    PROVE  /\ EndingAt(d)' /\ SentAt(d)' /\ RowAt(d)' /\ LatestAt(d)'
           /\ step'[d] = "closed" /\ errors'[d] = {} /\ ending'[d] \in {"settled", "delivery_failed"} =>
                 rows'[d] = ending'[d]
  BY DEF OutIInv, EndingAt, SentAt, RowAt, LatestAt, RowsHonest

(* A step of a cycle is judged by what it does to that cycle.              *)
Own(c) ==
    /\ EndingAt(c) /\ SentAt(c) /\ RowAt(c) /\ LatestAt(c)
    /\ step[c] = "closed" /\ errors[c] = {} /\ ending[c] \in {"settled", "delivery_failed"} =>
         rows[c] = ending[c]

LEMMA OwnEnough ==
    ASSUME OutIInv, NEW c \in OutCycles, OutTypeOK', Own(c)', durable' = durable,
           \A d \in OutCycles \ {c} :
               /\ step'[d] = step[d] /\ authored'[d] = authored[d] /\ sent'[d] = sent[d]
               /\ ending'[d] = ending[d] /\ errors'[d] = errors[d] /\ rows'[d] = rows[d],
           latest' = latest \/ latest'.by = c
    PROVE  OutIInv'
  <1>1. ASSUME NEW d \in OutCycles
        PROVE  /\ EndingAt(d)' /\ SentAt(d)' /\ RowAt(d)' /\ LatestAt(d)'
               /\ step'[d] = "closed" /\ errors'[d] = {} /\ ending'[d] \in {"settled", "delivery_failed"} =>
                     rows'[d] = ending'[d]
    <2>1. CASE d = c
      BY <2>1 DEF Own
    <2>2. CASE d # c
      BY <2>2, OthersAlone
    <2> QED
      BY <2>1, <2>2
  <1> QED
    BY <1>1 DEF OutIInv, RowsHonest

LEMMA OutStepInv == OutIInv /\ [OutNext]_outVars => OutIInv'
  <1> SUFFICES ASSUME OutIInv, [OutNext]_outVars PROVE OutIInv'
    OBVIOUS
  <1>1. CASE UNCHANGED outVars
    BY <1>1 DEF outVars, OutIInv, OutTypeOK, EndingAt, SentAt, RowAt, LatestAt, RowsHonest
  <1>2. ASSUME NEW c \in OutCycles,
               \/ Fail(c) \/ ComposeAnswer(c) \/ ComposeSpent(c) \/ Deliver(c) \/ Insert(c)
               \/ Project(c) \/ Settle(c) \/ Update(c) \/ Refresh(c) \/ Die(c)
        PROVE  OutIInv'
    <2>0. OutTypeOK /\ Own(c) /\ c # Nobody
      BY NobodyAssumption DEF OutIInv, Own, RowsHonest
    <2> DEFINE Rest == /\ OutTypeOK' /\ durable' = durable
                       /\ \A d \in OutCycles \ {c} :
                            /\ step'[d] = step[d] /\ authored'[d] = authored[d] /\ sent'[d] = sent[d]
                            /\ ending'[d] = ending[d] /\ errors'[d] = errors[d] /\ rows'[d] = rows[d]
                       /\ latest' = latest \/ latest'.by = c
    <2>1. CASE Fail(c) \/ ComposeSpent(c)
      <3>1. Rest
        BY <2>0, <2>1 DEF Fail, ComposeSpent, Moves, Ends, OutTypeOK, Steps, Endings
      <3>2. Own(c)'
        BY <2>0, <2>1 DEF Fail, ComposeSpent, Moves, Ends, OutTypeOK, Own, EndingAt, SentAt, RowAt, LatestAt
      <3> QED
        BY <3>1, <3>2, OwnEnough
    <2>2. CASE ComposeAnswer(c)
      <3>1. Rest
        BY <2>0, <2>2 DEF ComposeAnswer, Moves, Ends, OutTypeOK, Steps, Endings
      <3>2. Own(c)'
        BY <2>0, <2>2 DEF ComposeAnswer, Moves, Ends, OutTypeOK, Own, EndingAt, SentAt, RowAt, LatestAt
      <3> QED
        BY <3>1, <3>2, OwnEnough
    <2>3. CASE Deliver(c)
      <3>1. PICK result \in IF authored[c] THEN {"delivered", "failed"} ELSE {"none"} :
               sent' = [sent EXCEPT ![c] = result]
        BY <2>3 DEF Deliver
      <3>2. Rest
        BY <2>0, <2>3, <3>1 DEF Deliver, Moves, OutTypeOK, Steps
      <3>3. Own(c)'
        BY <2>0, <2>3, <3>1 DEF Deliver, Moves, OutTypeOK, Own, EndingAt, SentAt, RowAt, LatestAt
      <3> QED
        BY <3>2, <3>3, OwnEnough
    <2>4. CASE Insert(c)
      <3>1. Rest
        BY <2>0, <2>4 DEF Insert, Inserts, Moves, Writes, Surfaces, OutTypeOK, Steps, Endings
      <3>2. Own(c)'
        BY <2>0, <2>4 DEF Insert, Inserts, Moves, Writes, Surfaces, OutTypeOK, Endings,
           Own, EndingAt, SentAt, RowAt, LatestAt
      <3> QED
        BY <3>1, <3>2, OwnEnough
    <2>5. CASE Project(c)
      <3>1. Rest
        BY <2>0, <2>5 DEF Project, Moves, Shows, Surfaces, OutTypeOK, Steps
      <3>2. Own(c)'
        BY <2>0, <2>5 DEF Project, Moves, Shows, Surfaces, OutTypeOK,
           Own, EndingAt, SentAt, RowAt, LatestAt
      <3> QED
        BY <3>1, <3>2, OwnEnough
    <2>6. CASE Settle(c)
      <3>1. Rest
        BY <2>0, <2>6 DEF Settle, Moves, Ends, OutTypeOK, Steps, Endings
      <3>2. Own(c)'
        BY <2>0, <2>6 DEF Settle, Moves, Ends, OutTypeOK, Own, EndingAt, SentAt, RowAt, LatestAt
      <3> QED
        BY <3>1, <3>2, OwnEnough
    <2>7. CASE Update(c)
      <3>1. Rest
        BY <2>0, <2>7 DEF Update, Moves, Writes, Surfaces, OutTypeOK, Steps, Endings
      <3>2. /\ step[c] = "settling" /\ ending[c] \in {"settled", "delivery_failed"}
            /\ sent'[c] = sent[c] /\ authored'[c] = authored[c] /\ ending'[c] = ending[c]
            /\ durable' = durable /\ latest' = latest
            /\ rows'[c] \in {rows[c], ending[c]} /\ (rows[c] # "absent" => rows'[c] # "absent")
        BY <2>0, <2>7 DEF Update, Moves, Writes, OutTypeOK, Own, EndingAt
      <3>3. ASSUME step'[c] = "updated" PROVE Own(c)'
        <4>1. rows'[c] = ending[c] \/ (~durable[c] /\ errors'[c] # {})
          <5>1. durable[c] => rows'[c] = ending[c]
            BY <2>0, <2>7, <3>3 DEF Update, Moves, Writes, OutTypeOK
          <5>2. ~durable[c] => "no_store" \in errors'[c]
            BY <2>0, <2>7, <3>3 DEF Update, Surfaces, OutTypeOK
          <5> QED
            BY <2>0, <5>1, <5>2 DEF OutTypeOK
        <4> QED
          BY <2>0, <3>2, <3>3, <4>1 DEF Own, EndingAt, SentAt, RowAt, LatestAt
      <3>4. ASSUME step'[c] = "closed" PROVE Own(c)'
        <4>1. errors'[c] # {}
          BY <2>0, <2>7, <3>4 DEF Update, Moves, Surfaces, OutTypeOK
        <4> QED
          BY <2>0, <3>2, <3>4, <4>1 DEF Own, EndingAt, SentAt, RowAt, LatestAt
      <3>5. step'[c] \in {"updated", "closed"}
        BY <2>0, <2>7 DEF Update, Moves, OutTypeOK
      <3> QED
        BY <3>1, <3>3, <3>4, <3>5, OwnEnough
    <2>8. CASE Refresh(c)
      <3>1. Rest
        BY <2>0, <2>8 DEF Refresh, Moves, Shows, OutTypeOK, Steps
      <3>2. Own(c)'
        BY <2>0, <2>8 DEF Refresh, Moves, Shows, OutTypeOK, Own, EndingAt, SentAt, RowAt, LatestAt
      <3> QED
        BY <3>1, <3>2, OwnEnough
    <2>9. CASE Die(c)
      <3>1. Rest
        BY <2>0, <2>9 DEF Die, OutTypeOK, Steps
      <3>2. Own(c)'
        BY <2>0, <2>9 DEF Die, OutTypeOK, Own, EndingAt, SentAt, RowAt, LatestAt
      <3> QED
        BY <3>1, <3>2, OwnEnough
    <2> QED
      BY <1>2, <2>1, <2>2, <2>3, <2>4, <2>5, <2>6, <2>7, <2>8, <2>9
  <1> QED
    BY <1>1, <1>2 DEF OutNext

(* The inductive invariant holds throughout.                               *)
THEOREM OutInvariance == OutSpec => []OutIInv
  BY OutInitInv, OutStepInv, PTL DEF OutSpec

(* A settled row is of an answer that did not fail to reach its surface,   *)
(* and what inference.latest shows of a cycle with a durable store is its  *)
(* row, for any number of overlapping cycles (output.py from delivery to   *)
(* finalize_output).                                                       *)
THEOREM RowsBeforeProjection == OutSpec => []RecordFirst
  <1>1. OutIInv => RecordFirst
    BY DEF OutIInv, OutTypeOK, SentAt, RowAt, LatestAt, RecordFirst
  <1> QED
    BY <1>1, OutInvariance, PTL

(* A cycle that closes with an answer and without an error left its        *)
(* terminal in its row (run_record_errors_of).                             *)
THEOREM RowsTold == OutSpec => []RowsHonest
  <1>1. OutIInv => RowsHonest
    BY DEF OutIInv
  <1> QED
    BY <1>1, OutInvariance, PTL
-----------------------------------------------------------------------------
(* The failure node.                                                       *)

NarrationKinds == {"narration_failed", "narration_stalled_no_bytes", "narration_stalled_thinking"}

NodeTypeOK ==
    /\ doing \in {"idle", "streaming", "failed", "heard", "mirroring", "ended"}
    /\ stream \in [elapsed : Nat, beat : Nat, shape : BOOLEAN, formed : BOOLEAN, again : BOOLEAN]
    /\ spent \in [Workers -> Nat] /\ narrations \in Nat /\ calls \in Nat

(* What recovers or escalates is a failure of a narration; the mirror has  *)
(* its own way to it.                                                      *)
FailedNarration == doing = "failed" => failure \in NarrationKinds

(* A stream still read is short of the cap: RecoveryBounded alone would    *)
(* let another gap be added to one that is past it.                        *)
StreamShort == doing = "streaming" => stream.elapsed < Cap

(* The inductive invariant.                                                *)
NodeIInv ==
    /\ NodeTypeOK /\ FailedNarration /\ StreamShort
    /\ stream.elapsed < Cap + Gap
    /\ spent["narration"] = calls - narrations /\ spent["narration"] <= 1

LEMMA NodeInitInv == NodeInit => NodeIInv
  BY TicksAssumption
  DEF NodeInit, NodeIInv, NodeTypeOK, FailedNarration, StreamShort, Fresh, Workers

(* An exception ends the cycle or leaves a failure the substrate knows.    *)
LEMMA ThrowsWhat ==
    ASSUME NEW kind \in NarrationKinds, NEW recoverable \in BOOLEAN, Throws(kind, recoverable)
    PROVE  doing' \in {"failed", "ended"} /\ FailedNarration'
  BY DEF Throws, EndWith, FailedNarration, NarrationKinds

(* A worker that may still run has a retry left.                           *)
LEMMA RetryLeft ==
    ASSUME NodeIInv, doing = "failed", ~Escalates(failure)
    PROVE  WorkerFor(failure) = "narration" /\ spent["narration"] = 0
  <1>1. WorkerFor(failure) = "narration"
    BY DEF NodeIInv, FailedNarration, NarrationKinds, WorkerFor
  <1>2. spent["narration"] \in Nat /\ spent["narration"] < 1
    BY <1>1 DEF Escalates, CanRetry, MaxRetries, NodeIInv, NodeTypeOK, Workers
  <1> QED
    BY <1>1, <1>2

LEMMA NodeStepInv == NodeIInv /\ [NodeNext]_nodeVars => NodeIInv'
  <1> SUFFICES ASSUME NodeIInv, [NodeNext]_nodeVars PROVE NodeIInv'
    OBVIOUS
  <1> USE TicksAssumption
  <1>1. CASE Ask
    <2>1. stream' = Fresh /\ doing' = "streaming" /\ spent' = spent
          /\ narrations' = narrations + 1 /\ calls' = calls + 1
      BY <1>1 DEF Ask
    <2> QED
      BY <2>1 DEF NodeIInv, NodeTypeOK, FailedNarration, StreamShort, Fresh, Workers
  <1>2. CASE Chunk
    <2>1. PICK wait \in 0..(Gap - 1), shaped \in {stream.shape, TRUE}, due \in BOOLEAN :
             stream' = Arrive(wait, shaped, due)
      BY <1>2 DEF Chunk
    <2>2. /\ stream' \in [elapsed : Nat, beat : Nat, shape : BOOLEAN, formed : BOOLEAN, again : BOOLEAN]
          /\ stream'.elapsed = stream.elapsed + wait
      <3>1. /\ stream.elapsed \in Nat /\ stream.beat \in Nat /\ stream.shape \in BOOLEAN
            /\ stream.formed \in BOOLEAN /\ stream.again \in BOOLEAN /\ Gap \in Nat
        BY DEF NodeIInv, NodeTypeOK
      <3> DEFINE seen == stream.elapsed + wait
                 beats == due \/ seen - stream.beat >= BeatEvery
      <3>2. seen \in Nat
        BY <3>1
      <3>3. (IF beats THEN seen ELSE stream.beat) \in Nat
        BY <3>1, <3>2
      <3>4. shaped \in BOOLEAN /\ (stream.formed \/ (beats /\ shaped)) \in BOOLEAN
        BY <3>1, Zenon
      <3>5. seen \in Nat /\ shaped \in BOOLEAN /\ (IF beats THEN seen ELSE stream.beat) \in Nat
            /\ (stream.formed \/ (beats /\ shaped)) \in BOOLEAN
        BY <3>2, <3>3, <3>4
      <3>6. stream' = [elapsed |-> seen, beat |-> IF beats THEN seen ELSE stream.beat, shape |-> shaped,
                       formed |-> stream.formed \/ (beats /\ shaped), again |-> stream.again]
        BY <2>1 DEF Arrive
      <3> HIDE DEF seen, beats
      <3>7. stream'.elapsed = seen
            /\ stream' \in [elapsed : Nat, beat : Nat, shape : BOOLEAN, formed : BOOLEAN, again : BOOLEAN]
        BY <3>1, <3>5, <3>6
      <3> QED
        BY <3>7 DEF seen
    <2>3. doing = "streaming" /\ stream.elapsed \in Nat /\ stream.elapsed < Cap
      BY <1>2 DEF Chunk, NodeIInv, NodeTypeOK, StreamShort
    <2>4. stream'.elapsed < Cap + Gap
      BY <2>2, <2>3
    <2>5. CASE Raises(stream') = "none"
      <3>1. ~ Stalled(stream') /\ ~ Expired(stream')
        BY <2>5 DEF Raises
      <3>2. stream'.elapsed < Cap
        BY <2>2, <3>1 DEF Expired
      <3> QED
        BY <1>2, <2>2, <2>4, <2>5, <3>2 DEF Chunk, NodeIInv, NodeTypeOK, FailedNarration, StreamShort
    <2>6. CASE Raises(stream') # "none"
      <3>1. Raises(stream') \in NarrationKinds
        BY <2>6 DEF Raises, NarrationKinds
      <3>2. doing' \in {"failed", "ended"} /\ FailedNarration'
        BY <1>2, <2>6, <3>1, ThrowsWhat DEF Chunk
      <3> QED
        BY <1>2, <2>2, <2>4, <3>2 DEF Chunk, NodeIInv, NodeTypeOK, StreamShort
    <2> QED
      BY <2>5, <2>6
  <1>3. CASE Silence
    <2>1. doing' \in {"failed", "ended"} /\ FailedNarration'
      BY <1>3, ThrowsWhat DEF Silence, NarrationKinds
    <2>2. stream.elapsed \in Nat /\ stream.elapsed < Cap
      BY <1>3 DEF Silence, NodeIInv, NodeTypeOK, StreamShort
    <2>3. /\ stream' \in [elapsed : Nat, beat : Nat, shape : BOOLEAN, formed : BOOLEAN, again : BOOLEAN]
          /\ stream'.elapsed = stream.elapsed + Gap
      BY <1>3 DEF Silence, NodeIInv, NodeTypeOK
    <2> QED
      BY <1>3, <2>1, <2>2, <2>3 DEF Silence, NodeIInv, NodeTypeOK, StreamShort
  <1>4. CASE Broken
    <2>1. doing' \in {"failed", "ended"} /\ FailedNarration'
      BY <1>4, ThrowsWhat DEF Broken, NarrationKinds
    <2> QED
      BY <1>4, <2>1 DEF Broken, NodeIInv, NodeTypeOK, StreamShort
  <1>5. CASE Complete \/ CompleteUnparsed
    BY <1>5 DEF Complete, CompleteUnparsed, EndWith, NodeIInv, NodeTypeOK, FailedNarration, StreamShort
  <1>6. CASE Recover
    <2>1. WorkerFor(failure) = "narration" /\ spent["narration"] = 0
      BY <1>6, RetryLeft DEF Recover
    <2>2. /\ stream' = [Fresh EXCEPT !.again = TRUE] /\ doing' = "streaming"
          /\ spent' = [spent EXCEPT !["narration"] = @ + 1]
          /\ narrations' = narrations /\ calls' = calls + 1
      BY <1>6, <2>1 DEF Recover
    <2> QED
      <3>1. /\ stream' \in [elapsed : Nat, beat : Nat, shape : BOOLEAN, formed : BOOLEAN, again : BOOLEAN]
            /\ stream'.elapsed = 0
        BY <2>2 DEF Fresh
      <3>2. spent' \in [Workers -> Nat] /\ spent'["narration"] = 1
        BY <2>1, <2>2 DEF NodeIInv, NodeTypeOK, Workers
      <3>3. narrations \in Nat /\ calls \in Nat /\ calls = narrations
        BY <2>1 DEF NodeIInv, NodeTypeOK
      <3> QED
        BY <2>2, <3>1, <3>2, <3>3 DEF NodeIInv, NodeTypeOK, FailedNarration, StreamShort
  <1>7. CASE Escalate
    BY <1>7 DEF Escalate, EndWith, NodeIInv, NodeTypeOK, FailedNarration, StreamShort
  <1>8. CASE Dispatch
    <2>1. doing' \in {"idle", "mirroring"} /\ UNCHANGED <<stream, spent, narrations, calls>>
      BY <1>8 DEF Dispatch
    <2> QED
      BY <2>1 DEF NodeIInv, NodeTypeOK, FailedNarration, StreamShort
  <1>9. CASE Mirror
    BY <1>9 DEF Mirror, NodeIInv, NodeTypeOK, FailedNarration, StreamShort
  <1>10. CASE Close
    BY <1>10 DEF Close, NodeIInv, NodeTypeOK, FailedNarration, StreamShort
  <1>11. CASE UNCHANGED nodeVars
    BY <1>11 DEF nodeVars, NodeIInv, NodeTypeOK, FailedNarration, StreamShort
  <1> QED
    BY <1>1, <1>2, <1>3, <1>4, <1>5, <1>6, <1>7, <1>8, <1>9, <1>10, <1>11 DEF NodeNext

(* The inductive invariant holds throughout.                               *)
THEOREM NodeInvariance == NodeSpec => []NodeIInv
  BY NodeInitInv, NodeStepInv, PTL DEF NodeSpec

(* However the streams stall, break or trickle, a call lasts less than its *)
(* cap and one gap, and a cycle takes one call per narration and at most   *)
(* one more for the retry it has (engine/llm.py, failure_substrate).       *)
THEOREM RecoveriesBounded == NodeSpec => []RecoveryBounded
  <1>1. NodeIInv => RecoveryBounded
    BY DEF NodeIInv, NodeTypeOK, RecoveryBounded, MaxRetries, Workers
  <1> QED
    BY <1>1, NodeInvariance, PTL

(* A tool that the mirror's report names has a result in the round         *)
(* (ToolMirrorWorker).                                                     *)
THEOREM MirrorsReported == NodeSpec => MirrorReported
  <1>1. [NodeNext]_nodeVars => [report' # report => report'.mirrored \subseteq round']_nodeVars
    <2> SUFFICES ASSUME NodeNext, report' # report PROVE report'.mirrored \subseteq round'
      BY DEF nodeVars
    <2>1. CASE Recover \/ Escalate
      BY <2>1 DEF Recover, Escalate, Reports
    <2>2. CASE Mirror
      BY <2>2 DEF Mirror, Mirrored, Reports
    <2> QED
      BY <2>1, <2>2 DEF NodeNext, Ask, Chunk, Silence, Broken, Complete, CompleteUnparsed, Dispatch, Close
  <1> QED
    BY <1>1, PTL DEF NodeSpec, MirrorReported
-----------------------------------------------------------------------------
(* The replay of the tape.                                                 *)

Seen == live \cup durableTape \cup tape

TapeTypeOK ==
    /\ now \in Nat /\ seenTo \in Nat /\ capture \in {"running", "blind", "down"}
    /\ Seen \subseteq Nat
    /\ outages \subseteq Nat \X Nat

(* What was lost in an outage is nowhere: not in the stream, not in the    *)
(* table, not on a tape that was read before, during or after it.          *)
LossIsLoss ==
    /\ seenTo <= now
    /\ \A e \in Seen : e <= now /\ (capture # "running" => e <= seenTo)
    /\ \A o \in outages : o[2] <= now /\ \A e \in Seen : e <= o[1] \/ e > o[2]

(* The inductive invariant.                                                *)
TapeIInv == TapeTypeOK /\ LossIsLoss

(* Every nonempty set of natural numbers has a least element: what Min of  *)
(* FiniteSetsExt chooses.                                                  *)
Below == {p \in Nat \X Nat : p[1] < p[2]}
LEMMA LeastNat ==
    ASSUME NEW T, T \subseteq Nat, T # {}
    PROVE  \E x \in T : \A y \in T : x <= y
  <1>1. Below = OpToRel(<, Nat)
    BY DEF OpToRel, Below
  <1>2. IsWellFoundedOn(Below, Nat)
    BY <1>1, NatLessThanWellFounded, Zenon
  <1>3. \E x \in T : \A y \in T : ~(<<y, x>> \in Below)
    BY ONLY <1>2, WFMin, T \subseteq Nat, T # {}, Zenon
  <1>4. PICK x \in T : \A y \in T : ~(<<y, x>> \in Below)
    BY ONLY <1>3
  <1>5. \A y \in T : x \in Nat /\ y \in Nat /\ ~(y < x)
    BY ONLY <1>4, T \subseteq Nat DEF Below
  <1>6. \A y \in T : x <= y
    BY ONLY <1>5
  <1> QED
    BY ONLY <1>4, <1>6

LEMMA MinIsLeast ==
    ASSUME NEW T, T \subseteq Nat, T # {}
    PROVE  Min(T) \in T /\ \A y \in T : Min(T) <= y
  BY ONLY LeastNat, T \subseteq Nat, T # {} DEF Min

(* Between two events of the window, one up to x and one after it, lie two *)
(* neighbours.                                                             *)
LEMMA Neighbours ==
    ASSUME NEW W, W \subseteq Nat, NEW x \in Nat,
           NEW a \in W, a <= x, NEW b \in W, b > x
    PROVE  \E p \in W, q \in W : p <= x /\ q > x /\ a <= p /\ \A e \in W : e <= p \/ e >= q
  <1> DEFINE Above == {e \in W : e > x}
             Back == {n \in Nat : x - n \in W}
  <1>1. b \in Above /\ Above \subseteq Nat
    OBVIOUS
  <1>2. PICK q \in Above : \A e \in Above : q <= e
    BY <1>1, LeastNat
  <1>3. a \in Nat /\ x - a \in Nat /\ x - (x - a) = a
    BY a \in W, W \subseteq Nat, a <= x
  <1>4. x - a \in Back
    BY <1>3
  <1>5. PICK n \in Back : \A m \in Back : n <= m
    BY <1>4, LeastNat
  <1>6. x - n \in W /\ n \in Nat /\ x - n <= x /\ a <= x - n
    BY <1>3, <1>4, <1>5
  <1>7. ASSUME NEW e \in W PROVE e <= x - n \/ e >= q
    <2>1. CASE e > x
      BY <1>2, <2>1
    <2>2. CASE e <= x
      <3>1. e \in Nat /\ x - e \in Nat /\ x - (x - e) = e
        BY <2>2
      <3>2. x - e \in Back
        BY <3>1
      <3>3. n <= x - e
        BY <1>5, <3>2
      <3> QED
        BY <1>6, <3>1, <3>3
    <2>3. e \in Nat
      OBVIOUS
    <2> QED
      BY <2>1, <2>2, <2>3
  <1>8. q \in W /\ q > x
    BY <1>2
  <1> QED
    BY <1>6, <1>7, <1>8

LEMMA TapeInitInv == TapeInit => TapeIInv
  BY DEF TapeInit, TapeIInv, TapeTypeOK, LossIsLoss, Seen

LEMMA TapeStepInv == TapeIInv /\ [TapeNext]_tapeVars => TapeIInv'
  <1> SUFFICES ASSUME TapeIInv, [TapeNext]_tapeVars PROVE TapeIInv'
    OBVIOUS
  <1> USE DEF TapeIInv
  (* A step that shows no new event and ends no outage.                    *)
  <1>0. ASSUME Seen' \subseteq Seen, now' \in Nat, now <= now', seenTo' \in Nat, seenTo' <= now',
               capture' \in {"running", "blind", "down"}, outages' = outages,
               capture' # "running" => \A e \in Seen : e <= seenTo'
        PROVE  TapeIInv'
    BY <1>0 DEF TapeTypeOK, LossIsLoss
  <1>1. CASE Quote
    <2>1. now' = now + 1 /\ now \in Nat /\ capture = "running" /\ UNCHANGED <<capture, seenTo, outages, tape>>
      BY <1>1 DEF Quote, replayVars, TapeTypeOK
    <2>2. live' \subseteq live \cup {now + 1} /\ durableTape' \subseteq durableTape \cup {now + 1}
      BY <1>1 DEF Quote, Trimmed, Inserted
    <2>3. Seen' \subseteq Seen \cup {now + 1}
      BY <2>1, <2>2 DEF Seen
    <2> QED
      BY <2>1, <2>3 DEF TapeTypeOK, LossIsLoss
  <1>2. CASE Pass
    <2>1. Seen' = Seen /\ now' = now + 1 /\ UNCHANGED <<capture, seenTo, outages>>
      BY <1>2 DEF Pass, replayVars, Seen
    <2> QED
      BY <1>0, <2>1 DEF TapeTypeOK, LossIsLoss
  <1>3. CASE LoseFrames \/ CaptureDies
    <2>1. /\ Seen' = Seen /\ UNCHANGED <<now, outages>> /\ capture' \in {"blind", "down"}
          /\ (capture = "running" /\ seenTo' = now) \/ (capture # "running" /\ seenTo' = seenTo)
      BY <1>3 DEF LoseFrames, CaptureDies, replayVars, Seen
    <2> QED
      BY <1>0, <2>1 DEF TapeTypeOK, LossIsLoss
  <1>4. CASE Notice
    <2>1. Seen' = Seen /\ UNCHANGED <<now, seenTo, outages>> /\ capture # "running" /\ capture' = "down"
      BY <1>4 DEF Notice, replayVars, Seen
    <2> QED
      BY <1>0, <2>1 DEF TapeTypeOK, LossIsLoss
  <1>5. CASE Reconnect
    <2>1. /\ Seen' = Seen /\ UNCHANGED <<now, seenTo>> /\ capture = "down" /\ capture' = "running"
          /\ outages' = outages \cup {<<seenTo, now>>}
      BY <1>5 DEF Reconnect, replayVars, Seen
    <2>2. \A e \in Seen : e <= seenTo
      BY <2>1 DEF LossIsLoss
    <2> QED
      BY <2>1, <2>2 DEF TapeTypeOK, LossIsLoss
  <1>6. CASE ReadLive \/ ReadDurable \/ ReadStatus
    <2>1. Seen' \subseteq Seen /\ UNCHANGED <<now, seenTo, capture, outages>>
      BY <1>6 DEF ReadLive, ReadDurable, ReadStatus, captureVars, Seen
    <2> QED
      BY <1>0, <2>1 DEF TapeTypeOK, LossIsLoss
  <1>7. CASE UNCHANGED tapeVars
    BY <1>7 DEF tapeVars, Seen, TapeTypeOK, LossIsLoss
  <1> QED
    BY <1>1, <1>2, <1>3, <1>4, <1>5, <1>6, <1>7 DEF TapeNext

(* The inductive invariant holds throughout.                               *)
THEOREM TapeInvariance == TapeSpec => []TapeIInv
  BY TapeInitInv, TapeStepInv, PTL DEF TapeSpec

(* Two neighbours in the window as far apart as MaxEventGap are a span     *)
(* that no label crosses.                                                  *)
LEMMA GapUncrossed ==
    ASSUME TapeIInv, NEW t, NEW h, Labelled(t, h), NEW p \in Windowed, NEW q \in Windowed,
           \A e \in Windowed : e <= p \/ e >= q, q - p >= MaxEventGap
    PROVE  ~(p < t + h /\ q > t)
  <1>1. <<p, q>> \in DegradedSpans
    BY DEF DegradedSpans, Discontinuities
  <1> QED
    BY <1>1 DEF Labelled, Crosses

LEMMA WindowedType == TapeIInv => Windowed \subseteq tape /\ Windowed \subseteq Nat
  BY DEF TapeIInv, TapeTypeOK, Seen, Windowed

(* No label is taken from a quote MaxEventGap or more after its target     *)
(* (fitting_route_c.py, build_forward_observations), for every tape.       *)
THEOREM LabelsAreNear == TapeSpec => []LabelsNear
  <1>1. TapeIInv => LabelsNear
    <2> SUFFICES ASSUME TapeIInv, NEW t \in Windowed, NEW h \in Horizons, Labelled(t, h),
                        ~(ForwardQuote(t, h) - (t + h) < MaxEventGap)
                 PROVE  FALSE
      BY DEF LabelsNear
    <2>1. /\ t \in Nat /\ h \in Nat /\ h > 0 /\ Windowed \subseteq Nat /\ MaxEventGap \in Nat
          /\ AtOrAfter(t + h) \subseteq Windowed /\ AtOrAfter(t + h) # {}
      BY WindowedType, TapeAssumption DEF AtOrAfter, Labelled
    <2>2. /\ ForwardQuote(t, h) \in AtOrAfter(t + h)
          /\ \A e \in AtOrAfter(t + h) : ForwardQuote(t, h) <= e
      BY <2>1, MinIsLeast DEF ForwardQuote
    <2>3. ForwardQuote(t, h) \in Windowed /\ ForwardQuote(t, h) \in Nat /\ ForwardQuote(t, h) >= t + h
      BY <2>1, <2>2 DEF AtOrAfter
    <2>4. PICK p \in Windowed, q \in Windowed :
             p <= t + h - 1 /\ q > t + h - 1 /\ t <= p /\ \A e \in Windowed : e <= p \/ e >= q
      <3>1. t + h - 1 \in Nat /\ t <= t + h - 1 /\ ForwardQuote(t, h) > t + h - 1
        BY <2>1, <2>3
      <3> QED
        BY <2>1, <2>3, <3>1, Neighbours
    <2>5. p \in Nat /\ q \in Nat /\ q >= t + h
      BY <2>1, <2>4
    <2>6. q >= ForwardQuote(t, h)
      BY <2>2, <2>5 DEF AtOrAfter
    <2>7. q - p >= MaxEventGap /\ p < t + h /\ q > t
      BY <2>1, <2>3, <2>4, <2>5, <2>6
    <2> QED
      BY <2>4, <2>7, GapUncrossed
  <1> QED
    BY <1>1, TapeInvariance, PTL

(* No label reaches across an outage of that length, noticed or not, and   *)
(* whatever of it was recorded (replay_adapter.py:152).                    *)
THEOREM OutagesNotBridged == TapeSpec => []OutageNeverBridged
  <1>1. TapeIInv => OutageNeverBridged
    <2> SUFFICES ASSUME TapeIInv, NEW o \in outages, o[2] - o[1] >= MaxEventGap,
                        NEW t \in Windowed, NEW h \in Horizons, Labelled(t, h),
                        t <= o[1], t + h > o[1]
                 PROVE  FALSE
      BY DEF OutageNeverBridged
    <2>1. /\ t \in Nat /\ h \in Nat /\ Windowed \subseteq Nat /\ MaxEventGap \in Nat
          /\ o[1] \in Nat /\ o[2] \in Nat
      BY WindowedType, TapeAssumption DEF TapeIInv, TapeTypeOK
    <2>2. \A e \in Windowed : e <= o[1] \/ e > o[2]
      BY WindowedType DEF TapeIInv, LossIsLoss, Seen
    <2>3. PICK b \in Windowed : b >= t + h
      BY DEF Labelled, AtOrAfter
    <2>4. PICK p \in Windowed, q \in Windowed :
             p <= o[1] /\ q > o[1] /\ t <= p /\ \A e \in Windowed : e <= p \/ e >= q
      <3>1. b > o[1]
        BY <2>1, <2>3
      <3> QED
        BY <2>1, <3>1, Neighbours
    <2>5. p \in Nat /\ q \in Nat /\ q > o[2]
      BY <2>1, <2>2, <2>4
    <2>6. q - p >= MaxEventGap /\ p < t + h /\ q > t
      BY <2>1, <2>4, <2>5
    <2> QED
      BY <2>4, <2>6, GapUncrossed
  <1> QED
    BY <1>1, TapeInvariance, PTL
-----------------------------------------------------------------------------
(* The price-impact fits.                                                  *)

(* What a tool answers, field by field.                                    *)
IsAnswer(d) ==
    d = [tool |-> d.tool, fit |-> d.fit, pg |-> d.pg, depth |-> d.depth, number |-> d.number,
         sums |-> d.sums]

(* The gate of a fit vouches for the intervals it was made on.             *)
GateHonest(fit) == fit.status \in {"provisional", "validated"} => fit.n >= MinIntervals /\ fit.varies

(* A tool that goes on from a fit has it in its answer, and no number yet. *)
GoesOn ==
    fitting # NoFit => IsAnswer(derived) /\ derived.fit = fitting /\ GateHonest(fitting) /\ ~derived.number

(* A command past its insert has its fit in the table.                     *)
CommandRecorded ==
    \A c \in Commands : command[c] # NoFit =>
        /\ command[c] = [stored |-> command[c].stored, fit |-> command[c].fit]
        /\ command[c].stored => command[c].fit \in evidenceRows

(* The inductive invariant.                                                *)
ImpactIInv ==
    /\ window \in [at : Nat, shape : Shapes]
    /\ command = [c \in Commands |-> command[c]]
    /\ GoesOn /\ CommandRecorded /\ NumbersEarned /\ ShownIsRecorded

LEMMA FitHonest ==
    ASSUME NEW w \in [at : Nat, shape : Shapes]
    PROVE  GateHonest(FitPriceImpact(w))
  <1>1. w.shape.n \in Nat /\ w.shape.varies \in BOOLEAN /\ MinIntervals \in Nat
    BY ImpactAssumption
  <1> QED
    BY <1>1 DEF GateHonest, FitPriceImpact, Observations

LEMMA ImpactInitInv == ImpactInit => ImpactIInv
  <1> SUFFICES ASSUME ImpactInit PROVE ImpactIInv
    OBVIOUS
  <1>1. window \in [at : Nat, shape : Shapes]
    BY DEF ImpactInit
  <1>2. command = [c \in Commands |-> command[c]] /\ CommandRecorded
    BY DEF ImpactInit, CommandRecorded
  <1> QED
    BY <1>1, <1>2 DEF ImpactInit, ImpactIInv, GoesOn, NumbersEarned, ShownIsRecorded

LEMMA ImpactStepInv == ImpactIInv /\ [ImpactNext]_impactVars => ImpactIInv'
  <1> SUFFICES ASSUME ImpactIInv, [ImpactNext]_impactVars PROVE ImpactIInv'
    OBVIOUS
  <1> USE ImpactAssumption
  <1> DEFINE Window == window \in [at : Nat, shape : Shapes]
             Evidence == command = [c \in Commands |-> command[c]]
                         /\ CommandRecorded /\ ShownIsRecorded
             Draws == GoesOn /\ NumbersEarned
  <1>0. Window /\ Evidence /\ Draws /\ (Window' /\ Evidence' /\ Draws' => ImpactIInv')
    BY DEF ImpactIInv
  <1>1. UNCHANGED evidenceVars => Evidence'
    BY <1>0 DEF evidenceVars, CommandRecorded, ShownIsRecorded
  <1>2. UNCHANGED <<fitting, derived>> => Draws'
    BY <1>0 DEF GoesOn, NumbersEarned, IsAnswer, GateHonest
  <1> HIDE DEF Evidence, Draws
  <1>3. CASE MoveWindow
    BY <1>0, <1>1, <1>2, <1>3 DEF MoveWindow, toolVars
  <1>4. CASE ToolFitBeta
    <2>1. PICK priors :
             /\ fitting' = FitPriceImpact(window)
             /\ derived' = [tool |-> "fit_beta", fit |-> fitting', pg |-> priors = PriorBlockFits,
                            depth |-> FitDepthScaling(Append(priors, fitting')), number |-> FALSE, sums |-> 0]
      BY <1>4 DEF ToolFitBeta
    <2>2. GateHonest(fitting')
      BY <1>0, <2>1, FitHonest
    <2>3. IsAnswer(derived') /\ derived'.fit = fitting' /\ ~derived'.number
      BY <2>1 DEF IsAnswer
    <2>4. Draws'
      BY <2>2, <2>3 DEF Draws, GoesOn, NumbersEarned, IsAnswer, GateHonest
    <2> QED
      BY <1>0, <1>1, <1>4, <2>4 DEF ToolFitBeta
  <1>5. CASE ToolDepthScaling
    <2>1. fitting' = NoFit /\ ~derived'.number
      BY <1>5 DEF ToolDepthScaling
    <2>2. Draws'
      BY <2>1 DEF Draws, GoesOn, NumbersEarned
    <2> QED
      BY <1>0, <1>1, <1>5, <2>2 DEF ToolDepthScaling
  <1>6. CASE PriceDelta
    <2>1. /\ fitting' = NoFit /\ derived' = [derived EXCEPT !.tool = "price_delta", !.number = DeltaNumber]
          /\ IsAnswer(derived) /\ derived.fit = fitting /\ GateHonest(fitting)
      BY <1>0, <1>6 DEF PriceDelta, Draws, GoesOn
    <2>2. derived'.tool = "price_delta" /\ derived'.number = DeltaNumber /\ derived'.fit = fitting
      BY <2>1 DEF IsAnswer
    <2>3. Draws'
      BY <2>1, <2>2 DEF Draws, GoesOn, NumbersEarned, DeltaNumber, PassedGate, GateHonest
    <2> QED
      BY <1>0, <1>1, <1>6, <2>3 DEF PriceDelta
  <1>7. CASE ScenarioEvaluate
    <2>1. PICK sums \in SumCounts, priced \in BOOLEAN :
             /\ fitting' = NoFit
             /\ derived' = [derived EXCEPT !.tool = "scenario", !.sums = sums,
                                           !.number = ScenarioNumber(sums, priced)]
             /\ IsAnswer(derived) /\ derived.fit = fitting /\ GateHonest(fitting)
      BY <1>0, <1>7 DEF ScenarioEvaluate, Draws, GoesOn
    <2>2. /\ derived'.number = ScenarioNumber(sums, priced) /\ derived'.fit = fitting
          /\ derived'.sums = sums
      BY <2>1 DEF IsAnswer
    <2>3. Draws'
      BY <2>1, <2>2 DEF Draws, GoesOn, NumbersEarned, ScenarioNumber, PassedGate, GateHonest
    <2> QED
      BY <1>0, <1>1, <1>7, <2>3 DEF ScenarioEvaluate
  <1>8. CASE FitReturned
    <2>1. Draws'
      BY <1>0, <1>8 DEF FitReturned, Draws, GoesOn, NumbersEarned
    <2> QED
      BY <1>0, <1>1, <1>8, <2>1 DEF FitReturned
  <1>9. CASE EndCycle
    <2>1. Draws'
      BY <1>9 DEF EndCycle, Draws, GoesOn, NumbersEarned
    <2> QED
      BY <1>0, <1>1, <1>9, <2>1 DEF EndCycle
  <1>10. ASSUME NEW c \in Commands, CommandFit(c) \/ CommandStore(c) \/ CommandShow(c)
         PROVE  ImpactIInv'
    <2>1. Window' /\ Draws'
      BY <1>0, <1>2, <1>10 DEF CommandFit, CommandStore, CommandShow, toolVars
    <2>2. CASE CommandFit(c)
      BY <1>0, <2>1, <2>2 DEF CommandFit, Evidence, CommandRecorded, ShownIsRecorded
    <2>3. CASE CommandStore(c)
      <3>1. /\ command[c] # NoFit /\ evidenceRows \subseteq evidenceRows' /\ shown' = shown
            /\ \/ /\ command' = [command EXCEPT ![c].stored = TRUE]
                  /\ command[c].fit \in evidenceRows'
               \/ command' = [command EXCEPT ![c] = NoFit]
        BY <2>3 DEF CommandStore
      <3>2. command[c] = [stored |-> command[c].stored, fit |-> command[c].fit]
        BY <1>0, <3>1 DEF Evidence, CommandRecorded
      <3>3. /\ command' = [d \in Commands |-> command'[d]]
            /\ \A d \in Commands \ {c} : command'[d] = command[d]
            /\ \/ command'[c] = [stored |-> TRUE, fit |-> command[c].fit] /\ command[c].fit \in evidenceRows'
               \/ command'[c] = NoFit
        BY <1>0, <3>1, <3>2 DEF Evidence
      <3>4. CommandRecorded'
        BY <1>0, <3>1, <3>3 DEF Evidence, CommandRecorded
      <3>5. ShownIsRecorded'
        BY <1>0, <3>1 DEF Evidence, ShownIsRecorded
      <3> QED
        BY <1>0, <2>1, <3>3, <3>4, <3>5 DEF Evidence
    <2>4. CASE CommandShow(c)
      BY <1>0, <2>1, <2>4 DEF CommandShow, Evidence, CommandRecorded, ShownIsRecorded
    <2> QED
      BY <1>10, <2>2, <2>3, <2>4
  <1>11. CASE UNCHANGED impactVars
    BY <1>0, <1>1, <1>2, <1>11 DEF impactVars, evidenceVars
  <1> QED
    BY <1>3, <1>4, <1>5, <1>6, <1>7, <1>8, <1>9, <1>10, <1>11 DEF ImpactNext

(* The inductive invariant holds throughout.                               *)
THEOREM ImpactInvariance == ImpactSpec => []ImpactIInv
  BY ImpactInitInv, ImpactStepInv, PTL DEF ImpactSpec

(* A derived price or a scenario never comes out of a fit that failed its  *)
(* gate or of a thin tape (derive_price_delta, evaluate_scenario), for     *)
(* every shape of a window and every threshold.                            *)
THEOREM DerivedNumbersEarned == ImpactSpec => []NumbersEarned
  <1>1. ImpactIInv => NumbersEarned
    BY DEF ImpactIInv
  <1> QED
    BY <1>1, ImpactInvariance, PTL

(* What micro.evidence shows is in the table, for any number of fit        *)
(* commands at work (postgres_store.py:215).                               *)
THEOREM EvidenceShownIsRecorded == ImpactSpec => []ShownIsRecorded
  <1>1. ImpactIInv => ShownIsRecorded
    BY DEF ImpactIInv
  <1> QED
    BY <1>1, ImpactInvariance, PTL

-----------------------------------------------------------------------------
(* The forward answers.                                                    *)

(* The rows an answer is made from are those of some window.               *)
RowsCounted == usable \in RowCounts /\ (asked # NoForecast => asked.pairs \in RowCounts /\ asked.regime \in Regimes)

(* The inductive invariant.                                                *)
ForecastIInv == RowsCounted /\ DistributionEarned /\ ExtrapolationMarked

LEMMA CutType == ASSUME NEW n \in Nat PROVE Cut(n) \in Nat \ {0}
  <1> DEFINE S == {1, (7 * n) \div 10}
  <1>1. (7 * n) \div 10 \in Nat
    OBVIOUS
  <1>2. \E x \in S : \A y \in S : x >= y
    BY <1>1
  <1>3. Max(S) \in S /\ \A y \in S : Max(S) >= y
    BY <1>2 DEF Max
  <1> QED
    BY <1>1, <1>3 DEF Cut

(* A forward fit and the report on it: what each verdict takes.            *)
LEMMA FitEarned ==
    ASSUME NEW n \in Nat, NEW f \in Outcomes, FitForward(n, f).validation = "validated"
    PROVE  /\ FitForward(n, f).skill = "good" /\ FitForward(n, f).trained = 1..Cut(n)
           /\ Cardinality(1..Cut(n)) >= MinObservations
  <1>1. Estimated(n, f) /\ Validation(n, f) = "validated"
    BY DEF FitForward
  <1>2. f.skill = "good" /\ ~(Cut(n) < MinObservations)
    BY <1>1 DEF Validation
  <1>3. f.trains
    BY <1>2 DEF Outcomes
  <1>4. Cut(n) \in Nat /\ Cut(n) >= MinObservations /\ Cardinality(1..Cut(n)) = Cut(n)
    <2>1. Cut(n) \in Nat /\ Cut(n) # 0
      BY CutType
    <2>2. Cardinality(1..Cut(n)) = IF 1 > Cut(n) THEN 0 ELSE Cut(n) - 1 + 1
      <3>1. 1 \in Int /\ Cut(n) \in Int
        BY <2>1
      <3> QED
        BY <3>1, FS_Interval, Zenon
    <2> QED
      BY <1>2, <2>1, <2>2, ForecastAssumption
  <1> QED
    BY <1>1, <1>2, <1>3, <1>4 DEF FitForward

LEMMA ReportEarned ==
    ASSUME NEW n \in Nat, NEW f \in Outcomes, Calibrate(FitForward(n, f), f).status = "passed"
    PROVE  /\ Cardinality(Calibrate(FitForward(n, f), f).scored) >= MinOosObservations
           /\ Calibrate(FitForward(n, f), f).scored \cap (1..Cut(n)) = {}
  <1> DEFINE held == (Cut(n) + 1)..n
  <1>1. FitForward(n, f).rows = n
    BY DEF FitForward
  <1>2. Calibrate(FitForward(n, f), f).scored = held /\ ~(Cardinality(held) < MinOosObservations)
    BY <1>1 DEF Calibrate
  <1>3. Cut(n) \in Nat
    BY CutType
  <1>4. Cardinality(held) \in Nat
    <2>1. Cardinality(held) = IF Cut(n) + 1 > n THEN 0 ELSE n - (Cut(n) + 1) + 1
      <3>1. Cut(n) + 1 \in Int /\ n \in Int
        BY <1>3
      <3> QED
        BY <3>1, FS_Interval, Zenon
    <2> QED
      BY <1>3, <2>1
  <1>5. held \cap (1..Cut(n)) = {}
    BY <1>3
  <1> QED
    BY <1>2, <1>4, <1>5, ForecastAssumption

(* A probability that is allowed was earned at a native horizon.           *)
LEMMA AllowedEarned ==
    ASSUME NEW regime \in {"native", "long"}, NEW n \in Nat, NEW f \in Outcomes,
           NEW fit, fit = FitForHorizon(regime, n, f),
           NEW cal, cal = Calibrate(FitForward(n, f), f), ProbabilityAllowed(fit, cal)
    PROVE  /\ regime = "native" /\ fit.skill = "good"
           /\ Cardinality(fit.trained) >= MinObservations
           /\ Cardinality(cal.scored) >= MinOosObservations
           /\ cal.scored \cap fit.trained = {}
  <1>1. regime = "native"
    BY DEF ProbabilityAllowed, FitForHorizon, Bridge, FitForward
  <1>2. fit = FitForward(n, f) /\ fit.validation = "validated" /\ cal.status = "passed"
    BY <1>1 DEF ProbabilityAllowed, FitForHorizon
  <1> QED
    BY <1>1, <1>2, FitEarned, ReportEarned

(* A bridged fit is provisional at best.                                   *)
LEMMA BridgedModest ==
    ASSUME NEW n, NEW f
    PROVE  /\ FitForHorizon("long", n, f).status \in {"provisional", "insufficient"}
           /\ FitForHorizon("long", n, f).bridged
  BY DEF FitForHorizon, Bridge, FitForward, Serves

LEMMA ForecastInitInv == ForecastInit => ForecastIInv
  BY DEF ForecastInit, ForecastIInv, RowsCounted, DistributionEarned, ExtrapolationMarked, Given

LEMMA ForecastStepInv == ForecastIInv /\ [ForecastNext]_forecastVars => ForecastIInv'
  <1> SUFFICES ASSUME ForecastIInv, [ForecastNext]_forecastVars PROVE ForecastIInv'
    OBVIOUS
  <1> USE ForecastAssumption
  <1>1. CASE Move \/ UNCHANGED forecastVars
    BY <1>1 DEF Move, forecastVars, ForecastIInv, RowsCounted, DistributionEarned, ExtrapolationMarked, Given
  <1>2. CASE Call
    BY <1>2 DEF Call, ForecastIInv, RowsCounted, DistributionEarned, ExtrapolationMarked, Given
  <1>3. CASE Unsupported
    BY <1>3 DEF Unsupported, ForecastIInv, RowsCounted, DistributionEarned, ExtrapolationMarked, Given
  (* What every answer leaves behind.                                      *)
  <1>4. ASSUME NEW fit, NEW cal, NEW out, Say(fit, cal, out), asked # NoForecast
        PROVE  /\ RowsCounted' /\ said'.tool = asked.tool /\ said'.regime = asked.regime
               /\ said'.fit = fit /\ said'.cal = cal /\ said'.out = out
               /\ asked.pairs \in Nat /\ usable \in Nat
    BY <1>4 DEF Say, ForecastIInv, RowsCounted
  <1>5. CASE AnswerFit
    <2>1. PICK f \in Outcomes :
             Say(FitForHorizon(asked.regime, asked.pairs, f),
                 Calibrate(FitForward(asked.pairs, f), f),
                 [Refused EXCEPT !.says = FitForHorizon(asked.regime, asked.pairs, f).status, !.mean = TRUE])
      BY <1>5 DEF AnswerFit, AnswerOnce
    <2>2. asked # NoForecast /\ asked.tool = "fit"
      BY <1>5 DEF AnswerFit, AnswerOnce
    <2>3. DistributionEarned'
      BY <1>4, <2>1, <2>2 DEF DistributionEarned
    <2>4. ExtrapolationMarked'
      <3> DEFINE fit == FitForHorizon(asked.regime, asked.pairs, f)
      <3>1. asked.regime = "long" => fit.status \in {"provisional", "insufficient"}
        BY BridgedModest
      <3>2. said'.regime = asked.regime
            /\ said'.out = [Refused EXCEPT !.says = fit.status, !.mean = TRUE]
        BY <1>4, <2>1, <2>2
      <3> HIDE DEF fit
      <3>3. said'.out.says = fit.status
        BY <3>2 DEF Refused
      <3> QED
        BY <3>1, <3>2, <3>3 DEF ExtrapolationMarked
    <2> QED
      BY <1>4, <2>1, <2>2, <2>3, <2>4 DEF ForecastIInv
  <1>6. ASSUME AnswerDistribution \/ AnswerForecast
        PROVE  ForecastIInv'
    <2>1. PICK f, out :
             /\ f \in Outcomes
             /\ Say(FitForHorizon(asked.regime, asked.pairs, f), Calibrate(FitForward(asked.pairs, f), f), out)
             /\ out.probability => ProbabilityAllowed(FitForHorizon(asked.regime, asked.pairs, f),
                                                      Calibrate(FitForward(asked.pairs, f), f))
      <3>1. ASSUME NEW fit, NEW cal, NEW f,
                   \/ PredictDistribution(fit, cal, f).probability
                   \/ AssembleForecast(fit, cal, f).probability
            PROVE  ProbabilityAllowed(fit, cal)
        BY <3>1 DEF PredictDistribution, AssembleForecast, Refused
      <3>2. CASE AnswerDistribution
        BY <3>1, <3>2 DEF AnswerDistribution, AnswerOnce
      <3>3. CASE AnswerForecast
        BY <3>1, <3>3 DEF AnswerForecast, AnswerOnce
      <3> QED
        BY <1>6, <3>2, <3>3
    <2>2. asked # NoForecast /\ asked.tool \in {"distribution", "forecast"} /\ asked.regime # "unsupported"
      BY <1>6 DEF AnswerDistribution, AnswerForecast, AnswerOnce
    <2>3. DistributionEarned'
      <3>1. asked.regime \in {"native", "long"}
        BY <2>2 DEF ForecastIInv, RowsCounted, Regimes
      <3> QED
        BY <1>4, <2>1, <2>2, <3>1, AllowedEarned DEF DistributionEarned
    <2>4. ExtrapolationMarked'
      BY <1>4, <2>1, <2>2 DEF ExtrapolationMarked
    <2> QED
      BY <1>4, <2>1, <2>2, <2>3, <2>4 DEF ForecastIInv
  <1>7. CASE AnswerScenario
    <2>1. PICK fit, cal, out : Say(fit, cal, out)
      BY <1>7 DEF AnswerScenario, AnswerOnce
    <2>2. asked # NoForecast /\ asked.tool = "scenario"
      BY <1>7 DEF AnswerScenario, AnswerOnce
    <2> QED
      BY <1>4, <2>1, <2>2 DEF ForecastIInv, DistributionEarned, ExtrapolationMarked
  <1>8. CASE AnswerHypothesis
    <2>1. PICK f \in Outcomes :
             Say(FitForHorizon(asked.regime, usable, f), NoForecast,
                 TestHypothesis(FitForHorizon(asked.regime, usable, f), asked.pairs))
      BY <1>8 DEF AnswerHypothesis, AnswerAfterRefit
    <2>2. asked # NoForecast /\ asked.tool = "hypothesis"
      BY <1>8 DEF AnswerHypothesis, AnswerAfterRefit
    <2>3. ExtrapolationMarked'
      <3> DEFINE fit == FitForHorizon(asked.regime, usable, f)
      <3>1. asked.regime = "long" => fit.status \in {"provisional", "insufficient"}
        BY BridgedModest
      <3>2. said'.regime = asked.regime /\ said'.out = TestHypothesis(fit, asked.pairs)
        BY <1>4, <2>1, <2>2
      <3>3. TestHypothesis(fit, asked.pairs).says \in {"refused", "insufficient", fit.status}
        BY DEF TestHypothesis, Refused
      <3> HIDE DEF fit
      <3> QED
        BY <3>1, <3>2, <3>3 DEF ExtrapolationMarked
    <2> QED
      BY <1>4, <2>1, <2>2, <2>3 DEF ForecastIInv, DistributionEarned
  <1>9. CASE AnswerDecay
    <2>1. PICK f \in Outcomes :
             Say(FitForHorizon(asked.regime, usable, f), NoForecast,
                 DecayReport(FitForHorizon(asked.regime, usable, f)))
      BY <1>9 DEF AnswerDecay, AnswerAfterRefit
    <2>2. asked # NoForecast /\ asked.tool = "decay"
      BY <1>9 DEF AnswerDecay, AnswerAfterRefit
    <2>3. ExtrapolationMarked'
      <3>1. asked.regime = "long" => FitForHorizon(asked.regime, usable, f).bridged
        BY BridgedModest
      <3>2. said'.regime = asked.regime /\ said'.out = DecayReport(FitForHorizon(asked.regime, usable, f))
        BY <1>4, <2>1, <2>2
      <3>3. asked.regime = "long" => said'.out.says = "null"
        BY <3>1, <3>2 DEF DecayReport
      <3> QED
        BY <3>2, <3>3 DEF ExtrapolationMarked
    <2> QED
      BY <1>4, <2>1, <2>2, <2>3 DEF ForecastIInv, DistributionEarned
  <1> QED
    BY <1>1, <1>2, <1>3, <1>5, <1>6, <1>7, <1>8, <1>9 DEF ForecastNext

(* The inductive invariant holds throughout.                               *)
THEOREM ForecastInvariance == ForecastSpec => []ForecastIInv
  BY ForecastInitInv, ForecastStepInv, PTL DEF ForecastSpec

(* A probability in a distribution or a forecast was earned on rows the    *)
(* fit had never seen, at a horizon that has labels, for every number of   *)
(* rows and every threshold (predict_distribution, calibration_report).    *)
THEOREM ProbabilitiesEarned == ForecastSpec => []DistributionEarned
  <1>1. ForecastIInv => DistributionEarned
    BY DEF ForecastIInv
  <1> QED
    BY <1>1, ForecastInvariance, PTL

(* A horizon without labels never answers as a validated or a finalized    *)
(* one, not even through a tool that reads the tape twice                  *)
(* (horizon_bridge.py:26).                                                 *)
THEOREM ExtrapolationsMarked == ForecastSpec => []ExtrapolationMarked
  <1>1. ForecastIInv => ExtrapolationMarked
    BY DEF ForecastIInv
  <1> QED
    BY <1>1, ForecastInvariance, PTL

-----------------------------------------------------------------------------
(* The answer.                                                             *)

(* A claim stands in a view.                                               *)
Holds(olds, p, v) == \E i \in DOMAIN olds : olds[i].path = p /\ olds[i].value = v

(* One entry is merged: no value is lost, and its own is there.            *)
LEMMA EntryMerged ==
    ASSUME NEW olds \in Seq(Said), NEW x \in Said
    PROVE  LET r == MergeEntry(olds, x) IN
           /\ r \in Seq(Said) /\ Len(r) >= Len(olds)
           /\ \A p, v : v # Null /\ Holds(olds, p, v) => Holds(r, p, v)
           /\ x.path # Null /\ x.value # Null => Holds(r, x.path, x.value)
  <1> DEFINE r == MergeEntry(olds, x)
             n == Len(olds)
             at == FirstAt(olds, x.path)
  <1>0. olds \in Seq(Said) /\ n \in Nat /\ DOMAIN olds = 1..n /\ x \in Said
    BY LenProperties
  <1>1. CASE r = Append(olds, x)
    <2>1. /\ r \in Seq(Said) /\ Len(r) = n + 1 /\ DOMAIN r = 1..(n + 1)
          /\ \A i \in 1..n : r[i] = olds[i]
          /\ r[n + 1] = x
      BY <1>0, <1>1, AppendProperties, LenProperties
    <2> HIDE DEF r, n
    <2>2. \A p, v : Holds(olds, p, v) => Holds(r, p, v)
      BY <1>0, <2>1 DEF Holds
    <2>3. Holds(r, x.path, x.value)
      BY <1>0, <2>1 DEF Holds
    <2>4. Len(r) >= n
      BY <1>0, <2>1
    <2> QED
      BY <2>1, <2>2, <2>3, <2>4 DEF r, n
  <1>2. CASE r # Append(olds, x)
    <2>1. x.path # Null /\ \E i \in DOMAIN olds : olds[i].path = x.path
      BY <1>2 DEF MergeEntry
    <2> DEFINE same == {i \in DOMAIN olds : olds[i].path = x.path}
    <2>2. same \subseteq Nat /\ same # {} /\ same \subseteq 1..n
      BY <1>0, <2>1
    <2>3. PICK i \in same : \A j \in same : i <= j
      BY <2>2, LeastNat
    <2>4. \A j \in 1..(i - 1) : olds[j].path # x.path
      <3>1. ASSUME NEW j \in 1..(i - 1), olds[j].path = x.path PROVE FALSE
        <4>1. i \in 1..n /\ n \in Nat
          BY <1>0, <2>2, <2>3
        <4>2. j \in DOMAIN olds /\ j < i /\ j \in Nat /\ i \in Nat
          BY <1>0, <4>1
        <4> HIDE DEF n
        <4> QED
          BY <2>3, <3>1, <4>2
      <3> QED
        BY <3>1
    <2>5. at \in DOMAIN olds /\ olds[at].path = x.path
      BY <2>3, <2>4 DEF FirstAt
    <2> HIDE DEF at, n, same
    <2>6. \/ olds[at].value = Null /\ x.value # Null /\ r = [olds EXCEPT ![at] = x]
          \/ olds[at].value = x.value /\ r \in {[olds EXCEPT ![at] = x], olds}
      BY <1>2, <2>1 DEF MergeEntry, at
    <2>7. CASE r = olds
      BY <1>0, <2>5, <2>6, <2>7 DEF Holds, n
    <2>8. CASE r = [olds EXCEPT ![at] = x]
      <3>1. r \in Seq(Said) /\ Len(r) = n
        BY <1>0, <2>5, <2>8, ExceptSeq DEF n
      <3>2. DOMAIN r = DOMAIN olds /\ r[at] = x /\ \A k \in DOMAIN olds : k # at => r[k] = olds[k]
        BY <2>5, <2>8
      <3> HIDE DEF r
      <3>3. Holds(r, x.path, x.value)
        BY <2>5, <3>2 DEF Holds
      <3>4. ASSUME NEW p, NEW v, v # Null, Holds(olds, p, v) PROVE Holds(r, p, v)
        <4>1. PICK k \in DOMAIN olds : olds[k].path = p /\ olds[k].value = v
          BY <3>4 DEF Holds
        <4>2. CASE k = at
          BY <2>5, <2>6, <3>3, <3>4, <4>1, <4>2
        <4>3. CASE k # at
          BY <3>2, <4>1, <4>3 DEF Holds
        <4> QED
          BY <4>2, <4>3
      <3>5. Len(r) >= n
        BY <1>0, <3>1
      <3> QED
        BY <3>1, <3>3, <3>4, <3>5 DEF r, n
    <2> QED
      BY <2>6, <2>7, <2>8
  <1> QED
    BY <1>1, <1>2

(* The recursion over a turn's entries defines what it says.               *)
LEMMA MergedIs ==
    ASSUME NEW olds, NEW news \in Seq(Said)
    PROVE  \E f : /\ f = [k \in 0..Len(news) |->
                            IF k = 0 THEN olds ELSE MergeEntry(f[k - 1], news[k])]
                  /\ MergeEntries(olds, news) = f[Len(news)]
  <1> DEFINE Upto(n) == \E f : f = [k \in 0..n |->
                            IF k = 0 THEN olds ELSE MergeEntry(f[k - 1], news[k])]
             Bad == {n \in 0..Len(news) : ~Upto(n)}
  <1>0. Len(news) \in Nat
    BY LenProperties
  <1>1. Upto(0)
    <2>1. [k \in 0..0 |-> olds] =
            [k \in 0..0 |-> IF k = 0 THEN olds ELSE MergeEntry([l \in 0..0 |-> olds][k - 1], news[k])]
      OBVIOUS
    <2> QED
      BY <2>1
  <1>2. ASSUME NEW n \in Nat, n > 0, Upto(n - 1) PROVE Upto(n)
    <2>1. PICK f : f = [k \in 0..(n - 1) |->
                           IF k = 0 THEN olds ELSE MergeEntry(f[k - 1], news[k])]
      BY <1>2
    <2> DEFINE g == [k \in 0..n |-> IF k < n THEN f[k] ELSE MergeEntry(f[n - 1], news[n])]
    <2>2. ASSUME NEW k \in 0..n
          PROVE  g[k] = IF k = 0 THEN olds ELSE MergeEntry(g[k - 1], news[k])
      <3>1. CASE k = 0
        BY <1>2, <2>1, <3>1
      <3>2. CASE k # 0 /\ k < n
        <4>1. k \in 0..(n - 1) /\ k - 1 \in 0..n /\ k - 1 < n
          BY <3>2
        <4>2. g[k] = f[k] /\ g[k - 1] = f[k - 1]
          BY <3>2, <4>1
        <4>3. f[k] = MergeEntry(f[k - 1], news[k])
          BY <2>1, <3>2, <4>1
        <4> HIDE DEF g
        <4> QED
          BY <3>2, <4>2, <4>3
      <3>3. CASE k = n
        <4>1. n - 1 \in 0..n /\ n - 1 < n
          BY <1>2
        <4>2. g[k] = MergeEntry(f[n - 1], news[n]) /\ g[n - 1] = f[n - 1]
          BY <3>3, <4>1
        <4> HIDE DEF g
        <4> QED
          BY <1>2, <3>3, <4>2
      <3> QED
        BY <3>1, <3>2, <3>3
    <2>3. g = [k \in 0..n |-> IF k = 0 THEN olds ELSE MergeEntry(g[k - 1], news[k])]
      BY <2>2
    <2> HIDE DEF g
    <2> QED
      BY <2>3
  <1>3. ASSUME NEW n \in Bad PROVE n \in Nat /\ ~Upto(n) /\ n <= Len(news)
    BY <1>0, <1>3
  <1>4. ASSUME NEW n \in Nat, n <= Len(news), ~Upto(n) PROVE n \in Bad
    BY <1>0, <1>4
  <1> HIDE DEF Bad, Upto
  <1>5. Bad = {}
    <2> SUFFICES ASSUME Bad # {} PROVE FALSE
      OBVIOUS
    <2>0. Bad \subseteq Nat
      BY <1>3
    <2>1. PICK n \in Bad : \A m \in Bad : n <= m
      BY ONLY <2>0, Bad # {}, LeastNat
    <2>2. n \in Nat /\ ~Upto(n) /\ n <= Len(news)
      BY <1>3, <2>1
    <2>3. n # 0
      BY <1>1, <2>2
    <2>4. n - 1 \in Nat /\ n - 1 < n /\ n > 0 /\ n - 1 <= Len(news)
      BY ONLY <1>0, <2>2, <2>3
    <2>5. n - 1 \notin Bad
      BY ONLY <2>0, <2>1, <2>4
    <2>6. Upto(n - 1)
      BY <1>4, <2>4, <2>5
    <2> QED
      BY <1>2, <2>2, <2>4, <2>6
  <1>6. Upto(Len(news))
    BY <1>0, <1>4, <1>5
  <1> QED
    BY <1>6 DEF MergeEntries, Upto

(* What holds of nothing and of each next place holds of all places.       *)
LEMMA Upward ==
    ASSUME NEW n \in Nat, NEW S, 0 \in S, \A k \in 1..n : k - 1 \in S => k \in S
    PROVE  n \in S
  <1> DEFINE Bad == {k \in 0..n : k \notin S}
  <1>0. Bad \subseteq Nat /\ \A k \in 0..n : k \in Bad <=> k \notin S
    OBVIOUS
  <1> HIDE DEF Bad
  <1>1. ASSUME Bad # {} PROVE FALSE
    <2>1. PICK k \in Bad : \A m \in Bad : k <= m
      BY ONLY <1>0, <1>1, LeastNat
    <2>2. k \in 0..n
      BY <2>1 DEF Bad
    <2>3. k # 0
      BY <1>0, <2>1, <2>2
    <2>4. k \in 1..n /\ k - 1 \in 0..n /\ k - 1 < k /\ k - 1 \in Nat /\ k \in Nat
      BY ONLY n \in Nat, <2>2, <2>3
    <2>5. k - 1 \notin Bad
      BY ONLY <2>1, <2>4
    <2> QED
      BY <1>0, <2>1, <2>4, <2>5
  <1> QED
    BY <1>0, <1>1

(* A turn is merged: the view grows, no value of it is lost, and whatever  *)
(* the turn stated is there.                                               *)
LEMMA TurnMerged ==
    ASSUME NEW olds \in Seq(Said), NEW news \in Seq(Said)
    PROVE  LET r == MergeEntries(olds, news) IN
           /\ r \in Seq(Said) /\ Len(r) >= Len(olds)
           /\ \A p, v : v # Null /\ Holds(olds, p, v) => Holds(r, p, v)
           /\ \A i \in DOMAIN news : news[i].path # Null /\ news[i].value # Null
                => Holds(r, news[i].path, news[i].value)
  <1>0. Len(news) \in Nat /\ DOMAIN news = 1..Len(news) /\ Len(olds) \in Nat
        /\ \A i \in 1..Len(news) : news[i] \in Said
    BY LenProperties, ElementOfSeq
  <1>1. PICK f : /\ f = [k \in 0..Len(news) |->
                            IF k = 0 THEN olds ELSE MergeEntry(f[k - 1], news[k])]
                 /\ MergeEntries(olds, news) = f[Len(news)]
    BY MergedIs
  <1>2. f[0] = olds /\ \A k \in 1..Len(news) : f[k] = MergeEntry(f[k - 1], news[k])
    <2>1. 0 \in 0..Len(news) /\ \A k \in 1..Len(news) : k \in 0..Len(news) /\ k # 0
      BY <1>0
    <2> QED
      BY ONLY <1>1, <2>1
  <1> DEFINE Good(k) ==
               /\ f[k] \in Seq(Said) /\ Len(f[k]) >= Len(olds)
               /\ \A p, v : v # Null /\ Holds(olds, p, v) => Holds(f[k], p, v)
               /\ \A i \in 1..k : news[i].path # Null /\ news[i].value # Null
                    => Holds(f[k], news[i].path, news[i].value)
             S == {k \in 0..Len(news) : Good(k)}
  <1>3. Good(0)
    BY <1>0, <1>2
  <1>4. ASSUME NEW k \in 1..Len(news), Good(k - 1) PROVE Good(k)
    <2>1. f[k] = MergeEntry(f[k - 1], news[k]) /\ news[k] \in Said /\ f[k - 1] \in Seq(Said)
          /\ Len(f[k - 1]) \in Nat
      BY <1>0, <1>2, <1>4, LenProperties
    <2>2. /\ f[k] \in Seq(Said) /\ Len(f[k]) >= Len(f[k - 1])
          /\ \A p, v : v # Null /\ Holds(f[k - 1], p, v) => Holds(f[k], p, v)
          /\ news[k].path # Null /\ news[k].value # Null => Holds(f[k], news[k].path, news[k].value)
      BY <2>1, EntryMerged
    <2>3. Len(f[k]) \in Nat
      BY <2>2, LenProperties
    <2>4. Len(f[k]) >= Len(olds)
      BY <1>0, <1>4, <2>1, <2>2, <2>3
    <2>5. \A p, v : v # Null /\ Holds(olds, p, v) => Holds(f[k], p, v)
      BY <1>4, <2>2
    <2>6. ASSUME NEW i \in 1..k, news[i].path # Null, news[i].value # Null
          PROVE  Holds(f[k], news[i].path, news[i].value)
      <3>1. CASE i = k
        BY <2>2, <2>6, <3>1
      <3>2. CASE i # k
        <4>1. i \in 1..(k - 1)
          BY <1>0, <3>2
        <4> QED
          BY <1>4, <2>2, <2>6, <4>1
      <3> QED
        BY <3>1, <3>2
    <2> QED
      BY <2>2, <2>4, <2>5, <2>6
  <1> HIDE DEF Good
  <1>5. 0 \in S /\ \A k \in 1..Len(news) : k - 1 \in S => k \in S
    <2>1. 0 \in 0..Len(news) /\ \A k \in 1..Len(news) : k \in 0..Len(news)
      BY <1>0
    <2> QED
      BY <1>3, <1>4, <2>1
  <1> HIDE DEF S
  <1>6. Len(news) \in S
    BY <1>0, <1>5, Upward
  <1>7. Good(Len(news))
    BY <1>6 DEF S
  <1> QED
    BY <1>0, <1>1, <1>7 DEF Good

(* The stage names what has been written, and a view is the record of its  *)
(* five parts.                                                             *)
GateShape ==
    /\ stage \in {"reasoning", "gate", "passed", "failed", "shipped"}
    /\ DOMAIN view = {"evidence", "hypothesis", "confidence", "scenario", "weighing"}
    /\ stage \in {"reasoning", "gate"} => view.evidence \in Seq(Said)

(* An entry beside a path the store knows carries the store's value.       *)
EntryTrue(e) == Truth(e.path) # Null /\ e.path # "refusal" => e.value = Truth(e.path)
EntryBacked(e) == PathResolves(e.path) /\ (e.value # Null \/ e.path = "refusal")

(* What has passed is true entry by entry, and stands on a refusal that    *)
(* was given: what the gate established, which nothing after it disturbs.  *)
PassedTrue ==
    stage \in {"passed", "shipped"} => \A i \in DOMAIN view.evidence : EntryTrue(view.evidence[i])
PassedRefused ==
    stage \in {"passed", "shipped"} /\ ScenarioState = "refused" =>
        view.scenario # Null /\ view.scenario.verdict = "unevaluable" /\ Cites(view.evidence, "refusal")
ShippedRefused ==
    stage = "shipped" /\ ScenarioState = "refused" =>
        \/ shipped.answer.scenario # Null /\ shipped.answer.scenario.verdict = "unevaluable"
        \/ shipped.hard # {}

(* The inductive invariant.                                                *)
GateIInv == GateShape /\ ClaimsStay /\ PassedTrue /\ PassedRefused /\ ShippedTrue /\ ShippedRefused

(* What passes the content gate mismatches nothing and leaves nothing out. *)
LEMMA PassesTrue ==
    ASSUME NEW v, Passes(v), NEW i \in DOMAIN v.evidence
    PROVE  EntryTrue(v.evidence[i])
  <1> DEFINE e == v.evidence[i]
  <1>1. EvidenceMisses(v.evidence) = {}
    BY DEF Passes, ContentMisses
  <1>2. Classify(e) \notin {"no_path", "null_value"}
    BY <1>1 DEF EvidenceMisses
  <1>3. ~ Mismatch(e)
    BY <1>1 DEF EvidenceMisses
  <1>4. e.path # Null /\ (e.value # Null \/ e.path = "refusal")
    BY <1>2 DEF Classify
  <1> HIDE DEF e
  <1>5. EntryTrue(e)
    BY <1>3, <1>4 DEF Mismatch, EntryTrue
  <1> QED
    BY <1>5 DEF e

LEMMA PassesRefused ==
    ASSUME NEW v, Passes(v), ScenarioState = "refused"
    PROVE  v.scenario # Null /\ v.scenario.verdict = "unevaluable" /\ Cites(v.evidence, "refusal")
  <1>1. RefusedBlockMisses(v) = {}
    BY DEF Passes, ContentMisses
  <1>2. \A broken \in BOOLEAN : \A name : Rule(broken, name) = {} => ~ broken
    BY DEF Rule
  <1> QED
    BY <1>1, <1>2 DEF RefusedBlockMisses, Rule

(* What is assembled is true and backed.                                   *)
LEMMA AssembledTrue ==
    ASSUME NEW turn \in Turns, NEW i \in DOMAIN Assembled(turn).evidence
    PROVE  EntryTrue(Assembled(turn).evidence[i]) /\ EntryBacked(Assembled(turn).evidence[i])
  <1> DEFINE olds == turn.evidence
             whole == CompleteEvidence(olds)
             e == whole[i]
  <1>1. Assembled(turn).evidence = Assemble(olds)
    BY TurnsAssumption DEF Assembled
  <1>2. i \in DOMAIN whole /\ Presentable(e) /\ Assemble(olds)[i] = e
    BY <1>1 DEF Assemble
  <1>3. i \in DOMAIN olds /\ Backed(olds[i])
        /\ e = IF Completable(olds[i])
               THEN [olds[i] EXCEPT !.value = Truth(olds[i].path)] ELSE olds[i]
    BY <1>2 DEF CompleteEvidence
  <1>4. olds[i] = [path |-> olds[i].path, value |-> olds[i].value, read |-> olds[i].read]
    <2>1. olds[i] \in Said
      BY <1>3 DEF Said
    <2> QED
      BY <2>1, TurnsAssumption
  <1> DEFINE d == olds[i]
  <1>5. e.path = d.path /\ (Completable(d) => e.value = Truth(d.path)) /\ (~ Completable(d) => e = d)
    BY <1>3, <1>4
  <1> HIDE DEF e, d, whole
  <1>6. e.path # Null /\ (e.value # Null \/ e.path = "refusal") /\ PathResolves(e.path)
    BY <1>2 DEF Presentable, Classify
  <1>7. EntryTrue(e)
    BY <1>5, <1>6 DEF EntryTrue, Completable
  <1> QED
    BY <1>1, <1>2, <1>6, <1>7 DEF EntryBacked, e, whole

(* What a refused scenario is answered with, or what is missing in it.     *)
LEMMA AuthoredRefused ==
    ASSUME NEW obj, ScenarioState = "refused"
    PROVE  (obj.scenario # Null /\ obj.scenario.verdict = "unevaluable") \/ AuthoredMisses(obj) # {}
  <1>1. CASE obj.scenario = Null
    <2>1. <<"block", 0>> \in AuthoredMisses(obj)
      BY <1>1 DEF AuthoredMisses, Rule
    <2> QED
      BY <2>1
  <1>2. CASE obj.scenario # Null /\ obj.scenario.verdict # "unevaluable"
    <2>1. <<"verdict", 0>> \in AuthoredMisses(obj)
      BY <1>2 DEF AuthoredMisses, Rule
    <2> QED
      BY <2>1
  <1> QED
    BY <1>1, <1>2

(* A turn that is heard takes nothing out of the view while it has room.   *)
LEMMA HearKeeps ==
    ASSUME GateShape, ClaimsStay, stage \in {"reasoning", "gate"}, stage' = stage,
           NEW turn \in Turns, Hear(turn)
    PROVE  GateShape' /\ ClaimsStay'
  <1> DEFINE m == MergeEntries(view.evidence, turn.evidence)
  <1>1. view.evidence \in Seq(Said) /\ turn.evidence \in Seq(Said)
    BY TurnsAssumption DEF GateShape
  <1>2. /\ m \in Seq(Said) /\ Len(m) >= Len(view.evidence)
        /\ \A p, v : v # Null /\ Holds(view.evidence, p, v) => Holds(m, p, v)
        /\ \A i \in DOMAIN turn.evidence : turn.evidence[i].path # Null /\ turn.evidence[i].value # Null
             => Holds(m, turn.evidence[i].path, turn.evidence[i].value)
    BY <1>1, TurnMerged
  <1> HIDE DEF m
  <1>3. view' = Merge(view, turn)
    BY DEF Hear
  <1>4. view'.evidence = Capped(m)
        /\ DOMAIN view' = {"evidence", "hypothesis", "confidence", "scenario", "weighing"}
    BY <1>3 DEF Merge, m
  <1>5. MaxMerged \in Nat /\ Len(m) \in Nat /\ Len(view.evidence) \in Nat
    BY <1>1, <1>2, LenProperties, GateBoundsAssumption
  <1>6. CASE Len(m) > MaxMerged
    <2>1. view'.evidence = SubSeq(m, 1, MaxMerged)
      BY <1>4, <1>6 DEF Capped
    <2>2. 1 \in 1..(Len(m) + 1) /\ MaxMerged \in 0..Len(m)
      BY <1>5, <1>6
    <2>3. SubSeq(m, 1, MaxMerged) \in Seq(Said) /\ Len(SubSeq(m, 1, MaxMerged)) = MaxMerged
      <3>1. SubSeq(m, 1, MaxMerged) = [i \in 1..MaxMerged |-> m[i]]
        BY <1>2, <1>5, <1>6
      <3>2. \A i \in 1..MaxMerged : m[i] \in Said
        BY <1>2, <1>5, <1>6, ElementOfSeq
      <3> QED
        BY <1>5, <3>1, <3>2
    <2>4. ~ (Len(view'.evidence) < MaxMerged)
      BY <1>5, <2>1, <2>3
    <2> QED
      BY <1>4, <2>1, <2>3, <2>4 DEF GateShape, ClaimsStay
  <1>7. CASE ~ (Len(m) > MaxMerged)
    <2>1. view'.evidence = m
      BY <1>4, <1>7 DEF Capped
    <2>2. GateShape'
      BY <1>2, <1>4, <2>1 DEF GateShape
    <2>3. ASSUME Len(m) < MaxMerged, NEW claim \in stated', Null \notin {claim[1], claim[2]}
          PROVE  \E i \in DOMAIN m : <<m[i].path, m[i].value>> = claim
      <3>1. CASE claim \in stated
        <4>1. Len(view.evidence) < MaxMerged
          BY <1>2, <1>5, <2>3
        <4>2. PICK i \in DOMAIN view.evidence : <<view.evidence[i].path, view.evidence[i].value>> = claim
          BY <2>3, <3>1, <4>1 DEF ClaimsStay
        <4>3. claim[2] # Null /\ Holds(view.evidence, claim[1], claim[2])
          BY <2>3, <4>2 DEF Holds
        <4>4. Holds(m, claim[1], claim[2])
          BY <1>2, <4>3
        <4> QED
          BY <4>2, <4>4 DEF Holds
      <3>2. CASE claim \notin stated
        <4>1. PICK i \in DOMAIN turn.evidence : claim = <<turn.evidence[i].path, turn.evidence[i].value>>
          BY <2>3, <3>2 DEF Hear
        <4>2. Holds(m, claim[1], claim[2])
          BY <1>2, <2>3, <4>1
        <4> QED
          BY <4>1, <4>2 DEF Holds
      <3> QED
        BY <3>1, <3>2
    <2>4. ClaimsStay'
      BY <2>1, <2>3 DEF ClaimsStay
    <2> QED
      BY <2>2, <2>4
  <1> QED
    BY <1>6, <1>7

(* A step that leaves the dispatches and the frame alone leaves what the   *)
(* store knows alone.                                                      *)
LEMMA StoreStays ==
    ASSUME UNCHANGED <<frame, outcomes, payload>>
    PROVE  /\ ScenarioState' = ScenarioState
           /\ \A e : (EntryTrue(e) <=> EntryTrue(e)') /\ (EntryBacked(e) <=> EntryBacked(e)')
  <1>1. ScenarioState' = ScenarioState
    BY DEF ScenarioState, ScenarioOutcome, Genuine
  <1>2. ASSUME NEW e
        PROVE  (EntryTrue(e) <=> EntryTrue(e)') /\ (EntryBacked(e) <=> EntryBacked(e)')
    BY DEF EntryTrue, EntryBacked, Truth, PathResolves
  <1> QED
    BY <1>1, <1>2

(* While nothing has passed, a step that lets nothing pass disturbs none   *)
(* of the facts about what has.                                            *)
LEMMA NothingPassed ==
    ASSUME stage' \in {"reasoning", "gate", "failed"}
    PROVE  PassedTrue' /\ PassedRefused' /\ ShippedTrue' /\ ShippedRefused'
  BY DEF PassedTrue, PassedRefused, ShippedTrue, ShippedRefused

(* What passes is true, and stands on a refusal that was given.            *)
LEMMA PassingKept ==
    ASSUME GateShape, UNCHANGED <<frame, outcomes, payload>>, stage' = "passed",
           DOMAIN view' = {"evidence", "hypothesis", "confidence", "scenario", "weighing"},
           NEW v, view' = v, Passes(v)
    PROVE  GateIInv'
  <1>1. GateShape' /\ ClaimsStay'
    BY DEF GateShape, ClaimsStay
  <1>2. ShippedTrue' /\ ShippedRefused'
    BY DEF ShippedTrue, ShippedRefused
  <1>3. \A i \in DOMAIN v.evidence : EntryTrue(v.evidence[i])'
    <2> SUFFICES ASSUME NEW i \in DOMAIN v.evidence PROVE EntryTrue(v.evidence[i])'
      OBVIOUS
    <2>1. EntryTrue(v.evidence[i])
      BY PassesTrue
    <2> QED
      BY <2>1 DEF EntryTrue, Truth
  <1>4. PassedTrue'
    BY <1>3 DEF PassedTrue, EntryTrue
  <1>5. ScenarioState' = "refused" =>
          v.scenario # Null /\ v.scenario.verdict = "unevaluable" /\ Cites(v.evidence, "refusal")
    BY StoreStays, PassesRefused
  <1>6. PassedRefused'
    BY <1>5 DEF PassedRefused, Cites
  <1> QED
    BY <1>1, <1>2, <1>4, <1>6 DEF GateIInv

LEMMA GateInitIInv == GateInit => GateIInv
  <1> SUFFICES ASSUME GateInit PROVE GateIInv
    OBVIOUS
  <1>1. view.evidence \in Seq(Said) /\ stated = {}
    BY EmptySeq DEF GateInit, NoView
  <1>2. GateShape /\ ClaimsStay
    BY <1>1 DEF GateInit, NoView, GateShape, ClaimsStay
  <1>3. PassedTrue /\ PassedRefused /\ ShippedTrue /\ ShippedRefused
    BY DEF GateInit, PassedTrue, PassedRefused, ShippedTrue, ShippedRefused
  <1> QED
    BY <1>2, <1>3 DEF GateIInv

(* What ships is true and backed, and says what a refusal made of it.      *)
LEMMA ShippingKept ==
    ASSUME GateIInv, NEW answer, stage = "passed", Ship(answer),
           \A i \in DOMAIN answer.answer.evidence :
             /\ EntryTrue(answer.answer.evidence[i])
             /\ answer.by # "staged" => EntryBacked(answer.answer.evidence[i]),
           ScenarioState = "refused" =>
             \/ answer.answer.scenario # Null /\ answer.answer.scenario.verdict = "unevaluable"
             \/ answer.hard # {}
    PROVE  GateIInv'
  <1>1. /\ UNCHANGED <<frame, outcomes, payload, view>>
        /\ stage' = "shipped" /\ shipped' = answer
    BY DEF Ship
  <1>2. GateShape' /\ ClaimsStay'
    BY <1>1 DEF GateIInv, GateShape, ClaimsStay
  <1>3. ScenarioState' = ScenarioState
    BY <1>1, StoreStays
  <1>4. PassedTrue'
    BY <1>1 DEF GateIInv, PassedTrue, EntryTrue, Truth
  <1>5. PassedRefused'
    BY <1>1, <1>3 DEF GateIInv, PassedRefused, Cites
  <1>6. ShippedTrue'
    BY <1>1 DEF ShippedTrue, EntryTrue, EntryBacked, Truth, PathResolves
  <1>7. ShippedRefused'
    BY <1>1, <1>3 DEF ShippedRefused
  <1> QED
    BY <1>2, <1>4, <1>5, <1>6, <1>7 DEF GateIInv

(* One step per action.                                                    *)
LEMMA GateStepIInv == GateIInv /\ [GateNext]_gateVars => GateIInv'
  <1> SUFFICES ASSUME GateIInv, [GateNext]_gateVars PROVE GateIInv'
    OBVIOUS
  <1>0. GateShape /\ ClaimsStay /\ PassedTrue /\ PassedRefused /\ ShippedTrue /\ ShippedRefused
    BY DEF GateIInv
  <1>1. CASE Narrate
    <2>1. PICK turn \in ReasonTurns : Hear(turn)
      BY <1>1 DEF Narrate
    <2>2. turn \in Turns /\ stage \in {"reasoning", "gate"} /\ stage' = stage
          /\ stage' \in {"reasoning", "gate", "failed"}
      BY <1>1 DEF Narrate, Turns
    <2> QED
      BY <1>0, <2>1, <2>2, HearKeeps, NothingPassed DEF GateIInv
  <1>2. CASE CallDenied \/ CallSuppressed \/ CallExecuted
    <2>1. UNCHANGED <<frame, view, stated, stage, shipped>> /\ stage = "reasoning"
      BY <1>2 DEF CallDenied, CallSuppressed, CallExecuted, Record
    <2>2. GateShape' /\ ClaimsStay'
      BY <1>0, <2>1 DEF GateShape, ClaimsStay
    <2> QED
      BY <2>1, <2>2, NothingPassed DEF GateIInv
  <1>3. CASE CloseReasoning
    <2>1. GateShape' /\ ClaimsStay' /\ stage' \in {"reasoning", "gate", "failed"}
      BY <1>0, <1>3 DEF CloseReasoning, GateShape, ClaimsStay
    <2> QED
      BY <2>1, NothingPassed DEF GateIInv
  <1>4. CASE Judge
    BY <1>0, <1>4, PassingKept DEF Judge, GateShape
  <1>5. CASE Repair
    <2>1. PICK turn \in FinalTurns : Hear(turn)
      BY <1>5 DEF Repair
    <2>2. turn \in Turns /\ stage \in {"reasoning", "gate"} /\ stage' = stage
          /\ stage' \in {"reasoning", "gate", "failed"}
      BY <1>5 DEF Repair, Turns
    <2> QED
      BY <1>0, <2>1, <2>2, HearKeeps, NothingPassed DEF GateIInv
  <1>6. CASE Salvage
    <2>1. Passes(Salvaged(view)) /\ view' = Salvaged(view) /\ stage' = "passed"
          /\ UNCHANGED <<frame, outcomes, payload>>
      BY <1>6 DEF Salvage, MaySalvage
    <2>2. DOMAIN view' = {"evidence", "hypothesis", "confidence", "scenario", "weighing"}
      BY <1>0, <2>1 DEF Salvaged, GateShape
    <2> QED
      BY <1>0, <2>1, <2>2, PassingKept
  <1>7. CASE Reject
    <2>1. GateShape' /\ ClaimsStay' /\ stage' \in {"reasoning", "gate", "failed"}
      BY <1>0, <1>7 DEF Reject, GateShape, ClaimsStay
    <2> QED
      BY <2>1, NothingPassed DEF GateIInv
  <1>8. CASE ShipStaged
    <2> DEFINE answer == [by |-> "staged", answer |-> view, hard |-> {}, conflicts |-> {}]
    <2>1. stage = "passed" /\ Ship(answer)
      BY <1>8 DEF ShipStaged
    <2>2. answer.answer = view /\ answer.by = "staged" /\ answer.hard = {}
      OBVIOUS
    <2> HIDE DEF answer
    <2> QED
      BY <1>0, <2>1, <2>2, ShippingKept DEF PassedTrue, PassedRefused
  <1>9. CASE ShipAuthored
    <2>1. PICK turn \in Authored :
            LET obj == Assembled(turn)
                hard == AuthoredMisses(obj) \cup ChoiceMisses(obj) \cup EqualityMisses(obj.scenario)
            IN  Ship([by |-> "authored", answer |-> obj, hard |-> hard, conflicts |-> {}])
      BY <1>9 DEF ShipAuthored
    <2> DEFINE obj == Assembled(turn)
               hard == AuthoredMisses(obj) \cup ChoiceMisses(obj) \cup EqualityMisses(obj.scenario)
               answer == [by |-> "authored", answer |-> obj, hard |-> hard, conflicts |-> {}]
    <2>2. stage = "passed" /\ Ship(answer) /\ turn \in Turns
      BY <1>9, <2>1 DEF ShipAuthored, Turns
    <2>3. answer.answer = obj /\ answer.by = "authored" /\ AuthoredMisses(obj) \subseteq answer.hard
      OBVIOUS
    <2>4. \A i \in DOMAIN obj.evidence : EntryTrue(obj.evidence[i]) /\ EntryBacked(obj.evidence[i])
      BY <2>2, AssembledTrue
    <2> HIDE DEF answer, hard, obj
    <2>5. ScenarioState = "refused" =>
            (obj.scenario # Null /\ obj.scenario.verdict = "unevaluable") \/ answer.hard # {}
      BY <2>3, AuthoredRefused
    <2> QED
      BY <2>2, <2>3, <2>4, <2>5, ShippingKept
  <1>10. CASE ShipCorrected
    <2>1. PICK first \in Authored, turn \in Authored :
            LET before == Assembled(first)
                obj == Assembled(turn)
            IN  /\ AuthoredMisses(before) \cup ChoiceMisses(before) \cup EqualityMisses(before.scenario) # {}
                /\ Ship([by |-> "corrected", answer |-> obj, hard |-> AuthoredMisses(obj),
                         conflicts |-> ChoiceMisses(obj) \cup EqualityMisses(obj.scenario)])
      BY <1>10 DEF ShipCorrected
    <2> DEFINE obj == Assembled(turn)
               answer == [by |-> "corrected", answer |-> obj, hard |-> AuthoredMisses(obj),
                          conflicts |-> ChoiceMisses(obj) \cup EqualityMisses(obj.scenario)]
    <2>2. stage = "passed" /\ Ship(answer) /\ turn \in Turns
      BY <1>10, <2>1 DEF ShipCorrected, Turns
    <2>3. answer.answer = obj /\ answer.by = "corrected" /\ AuthoredMisses(obj) = answer.hard
      OBVIOUS
    <2>4. \A i \in DOMAIN obj.evidence : EntryTrue(obj.evidence[i]) /\ EntryBacked(obj.evidence[i])
      BY <2>2, AssembledTrue
    <2> HIDE DEF answer, obj
    <2>5. ScenarioState = "refused" =>
            (obj.scenario # Null /\ obj.scenario.verdict = "unevaluable") \/ answer.hard # {}
      BY <2>3, AuthoredRefused
    <2> QED
      BY <2>2, <2>3, <2>4, <2>5, ShippingKept
  <1>11. CASE UNCHANGED gateVars
    <2>1. UNCHANGED <<frame, outcomes, payload, view, stated, stage, shipped>>
      BY <1>11 DEF gateVars
    <2>2. GateShape' /\ ClaimsStay'
      BY <1>0, <2>1 DEF GateShape, ClaimsStay
    <2>3. ScenarioState' = ScenarioState
      BY <2>1, StoreStays
    <2>4. PassedTrue' /\ PassedRefused'
      BY <1>0, <2>1, <2>3 DEF PassedTrue, EntryTrue, Truth, PassedRefused, Cites
    <2>5. ShippedTrue' /\ ShippedRefused'
      BY <1>0, <2>1, <2>3 DEF ShippedTrue, Truth, PathResolves, ShippedRefused
    <2> QED
      BY <2>2, <2>4, <2>5 DEF GateIInv
  <1> QED
    BY <1>1, <1>2, <1>3, <1>4, <1>5, <1>6, <1>7, <1>8, <1>9, <1>10, <1>11 DEF GateNext

(* The inductive invariant holds of every state of every cycle's answer.   *)
THEOREM GateInvariance == GateSpec => []GateIInv
  BY GateInitIInv, GateStepIInv, PTL DEF GateSpec

(* No claim the model stated is merged away while the view has room,       *)
(* however many turns, of whatever entries, restate or contradict it       *)
(* (gates.merge_interpretation).                                           *)
THEOREM ClaimsKept == GateSpec => []ClaimsStay
  <1>1. GateIInv => ClaimsStay
    BY DEF GateIInv
  <1> QED
    BY <1>1, GateInvariance, PTL

(* What ships beside a path the store knows is the store's value, and an   *)
(* authored answer cites nothing the run cannot back, whatever the turns   *)
(* said (output.py's assembly and the content gate before it).             *)
THEOREM ShippedIsTrue == GateSpec => []ShippedTrue
  <1>1. GateIInv => ShippedTrue
    BY DEF GateIInv
  <1> QED
    BY <1>1, GateInvariance, PTL

(* A refused scenario passes and ships only as what it is.                 *)
THEOREM RefusalsStand == GateSpec => []RefusalStands
  <1>1. GateIInv => RefusalStands
    BY DEF GateIInv, RefusalStands, PassedRefused, ShippedRefused
  <1> QED
    BY <1>1, GateInvariance, PTL

-----------------------------------------------------------------------------
(* The agent's memory.                                                     *)

(* What the stream may hold: entries of rows that are there, all of them   *)
(* live, since a row's payload never says that it was forgotten.           *)
EntriesOf(rs) == {[id |-> i, segment |-> rs[i].segment, forgotten |-> FALSE] : i \in DOMAIN rs}

Kinds == Segments \cup {Unsegmented}
Rows == [segment : Kinds, forgotten : BOOLEAN, payload : [forgotten : {FALSE}]]

StoresKept ==
    /\ lastId \in Nat /\ DOMAIN ledger \subseteq 1..lastId
    /\ \A i \in DOMAIN ledger : ledger[i] \in Rows
    /\ entries \in Seq(EntriesOf(ledger))
    /\ told \subseteq DOMAIN ledger

(* An insert under way is of a memory that nobody else is about; what      *)
(* follows it is of a row that is there.                                   *)
AtWork(a) ==
    LET m == working[a] IN
    m # Idle =>
      /\ m.op = "insert" =>
           /\ m = [op |-> "insert", id |-> m.id, segment |-> m.segment] /\ m.segment \in Kinds
           /\ m.id \in 1..lastId /\ m.id \notin DOMAIN ledger
           /\ \A b \in Agents \ {a} :
                (working[b] # Idle /\ working[b].op = "insert") => working[b].id # m.id
      /\ m.op = "append" => m.id \in DOMAIN ledger /\ m.segment = ledger[m.id].segment
      /\ m.op \in {"read back", "entomb"} => m.id \in DOMAIN ledger
      /\ m.op = "entomb" => m.forgotten = FALSE
      /\ m.op = "fall back" => m.knew \subseteq DOMAIN ledger

MemoryIInv ==
    /\ StoresKept
    /\ working = [a \in Agents |-> working[a]]
    /\ \A a \in Agents : AtWork(a)

LEMMA MemoryInitInv == MemoryInit => MemoryIInv
  <1> SUFFICES ASSUME MemoryInit PROVE MemoryIInv
    OBVIOUS
  <1>1. working = [a \in Agents |-> working[a]] /\ \A a \in Agents : working[a] = Idle
    BY DEF MemoryInit
  <1>2. StoresKept
    <2>1. DOMAIN ledger = {}
      BY DEF MemoryInit
    <2>2. entries \in Seq(EntriesOf(ledger))
      BY DEF MemoryInit
    <2> QED
      BY <2>1, <2>2 DEF MemoryInit, StoresKept
  <1> QED
    BY <1>1, <1>2 DEF MemoryIInv, AtWork

LEMMA WorkingIs ==
    ASSUME MemoryIInv, NEW a \in Agents, NEW w, working' = [working EXCEPT ![a] = w]
    PROVE  /\ working' = [x \in Agents |-> working'[x]] /\ working'[a] = w
           /\ \A b \in Agents \ {a} : working'[b] = working[b]
  BY DEF MemoryIInv

(* An agent's step leaves the work of the others what it is, as long as    *)
(* rows stay and new ones are its own.                                     *)
LEMMA OthersAtWork ==
    ASSUME MemoryIInv, NEW a \in Agents,
           \A b \in Agents \ {a} : working'[b] = working[b],
           lastId' \in Nat, lastId <= lastId', DOMAIN ledger \subseteq DOMAIN ledger',
           \A i \in DOMAIN ledger : ledger'[i].segment = ledger[i].segment,
           \A i \in DOMAIN ledger' \ DOMAIN ledger :
              working[a] # Idle /\ working[a].op = "insert" /\ working[a].id = i,
           working'[a] # Idle /\ working'[a].op = "insert" => working'[a].id \notin 1..lastId
    PROVE  \A b \in Agents \ {a} : AtWork(b)'
  <1>3. ASSUME NEW b \in Agents \ {a}
        PROVE  AtWork(b)'
    <2> DEFINE m == working[b]
    <2>1. working'[b] = m /\ AtWork(b) /\ AtWork(a)
      BY DEF MemoryIInv
    <2>2. lastId \in Nat
      BY DEF MemoryIInv, StoresKept
    <2>3. CASE m = Idle
      BY <2>1, <2>3 DEF AtWork
    <2>4. CASE m # Idle
      <3>1. m.op = "insert" =>
              /\ m = [op |-> "insert", id |-> m.id, segment |-> m.segment] /\ m.segment \in Kinds
              /\ m.id \in 1..lastId' /\ m.id \notin DOMAIN ledger'
              /\ \A c \in Agents \ {b} :
                   (working'[c] # Idle /\ working'[c].op = "insert") => working'[c].id # m.id
        <4> SUFFICES ASSUME m.op = "insert"
                     PROVE  /\ m = [op |-> "insert", id |-> m.id, segment |-> m.segment] /\ m.segment \in Kinds
                            /\ m.id \in 1..lastId' /\ m.id \notin DOMAIN ledger'
                            /\ \A c \in Agents \ {b} :
                                 (working'[c] # Idle /\ working'[c].op = "insert") => working'[c].id # m.id
          OBVIOUS
        <4>1. /\ m = [op |-> "insert", id |-> m.id, segment |-> m.segment] /\ m.segment \in Kinds
              /\ m.id \in 1..lastId /\ m.id \notin DOMAIN ledger
              /\ \A c \in Agents \ {b} :
                   (working[c] # Idle /\ working[c].op = "insert") => working[c].id # m.id
          BY <2>1, <2>4 DEF AtWork
        <4>2. m.id \in 1..lastId'
          BY <4>1, <2>2
        <4>3. m.id \notin DOMAIN ledger'
          BY <4>1
        <4>4. ASSUME NEW c \in Agents \ {b}, working'[c] # Idle, working'[c].op = "insert"
              PROVE  working'[c].id # m.id
          <5>1. CASE c = a
            BY <5>1, <4>1, <4>4
          <5>2. CASE c # a
            BY <5>2, <4>1, <4>4
          <5> QED
            BY <5>1, <5>2
        <4> QED
          BY <4>1, <4>2, <4>3, <4>4
      <3>2. m.op = "append" => m.id \in DOMAIN ledger' /\ m.segment = ledger'[m.id].segment
        BY <2>1, <2>4 DEF AtWork
      <3>3. /\ m.op \in {"read back", "entomb"} => m.id \in DOMAIN ledger'
            /\ m.op = "entomb" => m.forgotten = FALSE
            /\ m.op = "fall back" => m.knew \subseteq DOMAIN ledger'
        BY <2>1, <2>4 DEF AtWork
      <3> QED
        BY <2>1, <3>1, <3>2, <3>3 DEF AtWork
    <2> QED
      BY <2>3, <2>4
  <1> QED
    BY <1>3

(* MAXLEN cuts the stream's old end.                                       *)
LEMMA AppendedKept ==
    ASSUME NEW E, entries \in Seq(E), NEW e \in E, NEW es \in Appended(e), StreamKeeps \in Nat
    PROVE  es \in Seq(E)
  <1> DEFINE longer == Append(entries, e)
             n == Len(longer) - StreamKeeps + 1
  <1>1. longer \in Seq(E) /\ Len(longer) \in Nat
    BY AppendProperties, LenProperties
  <1> HIDE DEF longer
  <1>2. \E x \in {1, n} : \A y \in {1, n} : x >= y
    BY <1>1
  <1>3. Max({1, n}) \in {1, n} /\ \A y \in {1, n} : Max({1, n}) >= y
    BY <1>2 DEF Max
  <1>4. Max({1, n}) \in Int /\ Max({1, n}) >= 1
    BY <1>1, <1>3
  <1>5. ASSUME NEW m \in Int, m >= 1
        PROVE  SubSeq(longer, m, Len(longer)) \in Seq(E)
    <2>1. \A i \in m..Len(longer) : longer[i] \in E
      BY <1>1, <1>5, LenProperties
    <2> QED
      BY <1>1, <2>1, SubSeqProperties
  <1>6. SubSeq(longer, Max({1, n}), Len(longer)) \in Seq(E)
    BY <1>4, <1>5
  <1> QED
    BY <1>1, <1>6 DEF Appended, longer

(* Rows stay and keep their segments: so do entries.                       *)
LEMMA EntriesStay ==
    ASSUME StoresKept, DOMAIN ledger \subseteq DOMAIN ledger',
           \A i \in DOMAIN ledger : ledger'[i].segment = ledger[i].segment
    PROVE  entries \in Seq(EntriesOf(ledger'))
  <1>1. EntriesOf(ledger) \subseteq EntriesOf(ledger')
    BY DEF EntriesOf
  <1>2. entries \in Seq(EntriesOf(ledger))
    BY DEF StoresKept
  <1> QED
    BY <1>1, <1>2

(* The steps of a write.                                                   *)
LEMMA RememberInv ==
    ASSUME MemoryIInv, NEW a \in Agents, NEW s \in Kinds, RememberAs(a, s)
    PROVE  MemoryIInv'
  <1> DEFINE w == [op |-> "insert", id |-> lastId', segment |-> s]
  <1>1. /\ working' = [working EXCEPT ![a] = w] /\ lastId' = lastId + 1
        /\ UNCHANGED <<ledger, entries, told, gone>>
    BY DEF RememberAs, Becomes
  <1>2. lastId \in Nat /\ DOMAIN ledger \subseteq 1..lastId
    BY DEF MemoryIInv, StoresKept
  <1>3. lastId' \in Nat /\ lastId <= lastId' /\ lastId' \notin 1..lastId /\ lastId' \in 1..lastId'
    BY <1>1, <1>2
  <1>4. w.id = lastId' /\ w.op = "insert" /\ w = [op |-> "insert", id |-> w.id, segment |-> w.segment]
        /\ w.segment \in Kinds
    OBVIOUS
  <1> HIDE DEF w
  <1>5. /\ working' = [x \in Agents |-> working'[x]] /\ working'[a] = w
        /\ \A b \in Agents \ {a} : working'[b] = working[b]
    BY <1>1, WorkingIs
  <1>8. \A b \in Agents \ {a} : AtWork(b)'
    BY <1>1, <1>3, <1>4, <1>5, OthersAtWork
  <1>6. AtWork(a)'
    <2>1. \A b \in Agents \ {a} : (working'[b] # Idle /\ working'[b].op = "insert") => working'[b].id # w.id
      <3>2. \A b \in Agents : (working[b] # Idle /\ working[b].op = "insert") => working[b].id \in 1..lastId
        BY DEF MemoryIInv, AtWork
      <3> QED
        BY <1>5, <3>2, <1>3, <1>4
    <2>2. w.id \notin DOMAIN ledger'
      BY <1>1, <1>2, <1>3, <1>4
    <2> QED
      BY <1>3, <1>4, <1>5, <2>1, <2>2 DEF AtWork
  <1>7. StoresKept'
    <2>1. DOMAIN ledger' \subseteq 1..lastId'
      BY <1>1, <1>2
    <2> QED
      BY <1>1, <1>3, <2>1 DEF MemoryIInv, StoresKept
  <1> QED
    BY <1>5, <1>6, <1>7, <1>8 DEF MemoryIInv

LEMMA InsertInv ==
    ASSUME MemoryIInv, NEW a \in Agents, InsertMemory(a)
    PROVE  MemoryIInv'
  <1> DEFINE m == working[a]
             row == [segment |-> m.segment, forgotten |-> FALSE, payload |-> [forgotten |-> FALSE]]
  <1>1. /\ m # Idle /\ m.op = "insert"
        /\ m = [op |-> "insert", id |-> m.id, segment |-> m.segment] /\ m.segment \in Kinds
        /\ m.id \in 1..lastId /\ m.id \notin DOMAIN ledger
    BY DEF InsertMemory, MemoryIInv, AtWork
  <1>2. PICK stored \in BOOLEAN, raises \in BOOLEAN :
          /\ stored \/ raises
          /\ ledger' = IF stored
                     THEN [i \in DOMAIN ledger \cup {m.id} |-> IF i = m.id THEN row ELSE ledger[i]]
                     ELSE ledger
          /\ working' = [working EXCEPT ![a] = IF raises THEN Idle ELSE [m EXCEPT !.op = "append"]]
    BY DEF InsertMemory, Becomes, GivesUp
  <1>3. UNCHANGED <<entries, lastId, told, gone>>
    BY DEF InsertMemory
  <1> DEFINE w == IF raises THEN Idle ELSE [m EXCEPT !.op = "append"]
  <1>4. /\ DOMAIN ledger' \subseteq DOMAIN ledger \cup {m.id}
        /\ DOMAIN ledger \subseteq DOMAIN ledger'
        /\ \A i \in DOMAIN ledger : ledger'[i] = ledger[i]
        /\ stored => m.id \in DOMAIN ledger' /\ ledger'[m.id] = row
    BY <1>1, <1>2
  <1>5. lastId \in Nat /\ DOMAIN ledger \subseteq 1..lastId
    BY DEF MemoryIInv, StoresKept
  <1>6. w # Idle => /\ ~raises /\ w.op = "append" /\ w.id = m.id /\ w.segment = m.segment
    BY <1>1
  <1>7. working' = [working EXCEPT ![a] = w]
    BY <1>2
  <1> HIDE DEF w
  <1>8. /\ working' = [x \in Agents |-> working'[x]] /\ working'[a] = w
        /\ \A b \in Agents \ {a} : working'[b] = working[b]
    BY <1>7, WorkingIs
  <1>11. \A b \in Agents \ {a} : AtWork(b)'
    <2>1. \A i \in DOMAIN ledger' \ DOMAIN ledger :
              working[a] # Idle /\ working[a].op = "insert" /\ working[a].id = i
      BY <1>1, <1>4
    <2>2. /\ lastId' \in Nat /\ lastId <= lastId'
          /\ \A i \in DOMAIN ledger : ledger'[i].segment = ledger[i].segment
      BY <1>3, <1>4, <1>5
    <2>3. ~(working'[a] # Idle /\ working'[a].op = "insert")
      BY <1>6, <1>8
    <2> QED
      BY <1>4, <1>8, <2>1, <2>2, <2>3, OthersAtWork
  <1>9. AtWork(a)'
    <2>1. w # Idle => w.id \in DOMAIN ledger' /\ w.segment = ledger'[w.id].segment
      BY <1>2, <1>4, <1>6
    <2> QED
      BY <1>6, <1>8, <2>1 DEF AtWork
  <1>10. StoresKept'
    <2>1. DOMAIN ledger' \subseteq 1..lastId
      BY <1>1, <1>4, <1>5
    <2>2. \A i \in DOMAIN ledger' : ledger'[i] \in Rows
      <3>3. row \in Rows
        BY <1>1 DEF Rows
      <3> TAKE i \in DOMAIN ledger'
      <3>1. CASE i \in DOMAIN ledger
        BY <3>1, <1>4 DEF MemoryIInv, StoresKept
      <3>2. CASE i \notin DOMAIN ledger
        BY <3>2, <3>3, <1>2, <1>4
      <3> QED
        BY <3>1, <3>2
    <2>3. entries \in Seq(EntriesOf(ledger'))
      BY <1>4, EntriesStay DEF MemoryIInv
    <2> QED
      BY <1>3, <1>4, <1>5, <2>1, <2>2, <2>3 DEF MemoryIInv, StoresKept
  <1> QED
    BY <1>8, <1>9, <1>10, <1>11 DEF MemoryIInv

LEMMA AppendInv ==
    ASSUME MemoryIInv, NEW a \in Agents, Publish(a) \/ Entomb(a)
    PROVE  MemoryIInv'
  <1> DEFINE m == working[a]
  <1>1. m # Idle /\ m.op \in {"append", "entomb"} /\ UNCHANGED <<ledger, lastId>>
    BY DEF Publish, Entomb
  <1>2. PICK e \in EntriesOf(ledger) : \E r \in BOOLEAN :
           /\ entries' \in Appended(e) \cup {entries} /\ working' = [working EXCEPT ![a] = Idle]
           /\ told' \in {told, told \cup {m.id}} /\ m.id \in DOMAIN ledger
    <2>1. CASE Publish(a)
      <3> DEFINE e == [id |-> m.id, segment |-> m.segment, forgotten |-> FALSE]
      <3>1. m # Idle /\ m.op = "append" /\ m.id \in DOMAIN ledger /\ m.segment = ledger[m.id].segment
        BY <2>1 DEF Publish, MemoryIInv, AtWork
      <3>2. e \in EntriesOf(ledger)
        BY <3>1 DEF EntriesOf
      <3> HIDE DEF e
      <3>3. /\ entries' \in Appended(e) \cup {entries} /\ working' = [working EXCEPT ![a] = Idle]
            /\ told' \in {told, told \cup {m.id}}
        BY <2>1 DEF Publish, AppendEntry, GivesUp, Becomes, e
      <3> QED
        BY <3>1, <3>2, <3>3
    <2>2. CASE Entomb(a)
      <3> DEFINE e == [id |-> m.id, segment |-> ledger[m.id].segment, forgotten |-> m.forgotten]
      <3>1. m # Idle /\ m.op = "entomb" /\ m.id \in DOMAIN ledger /\ m.forgotten = FALSE
        BY <2>2 DEF Entomb, MemoryIInv, AtWork
      <3>2. e \in EntriesOf(ledger)
        BY <3>1 DEF EntriesOf
      <3> HIDE DEF e
      <3>3. /\ entries' \in Appended(e) \cup {entries} /\ working' = [working EXCEPT ![a] = Idle]
            /\ told' \in {told, told \cup {m.id}}
        BY <2>2 DEF Entomb, AppendEntry, GivesUp, Becomes, e
      <3> QED
        BY <3>1, <3>2, <3>3
    <2> QED
      BY <2>1, <2>2
  <1>3. lastId \in Nat
    BY DEF MemoryIInv, StoresKept
  <1>4. /\ working' = [x \in Agents |-> working'[x]] /\ working'[a] = Idle
        /\ \A b \in Agents \ {a} : working'[b] = working[b]
    BY <1>2, WorkingIs
  <1>8. \A b \in Agents \ {a} : AtWork(b)'
    BY <1>1, <1>3, <1>4, OthersAtWork
  <1>5. AtWork(a)'
    BY <1>4 DEF AtWork
  <1>6. entries' \in Seq(EntriesOf(ledger))
    <2>1. entries \in Seq(EntriesOf(ledger)) /\ StreamKeeps \in Nat
      BY MemoryAssumption DEF MemoryIInv, StoresKept
    <2> QED
      BY <1>2, <2>1, AppendedKept
  <1>7. StoresKept'
    BY <1>1, <1>2, <1>6 DEF MemoryIInv, StoresKept
  <1> QED
    BY <1>4, <1>5, <1>7, <1>8 DEF MemoryIInv

LEMMA ForgetInv ==
    ASSUME MemoryIInv, NEW a \in Agents, Forget(a)
    PROVE  MemoryIInv'
  <1>1. PICK i \in DOMAIN ledger :
          /\ ledger' = [ledger EXCEPT ![i].forgotten = TRUE]
          /\ working' \in {working, [working EXCEPT ![a] = [op |-> "read back", id |-> i]]}
    BY DEF Forget
  <1>2. UNCHANGED <<entries, lastId, told, gone>> /\ working[a] = Idle
    BY DEF Forget
  <1>3. PICK w : /\ w = Idle \/ w = [op |-> "read back", id |-> i]
                 /\ working' = [working EXCEPT ![a] = w]
    <2>1. working = [working EXCEPT ![a] = Idle]
      BY <1>2 DEF MemoryIInv
    <2> QED
      BY <1>1, <2>1
  <1>4. /\ DOMAIN ledger' = DOMAIN ledger
        /\ \A j \in DOMAIN ledger : ledger'[j].segment = ledger[j].segment /\ ledger'[j] \in Rows
    <2>1. DOMAIN ledger' = DOMAIN ledger
      BY <1>1
    <2>2. ASSUME NEW j \in DOMAIN ledger
          PROVE  ledger'[j].segment = ledger[j].segment /\ ledger'[j] \in Rows
      <3>1. ledger[j] \in Rows
        BY DEF MemoryIInv, StoresKept
      <3>2. ledger'[j] = IF j = i THEN [ledger[j] EXCEPT !.forgotten = TRUE] ELSE ledger[j]
        BY <1>1
      <3> QED
        BY <3>1, <3>2 DEF Rows
    <2> QED
      BY <2>1, <2>2
  <1>5. lastId \in Nat
    BY DEF MemoryIInv, StoresKept
  <1>6. w # Idle => w.op = "read back" /\ w.id = i
    <2>1. [op |-> "read back", id |-> i].op = "read back" /\ [op |-> "read back", id |-> i].id = i
      OBVIOUS
    <2> QED
      BY <1>3, <2>1, Zenon
  <1>7. /\ working' = [x \in Agents |-> working'[x]] /\ working'[a] = w
        /\ \A b \in Agents \ {a} : working'[b] = working[b]
    BY <1>3, WorkingIs
  <1>10. \A b \in Agents \ {a} : AtWork(b)'
    <2>1. ~(working'[a] # Idle /\ working'[a].op = "insert")
      BY <1>6, <1>7
    <2>2. lastId' \in Nat /\ lastId <= lastId' /\ DOMAIN ledger' \ DOMAIN ledger = {}
      BY <1>2, <1>4, <1>5
    <2> QED
      BY <1>4, <1>7, <2>1, <2>2, OthersAtWork
  <1>8. AtWork(a)'
    BY <1>4, <1>6, <1>7 DEF AtWork
  <1>9. StoresKept'
    <2>1. entries \in Seq(EntriesOf(ledger'))
      BY <1>4, EntriesStay DEF MemoryIInv
    <2> QED
      BY <1>2, <1>4, <2>1 DEF MemoryIInv, StoresKept
  <1> QED
    BY <1>7, <1>8, <1>9, <1>10 DEF MemoryIInv

(* Steps that touch no store: they end the agent's work or go on with it.  *)
LEMMA ReadInv ==
    ASSUME MemoryIInv, NEW a \in Agents, NEW w,
           working' = [working EXCEPT ![a] = w], UNCHANGED <<ledger, entries, lastId, told>>,
           ~(w # Idle /\ w.op = "insert"),
           working'[a] = w => AtWork(a)'
    PROVE  MemoryIInv'
  <1>1. /\ working' = [x \in Agents |-> working'[x]] /\ working'[a] = w
        /\ \A b \in Agents \ {a} : working'[b] = working[b]
    BY WorkingIs
  <1>2. lastId \in Nat
    BY DEF MemoryIInv, StoresKept
  <1>3. \A b \in Agents \ {a} : AtWork(b)'
    BY <1>1, <1>2, OthersAtWork
  <1>4. StoresKept'
    BY DEF MemoryIInv, StoresKept
  <1> QED
    BY <1>1, <1>3, <1>4 DEF MemoryIInv

LEMMA ReadBackInv ==
    ASSUME MemoryIInv, NEW a \in Agents, ReadBack(a)
    PROVE  MemoryIInv'
  <1> DEFINE m == working[a]
             w == [op |-> "entomb", id |-> m.id, forgotten |-> ledger[m.id].payload.forgotten]
  <1>1. m # Idle /\ m.op = "read back" /\ m.id \in DOMAIN ledger
    BY DEF ReadBack, MemoryIInv, AtWork
  <1>2. UNCHANGED <<ledger, entries, lastId, told>>
    BY DEF ReadBack
  <1>3. working' = [working EXCEPT ![a] = Idle] \/ working' = [working EXCEPT ![a] = w]
    BY DEF ReadBack
  <1>4. CASE working' = [working EXCEPT ![a] = Idle]
    <2>1. working'[a] = Idle => AtWork(a)'
      BY DEF AtWork
    <2> QED
      BY <1>2, <1>4, <2>1, ReadInv
  <1>5. CASE working' = [working EXCEPT ![a] = w]
    <2>1. ledger[m.id].payload.forgotten = FALSE
      BY <1>1 DEF MemoryIInv, StoresKept, Rows
    <2>2. w.op = "entomb" /\ w.id = m.id /\ w.forgotten = FALSE
      BY <2>1
    <2> HIDE DEF w
    <2>3. working'[a] = w => AtWork(a)'
      BY <1>1, <1>2, <2>2 DEF AtWork
    <2> QED
      BY <1>2, <1>5, <2>2, <2>3, ReadInv
  <1> QED
    BY <1>3, <1>4, <1>5

LEMMA RecallInv ==
    ASSUME MemoryIInv, NEW a \in Agents, NEW s, RecallAs(a, s)
    PROVE  MemoryIInv'
  <1> DEFINE found == Recalled(s, told, gone, Live(s))
             back == [op |-> "fall back", segment |-> s, knew |-> told, had |-> gone]
  <1>1. UNCHANGED <<ledger, entries, lastId, told>>
    BY DEF RecallAs
  <1>2. working' = [working EXCEPT ![a] = found] \/ working' = [working EXCEPT ![a] = back]
    BY DEF RecallAs, Becomes
  <1>3. found.op = "recalled"
    BY DEF Recalled
  <1>4. back.op = "fall back" /\ back.knew = told
    OBVIOUS
  <1>5. told \subseteq DOMAIN ledger
    BY DEF MemoryIInv, StoresKept
  <1> HIDE DEF found, back
  <1>6. CASE working' = [working EXCEPT ![a] = found]
    <2>1. working'[a] = found => AtWork(a)'
      BY <1>3 DEF AtWork
    <2> QED
      BY <1>1, <1>3, <1>6, <2>1, ReadInv
  <1>7. CASE working' = [working EXCEPT ![a] = back]
    <2>1. working'[a] = back => AtWork(a)'
      BY <1>1, <1>4, <1>5 DEF AtWork
    <2> QED
      BY <1>1, <1>4, <1>7, <2>1, ReadInv
  <1> QED
    BY <1>2, <1>6, <1>7

LEMMA AnswerInv ==
    ASSUME MemoryIInv, NEW a \in Agents, FallBack(a) \/ Answered(a)
    PROVE  MemoryIInv'
  <1> DEFINE m == working[a]
             found == Recalled(m.segment, m.knew, m.had, Durable(m.segment))
  <1>1. UNCHANGED <<ledger, entries, lastId, told>>
    BY DEF FallBack, Answered
  <1>2. working' = [working EXCEPT ![a] = found] \/ working' = [working EXCEPT ![a] = Idle]
    BY DEF FallBack, Answered, Becomes, GivesUp
  <1>3. found.op = "recalled"
    BY DEF Recalled
  <1> HIDE DEF found
  <1>4. CASE working' = [working EXCEPT ![a] = found]
    <2>1. working'[a] = found => AtWork(a)'
      BY <1>3 DEF AtWork
    <2> QED
      BY <1>1, <1>3, <1>4, <2>1, ReadInv
  <1>5. CASE working' = [working EXCEPT ![a] = Idle]
    <2>1. working'[a] = Idle => AtWork(a)'
      BY DEF AtWork
    <2> QED
      BY <1>1, <1>5, <2>1, ReadInv
  <1> QED
    BY <1>2, <1>4, <1>5

LEMMA MemoryStepInv == MemoryIInv /\ [MemoryNext]_memoryVars => MemoryIInv'
  <1> SUFFICES ASSUME MemoryIInv, [MemoryNext]_memoryVars PROVE MemoryIInv'
    OBVIOUS
  <1>1. ASSUME NEW a \in Writers,
               \/ Remember(a) \/ CommandRemember(a) \/ InsertMemory(a) \/ Publish(a)
               \/ Forget(a) \/ ReadBack(a) \/ Entomb(a)
        PROVE  MemoryIInv'
    <2>1. a \in Agents
      BY DEF Agents
    <2>2. CASE Remember(a) \/ CommandRemember(a)
      <3>1. PICK s \in Kinds : RememberAs(a, s)
        BY <2>2 DEF Remember, CommandRemember, Kinds
      <3> QED
        BY <2>1, <3>1, RememberInv
    <2> QED
      BY <1>1, <2>1, <2>2, InsertInv, AppendInv, ForgetInv, ReadBackInv
  <1>2. ASSUME NEW a \in Readers, Recall(a) \/ CommandRecall(a) \/ FallBack(a) \/ Answered(a)
        PROVE  MemoryIInv'
    <2>1. a \in Agents
      BY DEF Agents
    <2>2. CASE Recall(a) \/ CommandRecall(a)
      <3>1. PICK s : RecallAs(a, s)
        BY <2>2 DEF Recall, CommandRecall
      <3> QED
        BY <2>1, <3>1, RecallInv
    <2> QED
      BY <1>2, <2>1, <2>2, AnswerInv
  <1>3. CASE Evicted
    <2>1. /\ UNCHANGED <<ledger, working, lastId, told>>
          /\ entries' \in Seq(EntriesOf(ledger))
      BY <1>3 DEF Evicted
    <2> QED
      BY <2>1 DEF MemoryIInv, StoresKept, AtWork
  <1>4. CASE UNCHANGED memoryVars
    BY <1>4 DEF MemoryIInv, StoresKept, AtWork, memoryVars
  <1> QED
    BY <1>1, <1>2, <1>3, <1>4 DEF MemoryNext

THEOREM MemoryInvariance == MemorySpec => []MemoryIInv
  BY MemoryInitInv, MemoryStepInv, PTL DEF MemorySpec

(* Who is not among the n greatest of a finite set has n above it.         *)
LEMMA NotNewest ==
    ASSUME NEW ns, IsFiniteSet(ns), NEW n \in Nat, NEW i \in ns, i \notin NewestOf(ns, n)
    PROVE  Cardinality({j \in ns : j > i}) >= n
  <1>1. {j \in ns : j > i} \in SUBSET ns
    OBVIOUS
  <1>2. Cardinality({j \in ns : j > i}) \in Nat
    BY <1>1, FS_Subset, FS_CardinalityType
  <1>3. ~(Cardinality({j \in ns : j > i}) < n)
    BY DEF NewestOf
  <1> QED
    BY <1>2, <1>3

LEMMA Bigger ==
    ASSUME NEW S, NEW T, IsFiniteSet(T), S \subseteq T, NEW n \in Nat, Cardinality(S) >= n
    PROVE  Cardinality(T) >= n
  <1>1. IsFiniteSet(S) /\ Cardinality(S) <= Cardinality(T)
    BY FS_Subset
  <1>2. Cardinality(S) \in Nat /\ Cardinality(T) \in Nat
    BY <1>1, FS_CardinalityType
  <1> QED
    BY <1>1, <1>2

(* A set of numbers up to n has a greatest.                                *)
LEMMA MaxIsGreatest ==
    ASSUME NEW n \in Nat, NEW K, K \subseteq 1..n, K # {}
    PROVE  Max(K) \in K /\ \A y \in K : Max(K) >= y
  <1> DEFINE T == {x \in Nat : \A y \in K : x >= y}
  <1>1. T \subseteq Nat /\ n \in T
    OBVIOUS
  <1>2. PICK x \in T : \A y \in T : x <= y
    BY <1>1, LeastNat
  <1>3. x \in K
    <2> SUFFICES ASSUME x \notin K PROVE FALSE
      OBVIOUS
    <2>1. PICK k \in K : TRUE
      OBVIOUS
    <2>2. x \in Nat /\ x >= k /\ k \in 1..n
      BY <2>1
    <2>3. \A y \in K : x # y /\ x >= y /\ y \in 1..n
      OBVIOUS
    <2>4. x - 1 \in Nat /\ \A y \in K : x - 1 >= y
      BY <2>2, <2>3
    <2>5. x - 1 \in T
      BY <2>4
    <2> QED
      BY <1>2, <2>2, <2>5
  <1>4. \E z \in K : \A y \in K : z >= y
    BY <1>2, <1>3
  <1> QED
    BY <1>4 DEF Max

LEMMA EntryIs ==
    ASSUME MemoryIInv
    PROVE  /\ Len(entries) \in Nat /\ DOMAIN entries = 1..Len(entries)
           /\ IsFiniteSet(DOMAIN entries) /\ IsFiniteSet(DOMAIN ledger)
           /\ \A k \in DOMAIN entries :
                 /\ entries[k].id \in DOMAIN ledger /\ ~entries[k].forgotten
                 /\ entries[k].segment = ledger[entries[k].id].segment
  <1> DEFINE E == EntriesOf(ledger)
  <1>1. entries \in Seq(E)
    BY DEF MemoryIInv, StoresKept
  <1> HIDE DEF E
  <1>2. /\ Len(entries) \in Nat /\ DOMAIN entries = 1..Len(entries)
        /\ \A k \in DOMAIN entries : entries[k] \in E
    BY <1>1, LenProperties
  <1>3. lastId \in Nat /\ DOMAIN ledger \subseteq 1..lastId
    BY DEF MemoryIInv, StoresKept
  <1>4. IsFiniteSet(1..lastId) /\ IsFiniteSet(1..Len(entries))
    BY <1>2, <1>3, FS_Interval
  <1>5. IsFiniteSet(DOMAIN ledger)
    BY <1>3, <1>4, FS_Subset
  <1>6. \A e \in E : e.id \in DOMAIN ledger /\ ~e.forgotten /\ e.segment = ledger[e.id].segment
    BY DEF E, EntriesOf
  <1> QED
    BY <1>2, <1>4, <1>5, <1>6

(* What the stream's recall leaves out, newer entries hide.                *)
LEMMA LiveHides ==
    ASSUME MemoryIInv, NEW s, Live(s) # {},
           NEW i \in DOMAIN ledger, i \notin Live(s), Wanted(ledger[i].segment, s)
    PROVE  HiddenLive(i, s)
  <1> DEFINE D == DOMAIN entries
             found == {k \in Standing : ~entries[k].forgotten /\ Wanted(entries[k].segment, s)}
             K == {k \in D : entries[k].id = i}
             Newer(at) == {entries[k].id : k \in {j \in D : j > at /\ Wanted(entries[j].segment, s)}}
  <1>1. /\ Len(entries) \in Nat /\ D = 1..Len(entries) /\ IsFiniteSet(D) /\ IsFiniteSet(DOMAIN ledger)
        /\ \A k \in D : /\ entries[k].id \in DOMAIN ledger /\ ~entries[k].forgotten
                         /\ entries[k].segment = ledger[entries[k].id].segment
    BY EntryIs
  <1>2. Limit \in Nat /\ LiveReach \in Nat /\ LiveReach * Limit \in Nat
    BY MemoryAssumption
  <1>3. Live(s) = {entries[k].id : k \in NewestOf(found, Limit)}
    BY DEF Live
  <1>4. found \subseteq D
    BY DEF Standing, LiveWindow, NewestOf
  <1>5. HiddenLive(i, s) = IF K # {}
            THEN Len(entries) - Max(K) >= LiveReach * Limit \/ Cardinality(Newer(Max(K))) >= Limit
            ELSE Newer(0) # {}
    BY DEF HiddenLive
  <1>6. CASE K = {}
    <2>1. PICK k \in found : TRUE
      BY <1>3 DEF NewestOf
    <2>2. k \in D /\ k > 0 /\ Wanted(entries[k].segment, s)
      BY <2>1, <1>1, <1>4
    <2> QED
      BY <1>5, <1>6, <2>2
  <1>7. CASE K # {}
    <2>1. K \subseteq 1..Len(entries)
      BY <1>1
    <2> DEFINE at == Max(K)
    <2>2. at \in K /\ \A y \in K : at >= y
      BY <1>1, <1>7, <2>1, MaxIsGreatest
    <2> HIDE DEF at
    <2>3. at \in 1..Len(entries) /\ entries[at].id = i
      BY <2>1, <2>2
    <2> DEFINE reach == LiveReach * Limit
    <2>4. SUFFICES ASSUME Len(entries) - at < reach
                   PROVE  Cardinality(Newer(at)) >= Limit
      <3>1. reach \in Nat /\ Len(entries) \in Nat /\ at \in 1..Len(entries)
        BY <1>1, <1>2, <2>3
      <3>2. Len(entries) - at >= reach \/ Len(entries) - at < reach
        <4> HIDE DEF reach
        <4> QED
          BY ONLY <3>1
      <3> HIDE DEF K, Newer, reach
      <3>3. HiddenLive(i, s) <=> Len(entries) - at >= reach \/ Cardinality(Newer(at)) >= Limit
        BY <1>5, <1>7 DEF at, reach
      <3> QED
        BY <3>2, <3>3
    <2>5. at \in LiveWindow
      <3> DEFINE after == {j \in D : j > at}
      <3>1. after = (at + 1)..Len(entries)
        BY <1>1, <2>3
      <3>2. Cardinality(after) = Len(entries) - at
        <4>1. at + 1 \in Int /\ Len(entries) \in Int /\ at \in Int /\ at <= Len(entries)
          BY <1>1, <2>3
        <4>2. Cardinality((at + 1)..Len(entries)) =
                IF at + 1 > Len(entries) THEN 0 ELSE Len(entries) - (at + 1) + 1
          BY <4>1, FS_Interval
        <4> HIDE DEF after
        <4> QED
          BY ONLY <3>1, <4>1, <4>2
      <3> QED
        BY <1>1, <2>3, <2>4, <3>2 DEF LiveWindow, NewestOf
    <2>6. at \in found
      <3>1. \A j \in DOMAIN entries : entries[j].id = entries[at].id => j <= at
        BY <2>1, <2>2, <2>3
      <3>2. at \in Standing
        BY <2>5, <3>1 DEF Standing
      <3>3. ~entries[at].forgotten /\ Wanted(entries[at].segment, s)
        BY <1>1, <2>3
      <3> QED
        BY <3>2, <3>3
    <2>7. at \notin NewestOf(found, Limit)
      BY <1>3, <2>3
    <2> DEFINE G == {k \in found : k > at}
    <2>8. Cardinality(G) >= Limit
      <3>1. IsFiniteSet(found)
        BY <1>1, <1>4, FS_Subset
      <3> HIDE DEF found
      <3> QED
        BY <1>2, <2>6, <2>7, <3>1, NotNewest
    <2> DEFINE N == Newer(at)
               f == [k \in G |-> entries[k].id]
    <2>9. \A k \in G : entries[k].id \in N
      BY <1>4
    <2>10. \A k \in G, l \in G : entries[k].id = entries[l].id => k = l
      <3> SUFFICES ASSUME NEW k \in G, NEW l \in G, entries[k].id = entries[l].id PROVE k = l
        OBVIOUS
      <3>1. k \in Standing /\ l \in Standing /\ k \in D /\ l \in D
        BY <1>4
      <3>2. l <= k /\ k <= l
        BY <3>1 DEF Standing
      <3> QED
        BY <1>1, <3>1, <3>2
    <2>11. IsFiniteSet(N)
      <3>1. N \in SUBSET DOMAIN ledger
        BY <1>1
      <3> QED
        BY <1>1, <3>1, FS_Subset
    <2> HIDE DEF N, G
    <2>12. f \in Injection(G, N)
      BY <2>9, <2>10 DEF Injection, IsInjective
    <2>13. Cardinality(G) <= Cardinality(N) /\ IsFiniteSet(G)
      BY <2>11, <2>12, FS_Injection
    <2>14. Cardinality(G) \in Nat /\ Cardinality(N) \in Nat
      BY <2>11, <2>13, FS_CardinalityType
    <2>15. Cardinality(N) >= Limit
      BY <1>2, <2>8, <2>13, <2>14
    <2> QED
      BY <2>15 DEF N
  <1> QED
    BY <1>6, <1>7

(* What the table's recall leaves out, newer rows hide.                    *)
LEMMA DurableHides ==
    ASSUME MemoryIInv, NEW s,
           NEW i \in DOMAIN ledger, i \notin Durable(s), Wanted(ledger[i].segment, s), ~ledger[i].forgotten
    PROVE  HiddenDurable(i, s)
  <1> DEFINE U == {j \in DOMAIN ledger : ~ledger[j].forgotten}
             W == {j \in DurableWindow : Wanted(ledger[j].segment, s)}
             A == {j \in DOMAIN ledger : j > i}
             B == {j \in DOMAIN ledger : j > i /\ Wanted(ledger[j].segment, s)}
  <1>1. IsFiniteSet(DOMAIN ledger)
    BY EntryIs
  <1>2. Limit \in Nat /\ DurableReach * Limit \in Nat
    BY MemoryAssumption
  <1>3. /\ IsFiniteSet(U) /\ IsFiniteSet(A) /\ IsFiniteSet(B)
        /\ DurableWindow \subseteq U
    BY <1>1, FS_Subset DEF DurableWindow, NewestOf
  <1>4. IsFiniteSet(W)
    BY <1>3, FS_Subset
  <1>5. CASE i \notin DurableWindow
    <2>1. i \in U /\ i \notin NewestOf(U, DurableReach * Limit)
      BY <1>5 DEF DurableWindow
    <2>2. {j \in U : j > i} \subseteq A
      OBVIOUS
    <2> HIDE DEF U, A
    <2>3. Cardinality({j \in U : j > i}) >= DurableReach * Limit
      BY <1>2, <1>3, <2>1, NotNewest
    <2>4. Cardinality(A) >= DurableReach * Limit
      BY <1>2, <1>3, <2>2, <2>3, Bigger
    <2> QED
      BY <2>4 DEF HiddenDurable, A
  <1>6. CASE i \in DurableWindow
    <2>1. i \in W /\ i \notin NewestOf(W, Limit)
      BY <1>6 DEF Durable
    <2>2. {j \in W : j > i} \subseteq B
      BY <1>3
    <2> HIDE DEF W, B
    <2>3. Cardinality({j \in W : j > i}) >= Limit
      BY <1>2, <1>4, <2>1, NotNewest
    <2>4. Cardinality(B) >= Limit
      BY <1>2, <1>3, <2>2, <2>3, Bigger
    <2> QED
      BY <2>4 DEF HiddenDurable, B
  <1> QED
    BY <1>5, <1>6

(* MemoryNode.recall: what an agent was told is stored, its segment        *)
(* recalls, unless newer memories of the session or the segment hide it,   *)
(* for all reaches and limits, any number of agents that write, forget and *)
(* fail, and however the stream is trimmed or evicted.                     *)
THEOREM StoredRecalls == MemorySpec => StoredIsRecalled
  <1>1. MemoryIInv /\ [MemoryNext]_memoryVars =>
          [\A a \in Agents :
             LET m == working'[a] IN
             (working[a] # m /\ m # Idle /\ m.op = "recalled") =>
                \A i \in m.knew \ m.ids :
                  (Wanted(ledger[i].segment, m.segment) /\ ~ledger[i].forgotten) =>
                     IF working[a] = Idle THEN HiddenLive(i, m.segment)
                     ELSE HiddenDurable(i, m.segment)]_memoryVars
    <2> SUFFICES ASSUME MemoryIInv, MemoryNext, NEW a \in Agents,
                        working[a] # working'[a], working'[a] # Idle, working'[a].op = "recalled",
                        NEW i \in working'[a].knew \ working'[a].ids,
                        Wanted(ledger[i].segment, working'[a].segment), ~ledger[i].forgotten
                 PROVE  IF working[a] = Idle THEN HiddenLive(i, working'[a].segment)
                        ELSE HiddenDurable(i, working'[a].segment)
      OBVIOUS
    <2>1. told \subseteq DOMAIN ledger
      BY DEF MemoryIInv, StoresKept
    <2>2. ASSUME NEW s, RecallAs(a, s)
          PROVE  working[a] = Idle /\ HiddenLive(i, working'[a].segment)
      <3> DEFINE r == Recalled(s, told, gone, Live(s))
                 back == [op |-> "fall back", segment |-> s, knew |-> told, had |-> gone]
      <3>1. /\ working[a] = Idle
            /\ working' = [working EXCEPT ![a] = IF Live(s) # {} THEN r ELSE back]
        BY <2>2 DEF RecallAs, Becomes
      <3>2. back.op = "fall back"
        OBVIOUS
      <3>3. r.segment = s /\ r.knew = told /\ r.ids = Live(s)
        BY DEF Recalled
      <3> HIDE DEF r, back
      <3>4. working'[a] = IF Live(s) # {} THEN r ELSE back
        BY <3>1 DEF MemoryIInv
      <3>5. Live(s) # {} /\ working'[a] = r
        BY <3>2, <3>4
      <3>6. i \in DOMAIN ledger /\ i \notin Live(s) /\ Wanted(ledger[i].segment, s)
        BY <2>1, <3>3, <3>5
      <3>7. HiddenLive(i, s)
        BY <3>5, <3>6, LiveHides
      <3> QED
        BY <3>1, <3>3, <3>5, <3>7
    <2>3. ASSUME FallBack(a)
          PROVE  working[a] # Idle /\ HiddenDurable(i, working'[a].segment)
      <3> DEFINE m == working[a]
                 r == Recalled(m.segment, m.knew, m.had, Durable(m.segment))
      <3>1. m # Idle /\ m.op = "fall back"
        BY <2>3 DEF FallBack
      <3>2. working' = [working EXCEPT ![a] = r] \/ working' = [working EXCEPT ![a] = Idle]
        BY <2>3 DEF FallBack, Becomes, GivesUp
      <3>3. r.segment = m.segment /\ r.knew = m.knew /\ r.ids = Durable(m.segment)
        BY DEF Recalled
      <3> HIDE DEF r
      <3>4. working'[a] = r
        BY <3>2 DEF MemoryIInv
      <3>5. m.knew \subseteq DOMAIN ledger
        BY <3>1 DEF MemoryIInv, AtWork
      <3>6. i \in DOMAIN ledger /\ i \notin Durable(m.segment) /\ Wanted(ledger[i].segment, m.segment)
        BY <3>3, <3>4, <3>5
      <3>7. HiddenDurable(i, m.segment)
        BY <3>6, DurableHides
      <3> QED
        BY <3>1, <3>3, <3>4, <3>7
    <2>4. PICK b \in Agents :
            \/ b \in Writers /\ (\/ Remember(b) \/ CommandRemember(b) \/ InsertMemory(b) \/ Publish(b)
                                \/ Forget(b) \/ ReadBack(b) \/ Entomb(b))
            \/ Recall(b) \/ CommandRecall(b) \/ FallBack(b) \/ Answered(b)
      <3>1. ~Evicted
        BY DEF Evicted
      <3> QED
        BY <3>1 DEF MemoryNext, Agents
    <2>5. \E w : working' = [working EXCEPT ![b] = w]
      BY <2>4
      DEF Remember, CommandRemember, RememberAs, InsertMemory, Publish, AppendEntry, Forget, ReadBack,
          Entomb, Recall, CommandRecall, RecallAs, FallBack, Answered, Becomes, GivesUp
    <2>6. b = a
      BY <2>5 DEF MemoryIInv
    <2>7. CASE Recall(a) \/ CommandRecall(a)
      <3>1. PICK s : RecallAs(a, s)
        BY <2>7 DEF Recall, CommandRecall
      <3> QED
        BY <2>2, <3>1
    <2>8. CASE FallBack(a)
      BY <2>3, <2>8
    <2>9. CASE Answered(a)
      BY <2>9 DEF Answered, GivesUp, Becomes, MemoryIInv
    <2>10. ~(Remember(a) \/ CommandRemember(a))
      <3> SUFFICES ASSUME NEW s, RememberAs(a, s) PROVE FALSE
        BY DEF Remember, CommandRemember
      <3> DEFINE w == [op |-> "insert", id |-> lastId', segment |-> s]
      <3>1. w.op = "insert"
        OBVIOUS
      <3> HIDE DEF w
      <3>2. working'[a] = w
        BY DEF RememberAs, Becomes, MemoryIInv, w
      <3> QED
        BY <3>1, <3>2
    <2>11. ~InsertMemory(a)
      <3> SUFFICES ASSUME InsertMemory(a) PROVE FALSE
        OBVIOUS
      <3> DEFINE m == working[a]
                 w == [m EXCEPT !.op = "append"]
      <3>1. m = [op |-> "insert", id |-> m.id, segment |-> m.segment]
        BY DEF InsertMemory, MemoryIInv, AtWork
      <3>2. w.op = "append"
        BY <3>1
      <3> HIDE DEF w
      <3>3. working'[a] = Idle \/ working'[a] = w
        BY DEF InsertMemory, GivesUp, Becomes, MemoryIInv, w
      <3> QED
        BY <3>2, <3>3
    <2>12. ~(Publish(a) \/ Entomb(a))
      BY DEF Publish, Entomb, AppendEntry, GivesUp, Becomes, MemoryIInv
    <2>13. ~Forget(a)
      <3> SUFFICES ASSUME Forget(a) PROVE FALSE
        OBVIOUS
      <3>1. PICK j \in DOMAIN ledger : working' = [working EXCEPT ![a] = [op |-> "read back", id |-> j]]
        BY DEF Forget
      <3> DEFINE w == [op |-> "read back", id |-> j]
      <3>2. w.op = "read back"
        OBVIOUS
      <3> HIDE DEF w
      <3>3. working'[a] = w
        BY <3>1 DEF MemoryIInv, w
      <3> QED
        BY <3>2, <3>3
    <2>14. ~ReadBack(a)
      <3> SUFFICES ASSUME ReadBack(a) PROVE FALSE
        OBVIOUS
      <3> DEFINE m == working[a]
                 w == [op |-> "entomb", id |-> m.id, forgotten |-> ledger[m.id].payload.forgotten]
      <3>1. w.op = "entomb"
        OBVIOUS
      <3>2. working' = [working EXCEPT ![a] = Idle] \/ working' = [working EXCEPT ![a] = w]
        BY DEF ReadBack
      <3> HIDE DEF w
      <3>3. working'[a] = Idle \/ working'[a] = w
        BY <3>2 DEF MemoryIInv
      <3> QED
        BY <3>1, <3>3
    <2> QED
      BY <2>4, <2>6, <2>7, <2>8, <2>9, <2>10, <2>11, <2>12, <2>13, <2>14
  <1> QED
    BY <1>1, MemoryInvariance, PTL DEF MemorySpec, StoredIsRecalled
=============================================================================
