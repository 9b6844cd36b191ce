---------------------------- MODULE FailureNode ----------------------------
(***************************************************************************)
(* One inference cycle as its failure node sees it: narration calls, whose *)
(* stream engine/llm.py supervises; the failure they may raise, classified *)
(* by engine/failure_fsm.py and dispatched to a bounded worker by          *)
(* engine/failure_substrate; the recovery loops of engine/core/context.py; *)
(* and the mirror that runs a tool call of an unusable shape once more.    *)
(* Time is counted in ticks within one call, a stream event at a time.     *)
(***************************************************************************)
EXTENDS Integers, FiniteSets

CONSTANTS
    Gap,        \* ticks without a chunk before the stream is called dead
    Deadline,   \* ticks after which a stream without a JSON shape is stalled
    Cap,        \* the absolute bound of one call
    BeatEvery,  \* ticks after which a chunk is followed by a heartbeat
    MaxTurns,   \* bounds the narrations of a cycle
    ToolNames   \* the tools a turn may call

ASSUME TicksAssumption ==
    /\ {Gap, Deadline, Cap, BeatEvery} \subseteq Nat \ {0}
    /\ Deadline <= Cap
ASSUME MaxTurnsAssumption == MaxTurns \in Nat

FSM == INSTANCE LoopMembrane

VARIABLES
    doing,     \* "idle", "streaming", "failed", "heard", "mirroring" or "ended"
    asking,    \* what narrates: "first", "followup" or "repair"
    stream,    \* [elapsed, beat, shape, formed, again]: what arrived, what was seen of it
    failure,   \* st.failure_kind
    spent,     \* the retry ledger of the cycle's failure substrate
    narrations, \* those asked for
    calls,     \* calls of _call_llm they took
    round,     \* the tools the round dispatched, i.e. with a result in it
    malformed, \* the calls of the round whose arguments were no object
    report,    \* the last failure report: [kind, worker, resolved, mirrored]
    terminal   \* st.controller.terminal

nodeVars == <<doing, asking, stream, failure, spent, narrations, calls, round, malformed, report, terminal>>

-----------------------------------------------------------------------------
(* The constitution: failure_fsm.FAILURE_CLASSIFICATION and the policies;  *)
(* substrate.WORKER_FOR_KIND, MAX_RETRIES.                                 *)

Transient == {"narration_failed", "narration_stalled_no_bytes", "narration_stalled_thinking",
              "tool_parse_failed"}
WorkerFor(kind) == IF kind = "tool_parse_failed" THEN "tool" ELSE "narration"
Workers == {"narration", "tool"}
MaxRetries == [narration |-> 1, tool |-> 2]

CanRetry(worker) == spent[worker] < MaxRetries[worker]
(* dispatch: a permanent failure, or a transient one whose budget is       *)
(* spent, terminates; any other runs its worker.                           *)
EscalatesNever(kind) == kind \notin Transient
Escalates(kind) == kind \notin Transient \/ ~ CanRetry(WorkerFor(kind))

NoReport == [kind |-> "none", worker |-> "none", resolved |-> FALSE, mirrored |-> {}]
Reports(kind, resolved, mirrored) ==
    report' = [kind |-> kind, worker |-> WorkerFor(kind), resolved |-> resolved, mirrored |-> mirrored]

Fresh == [elapsed |-> 0, beat |-> 0, shape |-> FALSE, formed |-> FALSE, again |-> FALSE]

NodeInit ==
    /\ doing = "idle" /\ asking = "first" /\ stream = Fresh /\ failure = "none"
    /\ spent = [w \in Workers |-> 0]
    /\ narrations = 0 /\ calls = 0 /\ round = {} /\ malformed = {}
    /\ report = NoReport /\ terminal = "none"

(* run_runtime_failure, and the degraded artifact of the first narration:  *)
(* the terminal of the kind through CYCLE_FAILED.                          *)
EndWith(kind) ==
    /\ doing' = "ended"
    /\ terminal' = FSM!TerminalFor(kind)

-----------------------------------------------------------------------------
(* One supervised call.                                                    *)

Ask ==
    /\ doing = "idle" /\ narrations < MaxTurns
    /\ asking' \in IF narrations = 0 THEN {"first"} ELSE {"followup", "repair"}
    /\ doing' = "streaming" /\ stream' = Fresh
    /\ narrations' = narrations + 1 /\ calls' = calls + 1
    /\ UNCHANGED <<failure, spent, round, malformed, report, terminal>>

(* The verdict a chunk draws after it was counted: the shape is looked for *)
(* only when a heartbeat is due.                                           *)
Stalled(s) == s.elapsed >= Deadline /\ ~ s.formed
Expired(s) == s.elapsed >= Cap
RaisesExpiredOnly(s) == IF Stalled(s) THEN "narration_stalled_thinking" ELSE "none"
Raises(s) ==
    CASE Stalled(s) -> "narration_stalled_thinking"
      [] ~ Stalled(s) /\ Expired(s) -> "narration_failed"
      [] OTHER -> "none"

Arrive(wait, shaped, due) ==
    LET now == stream.elapsed + wait
        beats == due \/ now - stream.beat >= BeatEvery
    IN  [elapsed |-> now,
         beat    |-> IF beats THEN now ELSE stream.beat,
         shape   |-> shaped,
         formed  |-> stream.formed \/ (beats /\ shaped),
         again   |-> stream.again]

(* An exception of the call: kept as the cycle's failure, of a repeated    *)
(* call as narration_failed whatever it was.  The first narration recovers *)
(* from stalls and timeouts only.                                          *)
Throws(kind, recoverable) ==
    IF asking = "first" /\ ~ stream.again /\ ~ recoverable
    THEN EndWith(kind) /\ UNCHANGED failure
    ELSE /\ failure' = IF stream.again THEN "narration_failed" ELSE kind
         /\ doing' = "failed"
         /\ UNCHANGED terminal

Chunk ==
    /\ doing = "streaming"
    /\ \E wait \in 0..(Gap - 1), shaped \in {stream.shape, TRUE}, due \in BOOLEAN :
         /\ stream.elapsed + wait > 0
         /\ stream' = Arrive(wait, shaped, due)
         /\ stream' # stream
    /\ IF Raises(stream') = "none"
       THEN UNCHANGED <<doing, failure, terminal>>
       ELSE Throws(Raises(stream'), TRUE)
    /\ UNCHANGED <<asking, spent, narrations, calls, round, malformed, report>>
(* No chunk for the whole gap.                                             *)
Silence ==
    /\ doing = "streaming"
    /\ stream' = [stream EXCEPT !.elapsed = @ + Gap]
    /\ Throws("narration_stalled_no_bytes", TRUE)
    /\ UNCHANGED <<asking, spent, narrations, calls, round, malformed, report>>
(* The transport breaks mid-stream (a timeout verdict), or the buffered    *)
(* call the stream fell back to raises something else.                     *)
Broken ==
    /\ doing = "streaming"
    /\ \E stall \in BOOLEAN : Throws("narration_failed", stall)
    /\ UNCHANGED <<asking, stream, spent, narrations, calls, round, malformed, report>>

(* The call returned.  Without a JSON object in it the cycle ends.         *)
Complete ==
    /\ doing = "streaming" /\ stream.shape
    /\ doing' = "heard"
    /\ UNCHANGED <<asking, stream, failure, spent, narrations, calls, round, malformed, report, terminal>>
CompleteUnparsed ==
    /\ doing = "streaming" /\ ~ stream.shape
    /\ failure' = "parse_failed" /\ EndWith("parse_failed")
    /\ UNCHANGED <<asking, stream, spent, narrations, calls, round, malformed, report>>

-----------------------------------------------------------------------------
(* recover_narration_call: dispatch, then the call once more.              *)
Recover ==
    /\ doing = "failed" /\ ~ Escalates(failure)
    /\ spent' = [spent EXCEPT ![WorkerFor(failure)] = @ + 1]
    /\ Reports(failure, FALSE, {})
    /\ failure' = "none"
    /\ doing' = "streaming" /\ stream' = [Fresh EXCEPT !.again = TRUE] /\ calls' = calls + 1
    /\ UNCHANGED <<asking, narrations, round, malformed, terminal>>
Escalate ==
    /\ doing = "failed" /\ Escalates(failure)
    /\ Reports(failure, FALSE, {})
    /\ EndWith(failure)
    /\ UNCHANGED <<asking, stream, failure, spent, narrations, calls, round, malformed>>

-----------------------------------------------------------------------------
(* _dispatch_turn: the turn's calls run, but those of an unusable shape,   *)
(* which are mirrored; or the budget gate refuses the round.  The results  *)
(* of a refused round are those of the round before.                       *)
Dispatch ==
    /\ doing = "heard"
    /\ \/ \E ran, bad \in SUBSET ToolNames :
            /\ round' = ran /\ malformed' = bad
            /\ IF bad = {} THEN doing' = "idle" /\ UNCHANGED failure
               ELSE doing' = "mirroring" /\ failure' = "tool_parse_failed"
       \/ doing' = "idle" /\ malformed' = {} /\ UNCHANGED <<round, failure>>
    /\ UNCHANGED <<asking, stream, spent, narrations, calls, report, terminal>>

(* ToolMirrorWorker over _EngineTransport.dispatch_tool: the salvaged      *)
(* calls take the authorized path, which may deny them, and the worker     *)
(* reports those that have a result.  It spends no retry.                  *)
MirroredAsked(asked, results) == asked
Mirrored(asked, results) == asked \cap results
Mirror ==
    /\ doing = "mirroring" /\ ~ Escalates(failure)
    /\ \/ \E ran \in SUBSET malformed : round' = ran
       \/ UNCHANGED round
    /\ LET names == Mirrored(malformed, round') IN
         Reports(failure, names # {}, names)
    /\ failure' = "none" /\ malformed' = {} /\ doing' = "idle"
    /\ UNCHANGED <<asking, stream, spent, narrations, calls, terminal>>

(* The loops are over.                                                     *)
Close ==
    /\ doing = "idle" /\ narrations > 0
    /\ doing' = "ended"
    /\ UNCHANGED <<asking, stream, failure, spent, narrations, calls, round, malformed, report, terminal>>

NodeNext ==
    \/ Ask \/ Chunk \/ Silence \/ Broken \/ Complete \/ CompleteUnparsed
    \/ Recover \/ Escalate \/ Dispatch \/ Mirror \/ Close

NodeSpec == NodeInit /\ [][NodeNext]_nodeVars

-----------------------------------------------------------------------------
(* Whatever the streams do, a call lasts less than its cap and one gap,    *)
(* and a cycle takes one call for each of its narrations and at most as    *)
(* many more as the narration worker has retries.                          *)
RecoveryBounded ==
    /\ stream.elapsed < Cap + Gap
    /\ calls <= narrations + MaxRetries.narration
    /\ spent.narration = calls - narrations

(* A tool the mirror is said to have run has a result in the round: the    *)
(* model is never told of a call that left nothing.                        *)
MirrorReported == [][report' # report => report'.mirrored \subseteq round']_nodeVars
=============================================================================
