---------------------------- MODULE LoopMembrane ----------------------------
(***************************************************************************)
(* The constitution of one inference cycle: engine/loop_states.py names    *)
(* the loops, their sub-loops and the task intents; engine/fsm.py decides  *)
(* which move is legal from which observation; engine/failure_fsm.py says  *)
(* at which terminal a failure kind ends the cycle.  All of it is pure:    *)
(* this module has no state.  The moves are taken by AgenticLoop, and by   *)
(* the runtime of InferenceCycle.                                          *)
(***************************************************************************)
EXTENDS Integers, Sequences, SequencesExt

LoopOrder == <<"context", "reasoning", "validation", "output">>
Loops     == Range(LoopOrder)

LoopSubLoops ==
    [context    |-> <<"intake", "interpretation", "framing",
                      "sourcing", "acquisition", "verification">>,
     reasoning  |-> <<"hypothesis", "analysis", "synthesis">>,
     validation |-> <<"gate", "recovery">>,
     output     |-> <<"composition", "architecture", "placement", "memory">>]
SubLoops == UNION {Range(LoopSubLoops[l]) : l \in Loops}

LoopIntents ==
    [context    |-> <<"understand_task", "infer_order_flow", "infer_depth">>,
     reasoning  |-> <<"correlate_evidence", "explain_findings",
                      "derive_hypothesis", "synthesize_output">>,
     validation |-> <<"validate_final">>,
     output     |-> <<"understand_surface", "place_output">>]
Intents == UNION {Range(LoopIntents[l]) : l \in Loops}

NoSub == "none"   \* between two sub-loops

(* LoopObservation: where the membrane sees the cycle.                     *)
Observations == [loop : Loops, task : Intents, sub : SubLoops \cup {NoSub}]

(* The observation of a cycle that has ended.                              *)
Gone == [loop |-> "gone", task |-> "gone", sub |-> NoSub]

-----------------------------------------------------------------------------
(* failure_fsm: the terminal a failure kind routes to.  Every kind that    *)
(* has no terminal of its own, an unknown one included, ends the cycle at  *)
(* infra_failed.                                                           *)
FailureTerminal ==
    [gate_refused               |-> "gate_refused",
     narration_failed           |-> "narration_failed",
     narration_stalled_no_bytes |-> "narration_failed",
     narration_stalled_thinking |-> "narration_failed",
     parse_failed               |-> "parse_failed",
     validation_failed          |-> "validation_failed",
     budget_exhausted           |-> "budget_exhausted",
     infra_failed               |-> "infra_failed",
     delivery_failed            |-> "delivery_failed"]

TerminalFor(kind) ==
    IF kind \in DOMAIN FailureTerminal THEN FailureTerminal[kind]
    ELSE "infra_failed"

FailureTerminals == {FailureTerminal[k] : k \in DOMAIN FailureTerminal}
Terminals == {"settled"} \cup FailureTerminals

-----------------------------------------------------------------------------
(* The governance events; of SET_TASK, OPEN_SUBLOOP and ENTER_LOOP the     *)
(* target, of CYCLE_FAILED the failure kind.                               *)
Enter(l)    == [kind |-> "enter_loop", to |-> l]
SetTask(t)  == [kind |-> "set_task", to |-> t]
Open(s)     == [kind |-> "open_subloop", to |-> s]
CloseSub    == [kind |-> "complete_subloop", to |-> NoSub]
Settle      == [kind |-> "settle", to |-> NoSub]
CycleFailed(k) == [kind |-> "cycle_failed", to |-> k]
AdoptCadence   == [kind |-> "adopt_cadence", to |-> NoSub]

Events(kinds) ==
    {Enter(l) : l \in Loops} \cup {SetTask(t) : t \in Intents}
      \cup {Open(s) : s \in SubLoops} \cup {CloseSub, Settle, AdoptCadence}
      \cup {CycleFailed(k) : k \in kinds}

(* _next_sub_loop and successor_loop: the only sub-loop that may open, the *)
(* only loop that may be entered.                                          *)
Follows(seq, x) ==
    IF \E i \in 1..(Len(seq) - 1) : seq[i] = x
    THEN seq[1 + CHOOSE i \in 1..(Len(seq) - 1) : seq[i] = x]
    ELSE NoSub

NextSubLoop(o) ==
    IF o.sub = NoSub THEN LoopSubLoops[o.loop][1]
    ELSE Follows(LoopSubLoops[o.loop], o.sub)

Initial == [loop |-> "context", task |-> "understand_task", sub |-> NoSub]

IsLegalState(o) ==
    /\ o.loop \in Loops
    /\ o.task \in Range(LoopIntents[o.loop])
    /\ o.sub \in Range(LoopSubLoops[o.loop]) \cup {NoSub}

(* AgenticLoopMembrane.decide: is the event allowed from the observation?  *)
Allowed(o, e) ==
    /\ o # Gone
    /\ CASE e.kind = "cycle_failed"     -> TRUE
         [] e.kind = "adopt_cadence"    -> TRUE
         [] e.kind = "settle"           -> o.loop = "output"
         [] e.kind = "enter_loop"       -> /\ o.loop # "output"
                                           /\ e.to = Follows(LoopOrder, o.loop)
                                           /\ o.sub = NoSub
         [] e.kind = "set_task"         -> e.to \in Range(LoopIntents[o.loop])
         [] e.kind = "open_subloop"     -> /\ e.to = NextSubLoop(o)
                                           /\ e.to # NoSub
         [] e.kind = "complete_subloop" -> o.sub # NoSub
         [] OTHER                       -> FALSE

(* ... and where does it lead?  Of an event that ends the cycle Successor  *)
(* is Gone; ADOPT_CADENCE moves nothing.                                   *)
Successor(o, e) ==
    CASE e.kind = "enter_loop"   -> [loop |-> e.to, task |-> LoopIntents[e.to][1],
                                     sub |-> NoSub]
      [] e.kind = "set_task"     -> [o EXCEPT !.task = e.to]
      [] e.kind \in {"open_subloop", "complete_subloop"} -> [o EXCEPT !.sub = e.to]
      [] e.kind = "adopt_cadence" -> o
      [] OTHER                   -> Gone

EndsAt(e) == IF e.kind = "settle" THEN "settled" ELSE TerminalFor(e.to)

(* authorize_work: work that belongs to one sub-loop of one loop.          *)
Authorized(o, loop, sub) == o.loop = loop /\ o.sub = sub
=============================================================================
