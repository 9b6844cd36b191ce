---------------------------- MODULE AgenticLoop -----------------------------
(***************************************************************************)
(* What the governance membrane promises of a cycle, whoever drives it:    *)
(* the immutable controller of engine/controller.py (its observation, its  *)
(* terminal and the sub-loops its transition trace has opened) under any   *)
(* sequence of events.  InferenceCycle is shown to implement it.           *)
(***************************************************************************)
EXTENDS LoopMembrane

CONSTANT Kinds   \* the failure kinds a CYCLE_FAILED may carry

VARIABLES obs,       \* CycleController.observation
          terminal,  \* CycleController.terminal, "live" before there is one
          opened     \* the sub-loops that the transition trace has opened

ctlVars == <<obs, terminal, opened>>

CtlTypeOK ==
    /\ obs \in Observations \cup {Gone}
    /\ terminal \in Terminals \cup {"live"}
    /\ opened \in SUBSET SubLoops

CtlInit ==
    /\ obs = Initial
    /\ terminal = "live"
    /\ opened = {}

(* CycleController.transition and advance: the membrane is asked, and an   *)
(* event that it denies changes nothing but the log.                       *)
Transition(e) ==
    /\ Allowed(obs, e)
    /\ obs' = Successor(obs, e)
    /\ terminal' = IF obs' = Gone THEN EndsAt(e) ELSE terminal
    /\ opened' = IF e.kind = "open_subloop" THEN opened \cup {e.to} ELSE opened

Move == \E e \in Events(Kinds) : Transition(e)

LoopSpec == CtlInit /\ [][Move]_ctlVars

-----------------------------------------------------------------------------
(* The rank of a loop in STAGE_ORDER.                                      *)
Rank(o) == CHOOSE i \in 1..Len(LoopOrder) : LoopOrder[i] = o.loop

(* A live cycle has a legal observation, an ended one has none.            *)
LiveHasObservation ==
    IF terminal = "live" THEN IsLegalState(obs) ELSE obs = Gone

(* advance(): a cycle ends once; no later event, a second failure          *)
(* included, moves it or changes its terminal.                             *)
TerminalFinal == [][terminal = "live"]_ctlVars

(* successor_loop: the loops are entered in the order of STAGE_ORDER, one  *)
(* after the other, and never re-entered.                                  *)
LoopsInOrder ==
    [][obs' # Gone => obs'.loop \in {obs.loop, Follows(LoopOrder, obs.loop)}]_ctlVars

(* A sub-loop opens after the one before it in its loop has been opened.   *)
SubLoopsInOrder ==
    \A l \in Loops : \A i \in 2..Len(LoopSubLoops[l]) :
        LoopSubLoops[l][i] \in opened => LoopSubLoops[l][i - 1] \in opened

(* A cycle settles from the last loop only.                                *)
SettlesFromOutput == [][terminal' = "settled" => obs.loop = "output"]_ctlVars
=============================================================================
