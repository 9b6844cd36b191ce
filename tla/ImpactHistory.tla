--------------------------- MODULE ImpactHistory ---------------------------
(* The price-impact fits (microstructure/fitting_route_a.py, _b.py,        *)
(* fitting_composer.py) and what is kept of them from one cycle to the     *)
(* next (inference/tooling/history_adapter.py, tools_legacy.py, the        *)
(* canonical rows of engine/core, the fit command of nooa_cli_ext.py).  A  *)
(* block is the window of the tape a fit was made on; what its intervals   *)
(* hold is one of Shapes.  The same window gives the same fit_id.          *)
EXTENDS Integers, FiniteSets, FiniteSetsExt, Sequences, SequencesExt

CONSTANTS
    Shapes,           \* what a window can hold: [n, varies, beta, depth]
    SumCounts,        \* horizon sums the whole tape can give a scenario
    MinIntervals,     \* MIN_OBSERVATIONS, 30
    MinWindows,       \* MIN_SCENARIO_WINDOWS
    MinDepthBlocks,   \* 3
    PriorLimit,       \* rows _load_prior_block_fits looks at
    MaxBlocks,        \* bound on the windows
    MaxRows,          \* bound on the recorded cycles
    Commands,         \* concurrent fit commands
    NoFit

ASSUME ImpactAssumption ==
    /\ Shapes \subseteq [n : Nat, varies : BOOLEAN, beta : Int, depth : Nat]
    /\ SumCounts \subseteq Nat
    /\ {MinIntervals, MinWindows, MinDepthBlocks, PriorLimit, MaxBlocks, MaxRows} \subseteq Nat

VARIABLES
    window,    \* the tape's window: [at, shape]
    fitting,   \* the fit a tool has made and is to go on from, or NoFit
    derived,   \* the last answer of a tool and what it rests on, or NoFit
    inCycle,   \* the fit this cycle has made, or NoFit
    canonical, \* canonical_output, oldest first: the fit each row carries
    made,      \* history: the fit each recorded cycle made
    command,   \* per fit command: the evidence it is about to store, or NoFit
    evidenceRows,  \* microstructure_evidence, the table
    shown      \* micro.evidence, the projection

toolVars == <<fitting, derived, inCycle>>
evidenceVars == <<command, evidenceRows, shown>>
impactVars == <<window, fitting, derived, inCycle, canonical, made, command, evidenceRows, shown>>

ImpactInit ==
    /\ window \in [at : {1}, shape : Shapes]
    /\ fitting = NoFit /\ derived = NoFit /\ inCycle = NoFit
    /\ canonical = <<>> /\ made = <<>>
    /\ command = [c \in Commands |-> NoFit] /\ evidenceRows = {} /\ shown = NoFit

---------------------------------------------------------------------------
\* build_observations: the intervals of exact_feed quality with both mids.
Observations(w) == w.shape.n

FitPriceImpactAny(w) ==   \* mutant: two observations will do
    [fit_id |-> w.at, beta |-> w.shape.beta, depth |-> w.shape.depth, n |-> Observations(w),
     varies |-> w.shape.varies,
     status |-> IF Observations(w) < 2 \/ ~w.shape.varies THEN "insufficient" ELSE "provisional"]
FitPriceImpact(w) ==
    [fit_id |-> w.at, beta |-> w.shape.beta, depth |-> w.shape.depth, n |-> Observations(w),
     varies |-> w.shape.varies,
     status |-> IF Observations(w) < MinIntervals \/ ~w.shape.varies THEN "insufficient"
                ELSE IF Observations(w) < 2 * MinIntervals THEN "provisional" ELSE "validated"]

PassedGate(fit) == fit # NoFit /\ fit.status \in {"provisional", "validated"}

\* fit_depth_scaling on a sequence of fits: the number of blocks and whether
\* c and lambda are there.
ScalesWith(fit) == PassedGate(fit) /\ fit.beta > 0 /\ fit.depth > 0
FitDepthScaling(blocks) ==
    LET used == SelectSeq(blocks, ScalesWith)
        known == Len(used) >= MinDepthBlocks /\ Cardinality({f.depth : f \in ToSet(used)}) >= 2
    IN [n_blocks |-> Len(used),
        status |-> IF ~known THEN "insufficient"
                   ELSE IF Len(used) >= 2 * MinDepthBlocks THEN "validated" ELSE "provisional"]

\* _load_prior_block_fits: the newest rows, each fit once.
PriorBlockFits ==
    LET newest == SubSeq(canonical, Max({1, Len(canonical) - PriorLimit + 1}), Len(canonical))
    IN SetToSeq({f \in ToSet(newest) : PassedGate(f)})

---------------------------------------------------------------------------
\* New events: another window.
MoveWindow ==
    /\ window.at < MaxBlocks
    /\ window' \in [at : {window.at + 1}, shape : Shapes]
    /\ UNCHANGED <<toolVars, canonical, made, evidenceVars>>

\* _tool_fit_beta: the tape is read, then the priors, which a failing
\* Postgres turns into none.
ToolFitBeta ==
    /\ fitting = NoFit
    /\ fitting' = FitPriceImpact(window) /\ inCycle' = fitting'
    /\ \E priors \in {PriorBlockFits, <<>>} :
         derived' = [tool |-> "fit_beta", fit |-> fitting', pg |-> priors = PriorBlockFits,
                    depth |-> FitDepthScaling(Append(priors, fitting')), number |-> FALSE, sums |-> 0]
    /\ UNCHANGED <<window, canonical, made, evidenceVars>>

\* calc.fit.depth_scaling has one block and never more.
ToolDepthScaling ==
    /\ fitting = NoFit
    /\ derived' = [tool |-> "depth_scaling", fit |-> FitPriceImpact(window), pg |-> FALSE,
                  depth |-> FitDepthScaling(<<FitPriceImpact(window)>>), number |-> FALSE, sums |-> 0]
    /\ UNCHANGED <<window, fitting, inCycle, canonical, made, evidenceVars>>

\* derive_price_delta raises on a fit that failed its gate.
DeltaNumber == PassedGate(fitting)

\* calc.price.delta and calc.scenario.evaluate go on from a fit_beta of
\* their own: the numbers, or a refusal.
PriceDelta ==
    /\ fitting # NoFit /\ fitting' = NoFit
    /\ derived' = [derived EXCEPT !.tool = "price_delta", !.number = DeltaNumber]
    /\ UNCHANGED <<window, inCycle, canonical, made, evidenceVars>>

\* The sums come from another read, of the whole tape; no price, a price
\* that is the target already, or a beta of zero is refused as well.
ScenarioNumberAnySums(sums, priced) == PassedGate(fitting) /\ priced /\ fitting.beta # 0   \* mutant: few windows will do
ScenarioNumber(sums, priced) == PassedGate(fitting) /\ priced /\ fitting.beta # 0 /\ sums >= MinWindows
ScenarioEvaluate ==
    /\ fitting # NoFit /\ fitting' = NoFit
    /\ \E sums \in SumCounts, priced \in BOOLEAN :
         derived' = [derived EXCEPT !.tool = "scenario", !.sums = sums,
                                  !.number = ScenarioNumber(sums, priced)]
    /\ UNCHANGED <<window, inCycle, canonical, made, evidenceVars>>

\* The caller wanted the fit itself.
FitReturned == fitting # NoFit /\ fitting' = NoFit /\ UNCHANGED <<window, derived, inCycle, canonical, made, evidenceVars>>

\* acquisition.microstructure_evidence is what the wake puts there, None,
\* and nothing that a tool finds later.
RowEvidence == NoFit

\* The cycle's row; the write may fail.
EndCycle ==
    /\ fitting = NoFit /\ inCycle # NoFit /\ Len(canonical) < MaxRows
    /\ inCycle' = NoFit /\ derived' = NoFit
    /\ \/ canonical' = Append(canonical, RowEvidence) /\ made' = Append(made, inCycle)
       \/ UNCHANGED <<canonical, made>>
    /\ UNCHANGED <<window, fitting, evidenceVars>>

---------------------------------------------------------------------------
\* nooa market microstructure fit: Postgres first, then Redis.
CommandFit(c) ==
    /\ command[c] = NoFit
    /\ command' = [command EXCEPT ![c] = [stored |-> FALSE, fit |-> FitPriceImpact(window)]]
    /\ UNCHANGED <<window, toolVars, canonical, made, evidenceRows, shown>>

CommandStoreLate(c) ==   \* mutant: a failing insert does not end the command
    /\ command[c] # NoFit /\ ~command[c].stored
    /\ command' = [command EXCEPT ![c].stored = TRUE]
    /\ evidenceRows' \in {evidenceRows, evidenceRows \cup {command[c].fit}}
    /\ UNCHANGED <<window, toolVars, canonical, made, shown>>
CommandStore(c) ==
    /\ command[c] # NoFit /\ ~command[c].stored
    /\ \/ command' = [command EXCEPT ![c].stored = TRUE] /\ evidenceRows' = evidenceRows \cup {command[c].fit}
       \/ command' = [command EXCEPT ![c] = NoFit] /\ UNCHANGED evidenceRows   \* it raises
    /\ UNCHANGED <<window, toolVars, canonical, made, shown>>

CommandShow(c) ==
    /\ command[c] # NoFit /\ command[c].stored
    /\ command' = [command EXCEPT ![c] = NoFit]
    /\ shown' \in {shown, command[c].fit}   \* the publish may fail
    /\ UNCHANGED <<window, toolVars, canonical, made, evidenceRows>>

ImpactNext ==
    \/ MoveWindow \/ ToolFitBeta \/ ToolDepthScaling \/ PriceDelta \/ ScenarioEvaluate
    \/ FitReturned \/ EndCycle
    \/ \E c \in Commands : CommandFit(c) \/ CommandStore(c) \/ CommandShow(c)
ImpactSpec == ImpactInit /\ [][ImpactNext]_impactVars

---------------------------------------------------------------------------
(* A derived price or a scenario never comes out of a fit that failed its  *)
(* gate or out of a thin tape, though the fit and the tape are read apart  *)
(* and the fit travels through a dict that is parsed back.                 *)
NumbersEarned ==
    (derived # NoFit /\ derived.number) =>
        /\ derived.fit.n >= MinIntervals /\ derived.fit.varies
        /\ derived.tool = "scenario" => derived.sums >= MinWindows /\ derived.fit.beta # 0

(* What micro.evidence shows is in the table, whichever of two commands at *)
(* work stored, failed or published last (postgres_store.py:215, the keys  *)
(* are projections of these rows only).                                    *)
ShownIsRecorded == shown # NoFit => shown \in evidenceRows

(* history_adapter.py:92, "Without history every cycle fits depth scaling  *)
(* from a single block": with enough recorded cycles of a positive slope   *)
(* at two depths among the rows looked at, it is not insufficient.         *)
DepthIdentified ==
    LET looked == SubSeq(made, Max({1, Len(made) - PriorLimit + 1}), Len(made))
        blocks == {f \in ToSet(looked) \cup {derived.fit} : ScalesWith(f)}
    IN (derived # NoFit /\ derived.tool = "fit_beta" /\ derived.pg /\ fitting # NoFit
          /\ Cardinality(blocks) >= MinDepthBlocks /\ Cardinality({f.depth : f \in blocks}) >= 2)
       => derived.depth.status # "insufficient"
=============================================================================
