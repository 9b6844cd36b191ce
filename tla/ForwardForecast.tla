-------------------------- MODULE ForwardForecast --------------------------
(* What the forward tools may say (microstructure/fitting_route_c.py,      *)
(* horizon_bridge.py, hypothesis.py, fitting_composer.py and               *)
(* inference/tooling/tools_forward.py, tools_evidence.py).  A tool reads   *)
(* the tape, fits the rows of its horizon, or of the longest native one    *)
(* where the horizon asked for has no labels, calibrates on what the fit   *)
(* held out, and answers.  Rows are counted, in time order; what the       *)
(* arithmetic finds in them is any of the outcomes the code tells apart.   *)
EXTENDS Integers, FiniteSets, FiniteSetsExt

CONSTANTS
    RowCounts,           \* usable rows the window can have
    MinObservations,     \* 30
    MinOosObservations,  \* 30
    NoForecast

ASSUME ForecastAssumption ==
    RowCounts \subseteq Nat /\ MinObservations \in Nat /\ MinOosObservations \in Nat

Tools == {"fit", "distribution", "scenario", "forecast", "hypothesis", "decay"}
Regimes == {"native", "long", "unsupported"}   \* classify_horizon

\* What the rows hold: some feature varies; the normal equations, those of
\* the training rows and those of the univariate baseline have a solution;
\* the skill on the held-out rows; uneven residuals; residuals at all; bins
\* that match; the newest vector has the features of the fit.
Outcomes ==
    {f \in [varies : BOOLEAN, solves : BOOLEAN, trains : BOOLEAN, skill : {"none", "bad", "good"},
            baseline : BOOLEAN, uneven : BOOLEAN, spread : BOOLEAN, reliable : BOOLEAN,
            matches : BOOLEAN] : ~f.trains => f.skill = "none"}

Serves(status) == status \in {"validated", "provisional"}

---------------------------------------------------------------------------
\* Time-ordered 70/30 (rows whose product int() would round down a whole
\* number too far, 90 for one, are not among RowCounts).
Cut(n) == Max({1, (7 * n) \div 10})

Estimated(n, f) == n >= 2 /\ f.varies /\ f.solves

ValidationLenient(n, f) ==   \* mutant: skill is not asked for
    IF n < MinObservations \/ n - Cut(n) < MinOosObservations \/ Cut(n) < MinObservations
    THEN "unvalidated" ELSE IF f.baseline /\ ~f.uneven THEN "validated" ELSE "provisional"
Validation(n, f) ==
    IF \/ n < MinObservations \/ f.skill = "none"
       \/ n - Cut(n) < MinOosObservations \/ Cut(n) < MinObservations
    THEN "unvalidated"
    ELSE IF f.skill = "good" /\ f.baseline /\ ~f.uneven THEN "validated" ELSE "provisional"

\* fit_forward_ols: betas fitted on `trained`, none where the fit ended early.
FitForward(n, f) ==
    LET estimated == Estimated(n, f)
        validation == IF estimated THEN Validation(n, f) ELSE "unvalidated"
    IN [status |-> IF ~estimated \/ n < MinObservations THEN "insufficient"
                   ELSE IF validation = "validated" THEN "validated" ELSE "provisional",
        validation |-> validation, bridged |-> FALSE, rows |-> n, skill |-> f.skill,
        sigma |-> estimated /\ f.spread,
        trained |-> IF estimated /\ f.trains THEN 1..Cut(n) ELSE {}]

BridgeKeeps(fit) == [fit EXCEPT !.bridged = TRUE]   \* mutant: the native verdict is kept
Bridge(fit) ==
    [fit EXCEPT !.bridged = TRUE, !.validation = "extrapolated",
                !.status = IF Serves(fit.status) THEN "provisional" ELSE @]

FitForHorizon(regime, n, f) ==
    IF regime = "native" THEN FitForward(n, f) ELSE Bridge(FitForward(n, f))

\* calibration_report on the fit of the source horizon: what it scores are
\* the rows behind the cut, with the betas of those before it.
CalibrateAll(fit, f) ==   \* mutant: every row is scored
    IF fit.trained = {} \/ ~f.spread THEN [status |-> "insufficient", scored |-> {}]
    ELSE [status |-> IF f.reliable THEN "passed" ELSE "failed", scored |-> 1..fit.rows]
Calibrate(fit, f) ==
    LET held == (Cut(fit.rows) + 1)..fit.rows
    IN IF fit.trained = {} \/ ~f.spread \/ Cardinality(held) < MinOosObservations
       THEN [status |-> "insufficient", scored |-> {}]
       ELSE [status |-> IF f.reliable THEN "passed" ELSE "failed", scored |-> held]

\* An said: what it says of itself, whether a number is in it and whether
\* a probability is.
Refused == [says |-> "refused", mean |-> FALSE, probability |-> FALSE]

ProbabilityAllowed(fit, cal) == cal.status = "passed" /\ fit.validation = "validated"

PredictDistribution(fit, cal, f) ==
    IF ~Serves(fit.status) \/ ~f.matches THEN Refused
    ELSE [says |-> IF ProbabilityAllowed(fit, cal) THEN "model_implied" ELSE "refused",
          mean |-> TRUE, probability |-> ProbabilityAllowed(fit, cal) /\ fit.sigma]

\* The dispatch hands the report over and leaves `calibrated` at its
\* default, TRUE: the residuals alone decide.
EvaluateScenario(fit, cal, f) ==
    IF ~PredictDistribution(fit, cal, f).mean THEN Refused
    ELSE [says |-> IF fit.sigma THEN "validated" ELSE "refused",
          mean |-> TRUE, probability |-> fit.sigma]

\* assemble_forecast_result: the probability's status is the report's.
AssembleForecast(fit, cal, f) ==
    IF ~Serves(fit.status) THEN [Refused EXCEPT !.says = fit.status]
    ELSE [PredictDistribution(fit, cal, f) EXCEPT
            !.says = IF cal.status = "passed" THEN "validated" ELSE "refused"]

\* test_hypothesis on the rows of another read than the fit's.
TestHypothesis(fit, n) ==
    IF ~Serves(fit.status) THEN Refused
    ELSE [says |-> IF n >= MinObservations THEN fit.status ELSE "insufficient",
          mean |-> TRUE, probability |-> FALSE]

\* skill_decay_report: the horizons it calls finalized.
DecayReport(fit) ==
    [says |-> IF /\ ~fit.bridged /\ fit.status # "insufficient"
                 /\ fit.validation = "validated" /\ fit.skill # "none"
              THEN "finalized" ELSE "null", mean |-> TRUE, probability |-> FALSE]

---------------------------------------------------------------------------
VARIABLES
    usable,   \* usable rows in the window as it now stands
    asked,    \* the tool at work and the rows its first read found, or NoForecast
    said      \* the last answer with all that it rests on, or NoForecast

forecastVars == <<usable, asked, said>>

ForecastInit == usable \in RowCounts /\ asked = NoForecast /\ said = NoForecast

\* The window moves on: events come in and drop out.
Move == usable' \in RowCounts \ {usable} /\ UNCHANGED <<asked, said>>

\* A tool is called and has read the tape.
Call ==
    /\ asked = NoForecast /\ said' = NoForecast
    /\ \E tool \in Tools, regime \in Regimes :
         asked' = [tool |-> tool, regime |-> regime, pairs |-> usable]
    /\ UNCHANGED usable

Unsupported ==
    /\ asked # NoForecast /\ asked.regime = "unsupported"
    /\ said' = [tool |-> asked.tool, regime |-> asked.regime, out |-> Refused, fit |-> NoForecast,
                  cal |-> NoForecast]
    /\ asked' = NoForecast /\ UNCHANGED usable

Say(fit, cal, out) ==
    /\ said' = [tool |-> asked.tool, regime |-> asked.regime, out |-> out, fit |-> fit, cal |-> cal]
    /\ asked' = NoForecast /\ UNCHANGED usable

\* fit, distribution, scenario and forecast: one read serves everything.
AnswerOnce(tool, Out(_, _, _)) ==
    /\ asked # NoForecast /\ asked.regime # "unsupported" /\ asked.tool = tool
    /\ \E f \in Outcomes :
         LET fit == FitForHorizon(asked.regime, asked.pairs, f)
             cal == Calibrate(FitForward(asked.pairs, f), f)
         IN Say(fit, cal, Out(fit, cal, f))

AnswerFit == AnswerOnce("fit", LAMBDA fit, cal, f : [Refused EXCEPT !.says = fit.status, !.mean = TRUE])
AnswerDistribution == AnswerOnce("distribution", PredictDistribution)
AnswerScenario == AnswerOnce("scenario", EvaluateScenario)
AnswerForecast == AnswerOnce("forecast", AssembleForecast)

\* hypothesis and decay call the fit tool, which reads the tape anew.
AnswerAfterRefit(tool, Out(_)) ==
    /\ asked # NoForecast /\ asked.regime # "unsupported" /\ asked.tool = tool
    /\ \E f \in Outcomes :
         LET fit == FitForHorizon(asked.regime, usable, f) IN Say(fit, NoForecast, Out(fit))

AnswerHypothesis == AnswerAfterRefit("hypothesis", LAMBDA fit : TestHypothesis(fit, asked.pairs))
AnswerDecay == AnswerAfterRefit("decay", DecayReport)

ForecastNext ==
    \/ Move \/ Call \/ Unsupported \/ AnswerFit \/ AnswerDistribution \/ AnswerScenario
    \/ AnswerForecast \/ AnswerHypothesis \/ AnswerDecay
ForecastSpec == ForecastInit /\ [][ForecastNext]_forecastVars

Given == said # NoForecast /\ said.fit # NoForecast

---------------------------------------------------------------------------
(* A probability in a distribution or in a forecast was earned: the fit    *)
(* beat the mean on enough rows it had never seen, at the horizon asked    *)
(* for, and the report that let it out scored none of its training rows.   *)
DistributionEarned ==
    (Given /\ said.tool \in {"distribution", "forecast"} /\ said.out.probability) =>
        /\ said.regime = "native" /\ said.fit.skill = "good"
        /\ Cardinality(said.fit.trained) >= MinObservations
        /\ Cardinality(said.cal.scored) >= MinOosObservations
        /\ said.cal.scored \cap said.fit.trained = {}

(* A horizon that has no labels never answers as a validated one: not the  *)
(* fit, not the evidence for a hypothesis read between two windows, not    *)
(* the report of decay (horizon_bridge.py:26).                             *)
ExtrapolationMarked ==
    (Given /\ said.regime = "long" /\ said.tool \in {"fit", "hypothesis", "decay"}) =>
        said.out.says \notin {"validated", "finalized"}

(* fitting_route_c.py:838, a true `calibrated` without a report that       *)
(* passed is not sufficient to unlock the probabilities of a scenario.     *)
ProbabilityEarned ==
    (Given /\ said.tool = "scenario" /\ said.out.probability) =>
        ProbabilityAllowed(said.fit, said.cal)
=============================================================================
