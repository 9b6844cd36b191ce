--------------------------- MODULE DecideCascades ---------------------------
(* When a worker computes: the decide() that each of the twelve            *)
(* substrate_worker/*_worker.py carries a copy of and the six of the       *)
(* analysis plane inherit, with the worker's own probe() and what its      *)
(* compute() keeps for the next probe.  Fires go through here (FireWorker  *)
(* models how they fail); times are the phases the cascade tells apart,    *)
(* every cooldown being shorter than the staleness bound beside it.        *)
EXTENDS Integers, FiniteSets, Sequences, FiniteSetsExt, Functions, AnalysisVerdicts

CONSTANT NoState   \* no projection, or one of another schema

---------------------------------------------------------------------------
(* Books: a mid price (0: none) and the bids' quantities by price, in      *)
(* steps of 0.10.                                                          *)
Prices == {5, 6, 8}
Books == {b \in [mid : {0, 8, 9}, bids : [Prices -> {0, 100, 116}]] :
            \A p \in Prices : p >= b.mid => b.bids[p] = 0}
Held(b) == {p \in Prices : b.bids[p] > 0}

\* WALL_DIRECTION_THRESHOLD: 1.15 times more, or less.
Shifted(new, old) == old > 0 /\ (100 * new > 115 * old \/ 115 * new < 100 * old)

BidWindow(b, p, width) ==
    LET qty(q) == IF q \in (p - width)..p THEN b.bids[q] ELSE 0
    IN qty(5) + qty(6) + qty(8)

\* The densest bid window just below the price, or where there is none the
\* low end of the band.
Keystone(b) ==
    LET band == Held(b) \cap (b.mid - 3)..(b.mid - 1)
    IN IF band = {} THEN b.mid - 3
       ELSE Max({p \in band : \A q \in band : BidWindow(b, q, 2) <= BidWindow(b, p, 2)})

\* What is kept by distance from the mid, and what by price.
DensityCompute(b) ==
    IF b.mid = 0 THEN Empty
    ELSE [keystone |-> Keystone(b), mid |-> b.mid, windows |-> [p \in Held(b) |-> BidWindow(b, p, 5)]]
DensityProbe(b, kept) ==
    /\ b.mid # 0 /\ kept # Empty
    /\ \/ Keystone(b) - kept.keystone \notin -2..2
       \/ \E p \in Held(b) :
            /\ p - b.mid + kept.mid \in DOMAIN kept.windows
            /\ Shifted(BidWindow(b, p, 5), kept.windows[p - b.mid + kept.mid])

LaddersCompute(b) ==
    IF b.mid = 0 THEN Empty ELSE [mid |-> b.mid, rungs |-> Restrict(b.bids, Held(b))]
LaddersProbe(b, kept) ==
    /\ b.mid # 0 /\ kept # Empty
    /\ \E p \in Held(b) :
         /\ p - b.mid + kept.mid \in DOMAIN kept.rungs
         /\ Shifted(b.bids[p], kept.rungs[p - b.mid + kept.mid])

\* The round levels around the price; their quantities keep their price.
Grid(b) == (b.mid - 2)..(b.mid + 2)
AnchorsCompute(b) ==
    IF b.mid = 0 THEN Empty
    ELSE [grid |-> Grid(b), qty |-> [p \in Grid(b) |-> IF p \in Prices THEN b.bids[p] ELSE 0]]
AnchorsProbe(b, kept) ==
    /\ b.mid # 0 /\ kept # Empty
    /\ \/ Grid(b) # kept.grid
       \/ \E p \in Grid(b) \cap Prices : Shifted(b.bids[p], kept.qty[p])

\* Mega bids against mega asks: 1.2 times is a bias, as is an empty side.
TierReadings == [book : BOOLEAN, bid : {0, 10, 13}, ask : {0, 10, 13}]
Verdict(t) ==
    IF \/ t.ask = 0 /\ t.bid > 0
       \/ t.ask > 0 /\ t.bid > 0 /\ 10 * t.bid > 12 * t.ask THEN "bid heavy"
    ELSE IF t.ask > 0 /\ 12 * t.bid < 10 * t.ask THEN "ask heavy" ELSE "balanced"
RatioSide(t) ==
    IF t.ask = 0 THEN (IF t.bid = 0 THEN Null ELSE 1)
    ELSE IF 10 * t.bid > 12 * t.ask THEN 1 ELSE IF 12 * t.bid < 10 * t.ask THEN -1 ELSE 0
TiersCompute(t) == IF t.book THEN [verdict |-> Verdict(t), side |-> RatioSide(t)] ELSE Empty
TiersProbe(t, kept) ==
    /\ t.book /\ kept # Empty
    /\ \/ Verdict(t) # kept.verdict
       \/ Null \notin {RatioSide(t), kept.side} /\ RatioSide(t) # kept.side

---------------------------------------------------------------------------
(* Open interest and the tape.                                             *)
Interests == {Null, 100, 101}
Moved(new, old) == Null \notin {new, old} /\ 100 * (IF new > old THEN new - old ELSE old - new) >= old

OiReadings == [oi : Interests, priced : BOOLEAN]
OiCompute(m) == IF m.oi = Null /\ ~m.priced THEN Empty ELSE [raw |-> m.oi]
OiProbe(m, kept) == kept # Empty /\ Moved(m.oi, kept.raw)

Shares == {Null, 45, 50, 55}
Crossed(old, new) ==
    \/ old < 55 /\ 55 <= new
    \/ old >= 55 /\ 55 > new
    \/ old > 45 /\ 45 >= new
    \/ old <= 45 /\ 45 < new

\* Per venue a share of the window and one of the trailing horizon, and
\* |delta| of the window's one or two buckets, the newest last.  A venue
\* without trades has no share for the probe and an even one for compute.
TapeReadings == [share : Shares, horizon : Shares, deltas : {<<>>, <<1>>, <<1, 4>>}]
TapeCompute(m) == [m EXCEPT !.share = IF @ = Null THEN 50 ELSE @]
Total(deltas) == IF Len(deltas) = 1 THEN deltas[1] ELSE deltas[1] + deltas[2]
TapeProbe(m, kept) ==
    /\ m.share # Null /\ kept # Empty
    /\ \/ Crossed(kept.share, m.share)
       \/ Null \notin {m.horizon, kept.horizon} /\ Crossed(kept.horizon, m.horizon)
       \/ /\ m.deltas # <<>> /\ kept.deltas # <<>>
          /\ m.deltas[Len(m.deltas)] * Len(kept.deltas) > 3 * Total(kept.deltas)

LargeKeep == 2
Newest(prints) == {p \in prints : Cardinality({q \in prints : q > p}) < LargeKeep}
PrintReadings == [trades : BOOLEAN, prints : SUBSET (1..3), class : {Null, "HIGH", "LOW"}]
LargePrintComputeOne(m) ==   \* mutant: fewer prints are kept than the probe looks at
    IF m.trades THEN [prints |-> {p \in m.prints : \A q \in m.prints : q <= p}, class |-> m.class]
    ELSE Empty
LargePrintCompute(m) ==
    IF m.trades THEN [prints |-> Newest(m.prints), class |-> m.class] ELSE Empty
LargePrintProbe(m, kept) ==
    /\ m.trades
    /\ \/ Newest(m.prints) \ (IF kept = Empty THEN {} ELSE kept.prints) # {}
       \/ kept # Empty /\ Null \notin {m.class, kept.class} /\ m.class # kept.class

MigrationReadings ==
    [trades : BOOLEAN, hour : 1..2, keystone : {Null, 1, 2}, horizon : {Null, 1, 2}]
MigrationCompute(m) == IF m.trades THEN m ELSE Empty
MigrationProbe(m, kept) ==
    /\ m.trades /\ kept # Empty
    /\ \/ m.hour # kept.hour
       \/ Null \notin {m.keystone, kept.keystone} /\ m.keystone # kept.keystone
       \/ Null \notin {m.horizon, kept.horizon} /\ m.horizon # kept.horizon

ProfileReadings == [profile : BOOLEAN, poc : 1..2, vah : 1..3, val : 1..2]
ProfileCompute(m) == IF m.profile THEN m ELSE Empty
ProfileProbe(m, kept) ==
    /\ m.profile /\ kept # Empty
    /\ m.poc # kept.poc \/ m.vah # kept.vah \/ m.val # kept.val

Sides == {Null, "above", "below"}
TechnicalReadings == [klines : 0..2, ema : Sides, horizon : Sides]
TechnicalsCompute(m) == IF m.klines = 0 THEN Empty ELSE m
TechnicalsProbe(m, kept) ==
    /\ m.klines > 0 /\ kept # Empty
    /\ \/ m.klines > kept.klines
       \/ Null \notin {m.ema, kept.ema} /\ m.ema # kept.ema
       \/ Null \notin {m.horizon, kept.horizon} /\ m.horizon # kept.horizon

\* The live state, the taker share (45 to 55 is its band) and the state of
\* a horizon of the WS series.  compute() keys the horizons by number; read
\* back from the JSON projection the keys are strings.
States == {"buyers", "sellers"}
Number == "240"
Text == "'240'"
DeltaReadings ==
    [book : BOOLEAN, state : States, tbr : {Null, 44, 50}, horizons : [{Number} -> States]]
TbrSide(tbr) == IF tbr < 45 THEN -1 ELSE IF tbr > 55 THEN 1 ELSE 0
DeltaCompute(m) ==
    IF m.book THEN [m EXCEPT !.horizons = [k \in {Text} |-> m.horizons[Number]]] ELSE Empty
HorizonFlips(m, kept) ==
    {h \in DOMAIN m.horizons \cap DOMAIN kept.horizons : kept.horizons[h] # m.horizons[h]}
DeltaProbe(m, kept) ==
    /\ m.book /\ kept # Empty
    /\ \/ m.state # kept.state
       \/ Null \notin {m.tbr, kept.tbr} /\ TbrSide(m.tbr) # TbrSide(kept.tbr)
       \/ HorizonFlips(m, kept) # {}

---------------------------------------------------------------------------
(* Signals: a snapshot of the tape's projection and the open interest.     *)
SignalReadings ==
    [usable : BOOLEAN, spot : {40, 60}, fut : {40, 60}, obi : {Null, 0, 45}, oi : {100, 101}]
Divergence(m) ==
    IF m.spot <= 40 /\ m.fut >= 60 THEN "selling"
    ELSE IF m.spot >= 60 /\ m.fut <= 40 THEN "buying" ELSE Null
SignalsCompute(m) == IF m.usable THEN m ELSE Empty
\* abs(None): the previous imbalance is looked at only beside a large one.
SignalsRaises(m, kept) == m.usable /\ kept # Empty /\ m.obi = 45 /\ kept.obi = Null
SignalsProbe(m, kept) ==
    /\ m.usable
    /\ \/ Divergence(m) # Null /\ (kept = Empty \/ Divergence(m) # Divergence(kept))
       \/ m.obi = 45 /\ (kept = Empty \/ kept.obi # 45)
       \/ kept # Empty /\ Moved(m.oi, kept.oi)

\* An output with fields is not the one without.
ASSUME OutputAssumption ==
    Empty \notin [prints : SUBSET (1..3), class : {Null, "HIGH", "LOW"}] \cup SignalReadings

---------------------------------------------------------------------------
(* The labels of the analysis plane: a probe compares label with label.    *)
LabelCompute(Label(_), m) == IF m = Null THEN Empty ELSE Label(m)
LabelProbe(Label(_), m, kept) == m # Null /\ kept # Empty /\ Label(m) # kept

RegimeCompute(m) == LabelCompute(RegimeVerdict, m)
RegimeProbe(m, kept) == LabelProbe(RegimeVerdict, m, kept)
DemandCompute(m) == LabelCompute(DemandVerdict, m)
DemandProbe(m, kept) == LabelProbe(DemandVerdict, m, kept)
StageCompute(m) == LabelCompute(InferStage, m)
StageProbe(m, kept) == LabelProbe(InferStage, m, kept)
OiAnalysisCompute(m) == LabelCompute(ClassifyBar, m)
OiAnalysisProbe(m, kept) == LabelProbe(ClassifyBar, m, kept)
LiquidationCompute(m) == LabelCompute(LiquidationSignal, m)
LiquidationProbe(m, kept) == LabelProbe(LiquidationSignal, m, kept)

---------------------------------------------------------------------------
(* The cascades: what arrives beside the raw stream, what is folded, which *)
(* period rolls over, whether a screen stands before the window is built,  *)
(* and what must be attached to it.                                        *)
Row(ws, folds, rollover, screen, attach) ==
    [ws |-> ws, folds |-> folds, rollover |-> rollover, screen |-> screen, attach |-> attach]

DensityDecide == Row(FALSE, TRUE, FALSE, TRUE, FALSE)
AnchorsDecide == Row(FALSE, FALSE, FALSE, TRUE, FALSE)
LaddersDecide == Row(FALSE, FALSE, FALSE, TRUE, FALSE)
TiersDecide == Row(FALSE, FALSE, FALSE, TRUE, FALSE)
OiDecide == Row(FALSE, FALSE, FALSE, TRUE, TRUE)
SignalsDecide == Row(FALSE, FALSE, FALSE, TRUE, TRUE)
DeltaDecide == Row(TRUE, FALSE, FALSE, FALSE, TRUE)
LargePrintDecide == Row(TRUE, FALSE, FALSE, FALSE, FALSE)
TapeDecide == Row(TRUE, TRUE, FALSE, FALSE, FALSE)
MigrationDecide == Row(FALSE, TRUE, TRUE, FALSE, FALSE)
TechnicalsDecide == Row(FALSE, TRUE, TRUE, FALSE, TRUE)
ProfileDecide == Row(FALSE, FALSE, FALSE, FALSE, FALSE)
AnalysisDecide == Row(FALSE, FALSE, FALSE, FALSE, TRUE)

Substrate(row, readings) == [row |-> row, readings |-> readings]
\* Of the readings without an input, one will do.
OneWithout(readings, Input(_)) ==
    {m \in readings : Input(m)} \cup {CHOOSE m \in readings : ~Input(m)}
Substrates ==
    [density |-> Substrate(DensityDecide, Books), anchors |-> Substrate(AnchorsDecide, Books),
     ladders |-> Substrate(LaddersDecide, Books),
     tiers |-> Substrate(TiersDecide, OneWithout(TierReadings, LAMBDA m : m.book)),
     oi |-> Substrate(OiDecide, OiReadings),
     signals |-> Substrate(SignalsDecide, OneWithout(SignalReadings, LAMBDA m : m.usable)),
     delta |-> Substrate(DeltaDecide, OneWithout(DeltaReadings, LAMBDA m : m.book)),
     tape |-> Substrate(TapeDecide, TapeReadings),
     large_print |-> Substrate(LargePrintDecide, OneWithout(PrintReadings, LAMBDA m : m.trades)),
     migration |-> Substrate(MigrationDecide, OneWithout(MigrationReadings, LAMBDA m : m.trades)),
     technicals |-> Substrate(TechnicalsDecide, TechnicalReadings),
     volume_profile |-> Substrate(ProfileDecide, OneWithout(ProfileReadings, LAMBDA m : m.profile)),
     regime |-> Substrate(AnalysisDecide, RegimeReadings),
     demand |-> Substrate(AnalysisDecide, DemandReadings),
     stage |-> Substrate(AnalysisDecide, StageReadings),
     oi_analysis |-> Substrate(AnalysisDecide, BarReadings),
     liquidation |-> Substrate(AnalysisDecide, PressureReadings),
     wall_migration |-> Substrate(AnalysisDecide, WallReadings)]

Compute(w, m) ==
    CASE w = "density" -> DensityCompute(m) [] w = "anchors" -> AnchorsCompute(m)
      [] w = "ladders" -> LaddersCompute(m) [] w = "tiers" -> TiersCompute(m)
      [] w = "oi" -> OiCompute(m) [] w = "signals" -> SignalsCompute(m)
      [] w = "delta" -> DeltaCompute(m) [] w = "tape" -> TapeCompute(m)
      [] w = "large_print" -> LargePrintCompute(m) [] w = "migration" -> MigrationCompute(m)
      [] w = "technicals" -> TechnicalsCompute(m) [] w = "volume_profile" -> ProfileCompute(m)
      [] w = "regime" -> RegimeCompute(m) [] w = "demand" -> DemandCompute(m)
      [] w = "stage" -> StageCompute(m) [] w = "oi_analysis" -> OiAnalysisCompute(m)
      [] w = "liquidation" -> LiquidationCompute(m) [] w = "wall_migration" -> WallCompute(m)
Probe(w, m, kept) ==
    CASE w = "density" -> DensityProbe(m, kept) [] w = "anchors" -> AnchorsProbe(m, kept)
      [] w = "ladders" -> LaddersProbe(m, kept) [] w = "tiers" -> TiersProbe(m, kept)
      [] w = "oi" -> OiProbe(m, kept) [] w = "signals" -> SignalsProbe(m, kept)
      [] w = "delta" -> DeltaProbe(m, kept) [] w = "tape" -> TapeProbe(m, kept)
      [] w = "large_print" -> LargePrintProbe(m, kept) [] w = "migration" -> MigrationProbe(m, kept)
      [] w = "technicals" -> TechnicalsProbe(m, kept) [] w = "volume_profile" -> ProfileProbe(m, kept)
      [] w = "regime" -> RegimeProbe(m, kept) [] w = "demand" -> DemandProbe(m, kept)
      [] w = "stage" -> StageProbe(m, kept) [] w = "oi_analysis" -> OiAnalysisProbe(m, kept)
      [] w = "liquidation" -> LiquidationProbe(m, kept) [] w = "wall_migration" -> WallProbe(m, kept)
Raises(w, m, kept) == w = "signals" /\ SignalsRaises(m, kept)

---------------------------------------------------------------------------
VARIABLES
    worker,   \* whose cascade this is
    reading,  \* what its probe would read off the market now
    other,    \* the reading the market moves to and fro
    shown,    \* the reading its projection was computed from, or NoState
    cooled,   \* the cooldown since the last fire is over
    aged,     \* the projection is older than the staleness bound
    still,    \* the newest trade of a fold is older than its horizon's bound
    decided   \* what the last decide() did

decideVars == <<worker, reading, other, shown, cooled, aged, still, decided>>

DecideInit ==
    /\ worker \in DOMAIN Substrates
    /\ reading \in Substrates[worker].readings /\ other \in Substrates[worker].readings
    /\ shown = NoState /\ cooled = TRUE /\ aged = FALSE /\ still = FALSE /\ decided = "none"

Kept == IF shown = NoState THEN Empty ELSE Compute(worker, shown)

\* What fires whether or not anything arrived: a signal of recovery, either
\* staleness, and a period that rolled over.
HygieneOnNews(raw, recovery, crossed) ==   \* mutant: an old projection waits for news
    LET row == Substrates[worker].row
    IN recovery \/ (aged /\ raw) \/ (row.folds /\ still /\ ~raw) \/ (row.rollover /\ crossed)
Hygiene(raw, recovery, crossed) ==
    LET row == Substrates[worker].row
    IN recovery \/ aged \/ (row.folds /\ still /\ ~raw) \/ (row.rollover /\ crossed)

\* The stages in the order of the code: the first that applies answers.
Answer(raw, arrival, recovery, crossed, ready, win) ==
    LET row == Substrates[worker].row
        kept == Kept
    IN IF shown = NoState THEN IF arrival THEN "hygiene" ELSE "quiet"
       ELSE IF Hygiene(raw, recovery, crossed) THEN "hygiene"
       ELSE IF ~arrival THEN "quiet"
       ELSE IF row.screen /\ Raises(worker, reading, kept) THEN "raises"
       ELSE IF row.screen /\ ~Probe(worker, reading, kept) THEN "quiet"
       ELSE IF row.attach /\ ~ready THEN "quiet"
       ELSE IF Raises(worker, win, kept) THEN "raises"
       ELSE IF Probe(worker, win, kept) /\ cooled THEN "probe" ELSE "quiet"

\* A fire: compute() is handed the projection decide() read, and what it
\* raises leaves that projection where it is.
Fire(win) ==
    /\ cooled' = FALSE
    /\ IF Raises(worker, win, Kept) THEN UNCHANGED <<shown, aged>>
       ELSE shown' = win /\ aged' = FALSE

\* One decide(): what arrived, and the window the shared cache hands out,
\* which may be the one the projection was computed from.
Tick ==
    \E raw, recovery \in BOOLEAN, ws \in {FALSE, Substrates[worker].row.ws},
       crossed \in {FALSE, Substrates[worker].row.rollover},
       ready \in {TRUE, ~Substrates[worker].row.attach}, win \in {reading, shown} \ {NoState} :
        LET answer == Answer(raw, raw \/ ws, recovery, crossed, ready, win)
        IN /\ decided' = answer
           /\ still' = (still /\ ~raw)
           /\ IF answer \in {"hygiene", "probe"} THEN Fire(win)
              ELSE UNCHANGED <<shown, cooled, aged>>
           /\ UNCHANGED <<worker, reading, other>>

\* The market moves, time passes, the worker restarts, the schema changes.
Move == reading' = other /\ other' = reading /\ decided' = "none"
        /\ UNCHANGED <<worker, shown, cooled, aged, still>>
Wait ==
    /\ cooled' = TRUE
    /\ aged' \in {aged, shown # NoState} /\ still' \in {still, Substrates[worker].row.folds}
    /\ decided' = "none"
    /\ UNCHANGED <<worker, reading, other, shown>>
Restart == cooled' = TRUE /\ still' = FALSE /\ decided' = "none"
           /\ UNCHANGED <<worker, reading, other, shown, aged>>
SchemaChange == shown' = NoState /\ aged' = FALSE /\ decided' = "none"
           /\ UNCHANGED <<worker, reading, other, cooled, still>>

DecideNext == Tick \/ Move \/ Wait \/ Restart \/ SchemaChange
DecideSpec == DecideInit /\ [][DecideNext]_decideVars

---------------------------------------------------------------------------
(* A probe fires on what the projection does not show yet: the reading it  *)
(* keeps and the reading it compares it with are one reading, whatever     *)
(* frame, rounding or cap lies between them.  (Walls: see below.)          *)
NoEcho == [][decided' = "probe" /\ worker # "wall_migration" => shown' # shown]_decideVars

(* wall_migration_worker.py:14, density re-fires that carry no wall-set    *)
(* change are wake events, never fire causes.                              *)
RefireIsNoCause ==
    (worker = "wall_migration" /\ shown # NoState) => (reading = shown => ~WallProbe(reading, Kept))

(* Whatever else goes on, a decide() does not leave a projection older     *)
(* than its bound behind, unless compute() raises on it.                   *)
NeverOld == [][decided' # "none" => ~aged' \/ \E win \in {reading, shown} : Raises(worker, win, Kept)]_decideVars

(* delta_worker.py:255, "ANY horizon state flip is a fire condition".      *)
HorizonFlipHeard ==
    (worker = "delta" /\ shown # NoState)
      => (shown.book /\ reading.book /\ reading.horizons # shown.horizons => DeltaProbe(reading, Kept))

(* signals.py:66: the coercions are there so that no stored snapshot puts  *)
(* the worker into a loop of failing fires.                                *)
NoFailLoop == decided # "raises"
=============================================================================
