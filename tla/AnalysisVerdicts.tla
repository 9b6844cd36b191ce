-------------------------- MODULE AnalysisVerdicts --------------------------
(* What the six workers of the analysis plane (analysis_worker/*_worker.py) *)
(* say of a market, with the analysis/*.py functions they import: five put  *)
(* one label on it, the sixth keeps the set of defended walls.  A reading   *)
(* is what an input looks like to their thresholds; Null is an input that   *)
(* cannot be composed.                                                      *)
EXTENDS Integers, Sequences, SequencesExt

CONSTANTS
    Null,      \* None
    Empty      \* an output without a field

\* An elif chain: the label of the first row whose condition holds.
FirstOf(rows) == rows[SelectInSeq(rows, LAMBDA r : r[1])][2]

---------------------------------------------------------------------------
(* Regime: price against VWAP, CVD, order-book imbalance and funding (in   *)
(* hundredths of a percent), the long/short ratios (in percent) of the     *)
(* crowd and of the top traders.  A selection in which every verdict occurs. *)
RegimeReadings ==
    {Null} \cup
    {r \in [trend : {-1, 0, 1}, cvd : {-1, 0, 1}, obi : {0, -30}, rate : {-6, 6},
            crowd : {Null, 50, 190}, top : {Null, 100}] :
       (r.crowd = Null <=> r.top = Null) /\ (r.obi # 0 => r.trend = 0) /\ (r.rate = 6 => r.cvd = -1)}

RegimeVerdict(m) ==
    LET bull == m.trend > 0
        bear == m.trend < 0
        buying == m.cvd > 0
        selling == m.cvd < 0
        crowdLong == m.crowd # Null /\ m.crowd > 180
        crowdShort == m.crowd # Null /\ m.crowd < 55
        smartBear == Null \notin {m.crowd, m.top} /\ 100 * m.top < 80 * m.crowd
        smartBull == Null \notin {m.crowd, m.top} /\ 100 * m.top > 120 * m.crowd
    IN FirstOf(<< <<bull /\ buying, "TREND-UP">>,
                  <<bear /\ selling, "TREND-DOWN">>,
                  <<crowdLong /\ smartBear /\ (selling \/ bear), "TRAP-LONG">>,
                  <<crowdShort /\ smartBull /\ (buying \/ bull), "TRAP-SHORT">>,
                  <<m.rate > 5 /\ selling, "LONG-SQUEEZE RISK">>,
                  <<m.rate < -5 /\ buying, "SHORT-SQUEEZE RISK">>,
                  <<m.obi > 20 \/ m.obi < -20, "ABSORPTION / SQUEEZE">>,
                  <<~bull /\ ~bear, "CHOP / RANGE">>,
                  <<bull, "WEAK-UP">>, <<bear, "WEAK-DOWN">> >>)

(* Demand: what each venue does (its CVD and its share of buys), whether   *)
(* the futures' CVD is over three times the spot's, funding, the crowd.    *)
(* Two of the verdicts have no market: SPOT-DEMAND comes before both.      *)
Venue == {"buying", "selling", "neither"}
DemandReadings ==
    {Null} \cup
    {r \in [spot : Venue, futures : Venue, lopsided : BOOLEAN, rate : {0, 6}, crowded : BOOLEAN] :
       /\ r.crowded => r.spot = "buying" /\ r.futures = "selling"
       /\ r.lopsided => r.spot # "buying" /\ r.futures # "neither"}

DemandVerdict(m) ==
    LET up == m.spot = "buying"
        down == m.spot = "selling"
        paperUp == m.futures = "buying"
        paperDown == m.futures = "selling"
    IN FirstOf(<< <<up /\ paperDown /\ m.rate <= 0 /\ m.crowded, "SPOT-ACCUMULATION, retail crowded">>,
                  <<up /\ paperDown /\ m.rate <= 0, "SPOT-ACCUMULATION, smart money">>,
                  <<up /\ ~paperDown, "SPOT-DEMAND">>,
                  <<down /\ paperUp, "DISTRIBUTION-ON-RIP">>,
                  <<paperDown /\ m.lopsided, "FUTURES-DOMINATED">>,
                  <<up /\ paperUp /\ m.rate > 5, "LEVERAGE-OVERHEATED">>,
                  <<paperUp /\ m.lopsided, "LEV-LONG-BUILD">>,
                  <<up /\ paperUp, "BOTH-BUYING">>, <<down /\ paperDown, "BOTH-SELLING">>,
                  <<down /\ paperUp, "SPOT-DISTRIBUTION / FUTURES-BID">>,
                  <<up /\ paperDown, "SPOT-BID / FUTURES-DISTRIBUTION">>,
                  <<TRUE, "MIXED-ABSORPTION">> >>)

(* Stage: the change of the price and of the open interest over four hours *)
(* (in tenths of a percent), the share of volume on up-bars, and which way *)
(* most of the hourly keystones went.                                      *)
StageReadings ==
    {Null} \cup [price : {-12, -7, 12}, oi : {0, 6}, up : {40, 60}, steps : {-1, 0, 1}]

StageScore(m) ==
    FoldLeft(LAMBDA score, point : IF point[1] THEN score + point[2] ELSE score, 0,
             << <<m.price \in -9..9, 1>>, <<m.up \in 51..69, 1>>,
                <<m.price > 10 /\ m.oi > 5, 2>>, <<m.steps > 0, 1>>,
                <<m.price < -5 /\ m.oi \in -4..4, 2>>, <<m.steps < 0, 2>>,
                <<m.up < 50, 1>>, <<m.price < -10 /\ m.oi > 5, 2>> >>)
InferStage(m) ==
    LET score == StageScore(m)
    IN FirstOf(<< <<score >= 4 /\ m.steps < 0 /\ m.price < -5 /\ m.oi \in -4..4, "DISTRIBUTION, late">>,
                  <<score >= 3 /\ m.steps < 0, "DISTRIBUTION, early">>,
                  <<score >= 3 /\ m.price > 10 /\ m.oi > 5, "MARKUP">>,
                  <<score >= 3 /\ m.price < -10 /\ m.oi > 5, "MARKDOWN">>,
                  <<score <= 2 /\ m.price \in -9..9, "ACCUMULATION">>,
                  <<TRUE, "TRANSITION">> >>)

(* The newest bar for which open interest, taker volumes and a candle of   *)
(* one five minutes all exist: both changes (in hundredths of a percent)   *)
(* since the bar before it, none for a first bar, and the takers' share.   *)
BarReadings == {Null} \cup [oi : {-6, 0, 6}, price : {-6, 0, 6}, taker : {45, 50, 55}]

ClassifyBar(m) ==
    LET oiUp == m.oi > 5
        oiDown == m.oi < -5
        priceUp == m.price > 5
        priceDown == m.price < -5
    IN FirstOf(<< <<oiUp /\ priceUp /\ m.taker >= 55, "AGGRESSIVE_LONG">>,
                  <<oiUp /\ priceUp /\ m.taker <= 45, "DISTRIBUTION">>,
                  <<oiUp /\ priceDown /\ m.taker >= 55, "ABSORPTION">>,
                  <<oiUp /\ priceDown /\ m.taker <= 45, "SHORT_BUILD">>,
                  <<oiDown /\ priceUp, "SHORT_COVER">>, <<oiDown /\ priceDown, "LONG_UNWIND">>,
                  <<~oiUp /\ ~oiDown /\ ~priceUp /\ ~priceDown, "TWO_SIDED_FLAT">>,
                  <<oiUp /\ priceUp, "NEUTRAL_LONG_BUILD">>,
                  <<oiUp /\ priceDown, "NEUTRAL_SHORT_BUILD">>, <<TRUE, "NEUTRAL_MIXED">> >>)

\* Liquidation pressure: both cumulated changes, in tenths of a percent; a
\* bucket without a candle adds no price change.
PressureReadings == {Null} \cup [oi : {-4, 0, 4}, price : {-4, 0, 4}]

LiquidationSignal(m) ==
    FirstOf(<< <<m.oi < -3 /\ m.price < -3, "LONG_LIQUIDATION_LIKELY">>,
               <<m.oi < -3 /\ m.price > 3, "SHORT_LIQUIDATION_LIKELY">>,
               <<m.oi \in -1..1 /\ m.price < -3, "ORGANIC_SELLING">>,
               <<m.oi \in -1..1 /\ m.price > 3, "ORGANIC_BUYING">>,
               <<m.oi > 3 /\ m.price < -3, "SHORT_ADDING_INTO_WEAKNESS">>,
               <<m.oi > 3 /\ m.price > 3, "LONG_ADDING_INTO_STRENGTH">>,
               <<TRUE, "MIXED_RANGE_BOUND">> >>)

---------------------------------------------------------------------------
(* Wall migration: the quantity (in thousands) of the densest futures bid  *)
(* windows at two levels, and the keystone in steps of 0.10.  compute()    *)
(* keys the walls by level; in the JSON projection a level is a string.    *)
WallFloor == 10
Levels == {"187.1", "187.3"}
JsonKey(level) == "'" \o level \o "'"
WallReadings == {Null} \cup [windows : [Levels -> {0, 10, 12}], keystone : {Null, 1, 4}]

Defended(m) == {level \in Levels : m.windows[level] >= WallFloor}
WallCompute(m) ==
    IF m = Null THEN Empty
    ELSE [walls |-> [key \in {JsonKey(l) : l \in Defended(m)} |->
                       m.windows[CHOOSE l \in Levels : JsonKey(l) = key]],
          keystone |-> m.keystone]
WallProbe(m, kept) ==
    LET before == IF kept = Empty THEN {} ELSE DOMAIN kept.walls
    IN /\ m # Null
       /\ \/ \E l \in Defended(m) :
               l \notin before \/ 115 * m.windows[l] < 100 * kept.walls[l]
          \/ before \ Defended(m) # {}
          \/ /\ kept # Empty /\ Null \notin {m.keystone, kept.keystone}
             /\ m.keystone - kept.keystone \notin -2..2
=============================================================================
