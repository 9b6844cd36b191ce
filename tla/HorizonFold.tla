----------------------------- MODULE HorizonFold -----------------------------
(***************************************************************************)
(* The trailing-horizon fold of a worker (runtime/horizons.py), fed by the *)
(* rows of the raw stream and rebuilt by _backfill_horizons from the       *)
(* ledger and from the retained window (substrate_worker/core/base.py).    *)
(*                                                                         *)
(* A trade is a venue and its id, 1, 2, ... per venue; tape tells the time *)
(* of each.  A snapshot of the raw stream holds, per venue, the ids up to  *)
(* the newest, SnapLen of them.  A segment is SegLen time units long, is   *)
(* known by its start, and what it adds up is the sequence of trades       *)
(* folded into it.  A worker has one fold per declared horizon; they share *)
(* nothing, so there is one here.                                          *)
(***************************************************************************)
EXTENDS Integers, Sequences, FiniteSets, SequencesExt

CONSTANTS
    SegLen,     \* _segment_len_ms
    Span,       \* HORIZON_PERIOD_MS of the horizon
    SnapLen,    \* trades per venue in a snapshot
    ReadLimit,  \* _EVT_READ_LIMIT
    Faults,     \* which of "crash", "upgrade", "pg" and "redis" may happen
    MaxTime,    \* bound: how far time runs
    MaxTrades,  \* bound: trades per venue
    MaxPolls    \* bound: snapshots in the stream

ASSUME FoldAssumption ==
    /\ {Span, MaxTime, MaxTrades, MaxPolls} \subseteq Nat
    /\ {SegLen, SnapLen, ReadLimit} \subseteq Nat \ {0}
    /\ Faults \subseteq {"crash", "upgrade", "pg", "redis"}

VARIABLES
    now,         \* the time
    tape,        \* per venue, the time of each trade
    stream,      \* the raw stream: per snapshot, its time and newest ids
    delivered,   \* entries delivered to the worker's group
    fold,        \* the worker's fold state
    backfilled,  \* _horizons_backfilled
    stage,       \* "read", or within a decide(): "backfill", "fire"
    projected,   \* a projection of this schema version is in Redis
    row,         \* the fold of the newest ledger row of this version
    setBack      \* history: the fold was lost, or put back to the row's

foldVars == <<now, tape, stream, delivered, fold, backfilled, stage, projected, row, setBack>>

V == {"spot", "futures"}
NewFold == [segments |-> <<>>, hwm |-> [v \in V |-> 0], late |-> 0]
NoRow   == [segments |-> <<>>, hwm |-> [v \in V |-> -1], late |-> 0]

FoldInit ==
    /\ now = 0
    /\ tape = [v \in V |-> <<>>]
    /\ stream = <<>> /\ delivered = 0
    /\ fold = NewFold
    /\ backfilled = FALSE
    /\ stage = "read"
    /\ projected = FALSE
    /\ row = NoRow
    /\ setBack = FALSE

-----------------------------------------------------------------------------
(* fold_trades: one trade.  It is skipped at or under the high-water,      *)
(* dropped when it precedes the newest segment, folded otherwise.          *)
SkippedBelow(f, v, i) == i < f.hwm[v]   \* mutant: the newest id is folded again
Skipped(f, v, i) == i <= f.hwm[v]

SegStart(t) == t - (t % SegLen)
Late(f, at) == \E s \in DOMAIN f.segments : at < s

AddTrade(segments, at, trade) ==
    IF at \in DOMAIN segments
    THEN [segments EXCEPT ![at] = Append(@, trade)]
    ELSE [s \in DOMAIN segments \cup {at} |-> IF s = at THEN <<trade>> ELSE segments[s]]

FoldTrade(f, v, i) ==
    LET at == SegStart(tape[v][i])
        g  == [f EXCEPT !.hwm[v] = i] IN
    IF Skipped(f, v, i) THEN f
    ELSE IF Late(f, at) THEN [g EXCEPT !.late = @ + 1]
    ELSE [g EXCEPT !.segments = AddTrade(@, at, <<v, i>>)]

(* _prune: the segments that began before the horizon behind a trade.  Its *)
(* cap on their number never bites: it exceeds Span \div SegLen by two.    *)
PruneAlive(segments, newest) ==   \* mutant: the eviction takes one segment too many
    [s \in {x \in DOMAIN segments : x - SegLen >= newest - Span} |-> segments[s]]
Prune(segments, newest) ==
    [s \in {x \in DOMAIN segments : x >= newest - Span} |-> segments[s]]

(* A venue's trades of one snapshot or window, in the order they came.     *)
FoldTrades(f, v, ids) ==
    LET after[k \in 0..Len(ids)] == IF k = 0 THEN f ELSE FoldTrade(after[k - 1], v, ids[k])
        g == after[Len(ids)]
        newest == CHOOSE s \in DOMAIN g.segments : \A r \in DOMAIN g.segments : r <= s
        trade == Last(g.segments[newest]) IN
    IF g.segments = f.segments THEN g
    ELSE [g EXCEPT !.segments = Prune(@, tape[trade[1]][trade[2]])]

(* Both callers take the spot trades first.                                *)
FoldVenues(f, ids) == FoldTrades(FoldTrades(f, "spot", ids["spot"]), "futures", ids["futures"])

IdsFrom(a, b) == [k \in 1..(b - a + 1) |-> a + k - 1]
Lowest(n) == IF n > SnapLen THEN n - SnapLen + 1 ELSE 1

FoldSnapshot(f, s) == FoldVenues(f, [v \in V |-> IdsFrom(Lowest(s.ids[v]), s.ids[v])])
FoldSnapshots(f, snaps) ==
    LET after[k \in 0..Len(snaps)] == IF k = 0 THEN f ELSE FoldSnapshot(after[k - 1], snaps[k])
    IN  after[Len(snaps)]

(* The window of the backfill: the trades of every snapshot the stream     *)
(* has from the horizon on, without repeats (runtime/raw_window.py).  The  *)
(* snapshots overlap, so these are all from the oldest of the first to the *)
(* newest of the last.                                                     *)
Recent == {n \in DOMAIN stream : stream[n].at >= now - Span}
Window ==
    LET first == CHOOSE n \in Recent : \A m \in Recent : n <= m IN
    [v \in V |-> IF Recent = {} THEN <<>>
                 ELSE IdsFrom(Lowest(stream[first].ids[v]), Last(stream).ids[v])]

-----------------------------------------------------------------------------
(* The exchange and the poller.  A snapshot reaches back to the one before *)
(* it: no more trades come in between than it holds.                       *)
ClockTick ==
    /\ now < MaxTime
    /\ now' = now + 1
    /\ UNCHANGED <<tape, stream, delivered, fold, backfilled, stage, projected, row, setBack>>

Polled(v) == IF stream = <<>> THEN 0 ELSE Last(stream).ids[v]

Trade(v) ==
    /\ Len(tape[v]) < MaxTrades
    /\ Len(tape[v]) - Polled(v) < SnapLen
    /\ tape' = [tape EXCEPT ![v] = Append(@, now)]
    /\ UNCHANGED <<now, stream, delivered, fold, backfilled, stage, projected, row, setBack>>

Poll ==
    /\ Len(stream) < MaxPolls
    /\ stream' = Append(stream, [at |-> now, ids |-> [v \in V |-> Len(tape[v])]])
    /\ UNCHANGED <<now, tape, delivered, fold, backfilled, stage, projected, row, setBack>>

(* decide(): fold the rows; without a usable projection a cold start       *)
(* follows, with a backfill unless one has succeeded; with a projection,   *)
(* anything the cascade says.                                              *)
Decided ==
    IF projected THEN {"read", "fire"}
    ELSE IF backfilled THEN {"fire"} ELSE {"backfill"}

Decide ==
    /\ stage = "read" /\ delivered < Len(stream)
    /\ LET n == IF Len(stream) - delivered > ReadLimit THEN delivered + ReadLimit ELSE Len(stream) IN
       /\ fold' = FoldSnapshots(fold, SubSeq(stream, delivered + 1, n))
       /\ delivered' = n
    /\ stage' \in Decided
    /\ UNCHANGED <<now, tape, stream, backfilled, projected, row, setBack>>

(* _backfill_horizons: the newest ledger row, if there is one and PG       *)
(* answers, replaces the fold; the window is folded on top, or its read    *)
(* fails and the next cold start tries again from the row.                 *)
Backfill ==
    /\ stage = "backfill"
    /\ \E restored \in (IF row # NoRow THEN {row} ELSE {fold})
                       \cup (IF "pg" \in Faults THEN {fold} ELSE {}) :
         \/ /\ fold' = FoldVenues(restored, Window) /\ backfilled' = TRUE
            /\ UNCHANGED setBack
         \/ /\ fold' = restored /\ backfilled' = FALSE
            /\ setBack' = (setBack \/ restored # fold)
    /\ stage' = "fire"
    /\ UNCHANGED <<now, tape, stream, delivered, projected, row>>

(* The fire: the summary of the fold goes to the ledger, then the payload  *)
(* to Redis.  A Redis that fails leaves the ledger row, and only it; a     *)
(* lenient store publishes without the row; and a fire may be denied,      *)
(* deduped or fail before both.                                            *)
FirePersists ==
    /\ stage = "fire"
    /\ \/ row' = fold /\ projected' = TRUE
       \/ "redis" \in Faults /\ row' = fold /\ projected' = projected
       \/ "pg" \in Faults /\ row' = row /\ projected' = TRUE
    /\ stage' = "read"
    /\ UNCHANGED <<now, tape, stream, delivered, fold, backfilled, setBack>>

FireDrops ==
    /\ stage = "fire"
    /\ stage' = "read"
    /\ UNCHANGED <<now, tape, stream, delivered, fold, backfilled, projected, row, setBack>>

(* A new process: the fold is gone, the group's position is not.  With a   *)
(* new schema version, projection and ledger rows are not accepted either. *)
FoldLost ==
    /\ "crash" \in Faults
    /\ fold' = NewFold /\ backfilled' = FALSE /\ stage' = "read"
    /\ setBack' = TRUE
    /\ UNCHANGED <<now, tape, stream, delivered, projected, row>>

Upgrade ==
    /\ "upgrade" \in Faults
    /\ fold' = NewFold /\ backfilled' = FALSE /\ stage' = "read"
    /\ projected' = FALSE
    /\ row' = NoRow
    /\ setBack' = TRUE
    /\ UNCHANGED <<now, tape, stream, delivered>>

FoldNext ==
    \/ ClockTick \/ (\E v \in V : Trade(v)) \/ Poll
    \/ Decide \/ Backfill \/ FirePersists \/ FireDrops
    \/ FoldLost \/ Upgrade

FoldSpec == FoldInit /\ [][FoldNext]_foldVars

-----------------------------------------------------------------------------
(* Overlapping snapshots, restored rows and the backfill window never make *)
(* a trade count twice (horizons.py:218, "exact").                         *)
FoldedOnce ==
    \A s, r \in DOMAIN fold.segments :
        \A k \in DOMAIN fold.segments[s], l \in DOMAIN fold.segments[r] :
            fold.segments[s][k] = fold.segments[r][l] => s = r /\ k = l

(* "totals genuinely mean the trailing horizon" (horizons.py:229), as far  *)
(* as it holds: in a worker whose fold was neither lost in a restart nor   *)
(* put back to a ledger row by a backfill that then had no window, every   *)
(* trade of the venue that is folded first whose segment is inside the     *)
(* horizon, counted back from the present, is in the fold once it was      *)
(* delivered.                                                              *)
Folded(f, trade) == \E s \in DOMAIN f.segments : \E k \in DOMAIN f.segments[s] : f.segments[s][k] = trade
NothingLost ==
    ~setBack =>
        \A i \in 1..fold.hwm["spot"] :
            SegStart(tape["spot"][i]) >= now - Span => Folded(fold, <<"spot", i>>)

(* ... and nothing counts that began a horizon before a folded trade.      *)
NothingStale ==
    \A s, r \in DOMAIN fold.segments : \A k \in DOMAIN fold.segments[r] :
        LET trade == fold.segments[r][k] IN s >= tape[trade[1]][trade[2]] - Span

=============================================================================
