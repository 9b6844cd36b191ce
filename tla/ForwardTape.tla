---------------------------- MODULE ForwardTape ----------------------------
(* What a forward fit is made from.  The capture                           *)
(* (microstructure/capture.py) publishes every best-quote event to a       *)
(* bounded stream and, as well as it can, to a durable table, and its      *)
(* changes of state to a status ledger.  A replay                          *)
(* (inference/tooling/replay_adapter.py, fitting_route_c.py) reads the     *)
(* three in separate round trips while the capture goes on, and gives      *)
(* every event its features and, for each horizon, its label.  Events are  *)
(* named by their time; the exchange's clock and the host's are one.       *)
EXTENDS Integers, FiniteSets, FiniteSetsExt, Sequences

CONSTANTS
    LastTick,     \* bound: time ends here
    IntervalLen,  \* interval_ms of the OFI intervals
    MaxEventGap,  \* DEFAULT_MAX_EVENT_GAP_MS
    WindowLen,    \* window_minutes
    StreamCap,    \* maxlen of micro.events
    MaxOutages,   \* bound on them
    Horizons      \* FORWARD_HORIZONS_MS

ASSUME TapeAssumption ==
    /\ {LastTick, MaxEventGap, WindowLen, StreamCap, MaxOutages} \subseteq Nat
    /\ IntervalLen \in Nat \ {0} /\ Horizons \subseteq Nat \ {0}

VARIABLES
    now,
    capture,      \* "running", "blind" (frames are lost, not noticed), "down"
    seenTo,       \* while not running: the time up to which all was seen
    live,         \* events in the stream
    durableTape,  \* events in microstructure_event_tape
    statusRows,   \* micro.status.events: rows [up, at]
    outages,      \* history: <<from, to>> during which quotes went unseen
    trip,         \* the replay's next round trip
    tape,         \* the events it has read
    transitions   \* the ledger it has read

captureVars == <<now, capture, seenTo, live, durableTape, statusRows, outages>>
replayVars == <<trip, tape, transitions>>
tapeVars == <<now, capture, seenTo, live, durableTape, statusRows, outages, trip, tape, transitions>>

Times == 1..LastTick
NeverEnds == 2 * LastTick + 1   \* _OPEN_SPAN_END

TapeInit ==
    /\ now = 0 /\ capture = "running" /\ seenTo = 0
    /\ live = {} /\ durableTape = {} /\ statusRows = <<[up |-> TRUE, at |-> 0]>> /\ outages = {}
    /\ trip = "live" /\ tape = {} /\ transitions = <<>>

---------------------------------------------------------------------------
(* The capture.                                                            *)

Trimmed(events) == {e \in events : Cardinality({f \in events : f > e}) < StreamCap}

\* insert_microstructure_tape_event, which may fail: the row is lost then.
Inserted(t) == {durableTape, durableTape \cup {t}}

\* The best quote moves: published to the stream and inserted.
Quote ==
    /\ capture = "running" /\ now < LastTick
    /\ now' = now + 1
    /\ live' = Trimmed(live \cup {now'})
    /\ durableTape' \in Inserted(now')
    /\ UNCHANGED <<capture, seenTo, statusRows, outages, replayVars>>

\* Time passes: without a move of the quote, or without anybody to see it.
Pass ==
    /\ now < LastTick /\ now' = now + 1
    /\ UNCHANGED <<capture, seenTo, live, durableTape, statusRows, outages, replayVars>>

LoseFrames ==
    /\ capture = "running" /\ Cardinality(outages) < MaxOutages
    /\ capture' = "blind" /\ seenTo' = now
    /\ UNCHANGED <<now, live, durableTape, statusRows, outages, replayVars>>

\* _status: one row per change of state, each append may fail on its own.
Reported(rows) ==
    {statusRows \o SelectSeq(rows, LAMBDA r : r.up \in kept) : kept \in SUBSET BOOLEAN}

\* BookGapError or a closed socket: "gap" and "reconnecting".
Notice ==
    /\ capture = "blind" /\ capture' = "down"
    /\ statusRows' \in Reported(<<[up |-> FALSE, at |-> now]>>)
    /\ UNCHANGED <<now, seenTo, live, durableTape, outages, replayVars>>

\* The process dies and reports nothing.
CaptureDies ==
    /\ capture = "blind" \/ (capture = "running" /\ Cardinality(outages) < MaxOutages)
    /\ capture' = "down"
    /\ seenTo' = IF capture = "blind" THEN seenTo ELSE now
    /\ UNCHANGED <<now, live, durableTape, statusRows, outages, replayVars>>

\* "connected" (after a death "starting" before it), bootstrap, "running".
Reconnect ==
    /\ capture = "down" /\ capture' = "running"
    /\ statusRows' \in Reported(<<[up |-> FALSE, at |-> now], [up |-> TRUE, at |-> now]>>)
    /\ outages' = outages \cup {<<seenTo, now>>}
    /\ UNCHANGED <<now, seenTo, live, durableTape, replayVars>>

---------------------------------------------------------------------------
(* The replay.                                                             *)

ReadLive ==
    /\ trip = "live" /\ tape' = live /\ trip' = "durable"
    /\ UNCHANGED <<captureVars, transitions>>

\* Durable rows first, what of the stream they lack beside them; without
\* the table, or without rows in it, the stream alone.
ReadDurable ==
    /\ trip = "durable" /\ trip' = "status"
    /\ tape' \in {tape, tape \cup durableTape}
    /\ UNCHANGED <<captureVars, transitions>>

ReadStatus ==
    /\ trip = "status" /\ trip' = "done"
    /\ transitions' \in {statusRows, <<>>}
    /\ UNCHANGED <<captureVars, tape>>

\* The window is anchored on the newest event.
Windowed == {e \in tape : e >= Max(tape) - WindowLen}

\* A row that is not "running" opens a span, the next one that is closes it.
StatusSpans ==
    LET Later(i) == {j \in DOMAIN transitions : j > i /\ transitions[j].up}
    IN {<<transitions[i].at, IF Later(i) = {} THEN NeverEnds ELSE transitions[Min(Later(i))].at>> :
          i \in {k \in DOMAIN transitions :
                   ~transitions[k].up /\ (k = 1 \/ transitions[k - 1].up)}}

Discontinuities ==
    {s \in Windowed \X Windowed :
       s[2] - s[1] >= MaxEventGap /\ \A e \in Windowed : e <= s[1] \/ e >= s[2]}

DegradedSpansTold ==   \* mutant: the status ledger is enough
    IF transitions = <<>> THEN Discontinuities ELSE StatusSpans
DegradedSpans == Discontinuities \cup StatusSpans

\* build_feature_vector: the OFI and the average depth of an event are those
\* of the whole interval around it.
IntervalOf(t) == t \div IntervalLen
Informs(t) == {e \in Windowed : IntervalOf(e) = IntervalOf(t)}

\* build_forward_observations: the first quote at or after the target,
\* unless the way to the target crosses a span.
AtOrAfter(t) == {e \in Windowed : e >= t}
CrossesWhole(span, t, target) == span[1] >= t /\ span[2] <= target   \* mutant: a span counts if it is inside
Crosses(span, t, target) == span[1] < target /\ span[2] > t
Labelled(t, h) ==
    /\ t \in Windowed /\ AtOrAfter(t + h) # {}
    /\ ~\E span \in DegradedSpans : Crosses(span, t, t + h)
ForwardQuote(t, h) == Min(AtOrAfter(t + h))

TapeNext ==
    \/ Quote \/ Pass \/ LoseFrames \/ Notice \/ CaptureDies \/ Reconnect
    \/ ReadLive \/ ReadDurable \/ ReadStatus
TapeSpec == TapeInit /\ [][TapeNext]_tapeVars

Joined == trip = "done" /\ tape # {}

---------------------------------------------------------------------------
(* A label is never taken from a quote MaxEventGap or more after its       *)
(* target, whatever was lost on the way to the stream, to the table, to    *)
(* the ledger or in between the three reads.                               *)
LabelsNear ==
    Joined => \A t \in Windowed, h \in Horizons :
                Labelled(t, h) => ForwardQuote(t, h) - (t + h) < MaxEventGap

(* No label reaches across an outage of that length, whether it was        *)
(* noticed or not and whatever of it was recorded (replay_adapter.py:152,   *)
(* the event timestamps are the last line of truth).                       *)
OutageNeverBridged ==
    Joined => \A o \in outages : o[2] - o[1] >= MaxEventGap =>
                \A t \in Windowed, h \in Horizons :
                  Labelled(t, h) => ~(t <= o[1] /\ t + h > o[1])

(* fitting_route_c.py:214, gaps yield no label, "never a bridged value":   *)
(* no recorded outage lies between the target and the quote taken for it.  *)
NeverBridged ==
    Joined => \A t \in Windowed, h \in Horizons : Labelled(t, h) =>
                ~\E span \in StatusSpans :
                    t + h <= span[1] /\ span[1] < span[2] /\ span[2] <= ForwardQuote(t, h)

(* fitting_route_c.py:210, no lookahead: the features at t are the same    *)
(* with and without what came after t.                                     *)
NoLookahead == Joined => \A t \in Windowed : \A e \in Informs(t) : e <= t
=============================================================================
