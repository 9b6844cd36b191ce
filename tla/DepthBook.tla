------------------------------ MODULE DepthBook ------------------------------
(***************************************************************************)
(* One microstructure capture (microstructure/capture.py): the websocket   *)
(* of depth frames, the local book spliced onto a REST snapshot and kept   *)
(* up to date by OrderBookReconstructor (orderbook.py), the best-quote     *)
(* events and the OFI intervals they are collected in (ofi.py).            *)
(*                                                                         *)
(* The exchange is external: hist[n] is its book at update id n, a frame   *)
(* carries every price that changed since the frame before (pu) with the   *)
(* quantity it has at u, and the REST snapshot is the book of any id.      *)
(* One side of the book is modelled; the other is its mirror image.  The   *)
(* wait between two connections takes any time.                            *)
(***************************************************************************)
EXTENDS Integers, Sequences, FiniteSets, FiniteSetsExt

CONSTANTS
    Prices,     \* of the modelled side; the best quote is the highest
    Qtys,       \* absolute quantities, 0 for "no such level"
    Venues,     \* out of "spot" and "futures"
    Width,      \* interval_ms of the aggregator
    Retries,    \* bootstrap_retries
    MaxClock,   \* bound: how far time runs
    MaxId,      \* bound: update ids of the exchange
    MaxConnects \* bound: connections of the capture

ASSUME DepthAssumption ==
    /\ Prices \subseteq Nat
    /\ Qtys \subseteq Nat
    /\ Venues \subseteq {"spot", "futures"}
    /\ {MaxClock, MaxId, MaxConnects} \subseteq Nat
    /\ {Width, Retries} \subseteq Nat \ {0}

VARIABLES
    venue,      \* settings.venue
    clock,      \* the exchange's time
    hist,       \* the exchange's book at each update id
    feed,       \* the frames the exchange sent so far
    pos,        \* how many of them this connection has behind it
    connects,   \* connections opened so far
    phase,      \* "down", "fetch", "splice" or "live"
    attempt,    \* the bootstrap attempt of this connection
    book,       \* bids of the local book
    lastId,     \* last_update_id
    quote,      \* last_quote
    agg,        \* the aggregator: _start (NoStart when None) and _events
    shown,      \* update id of the last quote published to micro.book
    published,  \* the intervals published to micro.ofi
    gaps,       \* self.gaps
    lost,       \* history: a frame was lost since the book went live
    since       \* history: the time of the frame that made the book live

exchange == <<venue, clock, hist, feed>>
output   == <<agg, shown, published, gaps>>
vars == <<exchange, pos, connects, phase, attempt, book, lastId, quote,
          output, lost, since>>

Books   == [Prices -> Qtys]
NoQuote == [price |-> -1, qty |-> 0]
NoStart == -1
Idle    == [start |-> NoStart, events |-> <<>>]

Init ==
    /\ venue \in Venues
    /\ clock = 1
    /\ hist \in {<<b>> : b \in Books}
    /\ feed = <<>> /\ pos = 0 /\ connects = 0
    /\ phase = "down" /\ attempt = 0
    /\ book = hist[1] /\ lastId = 0 /\ quote = NoQuote   \* None: any value will do
    /\ agg = Idle /\ shown = 0 /\ published = <<>> /\ gaps = 0
    /\ lost = FALSE /\ since = 0

-----------------------------------------------------------------------------
(* The exchange.                                                           *)
Tick ==
    /\ clock < MaxClock
    /\ clock' = clock + 1
    /\ UNCHANGED <<venue, hist, feed, pos, connects, phase, attempt, book,
                   lastId, quote, output, lost, since>>

(* The next update id: one price level is set to another quantity.         *)
Update ==
    /\ Len(hist) < MaxId
    /\ \E p \in Prices, q \in Qtys :
           /\ q # hist[Len(hist)][p]
           /\ hist' = Append(hist, [hist[Len(hist)] EXCEPT ![p] = q])
    /\ UNCHANGED <<venue, clock, feed, pos, connects, phase, attempt, book,
                   lastId, quote, output, lost, since>>

(* A frame with everything since the last one.  Spot ids are contiguous, a *)
(* futures frame may start anywhere behind pu.                             *)
Sent == IF feed = <<>> THEN 1 ELSE feed[Len(feed)].u

Emit ==
    /\ Sent < Len(hist)
    /\ \E first \in (Sent + 1)..Len(hist) :
           /\ venue = "spot" => first = Sent + 1
           /\ feed' = Append(feed, [pu |-> Sent, U |-> first,
                                    u |-> Len(hist), at |-> clock])
    /\ UNCHANGED <<venue, clock, hist, pos, connects, phase, attempt, book,
                   lastId, quote, output, lost, since>>

Changed(f) == {p \in Prices : \E i \in f.pu..f.u : hist[i][p] # hist[f.u][p]}

-----------------------------------------------------------------------------
(* OrderBookReconstructor.                                                 *)
Best(b) ==
    LET levels == {p \in Prices : b[p] > 0}
    IN  IF levels = {} THEN NoQuote
        ELSE [price |-> Max(levels), qty |-> b[Max(levels)]]

ApplyLevels(b, f) == [p \in Prices |-> IF p \in Changed(f) THEN hist[f.u][p] ELSE b[p]]

(* What apply() refuses with BookGapError.  The bridge of a futures book   *)
(* may rewind behind the snapshot, a later frame may not.                  *)
RefusesRewinds(f, bridging) == ~bridging /\ f.U < lastId   \* mutant: no spot rule
Refuses(f, bridging) ==
    IF venue = "futures"
    THEN IF bridging THEN ~(f.pu <= lastId /\ f.u > lastId) ELSE f.U < lastId
    ELSE f.U > lastId + 1

(* OFIAggregator.add: the event opens or joins an interval and closes what *)
(* lies before its own; the first interval closed has the events so far.   *)
StartOf(t) == t - (t % Width)

Closed(t) ==
    LET n == IF agg.start = NoStart THEN 0 ELSE (StartOf(t) - agg.start) \div Width
    IN  [k \in 1..n |-> [start  |-> agg.start + (k - 1) * Width,
                         events |-> IF k = 1 THEN agg.events ELSE <<>>,
                         since  |-> since, lost |-> lost]]

Added(event, t) ==
    [start  |-> StartOf(t),
     events |-> IF Closed(t) = <<>> THEN Append(agg.events, event) ELSE <<event>>]

-----------------------------------------------------------------------------
(* run_forever: an exception of any kind drops the book and the interval   *)
(* under way, and a new connection follows.                                *)
DropsNothing == phase' = "down" /\ UNCHANGED agg   \* mutant: no discard()
Drops == phase' = "down" /\ agg' = Idle

Reconnect ==
    /\ phase # "down"
    /\ Drops
    /\ UNCHANGED <<exchange, pos, connects, attempt, book, lastId, quote,
                   shown, published, gaps, lost, since>>

(* _run_connection: the socket is open; frames sent from now on arrive.    *)
Connect ==
    /\ phase = "down"
    /\ connects < MaxConnects
    /\ phase' = "fetch"
    /\ connects' = connects + 1
    /\ attempt' = 1
    /\ pos' = Len(feed)
    /\ UNCHANGED <<exchange, book, lastId, quote, output, lost, since>>

(* _bootstrap: the snapshot of some id becomes the book.  One without a    *)
(* best quote raises.                                                      *)
FetchShown(s) ==   \* mutant: the quote of the snapshot is published as well
    /\ shown' = s /\ UNCHANGED <<agg, published, gaps>>
FetchPublishes(s) == UNCHANGED output

Fetched ==
    /\ phase = "fetch"
    /\ \E s \in 1..Len(hist) :
           /\ book' = hist[s] /\ lastId' = s
           /\ quote' = Best(hist[s])
           /\ quote' # NoQuote
           /\ FetchPublishes(s)
    /\ phase' = "splice"
    /\ lost' = FALSE
    /\ UNCHANGED <<exchange, pos, connects, attempt, since>>

NextFrame == feed[pos + 1]

(* A frame within the snapshot: kept as raw evidence only.                 *)
Skip ==
    /\ phase = "splice" /\ pos < Len(feed)
    /\ NextFrame.u <= lastId
    /\ pos' = pos + 1
    /\ UNCHANGED <<exchange, connects, phase, attempt, book, lastId, quote,
                   output, lost, since>>

(* The first frame past the snapshot either straddles it or the bridge is  *)
(* lost, which costs an attempt and in the end the connection.             *)
Bridges(f) ==
    IF venue = "futures" THEN f.pu <= lastId ELSE f.U <= lastId + 1

BridgeLost ==
    /\ phase = "splice" /\ pos < Len(feed)
    /\ NextFrame.u > lastId /\ ~Bridges(NextFrame)
    /\ pos' = pos + 1
    /\ IF attempt < Retries
       THEN /\ attempt' = attempt + 1 /\ phase' = "fetch"
            /\ UNCHANGED agg
       ELSE Drops /\ UNCHANGED attempt
    /\ UNCHANGED <<exchange, connects, book, lastId, quote, shown, published,
                   gaps, lost, since>>

-----------------------------------------------------------------------------
(* _apply_and_publish, of the bridge and of every frame after it.          *)
Bridging == phase = "splice"

Receives ==
    /\ phase \in {"splice", "live"}
    /\ pos < Len(feed)
    /\ Bridging => NextFrame.u > lastId /\ Bridges(NextFrame)
    /\ pos' = pos + 1

RaiseGap ==
    /\ Receives
    /\ NextFrame.u > lastId
    /\ Refuses(NextFrame, Bridging)
    /\ gaps' = gaps + 1
    /\ Drops
    /\ UNCHANGED <<exchange, connects, attempt, book, lastId, quote, shown,
                   published, lost, since>>

(* The frame goes into the book, the quote and a change of it are          *)
(* published, and with it the intervals it closes.                         *)
Applies ==
    /\ Receives
    /\ NextFrame.u > lastId
    /\ ~Refuses(NextFrame, Bridging)
    /\ book' = ApplyLevels(book, NextFrame)
    /\ lastId' = NextFrame.u
    /\ quote' = Best(book')
    /\ quote' # NoQuote
    /\ since' = IF Bridging THEN NextFrame.at ELSE since
    /\ UNCHANGED <<exchange, connects, attempt, gaps>>

Event == [from |-> quote, to |-> quote']

Apply ==
    /\ Applies
    /\ phase' = "live"
    /\ shown' = NextFrame.u
    /\ IF quote' = quote
       THEN UNCHANGED <<agg, published>>
       ELSE /\ agg' = Added(Event, NextFrame.at)
            /\ published' = published \o Closed(NextFrame.at)
    /\ UNCHANGED lost

(* A publish() of Redis raises on the way: some of the output is out.      *)
ApplyFails ==
    /\ Applies
    /\ Drops
    /\ shown' \in {shown, NextFrame.u}
    /\ \E n \in 0..Len(Closed(NextFrame.at)) :
           /\ n > 0 => quote' # quote /\ shown' = NextFrame.u
           /\ published' = published \o SubSeq(Closed(NextFrame.at), 1, n)
    /\ UNCHANGED lost

(* _quote() raises: the frame emptied the side.                            *)
ApplyEmpties ==
    /\ Receives
    /\ NextFrame.u > lastId
    /\ ~Refuses(NextFrame, Bridging)
    /\ Best(ApplyLevels(book, NextFrame)) = NoQuote
    /\ book' = ApplyLevels(book, NextFrame)
    /\ lastId' = NextFrame.u
    /\ Drops
    /\ UNCHANGED <<exchange, connects, attempt, quote, shown, published, gaps,
                   lost, since>>

(* A frame that never gets to apply(): dropped on the way, or text that    *)
(* _decode_delta does not take for a depth update.                         *)
Lose ==
    /\ phase \in {"splice", "live"}
    /\ pos < Len(feed)
    /\ pos' = pos + 1
    /\ lost' = (phase = "live")
    /\ UNCHANGED <<exchange, connects, phase, attempt, book, lastId, quote,
                   output, since>>

Next ==
    \/ Tick \/ Update \/ Emit
    \/ Connect \/ Fetched \/ Skip \/ BridgeLost
    \/ Apply \/ ApplyFails \/ ApplyEmpties \/ RaiseGap
    \/ Lose \/ Reconnect

Spec == Init /\ [][Next]_vars

-----------------------------------------------------------------------------
(* Types.  The book of the capture is one of the exchange's books' shape,  *)
(* the reader never overtakes the feed, and nothing is collected while no  *)
(* book is live (orderbook.py bootstrap, capture.py run_forever).          *)
Frames == [pu : Nat, U : Nat, u : Nat, at : Nat]

TypeOK ==
    /\ venue \in Venues /\ clock \in Nat
    /\ hist \in Seq(Books) /\ hist # <<>>
    /\ feed \in Seq(Frames)
    /\ pos \in 0..Len(feed)
    /\ connects \in Nat /\ attempt \in 0..Retries
    /\ phase \in {"down", "fetch", "splice", "live"}
    /\ book \in Books /\ lastId \in 0..Len(hist)
    /\ shown \in 0..Len(hist)
    /\ gaps \in Nat /\ lost \in BOOLEAN /\ since \in Nat
    /\ phase # "live" => agg = Idle

(* A live book is the exchange's book at last_update_id, to the last       *)
(* quantity: on spot always, on futures while no frame was lost.           *)
BookExact ==
    phase = "live" /\ (venue = "spot" \/ ~lost) => book = hist[lastId]

(* apply() raises a gap for a frame that is missing and for nothing else:  *)
(* neither the holes of the futures ids nor the splice are taken for one.  *)
NoFalseGap == [][gaps' # gaps => phase = "live" /\ lost]_vars

(* micro.book moves forward only: a snapshot older than the last quote is  *)
(* fetched but never shown (capture.py publishes in _apply_and_publish).   *)
QuoteForward == [][shown' # shown => shown' > shown]_vars

(* "exact_feed" is exact: an interval that began after the splice holds    *)
(* precisely the changes of the exchange's best quote from frame to frame  *)
(* in its time, one event each and in their order; what was under way at a *)
(* reconnect is discarded.                                                 *)
Moves(f) == Best(hist[f.pu]) # Best(hist[f.u])
MovesIn(start) == {i \in DOMAIN feed : StartOf(feed[i].at) = start /\ Moves(feed[i])}

Tells(events, frames) ==
    /\ Len(events) = Cardinality(frames)
    /\ \A i \in frames :
           events[Cardinality({j \in frames : j <= i})] =
               [from |-> Best(hist[feed[i].pu]), to |-> Best(hist[feed[i].u])]

IntervalsExact ==
    \A i \in DOMAIN published :
        LET interval == published[i]
        IN  StartOf(interval.since) # interval.start
                /\ (venue = "spot" \/ ~interval.lost)
            => Tells(interval.events, MovesIn(interval.start))
=============================================================================
