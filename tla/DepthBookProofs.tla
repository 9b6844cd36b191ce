--------------------------- MODULE DepthBookProofs ---------------------------
(***************************************************************************)
(* A live book is the exchange's book, whatever the prices, the quantities *)
(* and the number of updates, frames and reconnects.  What carries the     *)
(* proof is the chain of the frames: each begins where the one before      *)
(* ended, and it has every price that differs between its two ends.  From  *)
(* it follows, in the second half, that an interval published as exact     *)
(* tells every move of the exchange's best quote in its time: what is      *)
(* collected is at every moment the account of the frames read since the   *)
(* splice, and after the interval under way no frame has moved the quote.  *)
(***************************************************************************)
EXTENDS DepthBook, FiniteSetTheorems, SequenceTheorems, TLAPS

USE DepthAssumption

(* The frames of the feed: well formed and chained.                        *)
Chains(f, v, head) ==
    /\ 1 <= f.pu /\ f.pu < f.U /\ f.U <= f.u /\ f.u <= head
    /\ v = "spot" => f.U = f.pu + 1

FrameOK(f) == Chains(f, venue, Len(hist))

(* A frame ends no earlier than whatever its pu is not behind.             *)
LEMMA FrameReaches ==
    ASSUME NEW f \in Frames, NEW g \in Frames, FrameOK(g), f.u <= g.pu
    PROVE  f.u <= g.u
  <1>1. f.u \in Nat /\ g.pu \in Nat /\ g.U \in Nat /\ g.u \in Nat
    BY DEF Frames
  <1>2. g.pu < g.U /\ g.U <= g.u
    BY DEF FrameOK, Chains
  <1> QED
    BY <1>1, <1>2

FeedOK ==
    /\ \A i \in 1..Len(feed) : FrameOK(feed[i])
    /\ \A i, j \in 1..Len(feed) : i < j => feed[i].u <= feed[j].pu
    /\ \A i \in 1..Len(feed) : i < Len(feed) => feed[i + 1].pu = feed[i].u
    /\ shown <= Sent

(* Nothing shown is ahead of the reader.                                   *)
ShownBehind == \A i \in 1..Len(feed) : i > pos => shown <= feed[i].pu

(* Where the local book stands with respect to the feed.                   *)
Placed ==
    /\ phase = "splice" => lastId >= 1 /\ ~lost /\ book = hist[lastId]
    /\ phase = "live" =>
        /\ lastId >= 1 /\ pos >= 1
        /\ ~lost => feed[pos].u = lastId

(* The inductive invariant.                                                *)
IInv == TypeOK /\ FeedOK /\ ShownBehind /\ Placed /\ BookExact

LEMMA InitIInv == Init => IInv
  <1> SUFFICES ASSUME Init PROVE IInv
    OBVIOUS
  <1>1. PICK b \in Books : hist = <<b>>
    BY DEF Init
  <1>2. hist \in Seq(Books) /\ Len(hist) = 1 /\ hist # <<>> /\ hist[1] = b
    BY <1>1
  <1>3. feed \in Seq(Frames) /\ Len(feed) = 0
    BY DEF Init
  <1>4. TypeOK
    <2>1. 0 \in 0..Len(feed) /\ 0 \in 0..Len(hist) /\ 0 \in 0..Retries
      BY <1>2, <1>3
    <2>2. agg = Idle /\ book \in Books /\ clock = 1 /\ lost \in BOOLEAN
      BY <1>2 DEF Init
    <2> QED
      BY <1>2, <1>3, <2>1, <2>2 DEF Init, TypeOK
  <1>5. FeedOK
    BY <1>3 DEF Init, FeedOK, Sent
  <1> QED
    BY <1>3, <1>4, <1>5 DEF Init, IInv, ShownBehind, Placed, BookExact

-----------------------------------------------------------------------------
(* What a frame does to a book.                                            *)
LEMMA ApplyType ==
    ASSUME TypeOK, NEW f \in Frames, FrameOK(f)
    PROVE  ApplyLevels(book, f) \in Books
  <1>1. f.u \in 1..Len(hist) /\ hist[f.u] \in Books
    BY DEF TypeOK, FrameOK, Chains, Frames
  <1> QED
    BY <1>1 DEF TypeOK, ApplyLevels, Books

(* A frame that begins at or before the book's id, and ends after it,      *)
(* takes the book of that id to the book of the frame's end.               *)
LEMMA ApplyExact ==
    ASSUME TypeOK, NEW f \in Frames, FrameOK(f),
           f.pu <= lastId, lastId < f.u, book = hist[lastId]
    PROVE  ApplyLevels(book, f) = hist[f.u]
  <1>1. f.u \in 1..Len(hist) /\ hist[f.u] \in Books /\ lastId \in f.pu..f.u
    BY SMTT(40) DEF TypeOK, FrameOK, Chains, Frames
  <1>2. \A p \in Prices : p \notin Changed(f) => book[p] = hist[f.u][p]
    BY <1>1 DEF Changed
  <1>3. \A p \in Prices : ApplyLevels(book, f)[p] = hist[f.u][p]
    BY <1>2 DEF ApplyLevels
  <1>4. ApplyLevels(book, f) = [p \in Prices |-> hist[f.u][p]]
    BY <1>3 DEF ApplyLevels
  <1> QED
    BY <1>1, <1>4 DEF Books

(* The frame a step receives.                                              *)
LEMMA NextFrameOK ==
    ASSUME IInv, pos < Len(feed)
    PROVE  /\ NextFrame \in Frames /\ FrameOK(NextFrame)
           /\ pos + 1 \in 1..Len(feed)
           /\ shown <= NextFrame.pu
           /\ phase = "live" /\ ~lost => NextFrame.pu = lastId
  <1>1. pos + 1 \in 1..Len(feed) /\ pos \in Nat
    BY DEF IInv, TypeOK
  <1>2. NextFrame \in Frames
    BY <1>1 DEF NextFrame, IInv, TypeOK
  <1>3. FrameOK(NextFrame)
    BY <1>1 DEF NextFrame, IInv, FeedOK
  <1>4. shown <= NextFrame.pu
    BY <1>1 DEF NextFrame, IInv, ShownBehind
  <1>5. ASSUME phase = "live", ~lost PROVE NextFrame.pu = lastId
    <2>1. pos \in 1..Len(feed) /\ pos < Len(feed) /\ feed[pos].u = lastId
      BY <1>1, <1>5 DEF IInv, TypeOK, Placed
    <2> QED
      BY <2>1 DEF NextFrame, IInv, FeedOK
  <1> QED
    BY <1>1, <1>2, <1>3, <1>4, <1>5

(* Reading on leaves what is not yet read ahead of what was shown.         *)
LEMMA ReadOn ==
    ASSUME IInv, pos < Len(feed), pos' = pos + 1, UNCHANGED <<hist, feed, venue>>,
           shown' \in {shown, NextFrame.u}
    PROVE  FeedOK' /\ ShownBehind' /\ pos' \in 0..Len(feed') /\ shown' \in 0..Len(hist')
  <1>0. /\ pos \in Nat /\ Len(feed) \in Nat /\ Len(hist) \in Nat
        /\ \A i \in 1..Len(feed) : feed[i] \in Frames
        /\ shown \in Nat /\ shown <= Len(hist)
    BY DEF IInv, TypeOK
  <1>1. /\ NextFrame = feed[pos + 1] /\ pos + 1 \in 1..Len(feed)
        /\ FrameOK(NextFrame) /\ shown <= NextFrame.pu /\ NextFrame \in Frames
    BY NextFrameOK DEF NextFrame
  <1>2. Sent = feed[Len(feed)].u /\ Sent' = Sent
    BY <1>1 DEF Sent
  <1>3. NextFrame.u <= Sent
    <2>1. CASE pos + 1 = Len(feed)
      BY <1>0, <1>1, <1>2, <2>1 DEF Frames
    <2>2. CASE pos + 1 < Len(feed)
      <3>1. NextFrame.u <= feed[Len(feed)].pu
        BY <1>0, <1>1, <2>2 DEF IInv, FeedOK
      <3>2. FrameOK(feed[Len(feed)]) /\ feed[Len(feed)] \in Frames
        BY <1>0, <1>1 DEF IInv, FeedOK
      <3> QED
        BY <1>1, <1>2, <3>1, <3>2, SMTT(40) DEF FrameOK, Chains, Frames
    <2> QED
      BY <1>0, <1>1, <2>1, <2>2
  <1>4. shown' <= Sent' /\ shown' \in 0..Len(hist')
    <2>1. NextFrame.u \in Nat /\ NextFrame.u <= Len(hist)
      BY <1>1 DEF FrameOK, Chains, Frames
    <2>2. shown <= Sent
      BY DEF IInv, FeedOK
    <2>3. shown' \in 0..Len(hist) /\ shown' <= Sent
      BY <1>0, <1>3, <2>1, <2>2
    <2>4. hist' = hist
      OBVIOUS
    <2> QED
      BY <1>2, <2>3, <2>4
  <1>5. FeedOK'
    <2>1. \A i \in 1..Len(feed) : FrameOK(feed[i])'
      BY DEF IInv, FeedOK, FrameOK, Chains
    <2> QED
      BY <1>4, <2>1 DEF IInv, FeedOK
  <1>6. ASSUME NEW i \in 1..Len(feed), i > pos + 1 PROVE shown' <= feed[i].pu
    <2>1. NextFrame.u <= feed[i].pu /\ feed[i] \in Frames
      BY <1>0, <1>1, <1>6 DEF IInv, FeedOK
    <2>2. shown <= feed[i].pu
      BY <1>0, <1>6 DEF IInv, ShownBehind
    <2> QED
      BY <2>1, <2>2
  <1> QED
    BY <1>0, <1>4, <1>5, <1>6 DEF ShownBehind

-----------------------------------------------------------------------------
(* Steps that leave the feed and the reader alone.                         *)
LEMMA Still ==
    ASSUME IInv, UNCHANGED <<hist, feed, venue, pos, shown>>
    PROVE  FeedOK' /\ ShownBehind' /\ pos' \in 0..Len(feed') /\ shown' \in 0..Len(hist')
  <1>1. \A i \in 1..Len(feed) : FrameOK(feed[i])'
    BY DEF IInv, FeedOK, FrameOK, Chains
  <1>2. Sent' = Sent
    BY DEF Sent
  <1> QED
    BY <1>1, <1>2 DEF IInv, TypeOK, FeedOK, ShownBehind

(* The exchange moves on: new ids and new frames only ever come at the end.*)
LEMMA UpdateKeeps ==
    ASSUME IInv, Update
    PROVE  IInv'
  <1>1. PICK p \in Prices, q \in Qtys :
            hist' = Append(hist, [hist[Len(hist)] EXCEPT ![p] = q])
    BY DEF Update
  <1>2. hist \in Seq(Books) /\ Len(hist) \in 1..Len(hist) /\ hist[Len(hist)] \in Books
    BY DEF IInv, TypeOK
  <1>3. [hist[Len(hist)] EXCEPT ![p] = q] \in Books
    BY <1>2 DEF Books
  <1>4. /\ hist' \in Seq(Books) /\ hist' # <<>> /\ Len(hist') = Len(hist) + 1
        /\ Len(hist) \in Nat
        /\ \A n \in 1..Len(hist) : hist'[n] = hist[n]
    BY <1>1, <1>2, <1>3
  <1>5. /\ UNCHANGED <<venue, clock, feed, pos, connects, phase, attempt, book,
                       lastId, agg, shown, gaps, lost, since>>
    BY DEF Update, output
  <1>6. lastId \in 0..Len(hist') /\ shown \in 0..Len(hist')
    BY <1>4 DEF IInv, TypeOK
  <1>7. TypeOK'
    BY <1>4, <1>5, <1>6 DEF IInv, TypeOK
  <1>8. \A i \in 1..Len(feed) : feed[i] \in Frames
    BY DEF IInv, TypeOK
  <1>9. \A i \in 1..Len(feed) : FrameOK(feed[i])'
    BY <1>4, <1>5, <1>8, SMTT(40) DEF IInv, FeedOK, FrameOK, Chains, Frames
  <1>10. Sent' = Sent
    BY <1>5 DEF Sent
  <1>11. FeedOK' /\ ShownBehind'
    BY <1>5, <1>9, <1>10 DEF IInv, FeedOK, ShownBehind
  <1>12. lastId >= 1 => hist'[lastId] = hist[lastId]
    BY <1>4 DEF IInv, TypeOK
  <1>13. Placed' /\ BookExact'
    BY <1>5, <1>12 DEF IInv, Placed, BookExact
  <1> QED
    BY <1>7, <1>11, <1>13 DEF IInv

LEMMA EmitKeeps ==
    ASSUME IInv, Emit
    PROVE  IInv'
  <1>1. PICK first \in (Sent + 1)..Len(hist) :
            /\ venue = "spot" => first = Sent + 1
            /\ feed' = Append(feed, [pu |-> Sent, U |-> first, u |-> Len(hist), at |-> clock])
    BY DEF Emit
  <1> DEFINE new == [pu |-> Sent, U |-> first, u |-> Len(hist), at |-> clock]
  <1>2. /\ feed \in Seq(Frames) /\ Len(feed) \in Nat /\ Len(hist) \in Nat /\ clock \in Nat
        /\ \A i \in 1..Len(feed) : feed[i] \in Frames
    BY DEF IInv, TypeOK
  <1>3. Sent \in Nat /\ Sent >= 1 /\ Sent < Len(hist)
    <2>1. CASE feed = <<>>
      BY <1>2, <2>1 DEF Sent, Emit
    <2>2. CASE feed # <<>>
      <3>1. Len(feed) \in 1..Len(feed) /\ Sent = feed[Len(feed)].u
        BY <1>2, <2>2 DEF Sent
      <3>2. FrameOK(feed[Len(feed)]) /\ feed[Len(feed)] \in Frames
        BY <1>2, <3>1 DEF IInv, FeedOK
      <3> QED
        BY <3>1, <3>2 DEF FrameOK, Chains, Frames, Emit
    <2> QED
      BY <2>1, <2>2
  <1>4. new \in Frames /\ FrameOK(new)
    BY <1>1, <1>2, <1>3 DEF Frames, FrameOK, Chains
  <1>5. /\ feed' \in Seq(Frames) /\ Len(feed') = Len(feed) + 1
        /\ \A i \in 1..Len(feed) : feed'[i] = feed[i]
        /\ feed'[Len(feed) + 1] = new
    BY <1>1, <1>2, <1>4
  <1>6. UNCHANGED <<venue, clock, hist, pos, connects, phase, attempt, book,
                    lastId, agg, shown, gaps, lost, since>>
    BY DEF Emit, output
  <1>7. TypeOK'
    <2>1. pos \in 0..Len(feed')
      BY <1>2, <1>5 DEF IInv, TypeOK
    <2> QED
      BY <1>5, <1>6, <2>1, SMTT(40) DEF IInv, TypeOK
  <1>8. Sent' = Len(hist)
    <2>1. feed' # <<>>
      BY <1>2, <1>5
    <2> QED
      BY <1>5, <2>1 DEF Sent
  <1>9. \A i \in 1..Len(feed) : feed[i].u <= Sent
    <2> SUFFICES ASSUME NEW i \in 1..Len(feed) PROVE feed[i].u <= Sent
      OBVIOUS
    <2>1. feed # <<>> /\ Sent = feed[Len(feed)].u /\ Len(feed) \in 1..Len(feed)
      BY <1>2 DEF Sent
    <2>2. CASE i = Len(feed)
      BY <1>2, <2>1, <2>2, SMTT(40) DEF Frames
    <2>3. CASE i < Len(feed)
      <3>1. feed[i].u <= feed[Len(feed)].pu
        BY <2>1, <2>3 DEF IInv, FeedOK
      <3>2. feed[i] \in Frames /\ feed[Len(feed)] \in Frames
        BY <1>2, <2>1
      <3>3. FrameOK(feed[Len(feed)])
        BY <2>1 DEF IInv, FeedOK
      <3>6. feed[i].u <= feed[Len(feed)].u
        BY <3>1, <3>2, <3>3, FrameReaches
      <3> QED
        BY <2>1, <3>6
    <2> QED
      BY <1>2, <2>2, <2>3
  <1>10. \A i \in 1..Len(feed') : Chains(feed'[i], venue, Len(hist))
    <2> SUFFICES ASSUME NEW i \in 1..Len(feed') PROVE Chains(feed'[i], venue, Len(hist))
      OBVIOUS
    <2>1. CASE i = Len(feed) + 1
      BY <1>4, <1>5, <2>1 DEF FrameOK
    <2>2. CASE i \in 1..Len(feed)
      BY <1>5, <2>2 DEF IInv, FeedOK, FrameOK
    <2> QED
      BY <1>2, <1>5, <2>1, <2>2
  <1>11. \A i, j \in 1..Len(feed') : i < j => feed'[i].u <= feed'[j].pu
    <2> SUFFICES ASSUME NEW i \in 1..Len(feed'), NEW j \in 1..Len(feed'), i < j
                 PROVE  feed'[i].u <= feed'[j].pu
      OBVIOUS
    <2>1. i \in 1..Len(feed)
      BY <1>2, <1>5
    <2>2. CASE j = Len(feed) + 1
      BY <1>5, <1>9, <2>1, <2>2, SMTT(40)
    <2>3. CASE j \in 1..Len(feed)
      BY <1>5, <2>1, <2>3 DEF IInv, FeedOK
    <2> QED
      BY <1>2, <1>5, <2>2, <2>3
  <1>12. \A i \in 1..Len(feed') : i < Len(feed') => feed'[i + 1].pu = feed'[i].u
    <2> SUFFICES ASSUME NEW i \in 1..Len(feed'), i < Len(feed')
                 PROVE  feed'[i + 1].pu = feed'[i].u
      OBVIOUS
    <2>1. i \in 1..Len(feed)
      BY <1>2, <1>5
    <2>2. CASE i = Len(feed)
      <3>1. Sent = feed[Len(feed)].u
        BY <1>2, <2>1 DEF Sent
      <3> QED
        BY <1>5, <2>1, <2>2, <3>1
    <2>3. CASE i < Len(feed)
      <3>1. i + 1 \in 1..Len(feed)
        BY <1>2, <2>1, <2>3
      <3> QED
        BY <1>5, <2>1, <2>3, <3>1 DEF IInv, FeedOK
    <2> QED
      BY <1>2, <2>1, <2>2, <2>3
  <1>13. shown <= Sent /\ shown \in Nat
    BY DEF IInv, FeedOK, TypeOK
  <1>14. FeedOK'
    <2>1. (\A i \in 1..Len(feed) : FrameOK(feed[i]))'
      BY <1>6, <1>10 DEF FrameOK
    <2>2. (shown <= Sent)'
      BY <1>3, <1>6, <1>8, <1>13
    <2> QED
      BY <1>11, <1>12, <2>1, <2>2 DEF FeedOK
  <1>15. ShownBehind'
    <2> SUFFICES ASSUME NEW i \in 1..Len(feed'), i > pos PROVE shown <= feed'[i].pu
      BY <1>6 DEF ShownBehind
    <2>1. CASE i = Len(feed) + 1
      BY <1>5, <1>13, <2>1
    <2>2. CASE i \in 1..Len(feed)
      BY <1>5, <2>2 DEF IInv, ShownBehind
    <2> QED
      BY <1>2, <1>5, <2>1, <2>2
  <1>16. Placed' /\ BookExact'
    <2>1. pos >= 1 => feed'[pos] = feed[pos]
      BY <1>5 DEF IInv, TypeOK
    <2> QED
      BY <1>6, <2>1 DEF IInv, Placed, BookExact
  <1> QED
    BY <1>7, <1>14, <1>15, <1>16 DEF IInv

-----------------------------------------------------------------------------
(* The bootstrap.                                                          *)
LEMMA ConnectKeeps ==
    ASSUME IInv, Connect
    PROVE  IInv'
  <1>1. Len(feed) \in Nat /\ connects \in Nat
    BY DEF IInv, TypeOK
  <1>2. UNCHANGED <<venue, clock, hist, feed, book, lastId, agg, shown, gaps, lost, since>>
    BY DEF Connect, exchange, output
  <1>3. \A i \in 1..Len(feed) : FrameOK(feed[i])'
    BY <1>2 DEF IInv, FeedOK, FrameOK, Chains
  <1>4. Sent' = Sent
    BY <1>2 DEF Sent
  <1>5. FeedOK' /\ ShownBehind'
    BY <1>1, <1>2, <1>3, <1>4 DEF Connect, IInv, FeedOK, ShownBehind
  <1>6. TypeOK'
    <2>1. pos' \in 0..Len(feed) /\ attempt' \in 0..Retries /\ connects' \in Nat
      BY <1>1 DEF Connect
    <2> QED
      BY <1>2, <2>1 DEF Connect, IInv, TypeOK
  <1>7. Placed' /\ BookExact'
    BY DEF Connect, Placed, BookExact
  <1> QED
    BY <1>5, <1>6, <1>7 DEF IInv

LEMMA FetchedKeeps ==
    ASSUME IInv, Fetched
    PROVE  IInv'
  <1>1. PICK s \in 1..Len(hist) :
            book' = hist[s] /\ lastId' = s /\ FetchPublishes(s)
    BY DEF Fetched
  <1>2. UNCHANGED <<venue, clock, hist, feed, pos, connects, attempt, agg, shown, gaps, since>>
    BY <1>1 DEF Fetched, exchange, output, FetchPublishes
  <1>3. book' \in Books /\ lastId' \in 0..Len(hist') /\ lastId' >= 1 /\ book' = hist'[lastId']
    BY <1>1, <1>2 DEF IInv, TypeOK
  <1>4. phase' = "splice" /\ lost' = FALSE /\ agg = Idle
    BY DEF Fetched, IInv, TypeOK
  <1>5. FeedOK' /\ ShownBehind' /\ pos' \in 0..Len(feed') /\ shown' \in 0..Len(hist')
    BY <1>2, Still
  <1>6. TypeOK'
    BY <1>2, <1>3, <1>4, <1>5 DEF IInv, TypeOK
  <1>7. Placed' /\ BookExact'
    BY <1>3, <1>4 DEF Placed, BookExact
  <1> QED
    BY <1>5, <1>6, <1>7 DEF IInv

LEMMA SkipKeeps ==
    ASSUME IInv, Skip
    PROVE  IInv'
  <1>1. UNCHANGED <<venue, clock, hist, feed, connects, phase, attempt, book,
                    lastId, agg, shown, gaps, lost, since>>
    BY DEF Skip, exchange, output
  <1>2. FeedOK' /\ ShownBehind' /\ pos' \in 0..Len(feed') /\ shown' \in 0..Len(hist')
    BY <1>1, ReadOn DEF Skip
  <1>3. phase = "splice"
    BY DEF Skip
  <1>4. TypeOK' /\ Placed' /\ BookExact'
    BY <1>1, <1>2, <1>3 DEF IInv, TypeOK, Placed, BookExact
  <1> QED
    BY <1>2, <1>4 DEF IInv

LEMMA BridgeLostKeeps ==
    ASSUME IInv, BridgeLost
    PROVE  IInv'
  <1>1. UNCHANGED <<venue, clock, hist, feed, connects, book, lastId, shown,
                    gaps, lost, since>>
    BY DEF BridgeLost, exchange
  <1>2. FeedOK' /\ ShownBehind' /\ pos' \in 0..Len(feed') /\ shown' \in 0..Len(hist')
    BY <1>1, ReadOn DEF BridgeLost
  <1>3. phase' \in {"fetch", "down"} /\ agg' = Idle /\ attempt' \in 0..Retries
    BY DEF BridgeLost, Drops, IInv, TypeOK
  <1>4. TypeOK'
    BY <1>1, <1>2, <1>3 DEF IInv, TypeOK
  <1>5. Placed' /\ BookExact'
    BY <1>3 DEF Placed, BookExact
  <1> QED
    BY <1>2, <1>4, <1>5 DEF IInv

(* Steps that end with no connection: all that matters is that the reader  *)
(* stands still or has read one frame on.                                  *)
LEMMA DropKeeps ==
    ASSUME IInv, Drops,
           UNCHANGED <<venue, clock, hist, feed, connects, attempt, lost>>,
           since' \in Nat, gaps' \in Nat,
           book' \in Books, lastId' \in 0..Len(hist'),
           \/ UNCHANGED <<pos, shown>>
           \/ pos < Len(feed) /\ pos' = pos + 1 /\ shown' \in {shown, NextFrame.u}
    PROVE  IInv'
  <1>1. FeedOK' /\ ShownBehind' /\ pos' \in 0..Len(feed') /\ shown' \in 0..Len(hist')
    <2>1. CASE UNCHANGED <<pos, shown>>
      BY <2>1, Still
    <2>2. CASE pos < Len(feed) /\ pos' = pos + 1 /\ shown' \in {shown, NextFrame.u}
      BY <2>2, ReadOn
    <2> QED
      BY <2>1, <2>2
  <1>2. phase' = "down" /\ agg' = Idle
    BY DEF Drops
  <1>3. TypeOK'
    BY <1>1, <1>2 DEF IInv, TypeOK
  <1>4. Placed' /\ BookExact'
    BY <1>2 DEF Placed, BookExact
  <1> QED
    BY <1>1, <1>3, <1>4 DEF IInv

-----------------------------------------------------------------------------
(* A frame that is not refused begins where the book stands or before: on  *)
(* spot by the rule of apply(), on futures by the chain, the splice        *)
(* included.                                                               *)
LEMMA AcceptedReaches ==
    ASSUME IInv, Receives, NextFrame.u > lastId, ~Refuses(NextFrame, Bridging),
           venue = "spot" \/ ~lost
    PROVE  book = hist[lastId] /\ NextFrame.pu <= lastId
  <1>1. pos < Len(feed) /\ phase \in {"splice", "live"}
    BY DEF Receives
  <1>2. /\ NextFrame \in Frames /\ FrameOK(NextFrame) /\ lastId \in Nat
        /\ phase = "live" /\ ~lost => NextFrame.pu = lastId
    BY <1>1, NextFrameOK DEF IInv, TypeOK
  <1>3. book = hist[lastId]
    BY <1>1 DEF IInv, Placed, BookExact
  <1>4. CASE venue = "spot"
    BY <1>2, <1>3, <1>4 DEF FrameOK, Chains, Frames, Refuses
  <1>5. CASE venue # "spot" /\ phase = "live"
    BY <1>2, <1>3, <1>5
  <1>6. CASE venue # "spot" /\ phase = "splice"
    <2>1. Bridges(NextFrame)
      BY <1>6 DEF Receives, Bridging
    <2>2. venue = "futures"
      BY <1>6 DEF IInv, TypeOK
    <2> QED
      BY <1>3, <2>1, <2>2 DEF Bridges
  <1> QED
    BY <1>1, <1>4, <1>5, <1>6

LEMMA AppliedBook ==
    ASSUME IInv, Receives
    PROVE  /\ ApplyLevels(book, NextFrame) \in Books
           /\ NextFrame.u \in 1..Len(hist)
           /\ NextFrame.at \in Nat
  <1>1. NextFrame \in Frames /\ FrameOK(NextFrame)
    BY NextFrameOK DEF Receives
  <1> QED
    BY <1>1, ApplyType DEF IInv, FrameOK, Chains, Frames

LEMMA ApplyKeeps ==
    ASSUME IInv, Apply
    PROVE  IInv'
  <1>1. /\ Receives /\ NextFrame.u > lastId /\ ~Refuses(NextFrame, Bridging)
        /\ UNCHANGED <<venue, clock, hist, feed, connects, attempt, gaps, lost>>
        /\ book' = ApplyLevels(book, NextFrame) /\ lastId' = NextFrame.u
        /\ phase' = "live" /\ shown' = NextFrame.u
        /\ pos < Len(feed) /\ pos' = pos + 1
    BY DEF Apply, Applies, Receives, exchange
  <1>2. FeedOK' /\ ShownBehind' /\ pos' \in 0..Len(feed') /\ shown' \in 0..Len(hist')
    BY <1>1, ReadOn
  <1>3. book' \in Books /\ lastId' \in 1..Len(hist) /\ NextFrame.at \in Nat
    BY <1>1, AppliedBook
  <1>4. since' \in Nat
    BY <1>3 DEF Apply, Applies, IInv, TypeOK
  <1>5. TypeOK'
    BY <1>1, <1>2, <1>3, <1>4 DEF IInv, TypeOK
  <1>6. Placed'
    BY <1>1, <1>3, NextFrameOK DEF Placed, NextFrame, IInv, TypeOK
  <1>7. BookExact'
    <2> SUFFICES ASSUME venue = "spot" \/ ~lost PROVE book' = hist[lastId']
      BY <1>1 DEF BookExact
    <2>1. book = hist[lastId] /\ NextFrame.pu <= lastId
      BY <1>1, AcceptedReaches
    <2>2. NextFrame \in Frames /\ FrameOK(NextFrame)
      BY <1>1, NextFrameOK
    <2> QED
      BY <1>1, <2>1, <2>2, ApplyExact DEF IInv
  <1> QED
    BY <1>2, <1>5, <1>6, <1>7 DEF IInv

LEMMA LoseKeeps ==
    ASSUME IInv, Lose
    PROVE  IInv'
  <1>1. UNCHANGED <<venue, clock, hist, feed, connects, phase, attempt, book,
                    lastId, agg, shown, gaps, since>>
    BY DEF Lose, exchange, output
  <1>2. FeedOK' /\ ShownBehind' /\ pos' \in 0..Len(feed') /\ shown' \in 0..Len(hist')
    BY <1>1, ReadOn DEF Lose
  <1>3. TypeOK'
    BY <1>1, <1>2 DEF Lose, IInv, TypeOK
  <1>4. Placed' /\ BookExact'
    <2>1. CASE phase = "live"
      <3>1. lost' /\ pos' >= 1
        <4>1. lost' = TRUE
          BY <2>1 DEF Lose
        <4>2. pos' = pos + 1 /\ pos \in Nat
          BY DEF Lose, IInv, TypeOK
        <4> QED
          BY <4>1, <4>2
      <3>2. venue = "spot" => book = hist[lastId]
        BY <2>1 DEF IInv, BookExact
      <3> QED
        BY <1>1, <2>1, <3>1, <3>2 DEF IInv, Placed, BookExact
    <2>2. CASE phase = "splice"
      <3>1. ~lost'
        BY <2>2 DEF Lose
      <3> QED
        BY <1>1, <2>2, <3>1 DEF IInv, Placed, BookExact
    <2> QED
      BY <2>1, <2>2 DEF Lose
  <1> QED
    BY <1>2, <1>3, <1>4 DEF IInv

(* The invariant is inductive: one step per action.                        *)
LEMMA StepIInv == IInv /\ [Next]_vars => IInv'
  <1> SUFFICES ASSUME IInv, [Next]_vars PROVE IInv'
    OBVIOUS
  <1>0. TypeOK
    BY DEF IInv
  <1>1. CASE Tick
    <2>1. UNCHANGED <<venue, hist, feed, pos, connects, phase, attempt, book,
                      lastId, agg, shown, gaps, lost, since>>
      BY <1>1 DEF Tick, output
    <2>2. clock' \in Nat
      BY <1>0, <1>1 DEF Tick, TypeOK
    <2>3. FeedOK' /\ ShownBehind' /\ pos' \in 0..Len(feed') /\ shown' \in 0..Len(hist')
      BY <2>1, Still
    <2>4. TypeOK' /\ Placed' /\ BookExact'
      BY <2>1, <2>2, <2>3 DEF IInv, TypeOK, Placed, BookExact
    <2> QED
      BY <2>3, <2>4 DEF IInv
  <1>2. CASE Reconnect
    <2>1. book' \in Books /\ lastId' \in 0..Len(hist') /\ since' \in Nat /\ gaps' \in Nat
      BY <1>0, <1>2 DEF Reconnect, exchange, TypeOK
    <2> QED
      BY <1>2, <2>1, DropKeeps DEF Reconnect, exchange
  <1>3. CASE RaiseGap
    <2>1. book' \in Books /\ lastId' \in 0..Len(hist') /\ since' \in Nat /\ gaps' \in Nat
      BY <1>0, <1>3 DEF RaiseGap, exchange, TypeOK
    <2> QED
      BY <1>3, <2>1, DropKeeps DEF RaiseGap, Receives, exchange
  <1>4. CASE ApplyFails
    <2>1. Receives /\ UNCHANGED <<venue, clock, hist, feed, connects, attempt, gaps, lost>>
      BY <1>4 DEF ApplyFails, Applies, exchange
    <2>2. book' \in Books /\ lastId' \in 0..Len(hist') /\ since' \in Nat /\ gaps' \in Nat
      BY <1>0, <1>4, <2>1, AppliedBook DEF ApplyFails, Applies, TypeOK
    <2> QED
      BY <1>4, <2>1, <2>2, DropKeeps, SMTT(40) DEF ApplyFails, Receives
  <1>5. CASE ApplyEmpties
    <2>1. Receives /\ UNCHANGED <<venue, clock, hist, feed, connects, attempt, gaps, lost, since, shown>>
      BY <1>5 DEF ApplyEmpties, exchange
    <2>2. book' \in Books /\ lastId' \in 0..Len(hist') /\ since' \in Nat /\ gaps' \in Nat
      BY <1>0, <1>5, <2>1, AppliedBook DEF ApplyEmpties, TypeOK
    <2> QED
      BY <1>5, <2>1, <2>2, DropKeeps DEF ApplyEmpties, Receives
  <1>6. CASE UNCHANGED vars
    <2>1. UNCHANGED <<venue, clock, hist, feed, pos, connects, phase, attempt, book,
                      lastId, agg, shown, gaps, lost, since>>
      BY <1>6 DEF vars, exchange, output
    <2>2. FeedOK' /\ ShownBehind' /\ pos' \in 0..Len(feed') /\ shown' \in 0..Len(hist')
      BY <2>1, Still
    <2>3. TypeOK' /\ Placed' /\ BookExact'
      BY <2>1, <2>2 DEF IInv, TypeOK, Placed, BookExact
    <2> QED
      BY <2>2, <2>3 DEF IInv
  <1> QED
    BY <1>1, <1>2, <1>3, <1>4, <1>5, <1>6, UpdateKeeps, EmitKeeps, ConnectKeeps,
       FetchedKeeps, SkipKeeps, BridgeLostKeeps, ApplyKeeps, LoseKeeps DEF Next

(* The inductive invariant of the capture.                                 *)
THEOREM Invariance == Spec => []IInv
  BY InitIInv, StepIInv, PTL DEF Spec

(* The capture's state keeps its type, and nothing is collected while no   *)
(* book is live (capture.py run_forever).                                  *)
THEOREM TypeCorrect == Spec => []TypeOK
  <1>1. IInv => TypeOK
    BY DEF IInv
  <1> QED
    BY <1>1, Invariance, PTL

(* A live book is the exchange's at last_update_id: always on spot, and on *)
(* futures until a frame is lost (orderbook.py apply, capture.py           *)
(* _bootstrap).                                                            *)
THEOREM LiveBookExact == Spec => []BookExact
  <1>1. IInv => BookExact
    BY DEF IInv
  <1> QED
    BY <1>1, Invariance, PTL

(* apply() raises a gap only after a loss: neither the holes of the        *)
(* futures ids nor the splice are taken for one.                           *)
THEOREM GapsAreReal == Spec => NoFalseGap
  <1>1. ASSUME IInv, RaiseGap PROVE phase = "live" /\ lost
    <2>1. /\ Receives /\ NextFrame.u > lastId /\ Refuses(NextFrame, Bridging)
          /\ pos < Len(feed) /\ phase \in {"splice", "live"}
      BY <1>1 DEF RaiseGap, Receives
    <2>2. /\ NextFrame \in Frames /\ FrameOK(NextFrame) /\ lastId \in Nat
          /\ phase = "live" /\ ~lost => NextFrame.pu = lastId
      BY <1>1, <2>1, NextFrameOK DEF IInv, TypeOK
    <2>3. CASE phase = "splice"
      <3>1. Bridges(NextFrame) /\ Bridging
        BY <2>1, <2>3 DEF Receives, Bridging
      <3> QED
        BY <2>1, <2>2, <3>1 DEF Bridges, Refuses, Frames
    <2>4. CASE phase = "live" /\ ~lost
      <3>1. ~Bridging /\ NextFrame.pu = lastId
        BY <2>2, <2>4 DEF Bridging
      <3>2. NextFrame.pu < NextFrame.U /\ (venue = "spot" => NextFrame.U = lastId + 1)
        BY <2>2, <3>1 DEF FrameOK, Chains
      <3>3. NextFrame.U \in Nat
        BY <2>2 DEF Frames
      <3>4. CASE venue = "futures"
        BY <2>1, <2>2, <3>1, <3>2, <3>3, <3>4 DEF Refuses
      <3>5. CASE venue = "spot"
        BY <2>1, <2>2, <3>2, <3>3, <3>5 DEF Refuses
      <3>6. venue \in {"spot", "futures"}
        BY <1>1 DEF IInv, TypeOK
      <3> QED
        BY <3>4, <3>5, <3>6
    <2> QED
      BY <1>1, <2>1, <2>3, <2>4 DEF IInv, TypeOK
  <1>2. ASSUME IInv, [Next]_vars, gaps' # gaps PROVE RaiseGap
    BY <1>2 DEF Next, vars, output, Tick, Update, Emit, Connect, Fetched, FetchPublishes,
                Skip, BridgeLost, Apply, ApplyFails, ApplyEmpties, Applies, Lose, Reconnect
  <1>3. IInv /\ [Next]_vars => [gaps' # gaps => phase = "live" /\ lost]_vars
    BY <1>1, <1>2
  <1> QED
    BY <1>3, Invariance, PTL DEF Spec, NoFalseGap

(* micro.book never goes back, whatever snapshots the reconnects fetch.    *)
THEOREM QuotesForward == Spec => QuoteForward
  <1>1. ASSUME IInv, Applies, shown' \in {shown, NextFrame.u}, shown' # shown
        PROVE  shown' > shown
    <2>1. NextFrame \in Frames /\ FrameOK(NextFrame) /\ shown <= NextFrame.pu /\ shown \in Nat
      BY <1>1, NextFrameOK DEF Applies, Receives, IInv, TypeOK
    <2> QED
      BY <1>1, <2>1 DEF FrameOK, Chains, Frames
  <1>2. ASSUME IInv, [Next]_vars, shown' # shown PROVE shown' > shown
    <2>1. Apply \/ ApplyFails
      BY <1>2 DEF Next, vars, output, Tick, Update, Emit, Connect, Fetched, FetchPublishes,
                  Skip, BridgeLost, RaiseGap, ApplyEmpties, Lose, Reconnect
    <2> QED
      BY <1>1, <1>2, <2>1 DEF Apply, ApplyFails
  <1>3. IInv /\ [Next]_vars => [shown' # shown => shown' > shown]_vars
    BY <1>2
  <1> QED
    BY <1>3, Invariance, PTL DEF Spec, QuoteForward

-----------------------------------------------------------------------------
(* The time line of the intervals.                                         *)
LEMMA Grid ==
    ASSUME NEW t \in Nat
    PROVE  /\ StartOf(t) \in Nat /\ StartOf(t) <= t
           /\ t \div Width \in Nat /\ StartOf(t) = Width * (t \div Width)
  <1>1. Width \in Nat /\ Width > 0
    OBVIOUS
  <1>2. t % Width \in 0..(Width - 1) /\ t \div Width \in Nat
    BY <1>1
  <1>3. t = Width * (t \div Width) + (t % Width)
    BY <1>1
  <1>4. t - (t % Width) = Width * (t \div Width) /\ Width * (t \div Width) \in Nat
    BY <1>1, <1>2, <1>3
  <1> QED
    BY <1>2, <1>3, <1>4 DEF StartOf

LEMMA StartOrder ==
    ASSUME NEW s \in Nat, NEW t \in Nat, s <= t
    PROVE  StartOf(s) <= StartOf(t)
  <1>1. Width \in Nat /\ Width > 0
    OBVIOUS
  <1>2. s % Width \in 0..(Width - 1) /\ t % Width \in 0..(Width - 1)
    BY <1>1
  <1>3. s = Width * (s \div Width) + (s % Width) /\ t = Width * (t \div Width) + (t % Width)
        /\ s \div Width \in Int /\ t \div Width \in Int
    BY <1>1
  <1>4. s \div Width <= t \div Width
    BY <1>1, <1>2, <1>3
  <1> QED
    BY <1>1, <1>2, <1>3, <1>4 DEF StartOf

Aligned(t) == \E c \in Nat : t = Width * c

LEMMA Apart ==
    ASSUME NEW a \in Nat, NEW b \in Nat, a < b
    PROVE  /\ (Width * b - Width * a) \div Width = b - a
           /\ \A k \in 1..(b - a) :
                 /\ Width * a + (k - 1) * Width \in Nat
                 /\ Width * a + (k - 1) * Width < Width * b
                 /\ k > 1 => Width * a + (k - 1) * Width > Width * a
  <1>1. Width \in Nat /\ Width > 0
    OBVIOUS
  <1>2. Width * b - Width * a = Width * (b - a)
    BY <1>1
  <1>3. (Width * (b - a)) \div Width = b - a
    BY <1>1
  <1>4. ASSUME NEW k \in 1..(b - a)
        PROVE  /\ Width * a + (k - 1) * Width \in Nat
               /\ Width * a + (k - 1) * Width < Width * b
               /\ k > 1 => Width * a + (k - 1) * Width > Width * a
    <2>1. Width * a + (k - 1) * Width = Width * (a + (k - 1))
      BY <1>1
    <2>2. a + (k - 1) \in Nat /\ a + (k - 1) < b
      OBVIOUS
    <2>3. \A m, n \in Nat : m < n => Width * m < Width * n /\ Width * m \in Nat
      BY <1>1
    <2> QED
      BY <2>1, <2>2, <2>3
  <1> QED
    BY <1>2, <1>3, <1>4

Quotes == {Best(b) : b \in Books} \cup {NoQuote}
Events == [from : Quotes, to : Quotes]
Intervals == [start : Nat, events : Seq(Events), since : Nat, lost : BOOLEAN]

(* What an event closes: the interval under way, and empty ones up to it.  *)
LEMMA ClosedNone ==
    ASSUME NEW t \in Nat, agg.start = NoStart \/ agg.start = StartOf(t)
    PROVE  Closed(t) = <<>>
  <1>1. StartOf(t) \in Nat /\ Width \in Nat /\ Width > 0
    BY Grid
  <1>2. (StartOf(t) - StartOf(t)) \div Width = 0
    <2>1. StartOf(t) - StartOf(t) = 0
      BY <1>1
    <2>2. 0 \div Width = 0
      BY <1>1
    <2> QED
      BY <2>1, <2>2
  <1> DEFINE n == IF agg.start = NoStart THEN 0 ELSE (StartOf(t) - agg.start) \div Width
  <1>3. n = 0
    BY <1>2
  <1> HIDE DEF n
  <1>4. Closed(t) = [k \in 1..n |-> [start  |-> agg.start + (k - 1) * Width,
                         events |-> IF k = 1 THEN agg.events ELSE <<>>,
                         since  |-> since, lost |-> lost]]
    BY DEF Closed, n
  <1>5. DOMAIN Closed(t) = {}
    BY <1>3, <1>4
  <1>6. Closed(t) = [k \in {} |-> k]
    BY <1>4, <1>5
  <1> QED
    BY <1>6

LEMMA ClosedSome ==
    ASSUME NEW t \in Nat, agg.start \in Nat, Aligned(agg.start), agg.start < StartOf(t),
           since \in Nat, lost \in BOOLEAN, agg.events \in Seq(Events)
    PROVE  /\ Closed(t) \in Seq(Intervals) /\ Closed(t) # <<>>
           /\ \A k \in 1..Len(Closed(t)) :
                /\ Closed(t)[k].since = since /\ Closed(t)[k].lost = lost
                /\ Closed(t)[k].start < StartOf(t)
                /\ k = 1 => Closed(t)[k].start = agg.start /\ Closed(t)[k].events = agg.events
                /\ k > 1 => Closed(t)[k].start > agg.start /\ Closed(t)[k].events = <<>>
  <1> DEFINE b == t \div Width
  <1>1. b \in Nat /\ StartOf(t) = Width * b /\ StartOf(t) \in Nat
    BY Grid
  <1>2. PICK a \in Nat : agg.start = Width * a
    BY DEF Aligned
  <1>3. a < b
    <2>1. Width \in Nat /\ Width * a < Width * b
      BY <1>1, <1>2
    <2>2. \A m, n \in Nat : m <= n => Width * m <= Width * n
      BY Width \in Nat
    <2>3. b <= a => Width * b <= Width * a
      BY <1>1, <2>2
    <2>4. Width * a \in Nat /\ Width * b \in Nat
      BY <1>1, <1>2
    <2> QED
      BY ONLY <1>1, <2>1, <2>3, <2>4, a \in Nat
  <1> HIDE DEF b
  <1> DEFINE n == b - a
             c == [k \in 1..n |-> [start  |-> agg.start + (k - 1) * Width,
                                   events |-> IF k = 1 THEN agg.events ELSE <<>>,
                                   since  |-> since, lost |-> lost]]
  <1>4. n \in Nat /\ n >= 1
    BY <1>1, <1>3
  <1>5. (StartOf(t) - agg.start) \div Width = n
    BY <1>1, <1>2, <1>3, Apart
  <1>6. Closed(t) = c
    BY <1>5 DEF Closed, NoStart
  <1>7. \A k \in 1..n : /\ agg.start + (k - 1) * Width \in Nat
                        /\ agg.start + (k - 1) * Width < StartOf(t)
                        /\ k > 1 => agg.start + (k - 1) * Width > agg.start
    BY <1>1, <1>2, <1>3, Apart
  <1> HIDE DEF n
  <1>8. agg.start + (1 - 1) * Width = agg.start
    OBVIOUS
  <1>9. \A k \in 1..n : c[k] \in Intervals
    <2> SUFFICES ASSUME NEW k \in 1..n PROVE c[k] \in Intervals
      OBVIOUS
    <2>1. <<>> \in Seq(Events) /\ agg.events \in Seq(Events)
      OBVIOUS
    <2> QED
      BY <1>7, <2>1 DEF Intervals
  <1>10. c \in Seq(Intervals) /\ Len(c) = n
    <2>1. c \in [1..n -> Intervals]
      BY <1>9
    <2> HIDE DEF c
    <2> QED
      BY <1>4, <2>1
  <1>11. c # <<>>
    BY <1>4, <1>10
  <1>12. \A k \in 1..n : /\ c[k].start = agg.start + (k - 1) * Width
                         /\ c[k].events = IF k = 1 THEN agg.events ELSE <<>>
                         /\ c[k].since = since /\ c[k].lost = lost
    OBVIOUS
  <1> HIDE DEF c
  <1>13. \A k \in 1..n : k = 1 => c[k].start = agg.start
    BY <1>8, <1>12
  <1>14. ASSUME NEW k \in 1..n
         PROVE  /\ c[k].since = since /\ c[k].lost = lost
                /\ c[k].start < StartOf(t)
                /\ k = 1 => c[k].start = agg.start /\ c[k].events = agg.events
                /\ k > 1 => c[k].start > agg.start /\ c[k].events = <<>>
    BY ONLY <1>4, <1>7, <1>12, <1>13, k \in 1..n
  <1> QED
    BY ONLY <1>6, <1>10, <1>11, <1>14

-----------------------------------------------------------------------------
(* What the exchange's best quote did in each frame of the feed.           *)
Change == [i \in 1..Len(feed) |->
              [from |-> Best(hist[feed[i].pu]), to |-> Best(hist[feed[i].u])]]

(* Tells, of any account of the frames.                                    *)
TellsOf(events, frames, change) ==
    /\ Len(events) = Cardinality(frames)
    /\ \A i \in frames : events[Cardinality({j \in frames : j <= i})] = change[i]

LEMMA TellsChange ==
    ASSUME NEW events, NEW frames \in SUBSET (1..Len(feed))
    PROVE  Tells(events, frames) <=> TellsOf(events, frames, Change)
  <1>1. \A i \in frames : Change[i] = [from |-> Best(hist[feed[i].pu]), to |-> Best(hist[feed[i].u])]
    BY DEF Change
  <1> QED
    BY <1>1 DEF Tells, TellsOf

LEMMA TellsNone ==
    ASSUME NEW change
    PROVE  TellsOf(<<>>, {}, change)
  <1>1. Cardinality({}) = 0
    BY FS_EmptySet
  <1> QED
    BY <1>1 DEF TellsOf

LEMMA TellsMore ==
    ASSUME NEW change, NEW frames \in SUBSET Nat, IsFiniteSet(frames),
           NEW n \in Nat, \A i \in frames : i < n, change[n] \in Events,
           NEW events \in Seq(Events), TellsOf(events, frames, change)
    PROVE  TellsOf(Append(events, change[n]), frames \cup {n}, change)
  <1> DEFINE more == Append(events, change[n])
             upto(i) == {j \in frames : j <= i}
             through(i) == {j \in frames \cup {n} : j <= i}
  <1>1. n \notin frames
    OBVIOUS
  <1>2. Cardinality(frames) \in Nat /\ Cardinality(frames \cup {n}) = Cardinality(frames) + 1
    BY <1>1, FS_AddElement, FS_CardinalityType
  <1>3. /\ Len(more) = Len(events) + 1 /\ more[Len(events) + 1] = change[n]
        /\ \A k \in 1..Len(events) : more[k] = events[k]
        /\ Len(events) \in Nat
    OBVIOUS
  <1>4. Len(events) = Cardinality(frames)
    BY DEF TellsOf
  <1>5. through(n) = frames \cup {n}
    <2>1. n <= n /\ \A j \in frames : j <= n
      OBVIOUS
    <2> QED
      BY <2>1
  <1>6. ASSUME NEW i \in frames
        PROVE  more[Cardinality(through(i))] = change[i]
    <2>0. i \in Nat /\ i < n /\ ~(n <= i)
      OBVIOUS
    <2>1. through(i) = upto(i)
      BY <2>0
    <2>2. upto(i) \subseteq frames /\ i \in upto(i)
      OBVIOUS
    <2>3. IsFiniteSet(upto(i)) /\ Cardinality(upto(i)) <= Cardinality(frames) /\ Cardinality(upto(i)) \in Nat
      BY <2>2, FS_Subset, FS_CardinalityType
    <2>4. Cardinality(upto(i)) # 0
      BY <2>2, <2>3, FS_EmptySet
    <2>5. Cardinality(upto(i)) \in 1..Len(events)
      BY ONLY <1>2, <1>4, <2>3, <2>4
    <2>6. events[Cardinality(upto(i))] = change[i]
      BY DEF TellsOf
    <2> HIDE DEF more, through, upto
    <2> QED
      BY <1>3, <2>1, <2>5, <2>6
  <1>7. more[Cardinality(through(n))] = change[n]
    <2> HIDE DEF more, through, upto
    <2> QED
      BY <1>2, <1>3, <1>4, <1>5
  <1>8. \A i \in frames \cup {n} : more[Cardinality(through(i))] = change[i]
    <2> HIDE DEF more, through, upto
    <2> QED
      BY <1>6, <1>7
  <1>9. Len(more) = Cardinality(frames \cup {n})
    BY <1>2, <1>3, <1>4
  <1> QED
    BY <1>8, <1>9 DEF TellsOf

LEMMA TellsOne ==
    ASSUME NEW change, NEW n \in Nat, change[n] \in Events
    PROVE  TellsOf(<<change[n]>>, {n}, change)
  <1>1. TellsOf(<<>>, {}, change) /\ IsFiniteSet({}) /\ <<>> \in Seq(Events)
    BY TellsNone, FS_EmptySet
  <1>2. {} \in SUBSET Nat
    OBVIOUS
  <1>3. TellsOf(Append(<<>>, change[n]), {} \cup {n}, change)
    BY <1>1, <1>2, TellsMore
  <1>4. Append(<<>>, change[n]) = <<change[n]>> /\ {} \cup {n} = {n}
    OBVIOUS
  <1> QED
    BY <1>3, <1>4

LEMMA TellsSame ==
    ASSUME NEW events, NEW frames, NEW c, NEW d, \A i \in frames : c[i] = d[i],
           TellsOf(events, frames, c)
    PROVE  TellsOf(events, frames, d)
  BY DEF TellsOf

-----------------------------------------------------------------------------
(* What is collected, and what was published.                              *)
CollectsTyped ==
    /\ quote \in Quotes
    /\ agg \in [start : Nat \cup {NoStart}, events : Seq(Events)]
    /\ published \in Seq(Intervals)

(* Frames come in the order of their times.                                *)
FramesTimed ==
    /\ \A i \in 1..Len(feed) : feed[i].at <= clock
    /\ \A i, j \in 1..Len(feed) : i < j => feed[i].at <= feed[j].at

(* A spot book that missed a frame has it ahead: the next one is refused.  *)
Behind == phase = "live" /\ lost /\ venue = "spot" => feed[pos].u > lastId

Quoted == phase \in {"splice", "live"} => quote = Best(book)

(* The interval under way lies after the splice and not past the reader.   *)
Begun == IF agg.start = NoStart THEN StartOf(since) ELSE agg.start

Opened ==
    /\ agg.start = NoStart => agg.events = <<>>
    /\ agg.start # NoStart => Aligned(agg.start)
    /\ phase = "live" =>
        /\ since <= feed[pos].at
        /\ agg.start # NoStart => StartOf(since) <= agg.start /\ agg.start <= StartOf(feed[pos].at)

(* It holds the moves of its time so far, and after its time none was.     *)
Turns(i) == Change[i].from # Change[i].to
Upto(n, start) == {i \in 1..n : StartOf(feed[i].at) = start /\ Turns(i)}

Collecting ==
    phase = "live" /\ ~lost =>
        /\ \A i \in 1..pos : StartOf(feed[i].at) > Begun => ~Turns(i)
        /\ Begun # StartOf(since) => TellsOf(agg.events, Upto(pos, Begun), Change)

(* An interval once published is over.                                     *)
Earned(interval) ==
    StartOf(interval.since) # interval.start /\ (venue = "spot" \/ ~interval.lost) =>
        /\ interval.start < StartOf(clock)
        /\ TellsOf(interval.events, Upto(Len(feed), interval.start), Change)

Out == \A i \in 1..Len(published) : Earned(published[i])

CollectsInv == CollectsTyped /\ FramesTimed /\ Behind /\ Quoted /\ Opened /\ Collecting /\ Out

LEMMA BestQuote == \A b \in Books : Best(b) \in Quotes
  BY DEF Quotes

LEMMA ChangeType ==
    ASSUME IInv
    PROVE  \A i \in 1..Len(feed) : Change[i] \in Events /\ feed[i].at \in Nat
  <1> SUFFICES ASSUME NEW i \in 1..Len(feed) PROVE Change[i] \in Events /\ feed[i].at \in Nat
    OBVIOUS
  <1>1. feed[i] \in Frames /\ FrameOK(feed[i])
    BY DEF IInv, TypeOK, FeedOK
  <1>2. feed[i].pu \in 1..Len(hist) /\ feed[i].u \in 1..Len(hist) /\ feed[i].at \in Nat
    BY <1>1, SMTT(40) DEF FrameOK, Chains, Frames
  <1>3. hist[feed[i].pu] \in Books /\ hist[feed[i].u] \in Books
    <2>1. hist \in Seq(Books)
      BY DEF IInv, TypeOK
    <2> QED
      BY ONLY <1>2, <2>1
  <1>4. Best(hist[feed[i].pu]) \in Quotes /\ Best(hist[feed[i].u]) \in Quotes
    BY <1>3, BestQuote
  <1> QED
    BY <1>2, <1>4 DEF Change, Events

LEMMA BegunType ==
    ASSUME IInv, CollectsInv
    PROVE  Begun \in Nat /\ StartOf(since) \in Nat
  <1>1. since \in Nat /\ agg.start \in Nat \cup {NoStart}
    BY DEF IInv, TypeOK, CollectsInv, CollectsTyped
  <1>2. StartOf(since) \in Nat
    BY <1>1, Grid
  <1> QED
    BY <1>1, <1>2 DEF Begun

LEMMA InitCollects == Init => CollectsInv
  <1> SUFFICES ASSUME Init PROVE CollectsInv
    OBVIOUS
  <1>1. quote \in Quotes
    BY DEF Init, Quotes
  <1>2. agg = [start |-> NoStart, events |-> <<>>] /\ <<>> \in Seq(Events) /\ <<>> \in Seq(Intervals)
    BY DEF Init, Idle
  <1>3. CollectsTyped
    BY <1>1, <1>2 DEF Init, CollectsTyped
  <1>4. Len(feed) = 0 /\ Len(published) = 0
    BY DEF Init
  <1> QED
    BY <1>2, <1>3, <1>4 DEF Init, CollectsInv, FramesTimed, Behind, Quoted, Opened, Collecting, Out

-----------------------------------------------------------------------------
(* The exchange moves on: what is past stays as it was.                    *)
LEMMA OnwardCollects ==
    ASSUME IInv, CollectsInv, clock' \in Nat, clock <= clock', Len(feed') \in Nat, Len(feed) <= Len(feed'),
           UNCHANGED <<venue, pos, phase, book, lastId, quote, agg, published, lost, since>>,
           \A i \in 1..Len(feed) : feed'[i] = feed[i] /\ Change'[i] = Change[i],
           \A i \in 1..Len(feed') : i > Len(feed) => feed'[i].at = clock
    PROVE  CollectsInv'
  <1>1. /\ clock \in Nat /\ Len(feed) \in Nat /\ pos \in 0..Len(feed)
        /\ \A i \in 1..Len(feed) : feed[i].at \in Nat
    BY ChangeType DEF IInv, TypeOK
  <1>2. CollectsTyped'
    BY DEF CollectsInv, CollectsTyped
  <1>3. FramesTimed'
    <2>1. \A i \in 1..Len(feed') : IF i \in 1..Len(feed) THEN feed'[i].at = feed[i].at /\ feed[i].at <= clock
                                   ELSE i > Len(feed) /\ feed'[i].at = clock
      BY <1>1 DEF CollectsInv, FramesTimed
    <2>2. \A i \in 1..Len(feed') : feed'[i].at <= clock'
      BY <1>1, <2>1
    <2>3. \A i, j \in 1..Len(feed') : i < j => feed'[i].at <= feed'[j].at
      <3> SUFFICES ASSUME NEW i \in 1..Len(feed'), NEW j \in 1..Len(feed'), i < j
                   PROVE  feed'[i].at <= feed'[j].at
        OBVIOUS
      <3>1. CASE j \in 1..Len(feed)
        BY <1>1, <2>1, <3>1 DEF CollectsInv, FramesTimed
      <3>2. CASE j \notin 1..Len(feed)
        BY <1>1, <2>1, <3>2
      <3> QED
        BY <3>1, <3>2
    <2> QED
      BY <2>2, <2>3 DEF FramesTimed
  <1>4. pos >= 1 => feed'[pos] = feed[pos]
    BY <1>1
  <1>5. phase = "live" => pos >= 1
    BY DEF IInv, Placed
  <1>6. Behind' /\ Quoted' /\ Opened'
    BY <1>4, <1>5 DEF CollectsInv, Behind, Quoted, Opened
  <1>7. Begun' = Begun
    BY DEF Begun
  <1>8. \A i \in 1..Len(feed) : Turns(i)' <=> Turns(i)
    BY DEF Turns
  <1>9. \A n \in 0..Len(feed) : \A s \in Int : Upto(n, s)' = Upto(n, s)
    BY <1>1, <1>8 DEF Upto
  <1>10. Collecting'
    <2> SUFFICES ASSUME phase = "live", ~lost
                 PROVE  /\ \A i \in 1..pos : StartOf(feed'[i].at) > Begun => ~Turns(i)'
                        /\ Begun # StartOf(since) => TellsOf(agg.events, Upto(pos, Begun)', Change')
      BY <1>7 DEF Collecting
    <2>1. \A i \in 1..pos : i \in 1..Len(feed)
      BY <1>1
    <2>2. \A i \in 1..pos : StartOf(feed'[i].at) > Begun => ~Turns(i)'
      BY <1>8, <2>1 DEF CollectsInv, Collecting
    <2>3. Begun \in Int
      BY BegunType
    <2>4. Upto(pos, Begun)' = Upto(pos, Begun)
      BY <1>1, <1>7, <1>9, <2>3
    <2>5. \A i \in Upto(pos, Begun) : Change'[i] = Change[i]
      BY <2>1 DEF Upto
    <2>6. Begun # StartOf(since) => TellsOf(agg.events, Upto(pos, Begun), Change)
      BY DEF CollectsInv, Collecting
    <2> QED
      BY <2>2, <2>4, <2>5, <2>6, TellsSame
  <1>11. StartOf(clock) <= StartOf(clock') /\ StartOf(clock) \in Nat /\ StartOf(clock') \in Nat
    BY <1>1, StartOrder, Grid
  <1>12. Out'
    <2> SUFFICES ASSUME NEW k \in 1..Len(published) PROVE Earned(published[k])'
      BY DEF Out
    <2> DEFINE v == published[k]
    <2>0. v \in Intervals /\ Earned(v)
      BY DEF CollectsInv, CollectsTyped, Out
    <2>1. v' = v
      OBVIOUS
    <2> HIDE DEF v
    <2>6. v.start \in Nat
      BY <2>0 DEF Intervals
    <2> SUFFICES ASSUME StartOf(v.since) # v.start, venue = "spot" \/ ~v.lost
                 PROVE  /\ v.start < StartOf(clock')
                        /\ TellsOf(v.events, Upto(Len(feed), v.start)', Change')
      BY <2>1 DEF Earned, v
    <2>2. v.start < StartOf(clock) /\ TellsOf(v.events, Upto(Len(feed), v.start), Change)
      BY <2>0 DEF Earned
    <2>3. Upto(Len(feed), v.start)' = Upto(Len(feed), v.start)
      <3>1. \A i \in 1..Len(feed') : i \in 1..Len(feed) \/ StartOf(feed'[i].at) # v.start
        <4> SUFFICES ASSUME NEW i \in 1..Len(feed'), i \notin 1..Len(feed)
                     PROVE  StartOf(feed'[i].at) # v.start
          OBVIOUS
        <4>1. i > Len(feed)
          BY <1>1
        <4>2. feed'[i].at = clock
          BY <4>1
        <4>3. StartOf(feed'[i].at) = StartOf(clock)
          BY <4>2
        <4> QED
          BY ONLY <4>3, <1>11, <2>6, <2>2
      <3>2. \A i \in 1..Len(feed) : i \in 1..Len(feed')
        BY <1>1
      <3>3. \A i \in 1..Len(feed) : StartOf(feed'[i].at) = StartOf(feed[i].at)
        OBVIOUS
      <3>4. Upto(Len(feed), v.start)' = {i \in 1..Len(feed') : StartOf(feed'[i].at) = v.start /\ Turns(i)'}
        BY <2>1 DEF Upto
      <3>5. \A i : i \in Upto(Len(feed), v.start)' <=> i \in Upto(Len(feed), v.start)
        BY <1>8, <3>1, <3>2, <3>3, <3>4 DEF Upto
      <3> QED
        BY <3>5
    <2>4. \A i \in Upto(Len(feed), v.start) : Change'[i] = Change[i]
      BY DEF Upto
    <2>5. v.start < StartOf(clock')
      BY ONLY <1>11, <2>6, <2>2
    <2> QED
      BY <2>2, <2>3, <2>4, <2>5, TellsSame
  <1> QED
    BY <1>2, <1>3, <1>6, <1>10, <1>12 DEF CollectsInv

-----------------------------------------------------------------------------
(* The capture's own steps, in which the exchange stands still.            *)
LEMMA StillOut ==
    ASSUME UNCHANGED exchange, \A k \in 1..Len(published') : Earned(published'[k])
    PROVE  Out'
  <1>1. UNCHANGED <<venue, clock, hist, feed>>
    BY DEF exchange
  <1>2. Change' = Change
    BY <1>1 DEF Change
  <1>3. \A k \in 1..Len(published') : Earned(published[k])'
    BY <1>1, <1>2 DEF Earned, Upto, Turns
  <1> QED
    BY <1>3 DEF Out

LEMMA AsideCollects ==
    ASSUME IInv, CollectsInv, UNCHANGED exchange, phase' # "live", agg' = Idle, quote' \in Quotes,
           phase' = "splice" => quote' = Best(book'),
           published' \in Seq(Intervals), \A k \in 1..Len(published') : Earned(published'[k])
    PROVE  CollectsInv'
  <1>1. UNCHANGED <<venue, clock, hist, feed>>
    BY DEF exchange
  <1>2. agg' = [start |-> NoStart, events |-> <<>>] /\ <<>> \in Seq(Events)
    BY DEF Idle
  <1>3. CollectsTyped'
    BY <1>2 DEF CollectsTyped
  <1>4. FramesTimed' /\ Behind' /\ Quoted' /\ Opened' /\ Collecting'
    BY <1>1, <1>2 DEF CollectsInv, FramesTimed, Behind, Quoted, Opened, Collecting
  <1>5. Out'
    BY StillOut
  <1> QED
    BY <1>3, <1>4, <1>5 DEF CollectsInv

LEMMA FetchedCollects == ASSUME IInv, CollectsInv, Fetched PROVE CollectsInv'
  <1>1. PICK s \in 1..Len(hist) :
            book' = hist[s] /\ quote' = Best(hist[s]) /\ FetchPublishes(s)
    BY DEF Fetched
  <1>2. UNCHANGED exchange /\ agg' = agg /\ published' = published /\ agg = Idle
    BY <1>1 DEF Fetched, FetchPublishes, output, IInv, TypeOK
  <1>3. hist[s] \in Books
    BY DEF IInv, TypeOK
  <1>4. quote' \in Quotes /\ quote' = Best(book') /\ phase' = "splice"
    BY <1>1, <1>3, BestQuote DEF Fetched
  <1> QED
    BY <1>2, <1>4, AsideCollects DEF CollectsInv, CollectsTyped, Out

(* A frame that reaches no book.                                           *)
LEMMA NextTimed ==
    ASSUME IInv, CollectsInv, pos < Len(feed)
    PROVE  /\ pos + 1 \in 1..Len(feed) /\ pos \in Nat /\ NextFrame = feed[pos + 1]
           /\ NextFrame.at \in Nat /\ NextFrame.at <= clock
           /\ \A i \in 1..Len(feed) : /\ i <= pos => feed[i].at <= NextFrame.at
                                      /\ i > pos => NextFrame.at <= feed[i].at
  <1>1. /\ pos + 1 \in 1..Len(feed) /\ pos \in Nat /\ NextFrame = feed[pos + 1]
        /\ \A i \in 1..Len(feed) : feed[i].at \in Nat
    BY ChangeType DEF IInv, TypeOK, NextFrame
  <1>2. NextFrame.at \in Nat /\ NextFrame.at <= clock
    BY <1>1 DEF CollectsInv, FramesTimed
  <1>3. \A i \in 1..Len(feed) : i < pos + 1 => feed[i].at <= NextFrame.at
    BY <1>1 DEF CollectsInv, FramesTimed
  <1>4. \A i \in 1..Len(feed) : pos + 1 < i => NextFrame.at <= feed[i].at
    BY <1>1 DEF CollectsInv, FramesTimed
  <1> QED
    BY <1>1, <1>2, <1>3, <1>4

LEMMA LoseCollects == ASSUME IInv, CollectsInv, Lose PROVE CollectsInv'
  <1>1. /\ UNCHANGED exchange /\ UNCHANGED <<phase, book, lastId, quote, agg, published, since>>
        /\ pos < Len(feed) /\ pos' = pos + 1 /\ phase \in {"splice", "live"}
    BY DEF Lose, output
  <1>2. CASE phase = "splice"
    <2>1. agg = Idle
      BY <1>2 DEF IInv, TypeOK
    <2> QED
      BY <1>1, <1>2, <2>1, AsideCollects DEF CollectsInv, CollectsTyped, Out, Quoted
  <1>3. CASE phase = "live"
    <2>1. lost' = TRUE
      BY <1>3 DEF Lose
    <2>2. UNCHANGED <<venue, clock, hist, feed>>
      BY <1>1 DEF exchange
    <2>3. pos \in 1..Len(feed) /\ feed[pos] \in Frames /\ feed[pos].at \in Nat /\ feed[pos].u \in Nat
      <3>1. pos \in 1..Len(feed)
        BY <1>1, <1>3 DEF IInv, TypeOK, Placed
      <3>2. feed[pos] \in Frames
        BY <3>1 DEF IInv, TypeOK
      <3> QED
        BY <3>1, <3>2 DEF Frames
    <2>4. NextFrame \in Frames /\ FrameOK(NextFrame) /\ NextFrame = feed[pos + 1] /\ pos + 1 \in 1..Len(feed)
      BY <1>1, NextFrameOK DEF NextFrame
    <2>5. NextFrame.pu = feed[pos].u /\ NextFrame.u > feed[pos].u
      <3>1. NextFrame.pu = feed[pos].u
        BY <1>1, <2>3, <2>4 DEF IInv, FeedOK
      <3>2. NextFrame.pu < NextFrame.U /\ NextFrame.U <= NextFrame.u
        BY <2>4 DEF FrameOK, Chains
      <3>3. NextFrame.pu \in Nat /\ NextFrame.U \in Nat /\ NextFrame.u \in Nat
        BY <2>4 DEF Frames
      <3> QED
        BY <3>1, <3>2, <3>3
    <2>6. venue = "spot" => feed[pos].u >= lastId
      <3>1. lastId \in Nat
        BY DEF IInv, TypeOK
      <3>2. ~lost => feed[pos].u = lastId
        BY <1>3 DEF IInv, Placed
      <3>3. lost /\ venue = "spot" => feed[pos].u > lastId
        BY <1>3 DEF CollectsInv, Behind
      <3> QED
        BY <2>3, <3>1, <3>2, <3>3
    <2>7. Behind'
      <3>1. lastId \in Nat
        BY DEF IInv, TypeOK
      <3>2. NextFrame.u \in Nat
        BY <2>4 DEF Frames
      <3>3. venue = "spot" => NextFrame.u > lastId
        BY ONLY <2>3, <2>5, <2>6, <3>1, <3>2
      <3> QED
        BY <1>1, <2>2, <2>4, <3>3 DEF Behind
    <2>8. since <= feed[pos + 1].at /\ (agg.start # NoStart => agg.start <= StartOf(feed[pos + 1].at))
      <3>1. since \in Nat /\ agg.start \in Nat \cup {NoStart} /\ feed[pos + 1].at \in Nat
        BY <1>1, NextTimed DEF IInv, TypeOK, CollectsInv, CollectsTyped
      <3>2. feed[pos].at <= feed[pos + 1].at
        BY <1>1, <2>3, NextTimed
      <3>3. /\ StartOf(feed[pos].at) <= StartOf(feed[pos + 1].at)
            /\ StartOf(feed[pos].at) \in Nat /\ StartOf(feed[pos + 1].at) \in Nat
        BY <2>3, <3>1, <3>2, StartOrder, Grid
      <3>4. since <= feed[pos].at /\ (agg.start # NoStart => agg.start <= StartOf(feed[pos].at))
        BY <1>3 DEF CollectsInv, Opened
      <3> QED
        BY <2>3, <3>1, <3>2, <3>3, <3>4
    <2>9. Opened'
      BY <1>1, <1>3, <2>2, <2>8 DEF CollectsInv, Opened
    <2>10. CollectsTyped' /\ FramesTimed' /\ Quoted' /\ Collecting'
      BY <1>1, <2>1, <2>2 DEF CollectsInv, CollectsTyped, FramesTimed, Quoted, Collecting
    <2>11. Out'
      BY <1>1, StillOut DEF CollectsInv, Out
    <2> QED
      BY <2>7, <2>9, <2>10, <2>11 DEF CollectsInv
  <1> QED
    BY <1>1, <1>2, <1>3

-----------------------------------------------------------------------------
(* On spot nothing goes into a book that missed a frame.                   *)
LEMMA SpotRefuses ==
    ASSUME IInv, CollectsInv, Receives, ~Refuses(NextFrame, Bridging), venue = "spot"
    PROVE  ~lost
  <1>1. CASE phase = "splice"
    BY <1>1 DEF IInv, Placed
  <1>2. CASE phase = "live" /\ lost
    <2>1. feed[pos].u > lastId
      BY <1>2 DEF CollectsInv, Behind
    <2>2. pos < Len(feed)
      BY DEF Receives
    <2>3. pos \in 1..Len(feed) /\ lastId \in Nat
      BY <1>2, <2>2 DEF IInv, TypeOK, Placed
    <2>4. feed[pos] \in Frames /\ NextFrame \in Frames /\ FrameOK(NextFrame)
      BY <2>2, <2>3, NextFrameOK DEF IInv, TypeOK
    <2>5. NextFrame.pu = feed[pos].u /\ NextFrame.U = NextFrame.pu + 1
      BY <2>2, <2>3, <2>4 DEF IInv, FeedOK, FrameOK, Chains, NextFrame
    <2>6. feed[pos].u \in Nat
      BY <2>4 DEF Frames
    <2>7. ~(NextFrame.U > lastId + 1)
      BY DEF Refuses
    <2> QED
      BY ONLY <2>1, <2>3, <2>5, <2>6, <2>7
  <1> QED
    BY <1>1, <1>2 DEF Receives

(* The interval under way is not past the frame that is received.          *)
LEMMA BegunBehind ==
    ASSUME IInv, CollectsInv, Receives, agg.start # NoStart
    PROVE  /\ phase = "live" /\ agg.start \in Nat /\ Aligned(agg.start)
           /\ StartOf(since) <= agg.start /\ agg.start <= StartOf(NextFrame.at)
           /\ Begun = agg.start
  <1>1. phase = "live" /\ pos < Len(feed)
    BY DEF Receives, IInv, TypeOK, Idle
  <1>2. agg.start \in Nat /\ Aligned(agg.start)
    BY DEF CollectsInv, CollectsTyped, Opened
  <1>3. pos \in 1..Len(feed) /\ NextFrame.at \in Nat /\ feed[pos].at \in Nat
    BY <1>1, NextTimed, ChangeType DEF IInv, TypeOK, Placed
  <1>4. feed[pos].at <= NextFrame.at
    BY <1>1, <1>3, NextTimed
  <1>5. /\ StartOf(feed[pos].at) <= StartOf(NextFrame.at)
        /\ StartOf(feed[pos].at) \in Nat /\ StartOf(NextFrame.at) \in Nat
    BY <1>3, <1>4, StartOrder, Grid
  <1>6. StartOf(since) <= agg.start /\ agg.start <= StartOf(feed[pos].at)
    BY <1>1 DEF CollectsInv, Opened
  <1> QED
    BY <1>1, <1>2, <1>5, <1>6 DEF Begun

(* What a frame closes is over, and tells what its time was.               *)
LEMMA ClosedEarned ==
    ASSUME IInv, CollectsInv, Receives, ~Refuses(NextFrame, Bridging)
    PROVE  /\ Closed(NextFrame.at) \in Seq(Intervals)
           /\ \A k \in 1..Len(Closed(NextFrame.at)) : Earned(Closed(NextFrame.at)[k])
  <1> DEFINE t == NextFrame.at
  <1>0. pos < Len(feed) /\ t \in Nat /\ t <= clock /\ clock \in Nat /\ since \in Nat
        /\ pos \in Nat /\ Len(feed) \in Nat
    BY NextTimed DEF Receives, IInv, TypeOK
  <1>1. StartOf(t) \in Nat /\ StartOf(clock) \in Nat /\ StartOf(t) <= StartOf(clock)
    BY <1>0, StartOrder, Grid
  <1>2. CASE agg.start = NoStart \/ agg.start = StartOf(t)
    <2>1. Closed(t) = <<>>
      BY <1>0, <1>2, ClosedNone
    <2> QED
      BY <2>1
  <1>3. CASE agg.start # NoStart /\ agg.start # StartOf(t)
    <2>1. /\ phase = "live" /\ agg.start \in Nat /\ Aligned(agg.start)
          /\ agg.start <= StartOf(t) /\ Begun = agg.start
      BY <1>3, BegunBehind
    <2>2. agg.start < StartOf(t)
      BY <1>1, <1>3, <2>1
    <2>3. lost \in BOOLEAN /\ agg.events \in Seq(Events)
      BY DEF IInv, TypeOK, CollectsInv, CollectsTyped
    <2>4. /\ Closed(t) \in Seq(Intervals)
          /\ \A k \in 1..Len(Closed(t)) :
                /\ Closed(t)[k].since = since /\ Closed(t)[k].lost = lost
                /\ Closed(t)[k].start < StartOf(t)
                /\ k = 1 => Closed(t)[k].start = agg.start /\ Closed(t)[k].events = agg.events
                /\ k > 1 => Closed(t)[k].start > agg.start /\ Closed(t)[k].events = <<>>
      BY <1>0, <2>1, <2>2, <2>3, ClosedSome
    <2>5. ASSUME NEW k \in 1..Len(Closed(t)) PROVE Earned(Closed(t)[k])
      <3> DEFINE c == Closed(t)[k]
      <3>1. /\ c.since = since /\ c.lost = lost /\ c.start < StartOf(t)
            /\ k = 1 => c.start = agg.start /\ c.events = agg.events
            /\ k > 1 => c.start > agg.start /\ c.events = <<>>
        BY <2>4
      <3>2. c \in Intervals
        BY <2>4
      <3> HIDE DEF c
      <3>3. c.start \in Nat
        BY <3>2 DEF Intervals
      <3> SUFFICES ASSUME StartOf(since) # c.start, venue = "spot" \/ ~lost
                   PROVE  /\ c.start < StartOf(clock)
                          /\ TellsOf(c.events, Upto(Len(feed), c.start), Change)
        BY <3>1 DEF Earned, c
      <3>4. ~lost
        BY SpotRefuses
      <3>5. /\ \A i \in 1..pos : StartOf(feed[i].at) > Begun => ~Turns(i)
            /\ Begun # StartOf(since) => TellsOf(agg.events, Upto(pos, Begun), Change)
        BY <2>1, <3>4 DEF CollectsInv, Collecting
      <3>6. \A i \in 1..Len(feed) : i <= pos \/ StartOf(feed[i].at) # c.start
        <4> SUFFICES ASSUME NEW i \in 1..Len(feed), i > pos PROVE StartOf(feed[i].at) # c.start
          BY <1>0
        <4>1. t <= feed[i].at /\ feed[i].at \in Nat
          BY <1>0, NextTimed, ChangeType
        <4>2. StartOf(t) <= StartOf(feed[i].at) /\ StartOf(feed[i].at) \in Nat
          BY <1>0, <4>1, StartOrder, Grid
        <4> QED
          BY ONLY <1>1, <3>1, <3>3, <4>2
      <3>7. Upto(Len(feed), c.start) = Upto(pos, c.start)
        BY <1>0, <3>6 DEF Upto
      <3>8. CASE k = 1
        BY <1>1, <2>1, <3>1, <3>3, <3>5, <3>7, <3>8
      <3>9. CASE k > 1
        <4>1. \A i \in 1..pos : StartOf(feed[i].at) = c.start => ~Turns(i)
          BY <2>1, <3>1, <3>5, <3>9
        <4>2. Upto(pos, c.start) = {}
          BY <4>1 DEF Upto
        <4> QED
          BY <1>1, <3>1, <3>3, <3>7, <3>9, <4>2, TellsNone
      <3> QED
        BY <3>8, <3>9
    <2> QED
      BY <2>4, <2>5
  <1> QED
    BY <1>2, <1>3

LEMMA PublishedMore ==
    ASSUME CollectsInv, NEW more \in Seq(Intervals), \A k \in 1..Len(more) : Earned(more[k]),
           published' = published \o more
    PROVE  /\ published' \in Seq(Intervals)
           /\ \A k \in 1..Len(published') : Earned(published'[k])
  <1>1. published \in Seq(Intervals) /\ \A k \in 1..Len(published) : Earned(published[k])
    BY DEF CollectsInv, CollectsTyped, Out
  <1>2. /\ published' \in Seq(Intervals) /\ Len(published') = Len(published) + Len(more)
        /\ \A k \in 1..Len(published') :
              published'[k] = IF k <= Len(published) THEN published[k] ELSE more[k - Len(published)]
    BY <1>1
  <1>3. Len(published) \in Nat /\ Len(more) \in Nat
    BY <1>1
  <1> QED
    <2> SUFFICES ASSUME NEW k \in 1..Len(published') PROVE Earned(published'[k])
      BY <1>2
    <2>1. CASE k <= Len(published)
      BY <1>1, <1>2, <1>3, <2>1
    <2>2. CASE k > Len(published)
      <3>1. k - Len(published) \in 1..Len(more) /\ published'[k] = more[k - Len(published)]
        BY <1>2, <1>3, <2>2
      <3> QED
        BY <3>1
    <2> QED
      BY <1>3, <2>1, <2>2

LEMMA ApplyFailsCollects == ASSUME IInv, CollectsInv, ApplyFails PROVE CollectsInv'
  <1>1. /\ Receives /\ ~Refuses(NextFrame, Bridging) /\ UNCHANGED exchange
        /\ book' = ApplyLevels(book, NextFrame) /\ quote' = Best(book')
        /\ phase' = "down" /\ agg' = Idle
    BY DEF ApplyFails, Applies, Drops
  <1>2. quote' \in Quotes
    BY <1>1, AppliedBook, BestQuote
  <1> DEFINE c == Closed(NextFrame.at)
  <1>3. PICK n \in 0..Len(c) : published' = published \o SubSeq(c, 1, n)
    BY DEF ApplyFails
  <1>4. c \in Seq(Intervals) /\ \A k \in 1..Len(c) : Earned(c[k])
    BY <1>1, ClosedEarned
  <1> HIDE DEF c
  <1>5. /\ SubSeq(c, 1, n) \in Seq(Intervals) /\ Len(SubSeq(c, 1, n)) = n
        /\ \A k \in 1..n : SubSeq(c, 1, n)[k] = c[k] /\ k \in 1..Len(c)
    BY <1>4
  <1>6. /\ published' \in Seq(Intervals)
        /\ \A k \in 1..Len(published') : Earned(published'[k])
    BY <1>3, <1>4, <1>5, PublishedMore
  <1> QED
    BY <1>1, <1>2, <1>6, AsideCollects

-----------------------------------------------------------------------------
(* A frame that goes into a book that missed none: the event it makes is   *)
(* what the exchange's best quote did in it.                               *)
LEMMA EventTrue ==
    ASSUME IInv, CollectsInv, Apply, phase = "live", ~lost
    PROVE  /\ Change[pos + 1] = [from |-> quote, to |-> quote']
           /\ Turns(pos + 1) <=> quote' # quote
  <1>1. /\ Receives /\ pos < Len(feed) /\ lastId' = NextFrame.u /\ quote' = Best(book')
        /\ UNCHANGED <<hist, feed>> /\ phase' = "live" /\ lost' = lost
    BY DEF Apply, Applies, Receives, exchange
  <1>2. pos + 1 \in 1..Len(feed) /\ NextFrame = feed[pos + 1] /\ NextFrame.pu = lastId
    BY <1>1, NextFrameOK DEF NextFrame
  <1>3. quote = Best(book) /\ book = hist[lastId]
    BY DEF CollectsInv, Quoted, IInv, BookExact
  <1>4. book' = hist[lastId']
    <2>1. IInv'
      BY ApplyKeeps
    <2> QED
      BY <1>1, <2>1 DEF IInv, BookExact
  <1>5. Change[pos + 1] = [from |-> Best(hist[NextFrame.pu]), to |-> Best(hist[NextFrame.u])]
    BY <1>2 DEF Change
  <1>6. Change[pos + 1] = [from |-> quote, to |-> quote']
    BY <1>1, <1>2, <1>3, <1>4, <1>5
  <1> QED
    BY <1>6 DEF Turns

LEMMA AddedShape ==
    ASSUME IInv, CollectsInv, Receives, NEW event \in Events
    PROVE  Added(event, NextFrame.at) =
             [start  |-> StartOf(NextFrame.at),
              events |-> IF agg.start = StartOf(NextFrame.at) THEN Append(agg.events, event) ELSE <<event>>]
  <1> DEFINE t == NextFrame.at
  <1>1. t \in Nat
    BY NextTimed DEF Receives
  <1>2. CASE agg.start = StartOf(t)
    BY <1>1, <1>2, ClosedNone DEF Added
  <1>3. CASE agg.start = NoStart
    <2>1. Closed(t) = <<>> /\ agg.events = <<>>
      BY <1>1, <1>3, ClosedNone DEF CollectsInv, Opened
    <2>2. StartOf(t) # NoStart
      BY <1>1, Grid DEF NoStart
    <2>3. Append(<<>>, event) = <<event>>
      OBVIOUS
    <2> QED
      BY <1>3, <2>1, <2>2, <2>3 DEF Added
  <1>4. CASE agg.start # NoStart /\ agg.start # StartOf(t)
    <2>1. /\ agg.start \in Nat /\ Aligned(agg.start) /\ agg.start < StartOf(t)
      <3>1. agg.start \in Nat /\ Aligned(agg.start) /\ agg.start <= StartOf(t)
        BY <1>4, BegunBehind
      <3>2. StartOf(t) \in Nat
        BY <1>1, Grid
      <3> QED
        BY ONLY <1>4, <3>1, <3>2
    <2>2. since \in Nat /\ lost \in BOOLEAN /\ agg.events \in Seq(Events)
      BY DEF IInv, TypeOK, CollectsInv, CollectsTyped
    <2>3. Closed(t) # <<>>
      BY <1>1, <2>1, <2>2, ClosedSome
    <2> QED
      BY <1>4, <2>3 DEF Added
  <1> QED
    BY <1>2, <1>3, <1>4

LEMMA ApplyCollects == ASSUME IInv, CollectsInv, Apply PROVE CollectsInv'
  <1> DEFINE t == NextFrame.at
             s == StartOf(NextFrame.at)
  <1>1. /\ Receives /\ ~Refuses(NextFrame, Bridging) /\ pos < Len(feed) /\ pos' = pos + 1
        /\ UNCHANGED <<venue, clock, hist, feed, lost>> /\ UNCHANGED exchange
        /\ book' = ApplyLevels(book, NextFrame) /\ quote' = Best(book') /\ phase' = "live"
        /\ since' = (IF Bridging THEN t ELSE since) /\ phase \in {"splice", "live"}
        /\ IF quote' = quote THEN UNCHANGED <<agg, published>>
           ELSE /\ agg' = Added([from |-> quote, to |-> quote'], t)
                /\ published' = published \o Closed(t)
    BY DEF Apply, Applies, Receives, exchange, Event
  <1>2. /\ pos + 1 \in 1..Len(feed) /\ pos \in Nat /\ NextFrame = feed[pos + 1]
        /\ t \in Nat /\ t <= clock
        /\ \A i \in 1..Len(feed) : /\ i <= pos => feed[i].at <= t
                                   /\ i > pos => t <= feed[i].at
    BY <1>1, NextTimed
  <1>3. s \in Nat /\ Aligned(s) /\ s # NoStart
    <2>1. s \in Nat /\ t \div Width \in Nat /\ s = Width * (t \div Width)
      BY <1>2, Grid
    <2> QED
      BY <2>1 DEF Aligned, NoStart
  <1>4. quote \in Quotes /\ quote' \in Quotes
    BY <1>1, AppliedBook, BestQuote DEF CollectsInv, CollectsTyped
  <1> DEFINE e == [from |-> quote, to |-> quote']
  <1>5. e \in Events
    BY <1>4 DEF Events
  <1> HIDE DEF e
  <1>6. quote' # quote => agg' = [start |-> s, events |-> IF agg.start = s THEN Append(agg.events, e) ELSE <<e>>]
    BY <1>1, <1>5, AddedShape DEF e
  <1>7. CollectsTyped' /\ Out'
    <2>1. CASE quote' = quote
      BY <1>1, <1>4, <2>1, StillOut DEF CollectsInv, CollectsTyped, Out
    <2>2. CASE quote' # quote
      <3>1. Closed(t) \in Seq(Intervals) /\ \A k \in 1..Len(Closed(t)) : Earned(Closed(t)[k])
        BY <1>1, ClosedEarned
      <3>2. published' = published \o Closed(t)
        BY <1>1, <2>2
      <3>3. /\ published' \in Seq(Intervals)
            /\ \A k \in 1..Len(published') : Earned(published'[k])
        BY <3>1, <3>2, PublishedMore
      <3>4. agg.events \in Seq(Events)
        BY DEF CollectsInv, CollectsTyped
      <3>5. Append(agg.events, e) \in Seq(Events) /\ <<e>> \in Seq(Events)
        BY <1>5, <3>4
      <3>6. agg' \in [start : Nat \cup {NoStart}, events : Seq(Events)]
        <4> DEFINE ev == IF agg.start = s THEN Append(agg.events, e) ELSE <<e>>
        <4>1. agg' = [start |-> s, events |-> ev] /\ ev \in Seq(Events)
          BY <1>6, <2>2, <3>5
        <4> HIDE DEF ev
        <4> QED
          BY ONLY <1>3, <4>1
      <3> QED
        BY <1>1, <1>4, <3>3, <3>6, StillOut DEF CollectsTyped
    <2> QED
      BY <2>1, <2>2
  <1>8. FramesTimed' /\ Behind' /\ Quoted'
    <2>1. venue = "spot" => ~lost
      BY <1>1, SpotRefuses
    <2> QED
      BY <1>1, <2>1 DEF CollectsInv, FramesTimed, Behind, Quoted
  <1>9. since \in Nat /\ StartOf(since) \in Nat
    BY Grid DEF IInv, TypeOK
  <1>10. since' \in Nat /\ since' <= t /\ StartOf(since') \in Nat /\ StartOf(since') <= s
    <2>1. CASE phase = "splice"
      BY <1>1, <1>2, <1>3, <2>1 DEF Bridging
    <2>2. CASE phase = "live"
      <3>1. since' = since /\ pos \in 1..Len(feed)
        BY <1>1, <1>2, <2>2 DEF Bridging, IInv, TypeOK, Placed
      <3>2. since <= feed[pos].at /\ feed[pos].at <= t /\ feed[pos].at \in Nat
        BY <1>2, <2>2, <3>1, ChangeType DEF CollectsInv, Opened
      <3>3. since <= t
        BY <1>2, <1>9, <3>2
      <3> QED
        BY <1>2, <1>9, <3>1, <3>3, StartOrder
    <2> QED
      BY <1>1, <2>1, <2>2
  <1>11. agg.start # NoStart =>
            /\ phase = "live" /\ since' = since /\ agg.start \in Nat /\ Aligned(agg.start)
            /\ StartOf(since) <= agg.start /\ agg.start <= s
    BY <1>1, BegunBehind DEF Bridging
  <1>12. Opened'
    <2>1. since' <= feed'[pos'].at /\ s = StartOf(feed'[pos'].at)
      BY <1>1, <1>2, <1>10
    <2>2. CASE quote' = quote
      BY <1>1, <1>11, <2>1, <2>2 DEF Opened, CollectsInv
    <2>3. CASE quote' # quote
      <3>1. agg'.start = s
        BY <1>6, <2>3
      <3> QED
        BY <1>1, <1>3, <1>10, <2>1, <3>1 DEF Opened
    <2> QED
      BY <2>2, <2>3
  <1>13. \A i \in 1..pos' : /\ i \in 1..Len(feed) /\ feed[i].at \in Nat
                            /\ StartOf(feed[i].at) \in Nat /\ StartOf(feed[i].at) <= s
    <2> SUFFICES ASSUME NEW i \in 1..(pos + 1)
                 PROVE  /\ i \in 1..Len(feed) /\ feed[i].at \in Nat
                        /\ StartOf(feed[i].at) \in Nat /\ StartOf(feed[i].at) <= s
      BY <1>1
    <2>1. i \in 1..Len(feed) /\ feed[i].at \in Nat
      BY <1>2, ChangeType
    <2>2. feed[i].at <= t
      BY <1>2, <2>1
    <2> QED
      BY <1>2, <2>1, <2>2, StartOrder, Grid
  <1>14. Change' = Change /\ (\A i : Turns(i)' <=> Turns(i)) /\ (\A n, x : Upto(n, x)' = Upto(n, x))
    BY <1>1 DEF Change, Turns, Upto
  <1>15. Collecting'
    <2> SUFFICES ASSUME ~lost
                 PROVE  /\ \A i \in 1..(pos + 1) : StartOf(feed[i].at) > Begun' => ~Turns(i)
                        /\ Begun' # StartOf(since') => TellsOf(agg'.events, Upto(pos + 1, Begun'), Change)
      <3>1. Upto(pos, Begun)' = Upto(pos + 1, Begun')
        BY <1>1 DEF Upto, Turns, Change
      <3> QED
        BY <1>1, <1>14, <3>1 DEF Collecting
    <2>1. CASE phase = "splice"
      <3>1. agg.start = NoStart /\ StartOf(since') = s
        BY <1>1, <1>11, <2>1 DEF Bridging
      <3>2. Begun' = s
        <4>1. agg' = agg \/ agg'.start = s
          BY <1>1, <1>6
        <4> QED
          BY <1>3, <3>1, <4>1 DEF Begun
      <3>3. \A i \in 1..(pos + 1) : ~(StartOf(feed[i].at) > s)
        BY <1>1, <1>3, <1>13
      <3> QED
        BY <3>1, <3>2, <3>3
    <2>2. CASE phase = "live"
      <3>1. /\ Change[pos + 1] = e
            /\ Turns(pos + 1) <=> quote' # quote
        BY <2>2, EventTrue DEF e
      <3>2. since' = since
        BY <1>1, <2>2 DEF Bridging
      <3>3. /\ \A i \in 1..pos : StartOf(feed[i].at) > Begun => ~Turns(i)
            /\ Begun # StartOf(since) => TellsOf(agg.events, Upto(pos, Begun), Change)
        BY <2>2 DEF CollectsInv, Collecting
      <3>4. StartOf(feed[pos + 1].at) = s
        BY <1>2
      <3>5. \A i \in 1..(pos + 1) : i \in 1..pos \/ i = pos + 1
        BY <1>2
      <3>6. CASE quote' = quote
        <4>1. agg' = agg /\ Begun' = Begun
          BY <1>1, <3>2, <3>6 DEF Begun
        <4>2. Upto(pos + 1, Begun) = Upto(pos, Begun)
          BY <1>2, <3>1, <3>5, <3>6 DEF Upto
        <4> QED
          BY <3>1, <3>2, <3>3, <3>5, <3>6, <4>1, <4>2
      <3>7. CASE quote' # quote
        <4>1. agg'.start = s /\ Begun' = s
          BY <1>3, <1>6, <3>7 DEF Begun
        <4>2. \A i \in 1..(pos + 1) : ~(StartOf(feed[i].at) > s)
          BY <1>1, <1>3, <1>13
        <4>3. ASSUME s # StartOf(since) PROVE TellsOf(agg'.events, Upto(pos + 1, s), Change)
          <5>1. Upto(pos + 1, s) = Upto(pos, s) \cup {pos + 1}
            BY <1>2, <3>1, <3>4, <3>5, <3>7 DEF Upto
          <5>2. CASE agg.start = s
            <6>1. Begun = s /\ agg'.events = Append(agg.events, Change[pos + 1])
              BY <1>3, <1>6, <3>1, <3>7, <5>2 DEF Begun
            <6>2. TellsOf(agg.events, Upto(pos, s), Change)
              BY <3>3, <4>3, <6>1
            <6>3. Upto(pos, s) \in SUBSET Nat /\ \A i \in Upto(pos, s) : i < pos + 1
              BY <1>2 DEF Upto
            <6>4. IsFiniteSet(Upto(pos, s))
              <7>1. IsFiniteSet(1..pos)
                BY <1>2, FS_Interval
              <7>2. Upto(pos, s) \subseteq 1..pos
                BY DEF Upto
              <7> QED
                BY <7>1, <7>2, FS_Subset
            <6>5. agg.events \in Seq(Events) /\ Change[pos + 1] \in Events /\ pos + 1 \in Nat
              BY <1>2, <1>5, <3>1 DEF CollectsInv, CollectsTyped
            <6>6. TellsOf(Append(agg.events, Change[pos + 1]), Upto(pos, s) \cup {pos + 1}, Change)
              BY ONLY <6>2, <6>3, <6>4, <6>5, TellsMore
            <6> QED
              BY <5>1, <6>1, <6>6
          <5>3. CASE agg.start # s
            <6>1. agg'.events = <<Change[pos + 1]>>
              BY <1>6, <3>1, <3>7, <5>3
            <6>2. Begun < s
              <7>1. CASE agg.start = NoStart
                BY <1>3, <1>9, <1>10, <3>2, <4>3, <7>1 DEF Begun
              <7>2. CASE agg.start # NoStart
                BY <1>3, <1>11, <5>3, <7>2 DEF Begun
              <7> QED
                BY <7>1, <7>2
            <6>3. Upto(pos, s) = {}
              <7>1. ASSUME NEW i \in 1..pos, StartOf(feed[i].at) = s PROVE ~Turns(i)
                BY <3>3, <6>2, <7>1
              <7> QED
                BY <7>1 DEF Upto
            <6>4. TellsOf(<<Change[pos + 1]>>, {pos + 1}, Change)
              <7>1. Change[pos + 1] \in Events /\ pos + 1 \in Nat
                BY <1>2, <1>5, <3>1
              <7> QED
                BY ONLY <7>1, TellsOne
            <6> QED
              BY <5>1, <6>1, <6>3, <6>4
          <5> QED
            BY <5>2, <5>3
        <4> QED
          BY <3>2, <4>1, <4>2, <4>3
      <3> QED
        BY <3>6, <3>7
    <2> QED
      BY <1>1, <2>1, <2>2
  <1> QED
    BY <1>7, <1>8, <1>12, <1>15 DEF CollectsInv

LEMMA ExchangeCollects == ASSUME IInv, CollectsInv, Tick \/ Update \/ Emit PROVE CollectsInv'
  <1>1. clock \in Nat /\ Len(feed) \in Nat /\ feed \in Seq(Frames) /\ hist \in Seq(Books) /\ Len(hist) \in Nat
    BY DEF IInv, TypeOK
  <1>2. \A i \in 1..Len(feed) : feed[i].pu \in 1..Len(hist) /\ feed[i].u \in 1..Len(hist)
    <2> SUFFICES ASSUME NEW i \in 1..Len(feed)
                 PROVE  feed[i].pu \in 1..Len(hist) /\ feed[i].u \in 1..Len(hist)
      OBVIOUS
    <2>1. feed[i] \in Frames /\ FrameOK(feed[i])
      BY <1>1 DEF IInv, FeedOK
    <2>2. feed[i].pu \in Nat /\ feed[i].U \in Nat /\ feed[i].u \in Nat
      BY <2>1 DEF Frames
    <2>3. 1 <= feed[i].pu /\ feed[i].pu < feed[i].U /\ feed[i].U <= feed[i].u /\ feed[i].u <= Len(hist)
      BY <2>1 DEF FrameOK, Chains
    <2> QED
      BY ONLY <1>1, <2>2, <2>3
  <1>3. UNCHANGED <<venue, pos, phase, book, lastId, quote, agg, published, lost, since>>
    BY DEF Tick, Update, Emit, output
  <1>4. CASE Tick
    <2>1. clock' = clock + 1 /\ UNCHANGED <<hist, feed>>
      BY <1>4 DEF Tick
    <2>2. Change' = Change
      BY <2>1 DEF Change
    <2> QED
      BY <1>1, <1>3, <2>1, <2>2, OnwardCollects
  <1>5. CASE Update
    <2>0. PICK p \in Prices, q \in Qtys :
              hist' = Append(hist, [hist[Len(hist)] EXCEPT ![p] = q])
      BY <1>5 DEF Update
    <2>1. UNCHANGED <<clock, feed>>
      BY <1>5 DEF Update
    <2>2. \A n \in 1..Len(hist) : hist'[n] = hist[n]
      BY <1>1, <2>0
    <2>3. \A i \in 1..Len(feed) : Change'[i] = Change[i]
      BY <1>2, <2>1, <2>2 DEF Change
    <2> QED
      BY <1>1, <1>3, <2>1, <2>3, OnwardCollects
  <1>6. CASE Emit
    <2>1. PICK first \in (Sent + 1)..Len(hist) :
              feed' = Append(feed, [pu |-> Sent, U |-> first, u |-> Len(hist), at |-> clock])
      BY <1>6 DEF Emit
    <2>2. UNCHANGED <<clock, hist>>
      BY <1>6 DEF Emit
    <2>3. /\ Len(feed') = Len(feed) + 1 /\ feed'[Len(feed) + 1].at = clock
          /\ \A i \in 1..Len(feed) : feed'[i] = feed[i]
      BY <1>1, <2>1
    <2>4. \A i \in 1..Len(feed) : Change'[i] = Change[i]
      <3> SUFFICES ASSUME NEW i \in 1..Len(feed) PROVE Change'[i] = Change[i]
        OBVIOUS
      <3>1. i \in 1..Len(feed') /\ feed'[i] = feed[i]
        BY <1>1, <2>3
      <3> QED
        BY <2>2, <3>1 DEF Change
    <2>5. \A i \in 1..Len(feed') : i > Len(feed) => feed'[i].at = clock
      <3> SUFFICES ASSUME NEW i \in 1..Len(feed'), i > Len(feed) PROVE feed'[i].at = clock
        OBVIOUS
      <3>1. i = Len(feed) + 1
        BY <1>1, <2>3
      <3> QED
        BY <2>3, <3>1
    <2>6. Len(feed') \in Nat /\ Len(feed) <= Len(feed') /\ clock' \in Nat /\ clock <= clock'
      BY <1>1, <2>2, <2>3
    <2> QED
      BY <1>3, <2>3, <2>4, <2>5, <2>6, OnwardCollects
  <1> QED
    BY <1>4, <1>5, <1>6

(* Steps with no interval under way before or after.                       *)
LEMMA IdleCollects ==
    ASSUME IInv, CollectsInv, Connect \/ Skip \/ BridgeLost \/ RaiseGap \/ ApplyEmpties \/ Reconnect
    PROVE  CollectsInv'
  <1>1. /\ UNCHANGED exchange /\ published' = published /\ quote' = quote
        /\ phase' # "live" /\ agg' = Idle
        /\ phase' = "splice" => phase = "splice" /\ book' = book
    BY DEF Connect, Skip, BridgeLost, RaiseGap, ApplyEmpties, Reconnect, Drops, output, IInv, TypeOK
  <1> QED
    BY <1>1, AsideCollects DEF CollectsInv, CollectsTyped, Out, Quoted

LEMMA StepCollects == IInv /\ CollectsInv /\ [Next]_vars => CollectsInv'
  <1> SUFFICES ASSUME IInv, CollectsInv, [Next]_vars PROVE CollectsInv'
    OBVIOUS
  <1>1. CASE UNCHANGED vars
    <2>1. UNCHANGED <<venue, clock, hist, feed, pos, phase, book, lastId, quote, agg, published, lost, since>>
      BY <1>1 DEF vars, exchange, output
    <2>2. Change' = Change
      BY <2>1 DEF Change
    <2>3. clock \in Nat /\ Len(feed) \in Nat
      BY DEF IInv, TypeOK
    <2> QED
      BY <2>1, <2>2, <2>3, OnwardCollects
  <1> QED
    BY <1>1, ExchangeCollects, IdleCollects, FetchedCollects, LoseCollects, ApplyCollects, ApplyFailsCollects DEF Next

THEOREM IntervalInvariance == Spec => [](IInv /\ CollectsInv)
  BY InitIInv, InitCollects, StepIInv, StepCollects, PTL DEF Spec

(* "exact_feed" is exact: an interval that began after the splice has the  *)
(* moves of the exchange's best quote in its time, each of them and in     *)
(* their order, whatever reconnects, losses and failed publishes lie       *)
(* around it (capture.py run_forever, ofi.py add).                         *)
THEOREM IntervalsTrue == Spec => []IntervalsExact
  <1>1. ASSUME IInv, CollectsInv PROVE IntervalsExact
    <2> SUFFICES ASSUME NEW i \in DOMAIN published,
                        StartOf(published[i].since) # published[i].start,
                        venue = "spot" \/ ~published[i].lost
                 PROVE  Tells(published[i].events, MovesIn(published[i].start))
      BY DEF IntervalsExact
    <2>1. i \in 1..Len(published) /\ feed \in Seq(Frames)
      BY <1>1 DEF CollectsInv, CollectsTyped, IInv, TypeOK
    <2>2. TellsOf(published[i].events, Upto(Len(feed), published[i].start), Change)
      BY <1>1, <2>1 DEF CollectsInv, Out, Earned
    <2>3. MovesIn(published[i].start) = Upto(Len(feed), published[i].start)
      <3>1. DOMAIN feed = 1..Len(feed)
        BY <2>1
      <3>2. \A k \in 1..Len(feed) : Turns(k) <=> Moves(feed[k])
        BY DEF Turns, Change, Moves
      <3> QED
        BY <3>1, <3>2 DEF MovesIn, Upto
    <2>4. MovesIn(published[i].start) \in SUBSET (1..Len(feed))
      BY <2>3 DEF Upto
    <2> QED
      BY <2>2, <2>3, <2>4, TellsChange
  <1> QED
    BY <1>1, IntervalInvariance, PTL
=============================================================================
