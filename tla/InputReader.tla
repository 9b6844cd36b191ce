---------------------------- MODULE InputReader ----------------------------
(* How a worker comes by what it decides on (substrate_worker/core/        *)
(* reader.py and the loop of supervisor.py): one batch of the raw stream,  *)
(* one of the websocket's stream, one bounded wait for a transition of the *)
(* capture, a decision, and again.  The groups are created at the start of *)
(* their streams and read without acknowledgement, so a batch is delivered *)
(* once, and is gone when the iteration it came in fails.  A group, or its *)
(* stream, may be lost at any time; a read may fail in a way the reader    *)
(* waits out or in one that ends the iteration.  Of a decision this module *)
(* has what can keep a boundary between two periods from being heard; the  *)
(* cascades are DecideCascades'.  An entry is the time in its id.          *)
EXTENDS Integers, Sequences, FiniteSetsExt

CONSTANTS
    Periods,       \* the declared periods: [length, offset], the offset IST's or 0
    ReadBurst,     \* _EVT_READ_LIMIT
    MaxEntryTime,  \* bound on the time
    MaxStream,     \* bound on each stream
    None

ASSUME ReaderAssumption ==
    /\ Periods \subseteq [length : Nat \ {0}, offset : Nat]
    /\ {ReadBurst, MaxEntryTime, MaxStream} \subseteq Nat
    /\ None \notin Int

VARIABLES
    readClock,
    usesWs,      \* ws_input of this worker
    kept,        \* per source, the entries of its stream
    given,       \* per source, entries delivered to the group, or None if it is gone
    at,          \* "raw", "ws", "status" or "decide": what the loop does next
    batch,       \* per source, the newest entry of the batch read, or None
    recovered,   \* the wait saw the capture come back
    prevNewest,  \* _prev_newest_ms
    verdict,     \* what the last decision was: "quiet", "fire" or "raised"
    asked, high  \* history: the rollover was asked on entries; the newest decided on since

InputStreams == {"raw", "ws"}
streamVars == <<readClock, kept>>
heardVars == <<prevNewest, verdict, asked, high>>
readerVars == <<streamVars, usesWs, given, at, batch, recovered, heardVars>>

NoBatch == [s \in InputStreams |-> None]

\* start(): both groups, at "0".
ReaderInit ==
    /\ readClock = 0 /\ kept = [s \in InputStreams |-> <<>>]
    /\ usesWs \in BOOLEAN
    /\ given = [s \in InputStreams |-> 0]
    /\ at = "raw" /\ batch = NoBatch /\ recovered = FALSE
    /\ prevNewest = None /\ verdict = "quiet" /\ asked = FALSE /\ high = None

---------------------------------------------------------------------------
ReadTick ==
    /\ readClock < MaxEntryTime /\ readClock' = readClock + 1
    /\ UNCHANGED <<kept, usesWs, given, at, batch, recovered, heardVars>>

Arrives(s) ==
    /\ Len(kept[s]) < MaxStream
    /\ kept' = [kept EXCEPT ![s] = Append(@, readClock)]
    /\ UNCHANGED <<readClock, usesWs, given, at, batch, recovered, heardVars>>

\* The group alone, or the stream with it.
GroupLost(s) ==
    /\ given' = [given EXCEPT ![s] = None]
    /\ kept' \in {kept, [kept EXCEPT ![s] = <<>>]}
    /\ UNCHANGED <<readClock, usesWs, at, batch, recovered, heardVars>>

---------------------------------------------------------------------------
\* The loop catches it, waits and begins again; what was read is gone.
IterationFails ==
    /\ at' = "raw" /\ batch' = NoBatch /\ recovered' = FALSE
    /\ UNCHANGED <<streamVars, usesWs, heardVars>>

\* _healed_read: a lost group is created again at "0", and read once more.
Healed(s) == IF given[s] = None THEN 0 ELSE given[s]
BatchSize(s) == Min({ReadBurst, Len(kept[s]) - Healed(s)})

Read(s) ==
    LET upTo == Healed(s) + BatchSize(s) IN
    /\ given' = [given EXCEPT ![s] = upTo]
    /\ batch' = [batch EXCEPT ![s] = IF BatchSize(s) > 0 THEN kept[s][upTo] ELSE None]

\* Before the delivery or after it: without acknowledgement an answer that
\* is lost on the way is gone.
ReadFails(s) ==
    \E upTo \in {given[s], Healed(s), Healed(s) + BatchSize(s)} : given' = [given EXCEPT ![s] = upTo]

\* A failure that is_recoverable_redis_exc knows is an empty read.
ReadOnce ==
    /\ at = "raw"
    /\ \/ /\ Read("raw") \/ (ReadFails("raw") /\ batch' = NoBatch)
          /\ at' = (IF usesWs THEN "ws" ELSE "decide")
          /\ UNCHANGED <<streamVars, usesWs, recovered, heardVars>>
       \/ ReadFails("raw") /\ IterationFails

\* _read_ws_once: a failure of the first read leaves the second one out.
ReadWsOnce ==
    /\ at = "ws"
    /\ \/ /\ \/ Read("ws") /\ at' = "status"
             \/ ReadFails("ws") /\ UNCHANGED batch /\ at' = "decide"
          /\ UNCHANGED <<streamVars, usesWs, recovered, heardVars>>
       \/ ReadFails("ws") /\ IterationFails

\* From "$": what came before the wait is never seen.
AwaitStatus ==
    /\ at = "status"
    /\ \/ /\ recovered' \in BOOLEAN /\ at' = "decide"
          /\ UNCHANGED <<streamVars, usesWs, given, batch, heardVars>>
       \/ IterationFails /\ UNCHANGED given

---------------------------------------------------------------------------
Bucket(t, p) == (t + p.offset) \div p.length
Newer(a, b) == IF b = None THEN a ELSE IF a = None \/ b > a THEN b ELSE a

\* The entries that a decision is about: rows or ws_rows.
NewestRead == IF batch["raw"] = None /\ usesWs THEN batch["ws"] ELSE batch["raw"]

DecidesAs(v) ==
    /\ at = "decide" /\ at' = "raw" /\ batch' = NoBatch /\ recovered' = FALSE
    /\ verdict' = v
    /\ UNCHANGED <<streamVars, usesWs, given>>

\* Cold start, recovery and staleness come before the rollover is asked.
FiresEarly ==
    /\ DecidesAs("fire")
    /\ high' = IF asked THEN Newer(high, NewestRead) ELSE high
    /\ UNCHANGED <<prevNewest, asked>>

\* Without a projection and an arrival nothing is asked, recovered or not.
ColdAndQuiet ==
    /\ batch = NoBatch /\ DecidesAs("quiet")
    /\ UNCHANGED <<prevNewest, asked, high>>

PeriodCrossed ==
    NewestRead # None /\ prevNewest # None /\ \E p \in Periods : Bucket(NewestRead, p) # Bucket(prevNewest, p)

HearForgets ==   \* mutant: a quiet tick forgets the newest entry
    /\ asked' = (asked \/ NewestRead # None) /\ high' = Newer(high, NewestRead)
    /\ prevNewest' = NewestRead
\* The first half of _rollover_decision: the newest entry is kept.
Hear ==
    /\ asked' = (asked \/ NewestRead # None) /\ high' = Newer(high, NewestRead)
    /\ prevNewest' = IF NewestRead = None THEN prevNewest ELSE NewestRead

\* _rollover_decision, and after it the probe.
AskRollover ==
    /\ ~recovered /\ Hear
    /\ IF PeriodCrossed THEN DecidesAs("fire") ELSE DecidesAs("quiet") \/ DecidesAs("fire")

\* Before the rollover is asked or after it: then what it heard is kept.
DecideRaises ==
    /\ DecidesAs("raised")
    /\ UNCHANGED <<prevNewest, asked, high>> \/ (~recovered /\ Hear)

ReaderNext ==
    \/ ReadTick \/ ReadOnce \/ ReadWsOnce \/ AwaitStatus
    \/ FiresEarly \/ ColdAndQuiet \/ AskRollover \/ DecideRaises
    \/ \E s \in InputStreams : Arrives(s) \/ GroupLost(s)
ReaderSpec == ReaderInit /\ [][ReaderNext]_readerVars

---------------------------------------------------------------------------
ReaderTypeOK ==
    /\ readClock \in Nat /\ usesWs \in BOOLEAN /\ asked \in BOOLEAN /\ recovered \in BOOLEAN
    /\ kept \in [InputStreams -> Seq(Nat)] /\ given \in [InputStreams -> Nat \cup {None}]
    /\ at \in {"raw", "ws", "status", "decide"}
    /\ batch \in [InputStreams -> Nat \cup {None}]
    /\ {prevNewest, high} \subseteq Nat \cup {None}
    /\ verdict \in {"quiet", "fire", "raised"}

(* "Fire when a declared period boundary crossed between batches"          *)
(* (reader.py:275): once the rollover has been asked, no decision passes   *)
(* in silence on entries of a later period than all before them, whatever  *)
(* came between: quiet reads, fires of other sources, batches that were    *)
(* lost, groups created again and what they deliver a second time.  A      *)
(* decision that raises is not silent, though the boundary it had heard is *)
(* then lost.                                                              *)
BoundaryHeard ==
    [][(at = "decide" /\ asked /\ verdict' = "quiet" /\ high' # high) =>
          \A p \in Periods : Bucket(high', p) <= Bucket(high, p)]_readerVars
=============================================================================
