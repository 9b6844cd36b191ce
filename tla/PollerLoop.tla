---------------------------- MODULE PollerLoop ----------------------------
(* The poller (poller.py): a loop that resolves its symbols, polls them    *)
(* all at once, and backs off as a whole when one of them met a rate       *)
(* error, which it tells the telemetry on change only.  The operator       *)
(* re-points it through a control key (interaction_plane/control.py).  A   *)
(* request fails alone or is answered 429 or 418; a snapshot cannot be     *)
(* stored; events get lost; an error of a store outside the guards ends    *)
(* the process, which is started again without memory of anything.  What   *)
(* is in a snapshot is HorizonFold's; the warm loop is left out.           *)
EXTENDS Integers, FiniteSets, FiniteSetsExt

CONSTANTS
    Endpoints,      \* asked for each symbol
    EnvSymbols,     \* what POLL_SYMBOLS, or SYMBOLS, gives
    Controls,       \* what the operator may set
    NoControl,
    PollEvery,      \* POLL_SECONDS
    BackoffCap,     \* 5, in multiples of PollEvery
    BanMargin,      \* BINANCE_BAN_COOLDOWN_S
    BanTimes,       \* what a ban may have left when a request is told of it
    MaxDeaths,      \* bound on the restarts
    Unset

\* What can be told of a symbol.
Statuses == [status : {"healthy", "degraded"}, errors : SUBSET (Endpoints \cup {"failure"})]

ASSUME PollerAssumption ==
    /\ BanTimes \subseteq Nat
    /\ {PollEvery, BackoffCap, BanMargin, MaxDeaths} \subseteq Nat
    /\ Unset \notin Statuses

VARIABLES
    control,      \* the control key
    loop,         \* "asleep", "polling" or "dead"
    sleepLeft,
    inPoll,      \* symbols of this cycle whose poll is under way
    rateErrors,   \* what gather has collected: the time left of a ban, 0 for a 429
    ladder,       \* current_backoff_s
    rateState,    \* rate_limit_state, or Unset
    signature,    \* telemetry_states: per symbol, the status last told, or Unset
    binanceShown, symbolShown,   \* what the telemetry shows
    outcome,      \* history: what became of the last poll of each symbol
    missed,       \* history: symbols whose last event was lost
    banLeft,      \* history: of the bans this process was told of
    deaths

cycleVars == <<loop, sleepLeft, inPoll, rateErrors>>
limitVars == <<ladder, rateState, banLeft>>
toldVars == <<signature, symbolShown, outcome, missed>>
pollerVars == <<control, cycleVars, limitVars, toldVars, binanceShown, deaths>>

Polled == EnvSymbols \cup UNION Controls
Untold == [s \in Polled |-> Unset]

PollerInit ==
    /\ control = NoControl /\ deaths = 0
    /\ loop = "asleep" /\ sleepLeft = 0 /\ inPoll = {} /\ rateErrors = {}
    /\ ladder = 0 /\ rateState = Unset /\ banLeft = 0 /\ binanceShown = Unset
    /\ signature = Untold /\ symbolShown = Untold /\ outcome = Untold /\ missed = {}

PollTick ==
    /\ sleepLeft' = Max({sleepLeft - 1, 0}) /\ banLeft' = Max({banLeft - 1, 0})
    /\ UNCHANGED <<control, loop, inPoll, rateErrors, ladder, rateState, toldVars, binanceShown, deaths>>

\* poller_set and poller_reset.
PollerSet == control' \in Controls /\ UNCHANGED <<cycleVars, limitVars, toldVars, binanceShown, deaths>>
PollerReset == control' = NoControl /\ UNCHANGED <<cycleVars, limitVars, toldVars, binanceShown, deaths>>

ResolveActiveSymbols == IF control = NoControl THEN EnvSymbols ELSE control

Asleep(sleep) ==
    loop' = "asleep" /\ sleepLeft' = sleep /\ inPoll' = {} /\ rateErrors' = {}

\* main() ends with everything it knew; the container starts it again.
Dies ==
    /\ deaths < MaxDeaths /\ deaths' = deaths + 1
    /\ loop' = "dead" /\ sleepLeft' = 0 /\ inPoll' = {} /\ rateErrors' = {}
    /\ ladder' = 0 /\ rateState' = Unset /\ banLeft' = 0
    /\ signature' = Untold /\ UNCHANGED <<symbolShown, outcome, missed>>
PollerRestarts ==
    /\ loop = "dead" /\ Asleep(0)
    /\ UNCHANGED <<control, limitVars, toldVars, binanceShown, deaths>>

---------------------------------------------------------------------------
StartCycle ==
    /\ loop = "asleep" /\ sleepLeft = 0
    /\ \/ /\ loop' = "polling"
          /\ inPoll' = ResolveActiveSymbols /\ rateErrors' = {}
          /\ UNCHANGED <<sleepLeft, limitVars, toldVars, deaths>>
       \/ Dies   \* the control key cannot be read
    /\ UNCHANGED <<control, binanceShown>>

\* An event on change only, which may get lost; the status counts as told.
Tell(s, status) ==
    /\ outcome' = [outcome EXCEPT ![s] = status]
    /\ IF signature[s] = status THEN UNCHANGED <<symbolShown, missed>>
       ELSE \/ symbolShown' = [symbolShown EXCEPT ![s] = status] /\ missed' = missed \ {s}
            \/ missed' = missed \cup {s} /\ UNCHANGED symbolShown
Told(s, status) == Tell(s, status) /\ signature' = [signature EXCEPT ![s] = status]

Polling(s) ==
    /\ s \in inPoll /\ inPoll' = inPoll \ {s}
    /\ UNCHANGED <<control, loop, sleepLeft, binanceShown, deaths>>

\* fetch_binance_evidence: an endpoint that fails is missing, no more.
Fetched == {[status |-> IF failing = {} THEN "healthy" ELSE "degraded", errors |-> failing] :
               failing \in SUBSET Endpoints}

\* poll_symbol, its snapshot stored.
PollSymbol(s) ==
    /\ Polling(s) /\ \E status \in Fetched : Told(s, status)
    /\ UNCHANGED <<rateErrors, limitVars>>

\* _safe_poll_symbol: whatever else becomes of it, the other symbols go on.
PollFailsQuietly(s) ==   \* mutant: what is told is not kept
    /\ Polling(s) /\ Tell(s, [status |-> "degraded", errors |-> {"failure"}])
    /\ UNCHANGED <<rateErrors, limitVars, signature>>
PollFails(s) ==
    /\ Polling(s) /\ Told(s, [status |-> "degraded", errors |-> {"failure"}])
    /\ UNCHANGED <<rateErrors, limitVars>>

\* A 429, or a 418 that has `left` to go, passes both guards; the requests
\* beside it are not cancelled, and nothing is told of the symbol.
RateLimited(s) ==
    /\ Polling(s)
    /\ \E left \in BanTimes \cup {0} :
         /\ rateErrors' = rateErrors \cup {left}
         /\ banLeft' = Max({banLeft, left})
    /\ UNCHANGED <<ladder, rateState, toldVars>>

NextRateBackoff == IF ladder = 0 THEN PollEvery ELSE Min({2 * ladder, BackoffCap * PollEvery})
RateBackoffMild ==   \* mutant: a 429 among them decides
    IF 0 \in rateErrors THEN NextRateBackoff ELSE Max(rateErrors) + BanMargin
RateBackoff == IF rateErrors = {0} THEN NextRateBackoff ELSE Max(rateErrors) + BanMargin

\* An event on change; it may get lost.
RunStatus(status, changed) ==
    binanceShown' \in IF changed THEN {binanceShown, status} ELSE {binanceShown}

\* The backoff, poller.status, then the event.
BackOff ==
    /\ loop = "polling" /\ inPoll = {} /\ rateErrors # {}
    /\ \/ /\ ladder' = RateBackoff
          /\ rateState' = [backoff |-> ladder', ban |-> rateErrors # {0}]
          /\ RunStatus("rate_limited", rateState' # rateState)
          /\ Asleep(ladder')
          /\ UNCHANGED <<banLeft, toldVars, deaths>>
       \/ Dies /\ UNCHANGED binanceShown   \* poller.status cannot be published
    /\ UNCHANGED control

\* The event of a recovery, then poller.status.
CleanCycle ==
    /\ loop = "polling" /\ inPoll = {} /\ rateErrors = {}
    /\ RunStatus("running", rateState # Unset)
    /\ \/ ladder' = 0 /\ rateState' = Unset /\ banLeft' = 0
          /\ \E rest \in 0..PollEvery : Asleep(rest)   \* of the cycle, if any
          /\ UNCHANGED <<toldVars, deaths>>
       \/ Dies
    /\ UNCHANGED control

PollerNext ==
    \/ PollTick \/ PollerSet \/ PollerReset \/ PollerRestarts \/ StartCycle \/ BackOff \/ CleanCycle
    \/ \E s \in Polled : PollSymbol(s) \/ PollFails(s) \/ RateLimited(s)
PollerSpec == PollerInit /\ [][PollerNext]_pollerVars

---------------------------------------------------------------------------
PollerTypeOK ==
    /\ control \in Controls \cup {NoControl}
    /\ loop \in {"asleep", "polling", "dead"} /\ inPoll \subseteq Polled
    /\ {sleepLeft, banLeft, ladder} \cup rateErrors \subseteq Nat
    /\ {signature, symbolShown, outcome} \subseteq [Polled -> Statuses \cup {Unset}]
    /\ missed \subseteq Polled /\ deaths \in 0..MaxDeaths

(* A cycle sends its first request only when every ban that the process    *)
(* was told of is over, whichever of its symbols met it, in whatever order *)
(* with milder errors and however the ladder stood (poller.py:65, "sleep   *)
(* the full ban remainder").                                               *)
BanSleptOut == [][loop = "asleep" /\ loop' = "polling" => banLeft = 0]_pollerVars

(* What the telemetry shows of a symbol is what became of its last poll    *)
(* that was not cut short by a limit, through failures that two functions  *)
(* tell of, restarts and lost events, but for the event that was lost      *)
(* (poller.py:215, :263, "telemetry_states").                              *)
SymbolShownTrue == \A s \in Polled \ missed : symbolShown[s] = outcome[s]

(* While the poller is not limited the telemetry does not show that it is. *)
(* It does not hold: an event may be lost and is not sent again, and a     *)
(* process that dies limited leaves the event of a recovery to nobody.     *)
LimitNotStale == (loop = "asleep" /\ rateState = Unset) => binanceShown # "rate_limited"
=============================================================================
