# TLA+ models of the market service

This directory holds TLA+ specifications of `src/market_service`, the TLC
configurations that check them, and TLAPS proofs about them. Each definition
is translated from the source; `PROJECT.json` ("map") names the lines each one
stands for. Paths below are relative to `src/market_service` unless they start
with `docs/`.

## 1. The system

The service turns Binance's public market data into "substrates" (delta, tape,
open interest, liquidity tiers, ...), keeps them fresh under a set of
governance rules, and lets an LLM driven inference engine reason about them.

```
 Binance REST --> poller.py ----(raw.latest, raw.stream: one Lua script)--> Redis
                  rate_limit/                                                 |
 Binance WS ----> clients/websocket.py, microstructure/capture.py -> micro.*  |
                                                                              v
      calculation container: 12 resident workers on one asyncio loop   XREADGROUP, NOACK
      decide -> fire gate -> dedupe -> slot -> compute -> publish gates
             -> PostgreSQL ledger (workers with horizons) -> Redis projection
                                                                              |
      analysis container: the same core over other inputs  <------------------+
                                                                              v
      telemetry kernel (adjudicated state), inference engine (nooa_harness), CLI
```

Both containers are single processes with one asyncio loop: the code between
two `await`s is atomic, and everything interesting happens because two
coroutines, two cores or two containers have awaits between a read and the
write that depends on it. State outlives a process in Redis (consumer-group
cursor, supervisor keys, projections, dispatch leases) and in PostgreSQL.

## 2. Inventory

For each part: **state**, **operations**, **hard part**, **correct when**.

| Part | State | Operations | Hard part | Correct when |
|---|---|---|---|---|
| Compute slots, `governance/gates.py` `_FairSemaphore` | counter, deque of futures | acquire, release, cancellation | a cancel that lands between grant and resume | bound, no lost slot, no idle slot, FIFO, all served |
| Input reader, `substrate_worker/core/reader.py`, `supervisor.py` | two consumer groups, position in the status stream | read, recreate, wait, decide | batches without acknowledgement, groups that are gone, failed iterations | no boundary of a period passes in silence |
| Decision cascades, `substrate_worker/*_worker.py`, `analysis_worker/*`, `analysis/*` | projection of the last fire, cooldowns | probe, screen, decide, compute | what compute() keeps and what probe() compares are written apart | news fires, an echo does not, nothing stays old |
| Fire of a worker, `substrate_worker/core/base.py`, `tools.py`, `governance/dedupe.py` | `_pending`, `_last_fire_ms`, `_fire_lock`, heartbeat/dedupe key, ledger, projection | fire, coalesce, heartbeat, `/invoke` transients, restart | check-then-act gates around awaits; one key with two writers; PG then Redis | ledger before projection, order kept, nothing accepted is dropped |
| PG breaker, `gates.py` `PgCircuitBreaker` | failures, opened_at, trial flag | should_skip, record_success, record_failure | reports of fires that passed before the outage | open exactly at the threshold, one trial per report |
| Rate limiter, `rate_limit/worker.py` | window start, used weight, pause and ban times | acquire, rollback, record_headers, handle_error | sleeping with the lock while responses change the bucket | what is counted covers what is sent; overshoot bounded |
| Poller, `poller.py`, `interaction_plane/control.py` | symbols, backoff ladder, what telemetry was told | resolve, poll, back off, tell, restart | several limits at once, lost events, death while limited | bans are slept out, a symbol is shown as it is |
| Horizon folds, `runtime/horizons.py`, `base.py` backfill | segments, per venue high-water mark, late counter | fold, prune, restore, backfill, summary to the ledger | overlapping snapshots, crash, upgrade, late rows, two venues in one ring | each trade once, none lost inside the horizon |
| Governance rules, `governance/fsm.py`, `gates.py`, `ledger.py` | denial stream, registry, projections' ages | the three gates, quarantine, `decide_dispatch` | rules derived from a bounded, best-effort log | an outage condemns nobody, hot is spared |
| Dispatch guard, `gates.py`, `dain_container.py` | one lease per plane in Redis | authorize, take, release | three round trips per decision, fail-open, expiry, death | one batch per plane, leases ended by their taker |
| Telemetry kernel, `telemetry_kernel/*` | ledger, projection per plane | emit, rebuild, reduce | read-fold-write in two round trips | projection = fold of the ledger |
| Depth capture, `microstructure/capture.py`, `orderbook.py`, `ofi.py` | local book, last id, quote, OFI interval | connect, bootstrap, splice, apply, gap, reconnect, publish | snapshot and stream race; spot and futures id rules | book exact, each interval exact, quotes forward |
| Tape and replay, `capture.py`, `replay_adapter.py`, `fitting_route_c.py` | live stream, durable table, status ledger | publish, trim, outage, read, label | three reads of a moving window, outages nobody recorded | labels near, outages never bridged, no look-ahead |
| Forward forecasts, `fitting_route_c.py`, `tools_forward.py` | none between calls; the window moves | fit, calibrate, refit, answer | fit and report come from different reads | a distribution is released only by gates it passed |
| Price-impact fits, `fitting_route_a.py`, `_b.py`, `history_adapter.py`, CLI fit | evidence table and projection, canonical rows | fit, derive, record, command | fits travel as dicts between cycles | numbers come from fits that passed; shown is recorded |
| Loop membrane and controller, `nooa_harness/engine/fsm.py`, `controller.py` | (loop, sub-loop, intent), terminal, trace | enter, set task, open/close sub-loop, settle, fail | what an LLM may ask for at each state | only legal transitions |
| Cycle driver, `nooa_harness/engine/core/*` | turns, rounds, budgets, positions, halts | seven stages | repairs, halts, early exits, mirrored calls | every move legal, every cycle ends, cited is evaluated |
| Answer gates, `engine/gates.py`, `core/synthesize.py` | merged view of the turns, outcomes | merge, judge, salvage, assemble, correct | five merge rules over contradicting turns | claims stay, what ships is true or refused |
| Output and record, `core/output.py`, `core/runner.py` | row, `inference.latest`, terminal | deliver, insert, set, settle, update | five steps that fail or die one by one | row before projection, rows honest |
| Failure node, `engine/llm.py`, `failure_substrate` | retry ledger, stream clocks | supervise, classify, retry, mirror | a stream judged chunk by chunk; a shared ledger | recovery bounded, mirror reported |
| Memory, `nooa_harness/memory.py` | row and session stream | remember, recall, forget | two stores, limited reads filtered afterwards | what was stored is recalled, what was forgotten stays out |
| Evidence cache, knowledge base, LLM client, scopes, renderers, other clients | see section 7 | | | not modelled |

`PROJECT.json` "components" lists all of them with their sources and status,
and "hazards" lists what in this code is hard to test, at the line where it
bites, with the properties that would catch it going wrong.

Interactions that cross components: the worker consults the breaker before the
gates and reports to it after its insert (`FireWorker`, `PgBreaker`); the
heavy section of a fire holds a compute slot (`FairSlots`); the invoke of the
dispatch guard builds the transients of `FireWorker` and asks the rules of
`PlaneGovernance`, which read the denials that fires left behind; the fold of a
fire is what the ledger row holds (`HorizonFold`); what the capture of
`DepthBook` publishes is the tape of `ForwardTape`, whose labelled rows
`ForwardForecast` and `ImpactHistory` count; the cycle of `InferenceCycle`
moves under `LoopMembrane`, is judged by the gate of `AnswerGate`, ends in
`OutputStage`, and calls its model through `FailureNode`.

## 3. Modules

Components, in the order of the inventory:

| Module | Models | State <-> code |
|---|---|---|
| `SlotService` | what slots promise: owners and one line of waiters | abstract |
| `FairSlots` | `_FairSemaphore`, `acquire_compute_slot`, `release_compute_slot` | `held`, `queue` = `_held`, `_queue`; `fut` the future of each task; `kill` = granted and then cancelled |
| `InputReader` | the reading loop: both groups, the status wait, `_prev_newest_ms` | `kept`, `given` = the streams and how far each group is (`None`: the group is gone); `batch`, `recovered` the locals of one iteration |
| `DecideCascades` | `decide()`, `screen()`, `probe()` of the eighteen workers | `reading` what a probe would see now, `shown` what its projection was made from, `cooled`, `aged`, `still` the phases of the clocks |
| `AnalysisVerdicts` | the labels of the analysis plane, pure | operators only |
| `FireWorker` | one worker pair: resident loop, its fires, `/invoke` transients | `cursor` the group's last id; `ready` tasks that wait for `_fire_lock`; `cur` its holder; `pending`, `lastFire` = `_pending`, `_last_fire_ms`; `sup` the supervisor key; `ledger`, `latest` PG and Redis |
| `PgBreaker` | `PgCircuitBreaker` and the fires around it | `failures`, `opened`, `trial` = the three fields |
| `RateLimiter` | `SurfaceRateWorker` and `_Rest._get` | `windowStart`, `used`, `pauseUntil`, `banUntil` = `BucketState`; `phase` where each request is |
| `PollerLoop` | `poller.py`'s cycle, its guards and its control key | `ladder` = `current_backoff_s`, `signature` = `telemetry_states`, `rateState` = `rate_limit_state`; `binanceShown`, `symbolShown` what the telemetry holds |
| `HorizonFold` | `fold_trades`, `_prune`, restore, `_backfill_horizons` | `fold` = segments, high-water marks, late; `stream`, `cursor` the raw stream; `row` the newest ledger row |
| `PlaneGovernance` | the rules at the three gates, `record()`, `decide_dispatch` | `denials` the denial stream; `projection` what `substrate.<name>` holds; `govFire` the fire under way; `ticket` the answer to an invoke |
| `DispatchLease` | `authorize_dispatch`, `release_dispatch_lease`, `_invoke_guarded`, both planes | `lease` = the keys' expiry; `pc` where each invoke is |
| `TelemetryKernel` | `emit`, the publish script, `rebuild`, for one subject | `ledger`, `stream`, `view` = the PG rows, the event stream with its markers, the latest projection; `event`, `attempt`, `previous`, `errors` the locals of each `emit` |
| `DepthBook` | `BinanceSpotDepthCapture`, `OrderBookReconstructor`, `OFIAggregator` | `book`, `lastId`, `quote` = the local book; `agg` the interval under way; `published` = `micro.ofi` |
| `ForwardTape` | what capture leaves behind and what a replay reads | `live`, `durableTape`, `statusRows` = the three stores; `tape`, `transitions` what a replay has read |
| `ForwardForecast` | fit, calibration, distribution and answer of the forward tools | `usable` rows of the window, `asked` the tool at work, `said` its answer with what it rests on |
| `ImpactHistory` | the price-impact fits and what of them outlives a cycle | `canonical` the rows, `evidenceRows`, `shown` = `microstructure_evidence` and `micro.evidence` |
| `LoopMembrane` | `engine/fsm.py`, `loop_states.py`, `failure_fsm.py`, pure | operators only |
| `AgenticLoop` | what the membrane promises of any driver | abstract: `obs`, `terminal`, `opened` = the controller |
| `InferenceCycle` | the stages of `engine/core` over the controller | the controller's three, `todo` the moves a stage has still to ask for, and the fields of the cycle's state (`tag`, `turn`, `inPass`, `rounds`, `llm`, `passes`, ...) |
| `AnswerGate` | contract, merge, verdict, salvage, assembly, correction | `view` = the merged interpretation, `stated` every claim made, `shipped` the artifact |
| `OutputStage` | delivery, row, projection, settlement; several processes | `rows` = `canonical_output`, `latest` = `inference.latest`, `errors` = `run_record_errors` |
| `FailureNode` | stream supervision, retry ledger, tool mirror | `stream` the clocks of the supervision, `spent` the ledger, `report` the last failure report |
| `EpisodicMemory` | `memory.py` for agents and commands | `ledger` = `agent_memory`, `entries` the session's stream |

Modules for TLC put components side by side that share no variable; the variable
`part` says which of them a behaviour is about, and the others rest in one of
their initial states: `MCServed` (`FairSlots`, `FireWorker`), `MCGuards`
(`FireWorker`, `PgBreaker`, `RateLimiter`, `PollerLoop`), `MCWorkers`
(`HorizonFold`, `DecideCascades`, `InputReader`), `MCPlane` (`PlaneGovernance`,
`DispatchLease`, `TelemetryKernel`, `DepthBook`), `MCEngine` (`AnswerGate`,
`OutputStage`, `FailureNode`, `ForwardTape`, `ForwardForecast`,
`ImpactHistory`, `EpisodicMemory`), and `MCInferenceCycle`. `MCAnswerGate` and
`MCImpactHistory` hold data that `MCEngine` uses. The theorems are in eight
modules (section 5).

Variables marked *history* in a module do not exist in the code; they remember
what a property has to talk about (which weight was reserved in a window, who
set a lease) and no guard reads them. Operators marked *mutant* are not used by
any specification: each is a plausible mistake in the definition that follows
it, and `PROJECT.json` "mutants" pairs it with the property that notices. A few
properties are defined and belong to no run: most of them TLC refutes, and
section 6 names these.

Points of correspondence worth knowing when reading the code beside a module:

* **InputReader.** Reads are without acknowledgement: a batch is gone when the
  iteration it came in fails. A group recreated at "0" is given the kept stream
  again, so time goes back and a rollover may be asked twice. The status stream
  is read from "$" and only while blocked, so a transition at any other time is
  missed. Cold starts and early fires do not update `_prev_newest_ms`.
* **DecideCascades.** A reading is what an input looks like to the thresholds a
  probe compares; a worker moves between two of them, so that a change and its
  reversal are both seen. Every cooldown is shorter than the staleness bound
  beside it, which is why the clocks are three flags.
* **FireWorker.** `Handle` is `_read_once` and `decide` up to `_fire`: no await
  lies between the rows' arrival and the decision. What triggers a decision is a
  choice, bound by the cascade's own guards (`MayFire`). `Dedupe` and `Beat`
  write the same key, as in the code. `LoopQuiet` says that asyncio runs every
  ready task before it polls for I/O again. A transient has no governor: it
  skips the fire gate and both publish gates (`tools.py:66`).
* **RateLimiter.** The mutex is implied: a coroutine that sleeps in `acquire`
  holds it, every other use begins and ends within a step.
* **PollerLoop.** `PollSymbol`, `PollFails` and `RateLimited` are the ends one
  symbol's poll may have; `gather` leaves the others running when one raises. The signature of a status is stored whether or
  not its event arrived. A death forgets the ladder and the signatures.
* **HorizonFold.** A segment's totals are the set of trades it adds up, so
  "counted twice" and "in the wrong segment" are visible; a segment is `SegLen`
  time units, a snapshot holds the newest `SnapLen` ids per venue. `setBack` is
  history: TRUE once a restart lost the fold, a schema upgrade discarded it, or
  a backfill read its window in vain after the ledger's row was put back.
* **PlaneGovernance.** An observation is the set of rules it breaks; rules no
  payload of `SubstrateStatePayload` can break keep their place in the order and
  never fire. The quarantine reads the newest `DenialsRead` denials.
* **DispatchLease.** One substrate per plane; `decide_dispatch` is "due or not"
  because a batch that is not empty takes the lease whatever its size.
* **TelemetryKernel.** The order of events is total, so an event is its rank; a
  projection is the rank of its last event and its `event_count`. Markers last
  thirty days and the stream ten thousand events: neither expires here.
  `rebuild` reads the oldest `Limit` rows of the ledger or, without PostgreSQL,
  the newest of the stream, as the two readers do.
* **DepthBook.** The exchange is external: `hist[n]` is its book at update id n,
  a frame carries the levels that changed since `pu`. One side of the book; the
  other is its mirror image. `feed` is every frame the exchange sent, with its
  time; the truth about an interval is the changes of the exchange's best quote
  from frame to frame in it (`MovesIn`, `Tells`). A frame is named by its index,
  and a list of frames by their set, the order being that of the indices.
* **ForwardTape.** Events are named by their time, with one clock for exchange
  and host. "blind" is a capture that loses frames without noticing.
* **ForwardForecast, ImpactHistory.** Rows are counted, and what the arithmetic
  finds in them is any outcome the gates tell apart.
* **InferenceCycle.** One coroutine, so its nondeterminism is all external: what
  the model answers, how a tool ends, what the gate misses. `todo` is the
  sequence of governed moves a stage makes; each is asked of the membrane, which
  may deny it.
* **AnswerGate.** A claim is a path and a value; the model may state any value
  of the turns given to the instance, in any order. `view` is `merge_interpretation`
  applied turn by turn.
* **FailureNode.** Time is ticks within one call, one stream event at a time.
* **EpisodicMemory.** A memory is its number in the order of `created_at`. Redis
  keeps the newest `StreamKeeps` entries and may evict the stream; a recall reads
  `LiveReach` entries, or `DurableReach` rows if the stream gives nothing, and
  filters them afterwards, as the code does with its multiples of the limit.

## 4. The runs

All runs explore their bounded state space completely with two TLC workers in
under five minutes. Deadlock checking is off where a bound ends the model
(a clock, the polls, the connections, a cycle's end); it is on in `served`,
where nothing may stop. Every property of a passing run is about a hazard of
`PROJECT.json`.

| Run | Instance | Shows |
|---|---|---|
| `served` | 5 tasks and 2 slots; a resident worker, 3 ticks, a crash | `WaitersServed`, `DecisionsServed`: nobody who waits is forgotten; `ImplementsService`: the futures and the deque are a plain first-come-first-served line |
| `guards` | a resident and a transient under `pg_strict`; 3 fires, threshold 2; 3 requests, ceiling 2; 2 symbols, one restart | `LedgerCoversProjection`, `ProjectionMonotone` while no transient has started; `OnePassPerReport`; `CountsWhatIsIssued`, `OvershootBounded`; `BanSleptOut`, `SymbolShownTrue` |
| `breaker_carrier` (violation) | the same | `TrialHasCarrier` fails: a trial that ends unreported leaves the breaker open |
| `workers` | two venues, 2 trades each, all four faults; 18 cascades; 2 groups, one grid of periods | `FoldedOnce`, `NothingLost`; `NoEcho`, `NeverOld`; `BoundaryHeard` |
| `plane` | 2 substrates and a stranger; two invokes of one plane and one of the other; 2 emitters and a rebuild; 2 prices, both venues, 4 update ids, 2 connections | `OutageRefusesNothing`; `OneBatchPerPlane`; `ViewNewest`, `CountHonest`, `NoSilentLoss`; `BookExact`, `IntervalsExact`, `QuoteForward` |
| `dispatch_cross` (violation) | the same | `OneBatchAcrossPlanes` fails: EXISTS and SET are two round trips |
| `dispatch_hot` (violation) | the same | `HotIsSpared` fails: the guard looks for an age where no projection has it |
| `cycle` | 3 tools over two positions, a model that answers anything of 3 turns, one retry, one repair | `DataIsEvaluated`, `PositionsEarned`; `ImplementsMembrane`: the driver implements `AgenticLoop`; `CycleEnds` |
| `engine` | turns that contradict and omit; 2 cycles of one symbol; streams of 5 ticks; one outage; all horizons; 2 fit commands; a writer and a reader | `ClaimsStay`, `ShippedTrue`, `RefusalStands`; `RecordFirst`, `RowsHonest`; `RecoveryBounded`, `MirrorReported`; `LabelsNear`, `OutageNeverBridged`; `DistributionEarned`; `NumbersEarned`, `ShownIsRecorded`; `StoredIsRecalled` |
| `lookahead` (violation) | `ForwardTape` alone | `NoLookahead` fails: features come from an interval aggregated over its whole length |
| `depth_unidentified` (violation) | `ImpactHistory`, 3 blocks, 2 depths | `DepthIdentified` fails: earlier fits are looked for where no cycle puts them |
| `forgotten` (violation) | `EpisodicMemory` alone | `ForgottenStaysOut` fails: the copy meant as a tombstone is a live one |

**Bounds.** Every bound is a constant named `Max...` (or a time, `LastTick`) and
appears in guards only. What they have to allow:

* `served`: a cancelled waiter queued in front of a live one while both slots
  are held takes four tasks; with five a second cancelled one fits between them.
  The decisions need two coalesced tasks behind a running fire and a clock value
  beyond the cooldown.
* `guards`: a fire that runs, one coalesced behind it and a task that waits for
  the lock need `MaxReady = 2` and two clock values; two fires that passed before
  the outage open the breaker (threshold 2), a third is the trial while the
  others' reports are late; a window with two reservations, one that dies and is
  rolled back in the next window while a third request sleeps, and `MaxServer`
  lets a header exceed what was reserved; one symbol limited beside one banned,
  then a death.
* `workers`: two segments and a horizon of one, windows that overlap, a batch
  that spans the boundary; each cascade with two readings; entries on both sides
  of a period's boundary and a group recreated between them.
* `plane`: a denial that displaces another in what is read back
  (`DenialsRead = 1`, `MaxDenials = 2`); a lease that lapses
  (`LeaseS < MaxLeaseClock`), two invokes that compete for one plane; two folds of
  one predecessor, a late event between two others, an event emitted twice, a
  rebuild that does not see all rows; a snapshot older and one newer than the
  buffered frames, a lost frame between two that arrive, an interval before,
  across and after a reconnect.
* `cycle`: a repair round after a halt with its reform, within `MaxTurns = 7` and
  `MaxRounds = 3`; the audit is the one chain link that lives in validation.
* `engine`: a reasoning turn, a correction that contradicts it and a final one;
  two cycles whose five steps interleave; a stream that reaches each of the three
  bounds (`Gap < Deadline < Cap`); horizons shorter and longer than the outage;
  row counts on both sides of every threshold of the forward fit; prior fits at
  and below `MinDepthBlocks`; a recall that reads one entry more than its limit.

**Symmetry** is used for the requests of `guards`, which are interchangeable; no
liveness is checked there.

**Fairness.** `FairSlots` assumes that the loop resumes a task whose future is
done and that a heavy section ends: its round trips carry timeouts (`base.py`
wraps the PG insert in ten seconds; the Redis and HTTP clients have their own).
Asking and cancelling are nobody's duty. `FireWorker` assumes weak fairness of
each core's loop and of its fire task, i.e. that a living process moves on: the
blocking read returns after `read_block_ms` at the latest. Time, arrivals,
crashes and restarts are not fair, nor is any outcome of a round trip; a crash
therefore counts as an end in `DecisionsServed`. `InferenceCycle` assumes that
the cycle's coroutine goes on (`WF_vars(Next)`): each model call and each tool
has a deadline, after which it counts as failed; which of the outcomes it is,
nothing assumes.

## 5. The proofs

TLAPS proves, for every value of the constants that satisfies the modules' named
assumptions, every safety property that a passing run checks, and both
refinements. For each component the work is one inductive invariant:
`Init => IInv`, `IInv /\ [Next]_vars => IInv'` with one step per action, and the
properties as its consequences. Every `IInv` was first checked by TLC on the
instance of the run. The names below are those of `PROJECT.json` "theorems".

* **FairSlotsProofs.** `TypeCorrect`, `SlotsAccounted`, `SlotsBounded`,
  `SlotsNeverIdle`, `SlotsInOrder`, and `LineKept`: `FairSlots` implements
  `SlotService`. The counter alone is not inductive: the invariant relates it to
  the owners and adds that a waiter has a future, the queue holds each waiter
  once, every pending future is queued, only granted tasks are killed, and a
  non-empty queue means all slots are owned. The last is what the fast path's
  `queue = <<>>` test preserves, and what makes `release` the only place where a
  slot can become free. For the refinement, who is ahead of a
  waiter are the tasks before it in the deque whose futures are pending; every
  step is one of the line's, or none.
* **FireWorkerProofs**, the worker. *Fires*: `TypeCorrect`, `LedgerFirst` (under
  `pg_strict`), `ProjectionForward`. A fire about to publish has its stamp in the
  ledger (`InsertedFirst`), and a governed fire past a publish gate is not older
  than the projection (`PassedInOrder`), because one lock serialises the fires of
  a core and, while no transient has run, nobody else writes. *Reader*:
  `BoundariesHeard`, from `NewestBehind`: once the rollover was asked, the
  entry to compare with is not newer than the newest decided on. *Folds*: `CountedOnce` and `NothingIsLost`. The invariant
  says of the stream that each snapshot divides the tape at its time, none knows
  less than one before it, and each reaches back to the one before it
  (`StreamOK`); of a fold that each trade lies in the segment of its time, once,
  and none above the high-water mark (`FoldOK`); and of a fold that was never set
  back, and of its row, that it holds all of its first venue up to the mark
  (`Sound`).
* **GuardProofs.** *Breaker*: `OpenExactlyAtThreshold`, `NoStampede`,
  `TrialMarksOpen`, inductive together. *Limiter*: `BucketHonest`,
  `CeilingHolds`, `SleepersAlone`; a coroutine that sleeps for the window wakes
  no earlier than it ends (`GateWaitsForWindow`), without which its reset would
  wipe reservations of a window that is still on. *Poller*: `BansSleptOut`,
  `SymbolsShownTrue`; what is left of a ban never exceeds the sleep ahead, or what one of the
  collected errors asks for (`BanCovered`), and what a process told last of a
  symbol is what became of it (`ToldTrue`). *Cascades*: `NothingEchoed`,
  `NothingOld`, for all eighteen workers; each probe is compared with what its
  own compute() keeps, reading by reading.
* **DispatchLeaseProofs.** *Leases*: `TypeCorrect`, `OwnPlaneMutex`,
  `OwnLeaseOnly`. While nothing went wrong, the invokes between SET and DEL are
  the lease's holders and a plane has at most one (`Calm`). *Rules*:
  `OutagesRefuseNothing`: a denial that counts for the quarantine is of a
  substrate of which an unsound build ran (`DenialsKnown`).
* **TelemetryKernelProofs.** `TypeCorrect`, `ProjectionNewest`, `CountTrue`,
  `DegradedSurfaced`, `EmissionsForward`. The script takes the fold as it comes,
  so the invariant says of every projection an emitter holds, and of the replay
  about to be written, what is to hold of the one in Redis: it counts no more
  events than are known up to its last (`FoldsHonest`) and, until a rebuild, is
  not newer (`ReadsBehind`).
* **DepthBookProofs.** `TypeCorrect`, `LiveBookExact`, `GapsAreReal`,
  `QuotesForward`: the exchange's frames are chained and carry all changes since
  `pu` (`FeedOK`), so that a frame applied to a book exact at an id in `pu..u`
  yields the exact book at `u` (`FrameReaches`), be it the bridge or a later one.
  `IntervalsTrue` needs a second invariant over the first, `CollectsInv`: frames
  come in the order of their times, a spot book that missed one has it ahead and
  will refuse the next, the quote is the book's best, and the interval under way
  holds exactly the moves of its time so far while none came after it
  (`Collecting`). That a sequence tells a set of frames (`Tells`) is by rank: its
  i-th event is of the frame with i of the set at or below it; the lemmas on
  cardinalities say what one more frame adds.
* **CycleProofs.** `CitedIsEvaluated`, `TrackEarned`, `GatePassesSound`;
  `MovesAllowed`: no stage asks for a move the membrane denies, by the route a
  cycle takes (`Route`: at each place of a stage, where the controller stands and
  which moves are still to come); `ControllerObeys`: `InferenceCycle` implements
  `AgenticLoop`.
* **EngineProofs.** *Output*: `RowsBeforeProjection`, `RowsTold`, from what a
  cycle's terminal, delivery, row and projection are at each of its five steps
  (`EndingAt`, `SentAt`, `RowAt`, `LatestAt`), for any number of cycles. *Failure
  node*: `RecoveriesBounded`, `MirrorsReported`: the ledger counts exactly the
  calls beyond the narrations, and a stream outlives its cap by no more than a
  gap. *Tape*: `LabelsAreNear`, `OutagesNotBridged`, from `LossIsLoss`: nothing
  inside an outage is in any store. *Forecasts*: `ProbabilitiesEarned`,
  `ExtrapolationsMarked`. *Fits*: `DerivedNumbersEarned`,
  `EvidenceShownIsRecorded`. *Gate*: `ClaimsKept`, `ShippedIsTrue`,
  `RefusalsStand`: the recursive function that merges a turn into the view keeps
  every claim with a value, in five cases, and from then on the invariant carries
  what the verdict found through salvage, assembly and correction. *Memory*:
  `StoredRecalls`: rows are never unmade, and every entry of the stream is of a
  row and live.

**Assumptions** are the named `ASSUME`s of the component modules, which TLC
evaluates on every run: types and positivity of constants, and where the code
gives more: a weight fits the ceiling, a plane's tools are either its own or
strangers, a deadline is within the cap, symbols such as `None` are none of the
values they stand beside, and the turns a model may make have their fields.

**Only model-checked.** `WaitersServed`, `DecisionsServed` and `CycleEnds`:
liveness under fairness is beyond the prover, as is ENABLED. The violation runs
have nothing to prove. Induction over data is out of reach, because the library's
induction theorems take an operator as a parameter; where a module needed a
recursive definition it is a function, and where a proof needed what it computes
for every input, the definition is stated without recursion (sets of frames and
their ranks instead of selected sequences, `NewestOf` instead of a sort) or the
existence of the function follows from well-foundedness of the naturals.

## 6. Where code and text part

Six runs of kind *violation* check a sentence of the repository that the code
does not keep; `PROJECT.json` "findings" quotes them. Other disagreements met
while modelling, which the passing runs' properties are stated around:

*Worker, stores and guards*

* The heartbeat replaces the supervisor key, in which the dedupe script keeps
  its last condition, after every read cycle (`supervisor.py:105`); the same
  condition twice in a row is then let through, against
  `governance/dedupe.py:5`. The dedupe's SET in turn removes the heartbeat's TTL
  (`governance/dedupe.py:39` against `docs/SUBSTRATE_WORKER_SPEC.md:204`).
* `/invoke` transients have no governor (`substrate_worker/tools.py:66`), so
  "a projection must not move backwards" (`governance/fsm.py:312`) holds only
  while none is about.
* A failed insert rewinds `_last_fire_ms` to its own decision's time
  (`substrate_worker/core/base.py:820`), which ends a newer cooldown early.
* The first boundary after a cold start is unasked, a decision that raises after
  the rollover was asked loses the boundary, and a capture's recovery is heard
  only while the reader is blocked (`substrate_worker/core/reader.py:257`). Hence
  the limits of `BoundaryHeard`.
* A late report of an old fire clears the trial of the breaker
  (`governance/gates.py:177` against `:133`); hence "per report".
* `rollback` takes weight off whatever window is on (`rate_limit/worker.py:132`
  against `:5`); the ban is looked at before the sleeps only (`:90` against
  `rate_limit/contracts.py:19`).
* Spot is folded before futures (`substrate_worker/core/base.py:594`, `:670`), so
  a batch across a segment boundary drops futures trades as late; a restart beside
  a surviving projection never backfills (`base.py:341` against `:206`); a
  backfill whose window cannot be read after the row was restored leaves what came
  in between unfolded; after a schema upgrade the rows are folded before the
  backfill (`base.py:352` against `docs/HORIZON_RETENTION_SPEC.md:318`). Hence
  `setBack`.
* An overheated verdict of the demand analysis is unreachable
  (`analysis/demand.py:201`), and so is PROACTIVE of the open interest one
  (`analysis/oi.py:71`). Walls keyed by price come back from JSON as strings, so
  that every re-fire looks like a change of walls (`analysis_worker/wall_migration_worker.py:103`;
  `RefireIsNoCause`), hence `NoEcho` leaves that worker out. A flip of one horizon
  alone is not heard (`substrate_worker/delta_worker.py:256`; `HorizonFlipHeard`), and
  a stored snapshot can make every fire of the signals worker fail (`NoFailLoop`).
  These three are defined and refuted.
* The quarantine reads the newest denials only: it ends early behind twenty
  others and outlasts a repaired binding (against `governance/fsm.py:36`). The
  dispatch guard fails open and the publish gates fail closed, as documented.
* A lease lapses after `DISPATCH_LEASE_S` whether or not its batch is over, and
  DEL removes whoever's it is (`governance/gates.py:484` against `:480`).
* A poller that dies while limited, or whose event is lost, leaves rate_limited
  on show (`LimitNotStale`, defined and refuted); hence `SymbolShownTrue` speaks
  of symbols. The tool executor's liveness gate reads the control key else
  `SYMBOLS`, the poller `POLL_SYMBOLS` in between.
* `rebuild` reads rows in ascending order up to a limit
  (`runtime/postgres_store.py:865`), and `commands/telemetry.py:115` calls it
  with 50 by default: for a longer history it puts an old state in the
  projection's place, which "retains only the newest accepted state"
  (`telemetry_kernel/projections.py:21`). Hence "until a rebuild".

*Capture and fits*

* A futures frame that is lost is not noticed, as `pu` is never looked at
  (`microstructure/orderbook.py:81`); hence `BookExact` speaks of futures while
  no frame was lost.
* The first OFI interval after a bootstrap holds only what came after it, and
  is labelled "exact_feed" like any other; `IntervalsExact` leaves it out.
* A gap of less than the bound that begins at the target is bridged
  (`NeverBridged`); training targets may share the quote of held-out rows; an
  assembled forecast says "validated" when calibration passed even where the
  distribution was refused (`ProbabilityEarned`).

*Engine*

* Equality and directive misses never fail the verdict; an evidence entry marked
  evaluated with an "unevaluable" reading passes (`VerdictObeysDerivation`);
  salvage lets any chain gap but the audit's pass (`PassesWithoutGap`).
* The staged final ships unassembled when synthesis fails; receipts of a degraded
  output are dropped, and a failed projection is not among the row's errors
  (`NothingHidden`). A cycle that dies leaves its row pending settlement, and of
  two that overlap the older may overwrite the newer's `inference.latest`.
* The mirror of a tool call never spends a retry of its own, and a cycle goes on
  when it fails.
* forget() takes any id and answers success; what it appends is the live copy
  the `forgotten` run shows. A remember whose row exists may report "not stored".

## 7. Not modelled

Numeric computations (calculations, the arithmetic of the fits, signals beyond
what a probe compares), payload formats, key construction, HTTP and CLI parsing,
prompts and answer texts, deployment scripts: no state that outlives a call, or
pure I/O. `calculations/composition.py` has no production caller. The evidence
cache memoises reads whose owners nobody cancels. The knowledge base is
append-only text, and the LLM is an external oracle that answers anything or
nothing. The warm loop of the poller, `raw_window.py`'s overlay, governance's
`self_check`, ns.read and the order-flow tools are parts left out of components
that are otherwise modelled; `PROJECT.json` "components" says so at each.

## 8. Plan

Modelled and, where safety is concerned, proved: everything of section 3. Next:

1. Theorems about properties that are defined and belong to no run:
   `TicketSound` of `PlaneGovernance`, `TurnsBounded` of `InferenceCycle`,
   `NothingStale` of `HorizonFold`.
2. Shorter proofs of the folds: the lemmas on rising sequences and their
   segments, which `FoldInvariance` needs for each venue, in a common form.
3. Compositions: a fire with its breaker and its slot in one module, whose
   theorems would join those of `FireWorkerProofs` and `GuardProofs`.
4. The knowledge base and its merges, the warm loop, and the tools left out.
