------------------------------ MODULE PgBreaker ------------------------------
(***************************************************************************)
(* PgCircuitBreaker (governance/gates.py), the one breaker that all the    *)
(* PG-backed workers of a process share, and the fires that go by it.  A   *)
(* fire consults it in _fire, before the gates, with the time of its       *)
(* decision; it reports from _fire_guarded, after its insert, with that    *)
(* same time.  In between lie the gates, the dedupe, the slot, the compute *)
(* and the publish gates, and at any of them the fire may end unreported.  *)
(***************************************************************************)
EXTENDS Integers, FiniteSets

CONSTANTS
    Fires,       \* fires that can be under way at a time
    Threshold,   \* SUBSTRATE_PG_BREAKER_THRESHOLD
    CooldownMs,  \* SUBSTRATE_PG_BREAKER_COOLDOWN_S
    MaxBreakerClock,    \* bound: the breakerClock stops here
    MaxFailures  \* bound: the failure counter

ASSUME BreakerAssumption ==
    /\ Threshold \in Nat \ {0}
    /\ CooldownMs \in Nat \ {0}
    /\ MaxBreakerClock \in Nat
    /\ MaxFailures \in Nat

VARIABLES
    breakerClock,
    failures,
    opened,   \* opened_at_ms
    trial,    \* trial_in_flight
    stage,    \* per fire: not under way, or past the breaker
    stamp,    \* per fire: the time of its decision
    carries,  \* history: the fire was let through as the trial
    passes    \* history: fires let through since the last report, breaker open

breakerVars == <<breakerClock, failures, opened, trial, stage, stamp, carries, passes>>

None == -1    \* opened_at_ms is None

BreakerTypeOK ==
    /\ breakerClock \in 0..MaxBreakerClock
    /\ failures \in Nat
    /\ opened \in 0..MaxBreakerClock \cup {None}
    /\ trial \in BOOLEAN
    /\ stage \in [Fires -> {"idle", "passed"}]
    /\ stamp \in [Fires -> 0..MaxBreakerClock]
    /\ carries \in [Fires -> BOOLEAN]
    /\ passes \in Nat

BreakerInit ==
    /\ breakerClock = 0
    /\ failures = 0
    /\ opened = None
    /\ trial = FALSE
    /\ stage = [f \in Fires |-> "idle"]
    /\ stamp = [f \in Fires |-> 0]
    /\ carries = [f \in Fires |-> FALSE]
    /\ passes = 0

-----------------------------------------------------------------------------
breaker == <<failures, opened, trial, passes>>

BreakerTick ==
    /\ breakerClock < MaxBreakerClock
    /\ breakerClock' = breakerClock + 1
    /\ UNCHANGED <<breaker, stage, stamp, carries>>

(* should_skip: what it answers, and that a lapsed cooldown marks a trial. *)
ShouldSkipNoTrial(now) ==   \* mutant: a lapsed cooldown lets everyone by
    opened # None /\ now - opened < CooldownMs

ShouldSkip(now) ==
    opened # None /\ (now - opened < CooldownMs \/ trial)

Consult(f) ==
    /\ stage[f] = "idle"
    /\ ~ShouldSkip(breakerClock)
    /\ trial' = (trial \/ opened # None)
    /\ passes' = IF opened = None THEN passes ELSE passes + 1
    /\ stage' = [stage EXCEPT ![f] = "passed"]
    /\ stamp' = [stamp EXCEPT ![f] = breakerClock]
    /\ carries' = [carries EXCEPT ![f] = opened # None]
    /\ UNCHANGED <<breakerClock, failures, opened>>

Leave(f) ==
    /\ stage[f] = "passed"
    /\ stage' = [stage EXCEPT ![f] = "idle"]
    /\ carries' = [carries EXCEPT ![f] = FALSE]
    /\ UNCHANGED <<breakerClock, stamp>>

(* A denied gate, a dedupe hit, a coalesced decision that a newer one      *)
(* overwrites, a compute error, a denied publish, a cancelled task: the    *)
(* fire is over and the breaker never hears of it.                         *)
Unreported(f) ==
    /\ Leave(f)
    /\ UNCHANGED breaker

RecordSuccess ==
    failures' = 0 /\ opened' = None /\ trial' = FALSE /\ passes' = 0

RecordFailure(now) ==
    /\ failures < MaxFailures
    /\ failures' = failures + 1
    /\ trial' = FALSE
    /\ opened' = IF failures' >= Threshold THEN now ELSE opened
    /\ passes' = 0

InsertSucceeds(f) == Leave(f) /\ RecordSuccess
InsertFails(f)    == Leave(f) /\ RecordFailure(stamp[f])

(* A cold start that reads its horizon folds back from the ledger reports  *)
(* too, without having asked.                                              *)
RestoreSucceeds == RecordSuccess /\ UNCHANGED <<breakerClock, stage, stamp, carries>>
RestoreFails    == RecordFailure(breakerClock) /\ UNCHANGED <<breakerClock, stage, stamp, carries>>

BreakerNext ==
    \/ BreakerTick \/ RestoreSucceeds \/ RestoreFails
    \/ \E f \in Fires : Consult(f) \/ Unreported(f) \/ InsertSucceeds(f) \/ InsertFails(f)

BreakerSpec == BreakerInit /\ [][BreakerNext]_breakerVars

-----------------------------------------------------------------------------
(* The two ways the code asks "is it open" agree: the stamp is there       *)
(* exactly while the count is at the threshold, whatever the order in      *)
(* which fires that passed earlier report.                                 *)
OpenAtThreshold == opened # None <=> failures >= Threshold

(* Between two reports an open breaker lets one fire by at the most, and   *)
(* marks it: recovery never stampedes (gates.py:134).                      *)
OnePassPerReport == passes = (IF trial THEN 1 ELSE 0)

(* The mark only exists on an open breaker; a closed one that carried it   *)
(* would refuse the first trial of the next outage.                        *)
TrialOnlyWhenOpen == trial => opened # None

(* "A denial burns nothing" (base.py:491): a trial that is marked is still *)
(* under way somewhere, and so will report.                                *)
TrialHasCarrier == trial => \E f \in Fires : carries[f]

=============================================================================
