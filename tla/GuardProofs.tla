----------------------------- MODULE GuardProofs -----------------------------
(***************************************************************************)
(* What stands between a plane and the services it uses, proved: the       *)
(* breaker before PostgreSQL, the limiter before the exchange, the         *)
(* poller's own patience with it, and the cascade by which a worker decides *)
(* whether to compute at all.                                              *)
(***************************************************************************)
EXTENDS PgBreaker, RateLimiter, PollerLoop, DecideCascades, TLAPS

-----------------------------------------------------------------------------
(* The breaker: its own state stays consistent for every number of fires,  *)
(* threshold and cooldown, however late the fires report.                  *)

BreakerIInv == BreakerTypeOK /\ OpenAtThreshold /\ OnePassPerReport /\ TrialOnlyWhenOpen

USE BreakerAssumption

LEMMA BreakerInitInv == BreakerInit => BreakerIInv
  <1> SUFFICES ASSUME BreakerInit PROVE BreakerIInv
    OBVIOUS
  <1>1. BreakerTypeOK
    <2>1. breakerClock \in 0..MaxBreakerClock /\ failures \in Nat /\ passes \in Nat
          /\ opened \in 0..MaxBreakerClock \cup {None} /\ stamp \in [Fires -> 0..MaxBreakerClock]
      BY DEF BreakerInit
    <2>2. trial \in BOOLEAN /\ carries \in [Fires -> BOOLEAN]
          /\ stage \in [Fires -> {"idle", "passed"}]
      BY DEF BreakerInit
    <2> QED
      BY <2>1, <2>2 DEF BreakerTypeOK
  <1>2. OpenAtThreshold /\ OnePassPerReport /\ TrialOnlyWhenOpen
    BY DEF BreakerInit, OpenAtThreshold, OnePassPerReport, TrialOnlyWhenOpen, None
  <1> QED
    BY <1>1, <1>2 DEF BreakerIInv

(* The types of what a report does not touch.                              *)
LooseTypes ==
    /\ breakerClock \in 0..MaxBreakerClock
    /\ stage \in [Fires -> {"idle", "passed"}]
    /\ stamp \in [Fires -> 0..MaxBreakerClock]
    /\ carries \in [Fires -> BOOLEAN]

(* A fire that is over: the types of what it leaves behind.                *)
LEMMA LeaveTypes ==
    ASSUME BreakerTypeOK, NEW f \in Fires, Leave(f)
    PROVE  /\ breakerClock' \in 0..MaxBreakerClock
           /\ stage' \in [Fires -> {"idle", "passed"}]
           /\ stamp' \in [Fires -> 0..MaxBreakerClock]
           /\ carries' \in [Fires -> BOOLEAN]
           /\ stamp[f] \in 0..MaxBreakerClock
  BY DEF BreakerTypeOK, Leave

LEMMA BreakerStepInv == BreakerIInv /\ [BreakerNext]_breakerVars => BreakerIInv'
  <1> SUFFICES ASSUME BreakerIInv, [BreakerNext]_breakerVars PROVE BreakerIInv'
    OBVIOUS
  <1>0. BreakerTypeOK /\ failures \in Nat /\ passes \in Nat /\ breakerClock \in Nat
    BY DEF BreakerIInv, BreakerTypeOK
  <1>1. CASE BreakerTick
    <2>1. BreakerTypeOK'
      BY <1>1 DEF BreakerIInv, BreakerTypeOK, BreakerTick, breaker
    <2> QED
      BY <1>1, <2>1 DEF BreakerIInv, OpenAtThreshold, OnePassPerReport, TrialOnlyWhenOpen, BreakerTick, breaker
  <1>2. ASSUME NEW f \in Fires, Consult(f) PROVE BreakerIInv'
    <2>1. trial' \in BOOLEAN /\ passes' \in Nat
      BY <1>0, <1>2 DEF Consult
    <2>2. carries' \in [Fires -> BOOLEAN] /\ stage' \in [Fires -> {"idle", "passed"}]
          /\ stamp' \in [Fires -> 0..MaxBreakerClock]
      BY <1>0, <1>2 DEF Consult, BreakerTypeOK
    <2>3. BreakerTypeOK'
      BY <1>2, <2>1, <2>2 DEF BreakerIInv, BreakerTypeOK, Consult
    <2>4. CASE opened = None
      BY <1>2, <2>3, <2>4 DEF BreakerIInv, OpenAtThreshold, OnePassPerReport, TrialOnlyWhenOpen, Consult
    <2>5. CASE opened # None
      <3>1. ~trial
        BY <1>2, <2>5 DEF Consult, ShouldSkip
      <3>2. passes = 0
        BY <3>1 DEF BreakerIInv, OnePassPerReport
      <3>3. trial'
        BY <1>2, <2>5, Zenon DEF Consult
      <3>4. passes' = 1 /\ opened' = opened /\ failures' = failures
        BY <1>2, <2>5, <3>2 DEF Consult
      <3> QED
        BY <2>3, <2>5, <3>3, <3>4 DEF BreakerIInv, OpenAtThreshold, OnePassPerReport, TrialOnlyWhenOpen
    <2> QED
      BY <2>4, <2>5
  <1>3. ASSUME NEW f \in Fires, Unreported(f) PROVE BreakerIInv'
    BY <1>0, <1>3, LeaveTypes DEF BreakerIInv, BreakerTypeOK, OpenAtThreshold, OnePassPerReport,
       TrialOnlyWhenOpen, Unreported, breaker
  <1>4. ASSUME RecordSuccess, LooseTypes' PROVE BreakerIInv'
    <2>1. trial' \in BOOLEAN
      BY <1>4, Zenon DEF RecordSuccess
    <2>2. BreakerTypeOK'
      BY <1>4, <2>1 DEF BreakerTypeOK, LooseTypes, RecordSuccess
    <2> QED
      BY <1>0, <1>4, <2>2 DEF BreakerIInv, OpenAtThreshold, OnePassPerReport, TrialOnlyWhenOpen,
         RecordSuccess
  <1>5. ASSUME NEW now \in 0..MaxBreakerClock, RecordFailure(now), LooseTypes' PROVE BreakerIInv'
    <2>1. failures' \in Nat /\ passes' \in Nat /\ now # None
      BY <1>0, <1>5 DEF RecordFailure, None
    <2>2. trial' \in BOOLEAN
      BY <1>5, Zenon DEF RecordFailure
    <2>3. opened' \in 0..MaxBreakerClock \cup {None}
      BY <1>0, <1>5 DEF BreakerTypeOK, RecordFailure
    <2>4. BreakerTypeOK'
      BY <1>5, <2>1, <2>2, <2>3 DEF BreakerTypeOK, LooseTypes
    <2>5. OpenAtThreshold'
      BY <1>0, <1>5, <2>1 DEF BreakerIInv, OpenAtThreshold, RecordFailure
    <2> QED
      BY <1>5, <2>4, <2>5 DEF BreakerIInv, OnePassPerReport, TrialOnlyWhenOpen, RecordFailure
  <1>6. ASSUME NEW f \in Fires, InsertSucceeds(f) PROVE BreakerIInv'
    BY <1>0, <1>4, <1>6, LeaveTypes DEF InsertSucceeds, LooseTypes
  <1>7. ASSUME NEW f \in Fires, InsertFails(f) PROVE BreakerIInv'
    BY <1>0, <1>5, <1>7, LeaveTypes DEF InsertFails, LooseTypes
  <1>8. ASSUME RestoreSucceeds PROVE BreakerIInv'
    BY <1>0, <1>4, <1>8 DEF RestoreSucceeds, LooseTypes, BreakerTypeOK
  <1>9. ASSUME RestoreFails PROVE BreakerIInv'
    BY <1>0, <1>5, <1>9 DEF RestoreFails, LooseTypes, BreakerTypeOK
  <1>10. CASE UNCHANGED breakerVars
    BY <1>10 DEF breakerVars, BreakerIInv, BreakerTypeOK, OpenAtThreshold, OnePassPerReport, TrialOnlyWhenOpen
  <1> QED
    BY <1>1, <1>2, <1>3, <1>6, <1>7, <1>8, <1>9, <1>10 DEF BreakerNext

(* The inductive invariant: the three facts hold each other up, since a    *)
(* report has to clear the mark, the stamp and the count together.         *)
THEOREM BreakerInvariance == BreakerSpec => []BreakerIInv
  BY BreakerInitInv, BreakerStepInv, PTL DEF BreakerSpec

(* opened_at_ms is set exactly while the failures are at the threshold.    *)
THEOREM OpenExactlyAtThreshold == BreakerSpec => []OpenAtThreshold
  <1>1. BreakerIInv => OpenAtThreshold
    BY DEF BreakerIInv
  <1> QED
    BY <1>1, BreakerInvariance, PTL

(* An open breaker lets at most one fire by between two reports.           *)
THEOREM NoStampede == BreakerSpec => []OnePassPerReport
  <1>1. BreakerIInv => OnePassPerReport
    BY DEF BreakerIInv
  <1> QED
    BY <1>1, BreakerInvariance, PTL

(* Only an open breaker has a trial marked.                                *)
THEOREM TrialMarksOpen == BreakerSpec => []TrialOnlyWhenOpen
  <1>1. BreakerIInv => TrialOnlyWhenOpen
    BY DEF BreakerIInv
  <1> QED
    BY <1>1, BreakerInvariance, PTL

HIDE BreakerAssumption

-----------------------------------------------------------------------------
(* The limiter, how far its ceiling holds: for every set of requests and   *)
(* weights, every window, every header the server may send, any number of  *)
(* 429s and 418s, of lost responses and of rollbacks.                      *)

(* While a request waits for the window, either the window is still the    *)
(* one it waits for, or a response has reset it and nothing was reserved   *)
(* since: the sleeper has the lock.                                        *)
GateWaitsForWindow ==
    \A r \in Requests :
        bucketPhase[r] = "gating" => wake[r] = windowStart + Window \/ issued = 0

(* Only a request past the lock has a weight that counts.                  *)
WeightsSet == \A r \in Requests : bucketPhase[r] # "idle" => weight[r] \in Weights

(* The inductive invariant.                                                *)
LimiterIInv ==
    /\ LimiterTypeOK
    /\ OneSleeper
    /\ GateWaitsForWindow
    /\ WeightsSet
    /\ CountsWhatIsIssued
    /\ OvershootBounded

LEMMA LimiterInitInv == LimiterInit => LimiterIInv
  <1> SUFFICES ASSUME LimiterInit PROVE LimiterIInv
    OBVIOUS
  <1> USE LimiterAssumption
  <1>1. LimiterTypeOK
    <2>1. MaxLimiterClock \in Nat
      OBVIOUS
    <2> QED
      BY <2>1 DEF LimiterInit, LimiterTypeOK, Phases
  <1>2. issued = 0 /\ used = 0 /\ lent = 0 /\ \A r \in Requests : bucketPhase[r] = "idle"
    BY DEF LimiterInit
  <1> QED
    BY <1>1, <1>2 DEF LimiterIInv, OneSleeper, Sleeping, GateWaitsForWindow, WeightsSet,
       CountsWhatIsIssued, OvershootBounded

(* The numbers an action works with.                                       *)
LEMMA Numbers ==
    ASSUME LimiterIInv
    PROVE  /\ limiterClock \in Nat /\ windowStart \in Nat /\ used \in Nat /\ issued \in Int /\ lent \in Nat
           /\ pauseUntil \in Nat /\ banUntil \in Nat
           /\ Ceiling \in Nat /\ Window \in Nat /\ Window > 0
           /\ MaxLimiterClock \in Nat /\ RetryS \in Nat /\ BanS \in Nat /\ MaxServer \in Nat
           /\ used + lent >= issued /\ issued <= Ceiling + lent
           /\ Fresh \in Int /\ FreshLent \in Nat /\ Fresh <= Ceiling + FreshLent
           /\ (IF Expired THEN 0 ELSE used) + FreshLent >= Fresh
           /\ \A r \in Requests : wake[r] \in Nat
           /\ \A r \in Requests : bucketPhase[r] # "idle" =>
                  weight[r] \in Nat /\ weight[r] > 0 /\ weight[r] <= Ceiling
  <1>1. /\ limiterClock \in Nat /\ windowStart \in Nat /\ used \in Nat /\ issued \in Int /\ lent \in Nat
        /\ pauseUntil \in Nat /\ banUntil \in Nat
        /\ used + lent >= issued /\ issued <= Ceiling + lent /\ \A r \in Requests : wake[r] \in Nat
    BY LimiterAssumption DEF LimiterIInv, LimiterTypeOK, CountsWhatIsIssued, OvershootBounded
  <1>2. /\ Ceiling \in Nat /\ Window \in Nat /\ Window > 0
        /\ MaxLimiterClock \in Nat /\ RetryS \in Nat /\ BanS \in Nat /\ MaxServer \in Nat
    BY LimiterAssumption
  <1>3. /\ Fresh \in Int /\ FreshLent \in Nat /\ Fresh <= Ceiling + FreshLent
        /\ (IF Expired THEN 0 ELSE used) + FreshLent >= Fresh
    BY <1>1, <1>2 DEF Fresh, FreshLent
  <1>4. ASSUME NEW r \in Requests, bucketPhase[r] # "idle"
        PROVE  weight[r] \in Nat /\ weight[r] > 0 /\ weight[r] <= Ceiling
    <2>1. weight[r] \in Weights
      BY <1>4 DEF LimiterIInv, WeightsSet
    <2>2. weight[r] \in 1..Ceiling
      BY ONLY <2>1, LimiterAssumption
    <2> QED
      BY ONLY <1>2, <2>2
  <1>5. \A r \in Requests : bucketPhase[r] # "idle" =>
            weight[r] \in Nat /\ weight[r] > 0 /\ weight[r] <= Ceiling
    BY ONLY <1>4
  <1> QED
    BY ONLY <1>1, <1>2, <1>3, <1>5

(* A step that moves one request and leaves the lock as free as it was.    *)
LEMMA MoveTypes ==
    ASSUME LimiterTypeOK, NEW r \in Requests, NEW p \in Phases, Goto(r, p)
    PROVE  /\ bucketPhase' \in [Requests -> Phases] /\ bucketPhase'[r] = p
           /\ \A q \in Requests \ {r} : bucketPhase'[q] = bucketPhase[q]
  BY DEF LimiterTypeOK, Goto

LEMMA ReserveNowKeepsInv ==
    ASSUME LimiterIInv, NEW r \in Requests, bucketPhase[r] \in {"waiting", "pausing"}, ReserveNow(r),
           UNCHANGED <<limiterClock, pauseUntil, banUntil, weight>>,
           \A q \in Requests : q # r => ~Sleeping(q)
    PROVE  LimiterIInv'
  <1>1. /\ bucketPhase' \in [Requests -> Phases] /\ bucketPhase'[r] = "sent"
        /\ \A q \in Requests \ {r} : bucketPhase'[q] = bucketPhase[q]
    BY MoveTypes DEF ReserveNow, Phases, LimiterIInv
  <1>2. /\ used' \in Nat /\ issued' \in Int /\ lent' \in Nat
        /\ used' + lent' >= issued' /\ issued' <= Ceiling + lent'
        /\ windowStart' \in 0..MaxLimiterClock /\ current' \subseteq Requests
    BY Numbers DEF ReserveNow, Fits, Charge, Still, LimiterIInv, LimiterTypeOK
  <1>3. \A q \in Requests : ~Sleeping(q)'
    BY <1>1 DEF Sleeping
  <1>4. LimiterTypeOK'
    BY <1>1, <1>2 DEF ReserveNow, LimiterIInv, LimiterTypeOK
  <1>5. OneSleeper' /\ GateWaitsForWindow'
    BY <1>3 DEF OneSleeper, GateWaitsForWindow, Sleeping
  <1>6. WeightsSet'
    BY <1>1 DEF LimiterIInv, WeightsSet
  <1> QED
    BY <1>2, <1>4, <1>5, <1>6 DEF LimiterIInv, CountsWhatIsIssued, OvershootBounded

LEMMA SleepForWindowKeepsInv ==
    ASSUME LimiterIInv, NEW r \in Requests, bucketPhase[r] \in {"waiting", "pausing"}, SleepForWindow(r),
           UNCHANGED <<limiterClock, pauseUntil, banUntil, weight>>,
           \A q \in Requests : q # r => ~Sleeping(q)
    PROVE  LimiterIInv'
  <1>1. /\ bucketPhase' \in [Requests -> Phases] /\ bucketPhase'[r] = "gating"
        /\ \A q \in Requests \ {r} : bucketPhase'[q] = bucketPhase[q]
    BY MoveTypes DEF SleepForWindow, Phases, LimiterIInv
  <1>2. /\ used' \in Nat /\ issued' \in Int /\ lent' \in Nat
        /\ used' + lent' >= issued' /\ issued' <= Ceiling + lent'
        /\ windowStart' \in 0..MaxLimiterClock /\ current' \subseteq Requests
    BY Numbers DEF SleepForWindow, Still, LimiterIInv, LimiterTypeOK
  <1>3. /\ wake' \in [Requests -> Nat] /\ wake'[r] = windowStart' + Window
    BY Numbers DEF SleepForWindow, LimiterIInv, LimiterTypeOK
  <1>4. \A q \in Requests \ {r} : ~Sleeping(q)'
    BY <1>1 DEF Sleeping
  <1>5. LimiterTypeOK'
    BY <1>1, <1>2, <1>3 DEF SleepForWindow, LimiterIInv, LimiterTypeOK
  <1>6. OneSleeper' /\ GateWaitsForWindow'
    BY <1>3, <1>4 DEF OneSleeper, GateWaitsForWindow, Sleeping
  <1>7. WeightsSet'
    BY <1>1 DEF LimiterIInv, WeightsSet
  <1> QED
    BY <1>2, <1>5, <1>6, <1>7 DEF LimiterIInv, CountsWhatIsIssued, OvershootBounded

-----------------------------------------------------------------------------
LEMMA LimiterStepInv == LimiterIInv /\ [LimiterNext]_limiterVars => LimiterIInv'
  <1> SUFFICES ASSUME LimiterIInv, [LimiterNext]_limiterVars PROVE LimiterIInv'
    OBVIOUS
  <1> USE DEF CountsWhatIsIssued, OvershootBounded
  <1>1. CASE LimiterTick
    <2>1. limiterClock' \in 0..MaxLimiterClock
      BY <1>1, Numbers DEF LimiterTick, LimiterIInv, LimiterTypeOK
    <2> QED
      BY <1>1, <2>1 DEF LimiterTick, LimiterIInv, LimiterTypeOK, OneSleeper, Sleeping, GateWaitsForWindow, WeightsSet,
         bucket, account
  <1>2. ASSUME NEW r \in Requests, Request(r) PROVE LimiterIInv'
    <2>1. PICK w \in Weights : weight' = [weight EXCEPT ![r] = w]
      BY <1>2 DEF Request
    <2>2. /\ bucketPhase' \in [Requests -> Phases] /\ bucketPhase'[r] = "waiting"
          /\ \A q \in Requests \ {r} : bucketPhase'[q] = bucketPhase[q]
      BY <1>2, MoveTypes DEF Request, Phases, LimiterIInv
    <2>3. weight' \in [Requests -> Weights \cup {0}] /\ weight'[r] \in Weights
          /\ \A q \in Requests \ {r} : weight'[q] = weight[q]
      BY <2>1 DEF LimiterIInv, LimiterTypeOK
    <2>4. LimiterTypeOK'
      BY <1>2, <2>2, <2>3 DEF Request, LimiterIInv, LimiterTypeOK, bucket, account
    <2> QED
      BY <1>2, <2>2, <2>3, <2>4 DEF Request, LimiterIInv, OneSleeper, Sleeping, GateWaitsForWindow,
         WeightsSet, bucket, account
  <1>3. ASSUME NEW r \in Requests, Refuse(r) PROVE LimiterIInv'
    <2>1. /\ bucketPhase' \in [Requests -> Phases] /\ bucketPhase'[r] = "idle"
          /\ \A q \in Requests \ {r} : bucketPhase'[q] = bucketPhase[q]
      BY <1>3, MoveTypes DEF Refuse, Phases, LimiterIInv
    <2>2. LimiterTypeOK'
      BY <1>3, <2>1 DEF Refuse, LimiterIInv, LimiterTypeOK, bucket, account
    <2> QED
      BY <1>3, <2>1, <2>2 DEF Refuse, LimiterIInv, OneSleeper, Sleeping, GateWaitsForWindow, WeightsSet,
         bucket, account
  <1>4. ASSUME NEW r \in Requests, SleepForPause(r) PROVE LimiterIInv'
    <2>1. /\ bucketPhase' \in [Requests -> Phases] /\ bucketPhase'[r] = "pausing"
          /\ \A q \in Requests \ {r} : bucketPhase'[q] = bucketPhase[q]
      BY <1>4, MoveTypes DEF SleepForPause, Phases, LimiterIInv
    <2>2. wake' \in [Requests -> Nat] /\ \A q \in Requests \ {r} : wake'[q] = wake[q]
      BY <1>4, Numbers DEF SleepForPause, LimiterIInv, LimiterTypeOK
    <2>3. LimiterTypeOK'
      BY <1>4, <2>1, <2>2 DEF SleepForPause, LimiterIInv, LimiterTypeOK, bucket, account
    <2>4. \A q \in Requests : ~Sleeping(q)
      BY <1>4 DEF SleepForPause, CanEnter, Locked
    <2>5. OneSleeper' /\ GateWaitsForWindow'
      BY <2>1, <2>4 DEF OneSleeper, GateWaitsForWindow, Sleeping
    <2>6. WeightsSet'
      BY <1>4, <2>1 DEF SleepForPause, CanEnter, LimiterIInv, WeightsSet
    <2> QED
      BY <1>4, <2>3, <2>5, <2>6 DEF SleepForPause, LimiterIInv, bucket, account
  <1>5. ASSUME NEW r \in Requests, Acquire(r) PROVE LimiterIInv'
    <2>1. bucketPhase[r] \in {"waiting", "pausing"} /\ \A q \in Requests : q # r => ~Sleeping(q)
      BY <1>5 DEF Acquire, CanEnter, Locked, Sleeping, LimiterIInv, OneSleeper
    <2> QED
      BY <1>5, <2>1, ReserveNowKeepsInv, SleepForWindowKeepsInv DEF Acquire
  <1>6. ASSUME NEW r \in Requests, WindowRolled(r) PROVE LimiterIInv'
    <2>1. /\ bucketPhase' \in [Requests -> Phases] /\ bucketPhase'[r] = "sent"
          /\ \A q \in Requests \ {r} : bucketPhase'[q] = bucketPhase[q]
      BY <1>6, MoveTypes DEF WindowRolled, Phases, LimiterIInv
    <2>2. Fresh = 0
      BY <1>6, Numbers DEF WindowRolled, LimiterIInv, GateWaitsForWindow, Fresh, Expired
    <2>3. /\ used' = weight[r] /\ issued' = weight[r] /\ lent' \in Nat
          /\ weight[r] \in Nat /\ weight[r] <= Ceiling
      BY <1>6, <2>2, Numbers DEF WindowRolled, Charge
    <2>4. current' \subseteq Requests /\ windowStart' \in 0..MaxLimiterClock
      BY <1>6 DEF WindowRolled, Charge, Still, LimiterIInv, LimiterTypeOK
    <2>5. LimiterTypeOK'
      BY <1>6, <2>1, <2>3, <2>4 DEF WindowRolled, LimiterIInv, LimiterTypeOK
    <2>6. \A q \in Requests : ~Sleeping(q)'
      BY <1>6, <2>1 DEF WindowRolled, Sleeping, LimiterIInv, OneSleeper
    <2>7. OneSleeper' /\ GateWaitsForWindow'
      BY <2>6 DEF OneSleeper, GateWaitsForWindow, Sleeping
    <2>8. WeightsSet'
      BY <1>6, <2>1 DEF WindowRolled, LimiterIInv, WeightsSet
    <2> QED
      BY <2>3, <2>5, <2>7, <2>8, Numbers DEF LimiterIInv
  <1>7. ASSUME NEW r \in Requests, Respond(r) PROVE LimiterIInv'
    <2>1. /\ bucketPhase' \in [Requests -> Phases] /\ bucketPhase'[r] = "idle"
          /\ \A q \in Requests \ {r} : bucketPhase'[q] = bucketPhase[q]
      BY <1>7, MoveTypes DEF Respond, Phases, LimiterIInv
    <2>2. /\ used' \in Nat /\ issued' \in Int /\ lent' \in Nat
          /\ used' + lent' >= issued' /\ issued' <= Ceiling + lent'
          /\ windowStart' \in 0..MaxLimiterClock /\ current' \subseteq Requests
          /\ (issued' = issued /\ windowStart' = windowStart) \/ issued' = 0
      BY <1>7, Numbers DEF Respond, RecordHeaders, Fresh, FreshLent, Still, LimiterIInv, LimiterTypeOK
    <2>3. pauseUntil' \in Nat /\ banUntil' \in Nat
      BY <1>7, Numbers DEF Respond
    <2>4. LimiterTypeOK'
      BY <1>7, <2>1, <2>2, <2>3 DEF Respond, LimiterIInv, LimiterTypeOK
    <2>5. \A q \in Requests : Sleeping(q)' => Sleeping(q) /\ bucketPhase'[q] = bucketPhase[q]
      BY <2>1 DEF Sleeping
    <2>6. OneSleeper' /\ GateWaitsForWindow'
      BY <1>7, <2>2, <2>5 DEF Respond, LimiterIInv, OneSleeper, GateWaitsForWindow, Sleeping
    <2>7. WeightsSet'
      BY <1>7, <2>1 DEF Respond, LimiterIInv, WeightsSet
    <2> QED
      BY <2>2, <2>4, <2>6, <2>7 DEF LimiterIInv
  <1>8. ASSUME NEW r \in Requests, Fail(r) PROVE LimiterIInv'
    <2>1. /\ bucketPhase' \in [Requests -> Phases] /\ bucketPhase'[r] = "undo"
          /\ \A q \in Requests \ {r} : bucketPhase'[q] = bucketPhase[q]
      BY <1>8, MoveTypes DEF Fail, Phases, LimiterIInv
    <2>2. LimiterTypeOK'
      BY <1>8, <2>1 DEF Fail, LimiterIInv, LimiterTypeOK, bucket, account
    <2> QED
      BY <1>8, <2>1, <2>2 DEF Fail, LimiterIInv, OneSleeper, Sleeping, GateWaitsForWindow, WeightsSet,
         bucket, account
  <1>9. ASSUME NEW r \in Requests, Rollback(r) PROVE LimiterIInv'
    <2>1. /\ bucketPhase' \in [Requests -> Phases] /\ bucketPhase'[r] = "idle"
          /\ \A q \in Requests \ {r} : bucketPhase'[q] = bucketPhase[q]
      BY <1>9, MoveTypes DEF Rollback, Phases, LimiterIInv
    <2>2. /\ used' \in Nat /\ issued' \in Int /\ lent' \in Nat
          /\ used' + lent' >= issued' /\ issued' <= Ceiling + lent'
      <3>1. weight[r] \in Nat
        BY <1>9, Numbers DEF Rollback
      <3>2. used' \in Nat /\ used' <= used /\ used' >= used - weight[r]
        BY <1>9, <3>1, Numbers DEF Rollback, Lowered
      <3>3. CASE r \in current
        BY <1>9, <3>1, <3>2, <3>3, Numbers DEF Rollback
      <3>4. CASE r \notin current
        BY <1>9, <3>2, <3>4, Numbers DEF Rollback
      <3> QED
        BY <3>3, <3>4
    <2>3. LimiterTypeOK'
      BY <1>9, <2>1, <2>2 DEF Rollback, LimiterIInv, LimiterTypeOK
    <2>4. \A q \in Requests : ~Sleeping(q)'
      BY <1>9, <2>1 DEF Rollback, Locked, Sleeping
    <2>5. OneSleeper' /\ GateWaitsForWindow'
      BY <2>4 DEF OneSleeper, GateWaitsForWindow, Sleeping
    <2>6. WeightsSet'
      BY <1>9, <2>1 DEF Rollback, LimiterIInv, WeightsSet
    <2> QED
      BY <2>2, <2>3, <2>5, <2>6 DEF LimiterIInv
  <1>10. CASE UNCHANGED limiterVars
    BY <1>10 DEF limiterVars, bucket, account, LimiterIInv, LimiterTypeOK, OneSleeper, Sleeping, GateWaitsForWindow,
       WeightsSet
  <1> QED
    BY <1>1, <1>2, <1>3, <1>4, <1>5, <1>6, <1>7, <1>8, <1>9, <1>10 DEF LimiterNext

(* The inductive invariant of acquire(), record_headers() and rollback().  *)
THEOREM LimiterInvariance == LimiterSpec => []LimiterIInv
  BY LimiterInitInv, LimiterStepInv, PTL DEF LimiterSpec

(* What acquire() lets out in one window exceeds weight_ceiling by no more *)
(* than the rollbacks of earlier windows' requests took off the counter.   *)
THEOREM CeilingHolds == LimiterSpec => []OvershootBounded
  <1>1. LimiterIInv => OvershootBounded
    BY DEF LimiterIInv
  <1> QED
    BY <1>1, LimiterInvariance, PTL

(* ... because but for them used_weight never falls short of what was      *)
(* reserved, with the window reset by record_headers() under a sleeper too. *)
THEOREM BucketHonest == LimiterSpec => []CountsWhatIsIssued
  <1>1. LimiterIInv => CountsWhatIsIssued
    BY DEF LimiterIInv
  <1> QED
    BY <1>1, LimiterInvariance, PTL

(* A coroutine asleep in acquire() is alone in there.                      *)
THEOREM SleepersAlone == LimiterSpec => []OneSleeper
  <1>1. LimiterIInv => OneSleeper
    BY DEF LimiterIInv
  <1> QED
    BY <1>1, LimiterInvariance, PTL
-----------------------------------------------------------------------------
(* The poller.                                                             *)

(* Among the errors of a cycle there is one that asks for the longest      *)
(* pause, however many were collected.                                     *)
HasLongest(errors) == errors # {} => \E longest \in errors : \A e \in errors : e <= longest

(* What is left of a ban never exceeds the sleep the process has before    *)
(* it, or, while it polls, what one of the collected errors asks for.      *)
BanCovered ==
    /\ loop = "asleep" => banLeft <= sleepLeft
    /\ loop = "polling" => banLeft = 0 \/ \E e \in rateErrors : banLeft <= e
    /\ loop = "dead" => banLeft = 0

(* A poll is under way in a cycle only.                                    *)
PollsInCycle == inPoll # {} => loop = "polling"

(* What a process told of a symbol last is what became of it last; only a  *)
(* lost event or a new process has anything to tell again.                 *)
ToldTrue == \A s \in Polled : signature[s] \in {Unset, outcome[s]}

(* The inductive invariant.                                                *)
PollerIInv ==
    PollerTypeOK /\ PollsInCycle /\ HasLongest(rateErrors) /\ BanCovered /\ ToldTrue /\ SymbolShownTrue

LEMMA MaxPair ==
    ASSUME NEW a \in Nat, NEW b \in Nat
    PROVE  Max({a, b}) \in {a, b} /\ a <= Max({a, b}) /\ b <= Max({a, b})
  <1>1. \E x \in {a, b} : \A y \in {a, b} : x >= y
    OBVIOUS
  <1>2. Max({a, b}) \in {a, b} /\ \A y \in {a, b} : Max({a, b}) >= y
    BY <1>1 DEF Max
  <1> QED
    BY <1>2

LEMMA MaxOfLongest ==
    ASSUME NEW errors \in SUBSET Nat, errors # {}, HasLongest(errors)
    PROVE  Max(errors) \in errors /\ \A e \in errors : e <= Max(errors)
  <1>1. \E x \in errors : \A y \in errors : x >= y
    BY DEF HasLongest
  <1>2. Max(errors) \in errors /\ \A y \in errors : Max(errors) >= y
    BY <1>1 DEF Max
  <1> QED
    BY <1>2

LEMMA MinPair ==
    ASSUME NEW a \in Nat, NEW b \in Nat
    PROVE  Min({a, b}) \in Nat
  <1>1. \E x \in {a, b} : \A y \in {a, b} : x <= y
    OBVIOUS
  <1> QED
    BY <1>1 DEF Min

LEMMA PollerInitInv == PollerInit => PollerIInv
  <1> SUFFICES ASSUME PollerInit PROVE PollerIInv
    OBVIOUS
  <1>1. PollerTypeOK
    BY PollerAssumption DEF PollerInit, PollerTypeOK, Untold
  <1>2. PollsInCycle /\ HasLongest(rateErrors) /\ BanCovered
    BY DEF PollerInit, PollsInCycle, HasLongest, BanCovered
  <1>3. ToldTrue /\ SymbolShownTrue
    BY DEF PollerInit, ToldTrue, SymbolShownTrue, Untold
  <1> QED
    BY <1>1, <1>2, <1>3 DEF PollerIInv

-----------------------------------------------------------------------------
(* Both ways a poll is told of.                                            *)
LEMMA ToldKeeps ==
    ASSUME PollerIInv, NEW s \in Polled, NEW status \in Statuses, Told(s, status)
    PROVE  /\ {signature', symbolShown', outcome'} \subseteq [Polled -> Statuses \cup {Unset}]
           /\ missed' \subseteq Polled /\ ToldTrue' /\ SymbolShownTrue'
  <1>1. /\ signature \in [Polled -> Statuses \cup {Unset}] /\ symbolShown \in [Polled -> Statuses \cup {Unset}]
        /\ outcome \in [Polled -> Statuses \cup {Unset}] /\ missed \subseteq Polled
        /\ status # Unset
    BY PollerAssumption DEF PollerIInv, PollerTypeOK, Statuses
  <1>2. /\ signature' = [signature EXCEPT ![s] = status] /\ outcome' = [outcome EXCEPT ![s] = status]
    BY DEF Told, Tell
  <1>3. /\ signature' \in [Polled -> Statuses \cup {Unset}] /\ outcome' \in [Polled -> Statuses \cup {Unset}]
        /\ signature'[s] = status /\ outcome'[s] = status
        /\ \A q \in Polled \ {s} : signature'[q] = signature[q] /\ outcome'[q] = outcome[q]
    BY <1>1, <1>2
  <1>4. ToldTrue'
    BY <1>1, <1>3 DEF PollerIInv, ToldTrue
  <1>5. CASE signature[s] = status
    <2>1. symbolShown' = symbolShown /\ missed' = missed
      BY <1>5 DEF Told, Tell
    <2>2. outcome[s] = status
      BY <1>1, <1>5 DEF PollerIInv, ToldTrue
    <2>3. SymbolShownTrue'
      BY <1>3, <2>1, <2>2 DEF PollerIInv, SymbolShownTrue
    <2> QED
      BY <1>1, <1>3, <1>4, <2>1, <2>3
  <1>6. CASE symbolShown' = [symbolShown EXCEPT ![s] = status] /\ missed' = missed \ {s}
    <2>1. /\ symbolShown' \in [Polled -> Statuses \cup {Unset}] /\ symbolShown'[s] = status
          /\ \A q \in Polled \ {s} : symbolShown'[q] = symbolShown[q]
      BY <1>1, <1>6
    <2>2. SymbolShownTrue'
      BY <1>3, <1>6, <2>1 DEF PollerIInv, SymbolShownTrue
    <2> QED
      BY <1>1, <1>3, <1>4, <1>6, <2>1, <2>2
  <1>7. CASE missed' = missed \cup {s} /\ symbolShown' = symbolShown
    <2>1. SymbolShownTrue'
      BY <1>3, <1>7 DEF PollerIInv, SymbolShownTrue
    <2> QED
      BY <1>1, <1>3, <1>4, <1>7, <2>1
  <1> QED
    BY <1>5, <1>6, <1>7 DEF Told, Tell

LEMMA PollerStepInv == PollerIInv /\ [PollerNext]_pollerVars => PollerIInv'
  <1> SUFFICES ASSUME PollerIInv, [PollerNext]_pollerVars PROVE PollerIInv'
    OBVIOUS
  <1>0. /\ sleepLeft \in Nat /\ banLeft \in Nat /\ ladder \in Nat /\ rateErrors \subseteq Nat
        /\ PollEvery \in Nat /\ BackoffCap \in Nat /\ BanMargin \in Nat /\ MaxDeaths \in Nat
        /\ BanTimes \subseteq Nat
    BY PollerAssumption DEF PollerIInv, PollerTypeOK
  <1> USE DEF PollerIInv, PollerTypeOK, PollsInCycle
  <1>1. CASE PollTick
    <2>1. /\ sleepLeft' \in Nat /\ banLeft' \in Nat
          /\ sleepLeft' = IF sleepLeft = 0 THEN 0 ELSE sleepLeft - 1
          /\ banLeft' = IF banLeft = 0 THEN 0 ELSE banLeft - 1
      <3>1. ASSUME NEW n \in Nat
            PROVE  Max({n - 1, 0}) = IF n = 0 THEN 0 ELSE n - 1
        <4>1. CASE n = 0
          <5>1. \A x \in {n - 1, 0} : (\A y \in {n - 1, 0} : x >= y) <=> x = 0
            BY <4>1
          <5> QED
            BY <4>1, <5>1 DEF Max
        <4>2. CASE n # 0
          BY <4>2, MaxPair
        <4> QED
          BY <4>1, <4>2
      <3> QED
        BY <1>0, <1>1, <3>1 DEF PollTick
    <2>2. BanCovered'
      <3>1. loop' = loop /\ rateErrors' = rateErrors
        BY <1>1 DEF PollTick
      <3>2. \A n \in Nat : banLeft <= n => banLeft' <= n
        BY <1>0, <2>1
      <3>3. banLeft <= sleepLeft => banLeft' <= sleepLeft'
        BY <1>0, <2>1
      <3>4. banLeft = 0 => banLeft' = 0
        BY <2>1
      <3> QED
        BY <1>0, <3>1, <3>2, <3>3, <3>4 DEF BanCovered
    <2> QED
      BY <1>0, <1>1, <2>1, <2>2 DEF PollTick, toldVars, HasLongest, ToldTrue, SymbolShownTrue
  <1>2. CASE PollerSet \/ PollerReset
    BY <1>2 DEF PollerSet, PollerReset, cycleVars, limitVars, toldVars, HasLongest, BanCovered, ToldTrue,
       SymbolShownTrue
  <1>3. CASE PollerRestarts
    BY <1>0, <1>3 DEF PollerRestarts, Asleep, limitVars, toldVars, HasLongest, BanCovered, ToldTrue, SymbolShownTrue
  <1>4. ASSUME Dies, UNCHANGED control PROVE PollerIInv'
    <2>1. deaths' \in 0..MaxDeaths
      BY <1>0, <1>4 DEF Dies
    <2>2. signature' \in [Polled -> Statuses \cup {Unset}] /\ \A s \in Polled : signature'[s] = Unset
      BY <1>4 DEF Dies, Untold
    <2> QED
      BY <1>0, <1>4, <2>1, <2>2 DEF Dies, HasLongest, BanCovered, ToldTrue, SymbolShownTrue
  <1>5. CASE StartCycle
    <2>1. CASE Dies
      BY <1>4, <1>5, <2>1 DEF StartCycle
    <2>2. CASE ~Dies
      <3>1. /\ loop = "asleep" /\ sleepLeft = 0 /\ loop' = "polling" /\ rateErrors' = {}
            /\ inPoll' = ResolveActiveSymbols
            /\ UNCHANGED <<control, sleepLeft, limitVars, toldVars, deaths>>
        BY <1>5, <2>2 DEF StartCycle
      <3>2. inPoll' \subseteq Polled
        BY <3>1 DEF ResolveActiveSymbols, Polled
      <3>3. banLeft' = 0
        BY <1>0, <3>1 DEF limitVars, BanCovered
      <3> QED
        BY <1>0, <3>1, <3>2, <3>3 DEF limitVars, toldVars, HasLongest, BanCovered, ToldTrue, SymbolShownTrue
    <2> QED
      BY <2>1, <2>2
  <1>6. ASSUME NEW s \in Polled, Polling(s), NEW status \in Statuses, Told(s, status),
               UNCHANGED <<rateErrors, limitVars>>
        PROVE  PollerIInv'
    <2>1. /\ {signature', symbolShown', outcome'} \subseteq [Polled -> Statuses \cup {Unset}]
          /\ missed' \subseteq Polled /\ ToldTrue' /\ SymbolShownTrue'
      BY <1>6, ToldKeeps
    <2> QED
      BY <1>0, <1>6, <2>1 DEF Polling, limitVars, HasLongest, BanCovered
  <1>7. ASSUME NEW s \in Polled, PollSymbol(s) PROVE PollerIInv'
    <2>1. PICK status \in Fetched : Told(s, status)
      BY <1>7 DEF PollSymbol
    <2>2. status \in Statuses
      BY <2>1 DEF Fetched, Statuses
    <2> QED
      BY <1>6, <1>7, <2>1, <2>2 DEF PollSymbol
  <1>8. ASSUME NEW s \in Polled, PollFails(s) PROVE PollerIInv'
    <2>1. [status |-> "degraded", errors |-> {"failure"}] \in Statuses
      BY DEF Statuses
    <2> QED
      BY <1>6, <1>8, <2>1 DEF PollFails
  <1>9. ASSUME NEW s \in Polled, RateLimited(s) PROVE PollerIInv'
    <2>1. PICK left \in BanTimes \cup {0} :
            rateErrors' = rateErrors \cup {left} /\ banLeft' = Max({banLeft, left})
      BY <1>9 DEF RateLimited
    <2>2. left \in Nat /\ banLeft' \in {banLeft, left}
      BY <1>0, <2>1, MaxPair
    <2>3. HasLongest(rateErrors)'
      <3>1. CASE rateErrors = {}
        BY <2>1, <2>2, <3>1 DEF HasLongest
      <3>2. CASE rateErrors # {}
        <4>1. PICK longest \in rateErrors : \A e \in rateErrors : e <= longest
          BY <3>2 DEF HasLongest
        <4>2. CASE left <= longest
          BY <2>1, <4>1, <4>2 DEF HasLongest
        <4>3. CASE longest < left
          BY <1>0, <2>1, <2>2, <4>1, <4>3 DEF HasLongest
        <4> QED
          BY <1>0, <2>2, <4>1, <4>2, <4>3
      <3> QED
        BY <3>1, <3>2
    <2>4. BanCovered'
      <3>1. loop' = loop /\ sleepLeft' = sleepLeft /\ left \in rateErrors' /\ rateErrors \subseteq rateErrors'
        BY <1>9, <2>1 DEF RateLimited, Polling
      <3>2. loop = "polling"
        BY <1>9 DEF RateLimited, Polling
      <3> QED
        BY <1>0, <2>2, <3>1, <3>2 DEF BanCovered
    <2> QED
      BY <1>0, <1>9, <2>1, <2>2, <2>3, <2>4 DEF RateLimited, Polling, toldVars, ToldTrue, SymbolShownTrue
  <1>10. CASE BackOff
    <2>1. CASE Dies
      BY <1>4, <1>10, <2>1 DEF BackOff
    <2>2. CASE ~Dies
      <3>1. /\ loop = "polling" /\ rateErrors # {} /\ ladder' = RateBackoff /\ Asleep(ladder')
            /\ UNCHANGED <<control, banLeft, toldVars, deaths>>
        BY <1>10, <2>2 DEF BackOff
      <3>2. RateBackoff \in Nat /\ banLeft <= RateBackoff
        <4>1. CASE rateErrors = {0}
          <5>1. 2 * ladder \in Nat /\ BackoffCap * PollEvery \in Nat
            BY <1>0
          <5>2. RateBackoff \in Nat
            BY <1>0, <4>1, <5>1, MinPair DEF RateBackoff, NextRateBackoff
          <5>3. banLeft = 0
            BY <1>0, <3>1, <4>1 DEF BanCovered
          <5> QED
            BY <5>2, <5>3
        <4>2. CASE rateErrors # {0}
          <5>1. Max(rateErrors) \in rateErrors /\ \A e \in rateErrors : e <= Max(rateErrors)
            BY <1>0, <3>1, MaxOfLongest
          <5>2. RateBackoff = Max(rateErrors) + BanMargin
            BY <4>2 DEF RateBackoff
          <5>3. Max(rateErrors) \in Nat
            BY <1>0, <5>1
          <5>4. \E e \in rateErrors : banLeft <= e
            BY <1>0, <3>1, <5>1, <5>3 DEF BanCovered
          <5>5. PICK e \in rateErrors : banLeft <= e
            BY <5>4
          <5>6. e \in Nat /\ e <= Max(rateErrors)
            BY <1>0, <5>1
          <5> QED
            BY ONLY <1>0, <5>2, <5>3, <5>5, <5>6
        <4> QED
          BY <4>1, <4>2
      <3> QED
        BY <1>0, <3>1, <3>2 DEF Asleep, toldVars, HasLongest, BanCovered, ToldTrue, SymbolShownTrue
    <2> QED
      BY <2>1, <2>2
  <1>11. CASE CleanCycle
    <2>1. CASE Dies
      BY <1>4, <1>11, <2>1 DEF CleanCycle
    <2>2. CASE ~Dies
      <3>1. /\ ladder' = 0 /\ banLeft' = 0 /\ \E rest \in 0..PollEvery : Asleep(rest)
            /\ UNCHANGED <<control, toldVars, deaths>>
        BY <1>11, <2>2 DEF CleanCycle
      <3>2. PICK rest \in 0..PollEvery : Asleep(rest)
        BY <3>1
      <3> QED
        BY <1>0, <3>1, <3>2 DEF Asleep, toldVars, HasLongest, BanCovered, ToldTrue, SymbolShownTrue
    <2> QED
      BY <2>1, <2>2
  <1>12. CASE UNCHANGED pollerVars
    BY <1>12 DEF pollerVars, cycleVars, limitVars, toldVars, HasLongest, BanCovered, ToldTrue, SymbolShownTrue
  <1> QED
    BY <1>1, <1>2, <1>3, <1>5, <1>7, <1>8, <1>9, <1>10, <1>11, <1>12 DEF PollerNext

(* The state of the poller keeps its type, and what carries the other two  *)
(* holds throughout.                                                       *)
THEOREM PollerInvariance == PollerSpec => []PollerIInv
  BY PollerInitInv, PollerStepInv, PTL DEF PollerSpec

(* _rate_backoff: for every set of symbols, every ladder and margin and    *)
(* every mixture of 429s and 418s, no cycle begins under a ban that this   *)
(* process was told of.                                                    *)
THEOREM BansSleptOut == PollerSpec => BanSleptOut
  <1>1. PollerIInv /\ [PollerNext]_pollerVars =>
            [loop = "asleep" /\ loop' = "polling" => banLeft = 0]_pollerVars
    <2> SUFFICES ASSUME PollerIInv, PollerNext, loop = "asleep", loop' = "polling" PROVE banLeft = 0
      OBVIOUS
    <2>1. sleepLeft = 0
      BY DEF PollerNext, PollTick, PollerSet, PollerReset, PollerRestarts, Asleep, StartCycle, BackOff,
         CleanCycle, PollSymbol, PollFails, RateLimited, Polling, cycleVars
    <2> QED
      BY <2>1 DEF PollerIInv, PollerTypeOK, BanCovered
  <1> QED
    BY <1>1, PollerInvariance, PTL DEF PollerSpec, BanSleptOut

(* telemetry_states: for every set of symbols and however often the        *)
(* process dies, what is shown of a symbol is what became of its last      *)
(* poll, unless the event that said so was lost.                           *)
THEOREM SymbolsShownTrue == PollerSpec => []SymbolShownTrue
  <1>1. PollerIInv => SymbolShownTrue
    BY DEF PollerIInv
  <1> QED
    BY <1>1, PollerInvariance, PTL

-----------------------------------------------------------------------------
(* The cascades.  No probe but that of the walls fires on the reading the  *)
(* projection was computed from: the proof goes through compute() and      *)
(* probe() of each worker.                                                 *)

LEMMA BidWindowInt ==
  ASSUME NEW b \in Books, NEW p \in Int, NEW width \in Int
  PROVE  BidWindow(b, p, width) \in Int
  BY DEF Books, Prices, BidWindow

LEMMA NotShifted ==
  ASSUME NEW x \in Int
  PROVE  ~Shifted(x, x)
  BY DEF Shifted

LEMMA Densest ==
  ASSUME NEW S \in SUBSET {5, 6, 8}, S # {}, NEW w \in [{5, 6, 8} -> Int]
  PROVE  \E p \in S : \A q \in S : w[q] <= w[p]
<1>1. w[5] \in Int /\ w[6] \in Int /\ w[8] \in Int
  OBVIOUS
<1>2. 5 \in S \/ 6 \in S \/ 8 \in S
  OBVIOUS
<1>3. ASSUME \A p \in S : \E q \in S : w[q] > w[p] PROVE FALSE
  BY <1>1, <1>2, <1>3
<1>4. PICK p \in S : \A q \in S : ~(w[q] > w[p])
  BY <1>3
<1> QED
  BY <1>1, <1>4

LEMMA KeystoneInt ==
  ASSUME NEW b \in Books
  PROVE  Keystone(b) \in Int
<1> DEFINE band == Held(b) \cap (b.mid - 3)..(b.mid - 1)
           best == {p \in band : \A q \in band : BidWindow(b, q, 2) <= BidWindow(b, p, 2)}
<1>1. band \subseteq {5, 6, 8} /\ b.mid \in Int
  BY DEF Books, Held, Prices
<1>2. BidWindow(b, 5, 2) \in Int /\ BidWindow(b, 6, 2) \in Int /\ BidWindow(b, 8, 2) \in Int
  BY BidWindowInt
<1>3. band # {} => \E p \in best : \A q \in best : p >= q
  <2> HIDE DEF band
  <2>1. band # {} => \E p \in band : \A q \in band : BidWindow(b, q, 2) <= BidWindow(b, p, 2)
    <3> DEFINE w == [p \in {5, 6, 8} |-> BidWindow(b, p, 2)]
    <3>1. w \in [{5, 6, 8} -> Int] /\ \A p \in band : w[p] = BidWindow(b, p, 2)
      BY <1>1, <1>2
    <3> HIDE DEF w
    <3>2. band # {} => \E p \in band : \A q \in band : w[q] <= w[p]
      BY <1>1, <3>1, Densest
    <3> QED
      BY <3>1, <3>2
  <2> QED
    BY <1>1, <2>1
<1>4. band # {} => Max(best) \in best
  BY <1>3 DEF Max
<1>5. Keystone(b) = IF band = {} THEN b.mid - 3 ELSE Max(best)
  BY DEF Keystone
<1> QED
  BY <1>1, <1>4, <1>5

LEMMA DensityNoEcho == \A b \in Books : ~DensityProbe(b, DensityCompute(b))
<1> SUFFICES ASSUME NEW b \in Books, b.mid # 0, DensityProbe(b, DensityCompute(b))
             PROVE  FALSE
  BY DEF DensityProbe
<1> DEFINE kept == [keystone |-> Keystone(b), mid |-> b.mid,
                    windows |-> [p \in Held(b) |-> BidWindow(b, p, 5)]]
<1>1. DensityCompute(b) = kept
  BY DEF DensityCompute
<1>2. Keystone(b) - kept.keystone \in -2..2
  BY KeystoneInt
<1>3. ASSUME NEW p \in Held(b) PROVE ~Shifted(BidWindow(b, p, 5), kept.windows[p - b.mid + kept.mid])
  <2>1. p \in Int /\ b.mid \in Int
    BY DEF Held, Prices, Books
  <2>2. p - b.mid + kept.mid = p
    BY <2>1
  <2>3. kept.windows[p - b.mid + kept.mid] = BidWindow(b, p, 5)
    BY <2>2
  <2> QED
    BY <2>1, <2>3, BidWindowInt, NotShifted
<1> QED
  BY <1>1, <1>2, <1>3 DEF DensityProbe

LEMMA LaddersNoEcho == \A b \in Books : ~LaddersProbe(b, LaddersCompute(b))
<1> SUFFICES ASSUME NEW b \in Books, b.mid # 0, LaddersProbe(b, LaddersCompute(b))
             PROVE  FALSE
  BY DEF LaddersProbe
<1> DEFINE kept == [mid |-> b.mid, rungs |-> Restrict(b.bids, Held(b))]
<1>1. LaddersCompute(b) = kept
  BY DEF LaddersCompute
<1>3. ASSUME NEW p \in Held(b) PROVE ~Shifted(b.bids[p], kept.rungs[p - b.mid + kept.mid])
  <2>1. p \in Int /\ b.mid \in Int /\ b.bids[p] \in Int
    BY DEF Held, Prices, Books
  <2>2. p - b.mid + kept.mid = p
    BY <2>1
  <2>3. kept.rungs[p - b.mid + kept.mid] = b.bids[p]
    BY <2>2 DEF Restrict
  <2> QED
    BY <2>1, <2>3, NotShifted
<1> QED
  BY <1>1, <1>3 DEF LaddersProbe

LEMMA AnchorsNoEcho == \A b \in Books : ~AnchorsProbe(b, AnchorsCompute(b))
<1> SUFFICES ASSUME NEW b \in Books, b.mid # 0, AnchorsProbe(b, AnchorsCompute(b))
             PROVE  FALSE
  BY DEF AnchorsProbe
<1> DEFINE kept == [grid |-> Grid(b), qty |-> [p \in Grid(b) |-> IF p \in Prices THEN b.bids[p] ELSE 0]]
<1>1. AnchorsCompute(b) = kept
  BY DEF AnchorsCompute
<1>2. ASSUME NEW p \in Grid(b) \cap Prices PROVE ~Shifted(b.bids[p], kept.qty[p])
  <2>1. b.bids[p] \in Int /\ kept.qty[p] = b.bids[p]
    BY DEF Prices, Books
  <2> QED
    BY <2>1, NotShifted
<1> QED
  BY <1>1, <1>2 DEF AnchorsProbe

LEMMA TiersNoEcho == \A t : ~TiersProbe(t, TiersCompute(t))
  BY DEF TiersProbe, TiersCompute

LEMMA OiNoEcho == \A m \in OiReadings : ~OiProbe(m, OiCompute(m))
  BY DEF OiReadings, Interests, OiProbe, OiCompute, Moved

LEMMA NotCrossed ==
  ASSUME NEW x \in Int
  PROVE  ~Crossed(x, x)
  BY DEF Crossed

LEMMA TapeNoEcho == \A m \in TapeReadings : ~TapeProbe(m, TapeCompute(m))
<1> SUFFICES ASSUME NEW m \in TapeReadings, m.share # Null PROVE ~TapeProbe(m, TapeCompute(m))
  BY DEF TapeProbe
<1>1. m \in [share : Shares, horizon : Shares, deltas : {<<>>, <<1>>, <<1, 4>>}]
  BY DEF TapeReadings
<1>2. TapeCompute(m) = m
  BY <1>1 DEF TapeCompute
<1>3. ~Crossed(m.share, m.share)
  BY <1>1, NotCrossed DEF Shares
<1>4. m.horizon # Null => ~Crossed(m.horizon, m.horizon)
  BY <1>1, NotCrossed DEF Shares
<1>5. m.deltas # <<>> => ~(m.deltas[Len(m.deltas)] * Len(m.deltas) > 3 * Total(m.deltas))
  <2>1. CASE m.deltas = <<1>>
    BY <2>1 DEF Total
  <2>2. CASE m.deltas = <<1, 4>>
    BY <2>2 DEF Total
  <2> QED
    BY <1>1, <2>1, <2>2
<1> QED
  BY <1>2, <1>3, <1>4, <1>5 DEF TapeProbe

LEMMA LargePrintNoEcho ==
  \A m : (m.trades => m \in PrintReadings) => ~LargePrintProbe(m, LargePrintCompute(m))
<1> SUFFICES ASSUME NEW m \in PrintReadings, m.trades
             PROVE  ~LargePrintProbe(m, [prints |-> Newest(m.prints), class |-> m.class])
  BY DEF LargePrintProbe, LargePrintCompute
<1> DEFINE kept == [prints |-> Newest(m.prints), class |-> m.class]
<1>1. kept # Empty
  <2>1. m.prints \subseteq 1..3 /\ m.class \in {Null, "HIGH", "LOW"}
    BY DEF PrintReadings
  <2>2. Newest(m.prints) \in SUBSET (1..3)
    BY <2>1 DEF Newest
  <2>3. kept \in [prints : SUBSET (1..3), class : {Null, "HIGH", "LOW"}]
    BY <2>1, <2>2
  <2> QED
    BY <2>3, OutputAssumption
<1> QED
  BY <1>1 DEF LargePrintProbe

LEMMA SignalsNoEcho ==
  \A m : (m.usable => m \in SignalReadings) => ~SignalsProbe(m, SignalsCompute(m))
<1> SUFFICES ASSUME NEW m, m.usable, m \in SignalReadings PROVE ~SignalsProbe(m, m)
  BY DEF SignalsProbe, SignalsCompute
<1>1. m # Empty /\ m.oi \in {100, 101}
  BY OutputAssumption DEF SignalReadings
<1>2. ~Moved(m.oi, m.oi)
  BY <1>1 DEF Moved
<1> QED
  BY <1>1, <1>2 DEF SignalsProbe

LEMMA DeltaNoEcho == \A m : (m.book => m \in DeltaReadings) => ~DeltaProbe(m, DeltaCompute(m))
<1> SUFFICES ASSUME NEW m \in DeltaReadings, m.book PROVE ~DeltaProbe(m, DeltaCompute(m))
  BY DEF DeltaProbe
<1> DEFINE kept == [m EXCEPT !.horizons = [k \in {Text} |-> m.horizons[Number]]]
<1>1. DeltaCompute(m) = kept
  BY DEF DeltaCompute
<1>2. kept.state = m.state /\ kept.tbr = m.tbr
  BY DEF DeltaReadings
<1>3. DOMAIN m.horizons \cap DOMAIN kept.horizons = {}
  BY DEF DeltaReadings, Number, Text
<1> QED
  BY <1>1, <1>2, <1>3 DEF DeltaProbe, HorizonFlips

LEMMA CountersNoEcho ==
  /\ \A m : ~MigrationProbe(m, MigrationCompute(m))
  /\ \A m : ~ProfileProbe(m, ProfileCompute(m))
  /\ \A m : (m.klines > 0 => m \in TechnicalReadings) => ~TechnicalsProbe(m, TechnicalsCompute(m))
<1>1. \A m : ~MigrationProbe(m, MigrationCompute(m)) /\ ~ProfileProbe(m, ProfileCompute(m))
  BY DEF MigrationProbe, MigrationCompute, ProfileProbe, ProfileCompute
<1>2. \A m : (m.klines > 0 => m \in TechnicalReadings) => ~TechnicalsProbe(m, TechnicalsCompute(m))
  BY DEF TechnicalsProbe, TechnicalsCompute, TechnicalReadings
<1> QED
  BY <1>1, <1>2

LEMMA LabelsNoEcho ==
  /\ \A m : ~RegimeProbe(m, RegimeCompute(m))
  /\ \A m : ~DemandProbe(m, DemandCompute(m))
  /\ \A m : ~StageProbe(m, StageCompute(m))
  /\ \A m : ~OiAnalysisProbe(m, OiAnalysisCompute(m))
  /\ \A m : ~LiquidationProbe(m, LiquidationCompute(m))
  BY DEF LabelProbe, LabelCompute, RegimeProbe, RegimeCompute, DemandProbe, DemandCompute,
     StageProbe, StageCompute, OiAnalysisProbe, OiAnalysisCompute, LiquidationProbe,
     LiquidationCompute

Workers == DOMAIN Substrates

LEMMA WorkersAre ==
  Workers = {"density", "anchors", "ladders", "tiers", "oi", "signals", "delta", "tape",
             "large_print", "migration", "technicals", "volume_profile", "regime", "demand",
             "stage", "oi_analysis", "liquidation", "wall_migration"}
  BY DEF Workers, Substrates

LEMMA ReadingsAre ==
  /\ \A w \in {"density", "anchors", "ladders"} : Substrates[w].readings = Books
  /\ Substrates["oi"].readings = OiReadings
  /\ Substrates["tape"].readings = TapeReadings
  /\ Substrates["technicals"].readings = TechnicalReadings
  /\ \A m \in Substrates["signals"].readings : m.usable => m \in SignalReadings
  /\ \A m \in Substrates["delta"].readings : m.book => m \in DeltaReadings
  /\ \A m \in Substrates["large_print"].readings : m.trades => m \in PrintReadings
<1>1. /\ \A w \in {"density", "anchors", "ladders"} : Substrates[w].readings = Books
      /\ Substrates["oi"].readings = OiReadings
      /\ Substrates["tape"].readings = TapeReadings
      /\ Substrates["technicals"].readings = TechnicalReadings
  BY DEF Substrates, Substrate
<1>2. /\ Substrates["signals"].readings = {m \in SignalReadings : m.usable} \cup {CHOOSE m \in SignalReadings : ~m.usable}
      /\ Substrates["delta"].readings = {m \in DeltaReadings : m.book} \cup {CHOOSE m \in DeltaReadings : ~m.book}
      /\ Substrates["large_print"].readings = {m \in PrintReadings : m.trades} \cup {CHOOSE m \in PrintReadings : ~m.trades}
  BY DEF Substrates, Substrate, OneWithout
<1>3. /\ \E m \in SignalReadings : ~m.usable
      /\ \E m \in DeltaReadings : ~m.book
      /\ \E m \in PrintReadings : ~m.trades
  <2>1. [usable |-> FALSE, spot |-> 40, fut |-> 40, obi |-> 0, oi |-> 100] \in SignalReadings
    BY DEF SignalReadings
  <2>2. [book |-> FALSE, state |-> "buyers", tbr |-> 44, horizons |-> [n \in {Number} |-> "buyers"]] \in DeltaReadings
    BY DEF DeltaReadings, States
  <2>3. [trades |-> FALSE, prints |-> {}, class |-> "HIGH"] \in PrintReadings
    BY DEF PrintReadings
  <2> QED
    BY <2>1, <2>2, <2>3
<1> QED
  BY <1>1, <1>2, <1>3

LEMMA Silent ==
  ASSUME NEW w \in Workers, w # "wall_migration", NEW m \in Substrates[w].readings
  PROVE  ~Probe(w, m, Compute(w, m))
<1>1. CASE w \in {"density", "anchors", "ladders"}
  BY <1>1, ReadingsAre, DensityNoEcho, LaddersNoEcho, AnchorsNoEcho DEF Probe, Compute
<1>2. CASE w \in {"tiers", "oi", "tape"}
  BY <1>2, ReadingsAre, TiersNoEcho, OiNoEcho, TapeNoEcho DEF Probe, Compute
<1>3. CASE w \in {"signals", "delta", "large_print"}
  BY <1>3, ReadingsAre, SignalsNoEcho, DeltaNoEcho, LargePrintNoEcho DEF Probe, Compute
<1>4. CASE w \in {"migration", "technicals", "volume_profile"}
  BY <1>4, ReadingsAre, CountersNoEcho DEF Probe, Compute
<1>5. CASE w \in {"regime", "demand", "stage", "oi_analysis", "liquidation"}
  BY <1>5, LabelsNoEcho DEF Probe, Compute
<1> QED
  BY <1>1, <1>2, <1>3, <1>4, <1>5, WorkersAre

(* The readings are the worker's own, and only a projection that exists    *)
(* grows old.                                                              *)
DecideIInv ==
    /\ worker \in Workers
    /\ {reading, other} \subseteq Substrates[worker].readings
    /\ shown \in Substrates[worker].readings \cup {NoState}
    /\ aged \in BOOLEAN
    /\ aged => shown # NoState

LEMMA DecideInitInv == DecideInit => DecideIInv
  BY DEF DecideInit, DecideIInv, Workers

LEMMA DecideStepInv == DecideIInv /\ [DecideNext]_decideVars => DecideIInv'
<1> SUFFICES ASSUME DecideIInv, [DecideNext]_decideVars PROVE DecideIInv'
  OBVIOUS
<1> DEFINE own == Substrates[worker].readings
<1>0. /\ worker \in Workers /\ reading \in own /\ other \in own
      /\ shown \in own \cup {NoState} /\ aged \in BOOLEAN /\ (aged => shown # NoState)
  BY DEF DecideIInv
<1>1. worker' = worker /\ {reading', other'} \subseteq {reading, other}
  BY DEF DecideNext, Tick, Move, Wait, Restart, SchemaChange, decideVars
<1>2. /\ shown' \in {shown, reading, NoState}
      /\ aged' \in {aged, FALSE, shown # NoState}
      /\ aged' # FALSE => shown' = shown
  <2>1. ASSUME Tick
        PROVE  \/ UNCHANGED <<shown, aged>>
               \/ shown' \in {shown, reading} /\ aged' = FALSE
    BY <2>1 DEF Tick, Fire
  <2>2. ASSUME Wait
        PROVE  shown' = shown /\ aged' \in {aged, shown # NoState}
    BY <2>2 DEF Wait
  <2>3. ASSUME Move \/ Restart \/ UNCHANGED decideVars
        PROVE  UNCHANGED <<shown, aged>>
    BY <2>3 DEF Move, Restart, decideVars
  <2>4. ASSUME SchemaChange
        PROVE  shown' = NoState /\ aged' = FALSE
    BY <2>4 DEF SchemaChange
  <2> QED
    BY <2>1, <2>2, <2>3, <2>4 DEF DecideNext
<1>3. aged' \in BOOLEAN /\ (aged' => shown' # NoState)
  BY <1>0, <1>2
<1>4. shown' \in own \cup {NoState} /\ reading' \in own /\ other' \in own
  BY <1>0, <1>1, <1>2
<1> HIDE DEF own
<1>5. own' = own
  BY <1>1 DEF own
<1> QED
  BY <1>0, <1>1, <1>3, <1>4, <1>5 DEF DecideIInv, own

(* The inductive invariant holds throughout.                               *)
THEOREM DecideInvariance == DecideSpec => []DecideIInv
  BY DecideInitInv, DecideStepInv, PTL DEF DecideSpec

(* No worker but that of the walls fires on a probe that its projection    *)
(* already shows, across everything compute() keeps of a reading.          *)
THEOREM NothingEchoed == DecideSpec => NoEcho
<1>1. DecideIInv /\ [DecideNext]_decideVars =>
        [decided' = "probe" /\ worker # "wall_migration" => shown' # shown]_decideVars
  <2> SUFFICES ASSUME DecideIInv, DecideNext, decided' = "probe", worker # "wall_migration",
                      shown' = shown
               PROVE  FALSE
    OBVIOUS
  <2>1. Tick
    BY DEF DecideNext, Move, Wait, Restart, SchemaChange
  <2>2. PICK raw, recovery \in BOOLEAN, ws \in {FALSE, Substrates[worker].row.ws},
            crossed \in {FALSE, Substrates[worker].row.rollover},
            ready \in {TRUE, ~Substrates[worker].row.attach}, win \in {reading, shown} \ {NoState} :
        LET answer == Answer(raw, raw \/ ws, recovery, crossed, ready, win)
        IN /\ decided' = answer
           /\ still' = (still /\ ~raw)
           /\ IF answer \in {"hygiene", "probe"} THEN Fire(win)
              ELSE UNCHANGED <<shown, cooled, aged>>
           /\ UNCHANGED <<worker, reading, other>>
    BY <2>1, Zenon DEF Tick
  <2> DEFINE answer == Answer(raw, raw \/ ws, recovery, crossed, ready, win)
  <2>5. answer = "probe"
    BY <2>2
  <2>6. Fire(win)
    BY <2>2, <2>5
  <2>3. shown # NoState /\ Probe(worker, win, Kept) /\ ~Raises(worker, win, Kept)
    BY <2>5 DEF Answer
  <2>4. shown = win /\ Kept = Compute(worker, win) /\ win \in Substrates[worker].readings
    BY <2>3, <2>6 DEF Fire, Kept, DecideIInv
  <2> QED
    BY <2>3, <2>4, Silent DEF DecideIInv
<1> QED
  BY <1>1, DecideInvariance, PTL DEF DecideSpec, NoEcho

(* No decide() leaves a projection older than its bound behind, unless     *)
(* compute() or the probe raises on it, for every worker and whatever      *)
(* arrived with it.                                                        *)
THEOREM NothingOld == DecideSpec => NeverOld
<1>1. DecideIInv /\ [DecideNext]_decideVars =>
        [decided' # "none" => ~aged' \/ \E win \in {reading, shown} : Raises(worker, win, Kept)]_decideVars
  <2> SUFFICES ASSUME DecideIInv, DecideNext, decided' # "none",
                      \A win \in {reading, shown} : ~Raises(worker, win, Kept)
               PROVE  ~aged'
    OBVIOUS
  <2>1. Tick
    BY DEF DecideNext, Move, Wait, Restart, SchemaChange
  <2>2. PICK raw, recovery \in BOOLEAN, ws \in {FALSE, Substrates[worker].row.ws},
            crossed \in {FALSE, Substrates[worker].row.rollover},
            ready \in {TRUE, ~Substrates[worker].row.attach}, win \in {reading, shown} \ {NoState} :
        LET answer == Answer(raw, raw \/ ws, recovery, crossed, ready, win)
        IN /\ decided' = answer
           /\ still' = (still /\ ~raw)
           /\ IF answer \in {"hygiene", "probe"} THEN Fire(win)
              ELSE UNCHANGED <<shown, cooled, aged>>
           /\ UNCHANGED <<worker, reading, other>>
    BY <2>1, Zenon DEF Tick
  <2>3. CASE Fire(win)
    BY <2>2, <2>3 DEF Fire
  <2>4. CASE ~Fire(win)
    <3>1. Answer(raw, raw \/ ws, recovery, crossed, ready, win) \notin {"hygiene", "probe"} /\ aged' = aged
      BY <2>2, <2>4
    <3>2. shown = NoState \/ ~Hygiene(raw, recovery, crossed)
      BY <3>1 DEF Answer
    <3>3. ~aged
      BY <3>2 DEF Hygiene, DecideIInv
    <3> QED
      BY <3>1, <3>3
  <2> QED
    BY <2>3, <2>4
<1> QED
  BY <1>1, DecideInvariance, PTL DEF DecideSpec, NeverOld
=============================================================================
