----------------------------- MODULE RateLimiter -----------------------------
(***************************************************************************)
(* One API surface: the bucket of a SurfaceRateWorker (rate_limit/         *)
(* worker.py) and the requests of clients/binance.py that go through it.   *)
(* acquire() and rollback() hold the worker's mutex, also while acquire()  *)
(* sleeps; record_headers() and handle_error() run when a response comes   *)
(* in and do not take it.                                                  *)
(***************************************************************************)
EXTENDS Integers, FiniteSets

CONSTANTS
    Requests,   \* coroutines in _get
    Weights,    \* request weights
    Ceiling,    \* weight_ceiling
    Window,     \* _WINDOW_S
    RetryS,     \* Retry-After of a 429
    BanS,       \* Retry-After of a 418
    MaxServer,  \* bound: X-MBX-USED-WEIGHT-1M
    MaxLimiterClock    \* bound: the limiterClock stops here

ASSUME LimiterAssumption ==
    /\ Ceiling \in Nat /\ Weights \subseteq 1..Ceiling
    /\ Window \in Nat \ {0}
    /\ {RetryS, BanS, MaxServer, MaxLimiterClock} \subseteq Nat

VARIABLES
    limiterClock,
    windowStart,
    used,         \* used_weight
    pauseUntil,
    banUntil,
    bucketPhase,  \* where each request is
    weight,       \* its weight
    wake,         \* when its sleep is over
    issued,       \* history: weight reserved in this window and not given back
    lent,         \* history: weight that rollbacks of other windows took off used
    current       \* history: requests under way that were reserved in it

bucket == <<windowStart, used, pauseUntil, banUntil>>
account == <<issued, lent, current>>
limiterVars == <<limiterClock, bucket, bucketPhase, weight, wake, account>>

Phases == {"idle", "waiting", "pausing", "gating", "sent", "undo"}

LimiterTypeOK ==
    /\ limiterClock \in 0..MaxLimiterClock
    /\ windowStart \in 0..MaxLimiterClock
    /\ used \in Nat
    /\ pauseUntil \in Nat
    /\ banUntil \in Nat
    /\ bucketPhase \in [Requests -> Phases]
    /\ weight \in [Requests -> Weights \cup {0}]
    /\ wake \in [Requests -> Nat]
    /\ issued \in Int
    /\ lent \in Nat
    /\ current \subseteq Requests

LimiterInit ==
    /\ limiterClock = 0
    /\ windowStart = 0 /\ used = 0 /\ pauseUntil = 0 /\ banUntil = 0
    /\ bucketPhase = [r \in Requests |-> "idle"]
    /\ weight = [r \in Requests |-> 0]
    /\ wake = [r \in Requests |-> 0]
    /\ issued = 0 /\ lent = 0 /\ current = {}

-----------------------------------------------------------------------------
Goto(r, p) == bucketPhase' = [bucketPhase EXCEPT ![r] = p]

LimiterTick ==
    /\ limiterClock < MaxLimiterClock
    /\ limiterClock' = limiterClock + 1
    /\ UNCHANGED <<bucket, bucketPhase, weight, wake, account>>

Expired == limiterClock - windowStart >= Window

(* The account of the window: it starts anew when the window is over, and  *)
(* only then, however often the code resets it.                            *)
Fresh == IF Expired THEN 0 ELSE issued
FreshLent == IF Expired THEN 0 ELSE lent
Still == IF Expired THEN {} ELSE current
Charge(r) == /\ issued' = Fresh + weight[r] /\ lent' = FreshLent
             /\ current' = Still \cup {r}

Request(r) ==
    /\ bucketPhase[r] = "idle"
    /\ \E w \in Weights : weight' = [weight EXCEPT ![r] = w]
    /\ Goto(r, "waiting")
    /\ UNCHANGED <<limiterClock, bucket, wake, account>>

FitsSoFar(u, w) == u < Ceiling   \* mutant: the request's own weight is left out
Fits(u, w) == u + w <= Ceiling

(* The reservation fits the window as it is, or as it is after its reset.  *)
ReserveNow(r) ==
    LET u == IF Expired THEN 0 ELSE used IN
    /\ Fits(u, weight[r])
    /\ used' = u + weight[r]
    /\ Charge(r)
    /\ windowStart' = IF Expired THEN limiterClock ELSE windowStart
    /\ Goto(r, "sent")
    /\ UNCHANGED wake

(* It does not fit: sleep, with the lock, until the window rolls over.     *)
SleepForWindow(r) ==
    LET u == IF Expired THEN 0 ELSE used
        s == IF Expired THEN limiterClock ELSE windowStart IN
    /\ ~Fits(u, weight[r])
    /\ used' = u
    /\ issued' = Fresh /\ lent' = FreshLent /\ current' = Still
    /\ windowStart' = s
    /\ wake' = [wake EXCEPT ![r] = s + Window]
    /\ Goto(r, "gating")

(* A coroutine that sleeps in acquire() holds the lock; every other use of *)
(* it begins and ends within a step.                                       *)
Sleeping(r) == bucketPhase[r] \in {"pausing", "gating"}
Locked == \E r \in Requests : Sleeping(r)

CanEnter(r) == bucketPhase[r] = "waiting" /\ ~Locked

(* acquire(): the ban is looked at here, and only here.                    *)
Refuse(r) ==
    /\ CanEnter(r)
    /\ limiterClock < banUntil
    /\ Goto(r, "idle")
    /\ UNCHANGED <<limiterClock, bucket, weight, wake, account>>

SleepForPause(r) ==
    /\ CanEnter(r)
    /\ limiterClock >= banUntil /\ limiterClock < pauseUntil
    /\ wake' = [wake EXCEPT ![r] = pauseUntil]
    /\ Goto(r, "pausing")
    /\ UNCHANGED <<limiterClock, bucket, weight, account>>

Acquire(r) ==
    /\ \/ CanEnter(r) /\ limiterClock >= banUntil /\ limiterClock >= pauseUntil
       \/ bucketPhase[r] = "pausing" /\ limiterClock >= wake[r]
    /\ ReserveNow(r) \/ SleepForWindow(r)
    /\ UNCHANGED <<limiterClock, pauseUntil, banUntil, weight>>

(* The sleep for the window is over: reset, whoever may have reset it      *)
(* meanwhile, and reserve.                                                 *)
WindowRolled(r) ==
    /\ bucketPhase[r] = "gating" /\ limiterClock >= wake[r]
    /\ windowStart' = limiterClock
    /\ used' = weight[r]
    /\ Charge(r)
    /\ Goto(r, "sent")
    /\ UNCHANGED <<limiterClock, pauseUntil, banUntil, weight, wake>>

-----------------------------------------------------------------------------
(* record_headers() on a response with the header, then handle_error() on  *)
(* a 429 or 418; any other status ends the request there.                  *)
HeadersWin(u, h) == h   \* mutant: the header overrides what is reserved
RecordHeaders(u, h) == IF h > u THEN h ELSE u

Respond(r) ==
    /\ bucketPhase[r] = "sent"
    /\ \/ /\ \E h \in 0..MaxServer :
               used' = RecordHeaders(IF Expired THEN 0 ELSE used, h)
          /\ windowStart' = IF Expired THEN limiterClock ELSE windowStart
          /\ issued' = Fresh /\ lent' = FreshLent /\ current' = Still \ {r}
       \/ UNCHANGED <<used, windowStart, issued, lent>> /\ current' = current \ {r}
    /\ \/ UNCHANGED <<pauseUntil, banUntil>>
       \/ pauseUntil' = limiterClock + RetryS /\ banUntil' = banUntil
       \/ banUntil' = limiterClock + BanS /\ pauseUntil' = pauseUntil
    /\ Goto(r, "idle")
    /\ UNCHANGED <<limiterClock, weight, wake>>

(* A timeout or a broken connection: the reservation is to be given back,  *)
(* as soon as the lock is free, and off whatever window is on then.        *)
Fail(r) ==
    /\ bucketPhase[r] = "sent"
    /\ Goto(r, "undo")
    /\ UNCHANGED <<limiterClock, bucket, weight, wake, account>>

Lowered(w) == IF used > w THEN used - w ELSE 0

Rollback(r) ==
    /\ bucketPhase[r] = "undo" /\ ~Locked
    /\ used' = Lowered(weight[r])
    /\ IF r \in current
       THEN issued' = issued - weight[r] /\ lent' = lent
       ELSE issued' = issued /\ lent' = lent + (used - used')
    /\ current' = current \ {r}
    /\ Goto(r, "idle")
    /\ UNCHANGED <<limiterClock, windowStart, pauseUntil, banUntil, weight, wake>>

LimiterNext ==
    \/ LimiterTick
    \/ \E r \in Requests :
         \/ Request(r) \/ Refuse(r) \/ SleepForPause(r) \/ Acquire(r)
         \/ WindowRolled(r) \/ Respond(r) \/ Fail(r) \/ Rollback(r)

LimiterSpec == LimiterInit /\ [][LimiterNext]_limiterVars

-----------------------------------------------------------------------------
(* A sleeper keeps the mutex, so everybody else is decided on after it:    *)
(* one at a time sleeps, and nothing is reserved in the meantime.          *)
OneSleeper ==
    \A r, q \in Requests : Sleeping(r) /\ Sleeping(q) => r = q

(* The bucket counts all that was reserved in its window, whatever headers *)
(* come in and whoever resets the window, but for what the rollback of a   *)
(* request of an earlier window took off it.                               *)
CountsWhatIsIssued == used + lent >= issued

(* "can never overshoot the weight ceiling" (worker.py:5), as far as it    *)
(* holds: what goes out in one window exceeds the ceiling by no more than  *)
(* such rollbacks took off.                                                *)
OvershootBounded == issued <= Ceiling + lent

=============================================================================
