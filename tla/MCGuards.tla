------------------------------ MODULE MCGuards ------------------------------
(* A fire, the guards around it and the poller that feeds it, which have   *)
(* no variable in common, side by side: one worker pair over a few clock   *)
(* ticks and arrivals (two fires in line behind one that runs, an aborted  *)
(* insert, a crash at every step); three fires around the breaker (two     *)
(* that passed before the outage and report late, one that comes as the    *)
(* trial); three requests on one bucket, alike but for their weights; two  *)
(* symbols polled and one restart.  `part` says which a behavior is about. *)
EXTENDS FireWorker, PgBreaker, RateLimiter, PollerLoop, TLC

VARIABLE part

guardVars == <<part, vars, breakerVars, limiterVars, pollerVars>>

GuardsInit ==
    /\ part \in {"fire", "breaker", "limiter", "poller"}
    /\ Init /\ BreakerInit /\ LimiterInit /\ PollerInit
GuardsNext ==
    \/ part = "fire" /\ Next /\ UNCHANGED <<part, breakerVars, limiterVars, pollerVars>>
    \/ part = "breaker" /\ BreakerNext /\ UNCHANGED <<part, vars, limiterVars, pollerVars>>
    \/ part = "limiter" /\ LimiterNext /\ UNCHANGED <<part, vars, breakerVars, pollerVars>>
    \/ part = "poller" /\ PollerNext /\ UNCHANGED <<part, vars, breakerVars, limiterVars>>
RequestsAlike == Permutations(Requests)

GuardsSpec == GuardsInit /\ [][GuardsNext]_guardVars
=============================================================================
