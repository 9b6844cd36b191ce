------------------------------ MODULE MCServed ------------------------------
(* Who waits in the calculation plane is served, in two parts that share   *)
(* no variable: `part` says which of them a behavior is about.             *)
(* The slots: five workers contend for two, enough for a queue that holds  *)
(* a cancelled waiter in front of a live one.                              *)
(* The decisions: one worker over three clock ticks and one arrival, with  *)
(* two fires in line behind one that runs, and a crash.                    *)
(* No symmetry: the run checks liveness.                                   *)
EXTENDS FairSlots

CONSTANTS Resident, Transients, PgStrict, Ttl, StaleAfter, Cooldown,
          MaxClock, MaxWater, MaxReady, MaxCrashes

VARIABLES part, clock, water, cursor, place, dec, ready, cur, pending, lastFire,
          sup, ledger, latest, crashes, served

Worker == INSTANCE FireWorker

workerVars == <<clock, water, cursor, place, dec, ready, cur, pending, lastFire,
                sup, ledger, latest, crashes, served>>
servedVars == <<part, vars, workerVars>>

ServedInit == part \in {"slots", "decisions"} /\ Init /\ Worker!Init
ServedNext ==
    \/ part = "slots" /\ Next /\ UNCHANGED <<part, workerVars>>
    \/ part = "decisions" /\ Worker!Next /\ UNCHANGED <<part, vars>>

\* A part that is left alone owes nothing.
ServedFairness ==
    /\ Fairness
    /\ \A c \in Worker!Cores :
          /\ WF_workerVars(part = "decisions" /\ Worker!Loop(c))
          /\ WF_workerVars(part = "decisions" /\ Worker!Fire(c))

ServedSpec == ServedInit /\ [][ServedNext]_servedVars /\ ServedFairness

(* Coalescing into _pending loses nothing (FireWorker).                    *)
DecisionsServed == Worker!DecisionsServed
=============================================================================
