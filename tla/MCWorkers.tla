------------------------------ MODULE MCWorkers ------------------------------
(* Three sides of a worker that share no variable: `part` says which of    *)
(* them a behavior is about.                                               *)
(* The reader: entries of one period, groups lost at any time.             *)
(* The horizon fold: both venues, a few trades over two segments, and      *)
(* snapshots that overlap.                                                 *)
(* The cascades of the eighteen workers, each with two readings between    *)
(* which the market moves.                                                 *)
EXTENDS HorizonFold, DecideCascades, InputReader

VARIABLE part

OneGrid == {[length |-> 2, offset |-> 1]}

workersVars == <<part, foldVars, decideVars, readerVars>>

\* The cascade the other behaviors leave alone is one of its states.
CascadeIdle ==
    /\ worker = "volume_profile"
    /\ ~reading.profile /\ other = reading

WorkersInit ==
    /\ part \in {"fold", "decide", "reader"} /\ FoldInit /\ DecideInit /\ ReaderInit
    /\ part # "decide" => CascadeIdle
    /\ part # "reader" => usesWs
WorkersNext ==
    \/ part = "fold" /\ FoldNext /\ UNCHANGED <<part, decideVars, readerVars>>
    \/ part = "decide" /\ DecideNext /\ UNCHANGED <<part, foldVars, readerVars>>
    \/ part = "reader" /\ ReaderNext /\ UNCHANGED <<part, foldVars, decideVars>>
WorkersSpec == WorkersInit /\ [][WorkersNext]_workersVars
=============================================================================
