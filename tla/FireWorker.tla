------------------------------ MODULE FireWorker ------------------------------
(***************************************************************************)
(* One calculation worker pair (substrate, symbol): the resident loop of   *)
(* substrate_worker/core (read, decide, fire, heartbeat), the fire tasks   *)
(* it spawns, the one-shot transients of /invoke that share its keys, and  *)
(* the three places they write: the supervisor key (heartbeat and dedupe   *)
(* state), the durable ledger in PostgreSQL and the projection in Redis.   *)
(*                                                                         *)
(* A decision carries the clock value it was taken at (now_ms, later the   *)
(* payload's computed_at_ms), the newest entry id it consumed (0 for none) *)
(* and its trigger source.  Code between two awaits is one step; a Redis   *)
(* or PG round trip is a step of its own, and may fail.                    *)
(***************************************************************************)
EXTENDS Integers, Sequences, FiniteSets, TLC

CONSTANTS
    Resident,    \* the container's worker, which has a governor
    Transients,  \* cores built by tools.invoke, which have none
    PgStrict,    \* pg_strict: a failed insert aborts the fire
    Ttl,         \* life of a heartbeat, supervisor_ms // 1000 + 2
    StaleAfter,  \* staleness_s
    Cooldown,    \* cooldown_s
    MaxClock,    \* bound: the clock stops here
    MaxWater,    \* bound: raw entries that ever arrive
    MaxReady,    \* bound: fire tasks that wait for the lock
    MaxCrashes   \* bound: deaths of the container

ASSUME FireAssumption ==
    /\ Resident \notin Transients
    /\ PgStrict \in BOOLEAN
    /\ {Ttl, StaleAfter, Cooldown, MaxClock, MaxWater, MaxReady, MaxCrashes} \subseteq Nat
    /\ MaxClock >= 1

Cores == Transients \cup {Resident}

Sources == {"cold_start", "recovery", "staleness", "probe"}

VARIABLES
    clock,    \* wall clock
    water,    \* newest id in the raw stream
    cursor,   \* last id delivered to the consumer group, NOACK
    place,    \* where each core's own coroutine is
    dec,      \* the decision it carries to the fire gates
    ready,    \* its fire tasks that do not have the lock yet, in order
    cur,      \* the fire that holds _fire_lock
    pending,  \* _pending, the coalesced decision
    lastFire, \* _last_fire_ms
    sup,      \* the supervisor key
    ledger,   \* computed_at of the rows in substrate_calculation
    latest,   \* computed_at of the Redis projection, 0 when absent
    crashes,
    served    \* history: the newest stamp of a fire that ended, per core

vars == <<clock, water, cursor, place, dec, ready, cur, pending, lastFire,
          sup, ledger, latest, crashes, served>>

Stamp     == 0..MaxClock
Decision  == [at : Stamp, water : 0..MaxWater, src : Sources]
NoDec     == [at |-> 0, water |-> 0, src |-> "none"]
Phase     == {"compute", "publish_gate", "pg_gate", "pg", "publish"}
NoFire    == [d |-> NoDec, phase |-> "idle"]
Never     == MaxClock + Ttl + 1     \* a key without an expiry
NoKey     == [kind |-> "none", water |-> 0, src |-> "none", expires |-> 0]
Heartbeat == [kind |-> "beat", water |-> 0, src |-> "none", expires |-> clock + Ttl]
Mark(d)   == [kind |-> "mark", water |-> d.water, src |-> d.src, expires |-> Never]

Places == {"off", "done", "read", "gate", "dedupe", "launch", "tick", "drain"}

TypeOK ==
    /\ clock \in Stamp
    /\ water \in 0..MaxWater /\ cursor \in 0..water
    /\ place \in [Cores -> Places]
    /\ dec \in [Cores -> Decision \cup {NoDec}]
    /\ ready \in [Cores -> Seq(Decision)]
    /\ cur \in [Cores -> [d : Decision, phase : Phase] \cup {NoFire}]
    /\ pending \in [Cores -> Decision \cup {NoDec}]
    /\ lastFire \in [Cores -> Stamp \cup {-1}]
    /\ sup \in [kind : {"none", "beat", "mark"}, water : 0..MaxWater,
                src : Sources \cup {"none"}, expires : 0..Never]
    /\ ledger \subseteq Stamp
    /\ latest \in Stamp
    /\ crashes \in 0..MaxCrashes
    /\ served \in [Cores -> Stamp]

Init ==
    /\ clock = 1
    /\ water = 0 /\ cursor = 0
    /\ place = [c \in Cores |-> IF c = Resident THEN "read" ELSE "off"]
    /\ dec = [c \in Cores |-> NoDec]
    /\ ready = [c \in Cores |-> <<>>]
    /\ cur = [c \in Cores |-> NoFire]
    /\ pending = [c \in Cores |-> NoDec]
    /\ lastFire = [c \in Cores |-> -1]
    /\ sup = NoKey
    /\ ledger = {}
    /\ latest = 0
    /\ crashes = 0
    /\ served = [c \in Cores |-> 0]

-----------------------------------------------------------------------------
fires  == <<ready, cur, pending, served>>
stores == <<ledger, latest>>
world  == <<clock, water, crashes>>

Governed(c) == c = Resident

(* Redis drops an expired key by itself.                                   *)
KeyAlive == sup.kind # "none" /\ clock < sup.expires

(* The loop runs every ready task before it polls for I/O again, so a core *)
(* gets no reply from Redis while a task of its own could take the lock.   *)
LoopQuiet(c) == ~(cur[c] = NoFire /\ ready[c] # <<>>)

Go(c, p) == place' = [place EXCEPT ![c] = p]

(* After a fire decision the resident goes on to its heartbeat, a          *)
(* transient to _drain().                                                  *)
AfterHandle(c) == IF Governed(c) THEN "tick" ELSE "drain"

(* Time passes; the poller appends to the raw stream.                      *)
Tick ==
    /\ clock < MaxClock
    /\ clock' = clock + 1
    /\ UNCHANGED <<water, cursor, place, dec, fires, lastFire, sup, stores, crashes>>

Arrive ==
    /\ water < MaxWater
    /\ water' = water + 1
    /\ UNCHANGED <<clock, cursor, place, dec, fires, lastFire, sup, stores, crashes>>

(* tools.invoke builds a core; its first act is the heartbeat.             *)
InvokeStart(c) ==
    /\ c \in Transients
    /\ place[c] = "off"
    /\ sup' = Heartbeat
    /\ Go(c, "read")
    /\ UNCHANGED <<world, cursor, dec, fires, lastFire, stores>>

(* A read hands over all there is; NOACK, so it is never handed over again. *)
Delivered == water

(* _read_once() and decide(): everything up to the call of _fire.  The     *)
(* sources are the rungs of the cascade, highest first; what the probe     *)
(* says is open.                                                           *)
MayFire(c, w, src) ==
    CASE src = "cold_start" -> latest = 0 /\ w > 0
      [] src = "recovery"   -> latest > 0
      [] src = "staleness"  -> latest > 0 /\ clock - latest > StaleAfter
      [] src = "probe"      -> /\ latest > 0 /\ w > 0
                               /\ clock - latest <= StaleAfter
                               /\ lastFire[c] = -1 \/ clock - lastFire[c] >= Cooldown

Handle(c) ==
    /\ place[c] = "read" /\ LoopQuiet(c)
    /\ cursor' = Delivered
    /\ LET w == IF Delivered > cursor THEN Delivered ELSE 0 IN
       \/ \E src \in Sources :
            /\ MayFire(c, w, src)
            /\ dec' = [dec EXCEPT ![c] = [at |-> clock, water |-> w, src |-> src]]
            /\ Go(c, "gate")
       \/ /\ Go(c, AfterHandle(c))
          /\ dec' = dec
    /\ UNCHANGED <<world, fires, lastFire, sup, stores>>

(* An exception in decide(): the rows are consumed, the heartbeat of this  *)
(* round is skipped, the loop backs off.                                   *)
LoopFails(c) ==
    /\ place[c] \in {"read", "gate"} /\ LoopQuiet(c)
    /\ cursor' = Delivered
    /\ Go(c, IF Governed(c) THEN "read" ELSE "drain")
    /\ dec' = [dec EXCEPT ![c] = NoDec]
    /\ UNCHANGED <<world, fires, lastFire, sup, stores>>

(* The FIRE gate (and the breaker before it); a core without a governor    *)
(* passes it by.                                                           *)
FireGate(c) ==
    /\ place[c] = "gate" /\ LoopQuiet(c)
    /\ \/ Go(c, "dedupe") /\ dec' = dec
       \/ /\ Governed(c)
          /\ Go(c, AfterHandle(c))
          /\ dec' = [dec EXCEPT ![c] = NoDec]
    /\ UNCHANGED <<world, cursor, fires, lastFire, sup, stores>>

(* The dedupe script: the same (high_water, trigger_source) as the mark in *)
(* the key is a repeat; anything else replaces the key, without a TTL.     *)
SameCondition(d) ==
    KeyAlive /\ sup.kind = "mark" /\ sup.water = d.water /\ sup.src = d.src

Dedupe(c) ==
    /\ place[c] = "dedupe" /\ LoopQuiet(c)
    /\ IF SameCondition(dec[c])
       THEN /\ Go(c, AfterHandle(c))
            /\ dec' = [dec EXCEPT ![c] = NoDec]
            /\ sup' = sup
       ELSE /\ sup' = Mark(dec[c])
            /\ Go(c, "launch")
            /\ dec' = dec
    /\ UNCHANGED <<world, cursor, fires, lastFire, stores>>

(* The script did not run, or ran and its reply was lost: suppressed.      *)
DedupeFails(c) ==
    /\ place[c] = "dedupe" /\ LoopQuiet(c)
    /\ Go(c, AfterHandle(c))
    /\ dec' = [dec EXCEPT ![c] = NoDec]
    /\ sup' \in {sup, Mark(dec[c])}
    /\ UNCHANGED <<world, cursor, fires, lastFire, stores>>

(* The tail of _fire: stamp, then coalesce into _pending or spawn a task.  *)
Launch(c) ==
    /\ place[c] = "launch"
    /\ lastFire' = [lastFire EXCEPT ![c] = dec[c].at]
    /\ IF cur[c] # NoFire
       THEN /\ pending' = [pending EXCEPT ![c] = dec[c]]
            /\ ready' = ready
       ELSE /\ Len(ready[c]) < MaxReady
            /\ ready' = [ready EXCEPT ![c] = Append(@, dec[c])]
            /\ pending' = pending
    /\ Go(c, AfterHandle(c))
    /\ dec' = [dec EXCEPT ![c] = NoDec]
    /\ UNCHANGED <<world, cursor, cur, served, sup, stores>>

(* _tick(): SETEX of the same key; a Redis failure leaves it as it was.    *)
Beat(c) ==
    /\ place[c] = "tick" /\ LoopQuiet(c)
    /\ sup' \in {Heartbeat, sup}
    /\ Go(c, "read")
    /\ UNCHANGED <<world, cursor, dec, fires, lastFire, stores>>

(* The transient's drain is over when no task is left; it is then gone.    *)
InvokeStop(c) ==
    /\ c \in Transients /\ place[c] = "drain"
    /\ cur[c] = NoFire /\ ready[c] = <<>>
    /\ Go(c, "done")
    /\ UNCHANGED <<world, cursor, dec, fires, lastFire, sup, stores>>

-----------------------------------------------------------------------------
(* The first task in line takes _fire_lock.                                *)
Begin(c) ==
    /\ cur[c] = NoFire /\ ready[c] # <<>>
    /\ cur' = [cur EXCEPT ![c] = [d |-> Head(ready[c]), phase |-> "compute"]]
    /\ ready' = [ready EXCEPT ![c] = Tail(@)]
    /\ UNCHANGED <<world, cursor, place, dec, pending, served, lastFire, sup, stores>>

(* The finally clause of _fire_guarded: the lock comes free, and what was  *)
(* coalesced meanwhile becomes one new task.                               *)
EndFireForget(c) ==   \* mutant: _pending is cleared and no task spawned
    /\ cur' = [cur EXCEPT ![c] = NoFire]
    /\ pending' = [pending EXCEPT ![c] = NoDec]
    /\ ready' = ready
    /\ served' = [served EXCEPT ![c] = IF @ > cur[c].d.at THEN @ ELSE cur[c].d.at]

EndFire(c) ==
    /\ cur' = [cur EXCEPT ![c] = NoFire]
    /\ pending' = [pending EXCEPT ![c] = NoDec]
    /\ ready' = IF pending[c] = NoDec THEN ready
                ELSE [ready EXCEPT ![c] = Append(@, pending[c])]
    /\ served' = [served EXCEPT ![c] = IF @ > cur[c].d.at THEN @ ELSE cur[c].d.at]

Advance(c, phase) ==
    /\ cur' = [cur EXCEPT ![c].phase = phase]
    /\ UNCHANGED <<ready, pending, served>>

(* Slot, evidence and compute: a payload to publish, or an exception.      *)
Compute(c) ==
    /\ cur[c].phase = "compute"
    /\ \/ Advance(c, IF Governed(c) THEN "publish_gate" ELSE "pg")
       \/ EndFire(c)
    /\ UNCHANGED <<world, cursor, place, dec, lastFire, sup, stores>>

(* The output rules re-read the projection and refuse a write that         *)
(* precedes it; any other rule, or a failed read, refuses too.             *)
InOrder(d) == d.at >= latest

PublishGate(c) ==
    /\ cur[c].phase = "publish_gate"
    /\ \/ InOrder(cur[c].d) /\ Advance(c, "pg_gate")
       \/ EndFire(c)
    /\ UNCHANGED <<world, cursor, place, dec, lastFire, sup, stores>>

PgGate(c) ==
    /\ cur[c].phase = "pg_gate"
    /\ \/ InOrder(cur[c].d) /\ Advance(c, "pg")
       \/ EndFire(c)
    /\ UNCHANGED <<world, cursor, place, dec, lastFire, sup, stores>>

PgInsert(c) ==
    /\ cur[c].phase = "pg"
    /\ ledger' = ledger \cup {cur[c].d.at}
    /\ Advance(c, "publish")
    /\ UNCHANGED <<world, cursor, place, dec, lastFire, sup, latest>>

(* An error or the ten second timeout; the row may be committed all the    *)
(* same.  Strict: the fire is aborted and re-arms the cooldown.            *)
PgFailsOnward(c) ==   \* mutant: pg_strict is ignored
    /\ cur[c].phase = "pg"
    /\ ledger' \in {ledger, ledger \cup {cur[c].d.at}}
    /\ Advance(c, "publish")
    /\ UNCHANGED <<world, cursor, place, dec, lastFire, sup, latest>>

PgFails(c) ==
    /\ cur[c].phase = "pg"
    /\ ledger' \in {ledger, ledger \cup {cur[c].d.at}}
    /\ IF PgStrict
       THEN EndFire(c) /\ lastFire' = [lastFire EXCEPT ![c] = cur[c].d.at]
       ELSE Advance(c, "publish") /\ lastFire' = lastFire
    /\ UNCHANGED <<world, cursor, place, dec, sup, latest>>

(* One script sets the latest value and appends to the stream.             *)
PublishConsumed(c) ==   \* mutant: stamped with the entry it consumed
    /\ cur[c].phase = "publish"
    /\ latest' = cur[c].d.water
    /\ EndFire(c)
    /\ UNCHANGED <<world, cursor, place, dec, lastFire, sup, ledger>>

Publish(c) ==
    /\ cur[c].phase = "publish"
    /\ latest' = cur[c].d.at
    /\ EndFire(c)
    /\ UNCHANGED <<world, cursor, place, dec, lastFire, sup, ledger>>

PublishFails(c) ==
    /\ cur[c].phase = "publish"
    /\ EndFire(c)
    /\ UNCHANGED <<world, cursor, place, dec, lastFire, sup, stores>>

-----------------------------------------------------------------------------
(* The container dies with every core in it; an insert in flight may still *)
(* commit.  Redis and PG survive, and the restart policy brings up a new   *)
(* process that finds the group, the key and the projection as they are.   *)
InFlight == {cur[c].d.at : c \in {k \in Cores : cur[k].phase = "pg"}}

Crash ==
    /\ place[Resident] # "off"
    /\ crashes < MaxCrashes
    /\ crashes' = crashes + 1
    /\ place' = [c \in Cores |-> IF place[c] \in {"off", "done"} THEN place[c]
                               ELSE IF Governed(c) THEN "off" ELSE "done"]
    /\ dec' = [c \in Cores |-> NoDec]
    /\ ready' = [c \in Cores |-> <<>>]
    /\ cur' = [c \in Cores |-> NoFire]
    /\ pending' = [c \in Cores |-> NoDec]
    /\ lastFire' = [c \in Cores |-> -1]
    /\ \E done \in SUBSET InFlight : ledger' = ledger \cup done
    /\ UNCHANGED <<clock, water, cursor, sup, latest, served>>

Restart ==
    /\ place[Resident] = "off"
    /\ Go(Resident, "read")
    /\ UNCHANGED <<world, cursor, dec, fires, lastFire, sup, stores>>

-----------------------------------------------------------------------------
Loop(c) ==
    \/ InvokeStart(c) \/ Handle(c) \/ LoopFails(c) \/ FireGate(c) \/ Dedupe(c)
    \/ DedupeFails(c) \/ Launch(c) \/ Beat(c) \/ InvokeStop(c)

Fire(c) ==
    \/ Begin(c) \/ Compute(c) \/ PublishGate(c) \/ PgGate(c)
    \/ PgInsert(c) \/ PgFails(c) \/ Publish(c) \/ PublishFails(c)

Next ==
    \/ Tick \/ Arrive \/ Crash \/ Restart
    \/ \E c \in Cores : Loop(c) \/ Fire(c)

Spec == Init /\ [][Next]_vars

(* The process is alive: its loop keeps reading (the blocking read returns *)
(* after read_block_ms at the latest) and every task it runs moves on.     *)
(* Which outcome a round trip has, and when time passes, is nobody's duty. *)
Fairness == \A c \in Cores : WF_vars(Loop(c)) /\ WF_vars(Fire(c))

FairSpec == Spec /\ Fairness

-----------------------------------------------------------------------------
(* "a projection must not move backwards" (governance/fsm.py:312), as long *)
(* as no transient has run: it has no governor, and so no ordering rule.   *)
Alone == \A t \in Transients : place[t] = "off"
ProjectionMonotone == [][Alone' => latest' >= latest]_vars

(* PG first: under pg_strict what Redis shows is in the ledger, whichever  *)
(* round trip failed and wherever the container died.                      *)
LedgerCoversProjection == latest = 0 \/ latest \in ledger

(* Coalescing loses nothing: a decision that passed the dedupe is followed *)
(* by the end of a fire at least as new as it, or by the container's.      *)
DecisionsServed ==
    \A c \in Cores, t \in Stamp :
        (place[c] = "launch" /\ dec[c].at = t)
            ~> (served[c] >= t \/ place[Resident] = "off")

=============================================================================
