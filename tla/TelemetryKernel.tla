--------------------------- MODULE TelemetryKernel ---------------------------
(***************************************************************************)
(* The telemetry kernel (telemetry_kernel/), for one subject: emissions    *)
(* that append an event to the PG ledger, with retries, read the           *)
(* projection, fold the event into what they read, and publish both by one *)
(* Lua script; and rebuild(), which replaces the projection by a replay.   *)
(*                                                                         *)
(* Several processes emit for a subject: a resident worker and an invoke   *)
(* transient, the spot and the futures capture of a symbol.  The order of  *)
(* events, (occurred_at_ms, source_sequence, event_id), is total, so an    *)
(* event is its rank, and it may be emitted late, or again.  Every round   *)
(* trip may fail, before or after it took effect.                          *)
(***************************************************************************)
EXTENDS Integers, Sequences, FiniteSets, SequencesExt

CONSTANTS
    Emitters,    \* coroutines in emit()
    MaxEvent,    \* bound: events of the subject
    InsertRetries,  \* retries
    Configured,  \* those whose process has a PG store
    Limit,       \* limit of rebuild()
    MaxRebuilds  \* bound: calls of rebuild()

ASSUME TelemetryAssumption ==
    /\ {MaxEvent, MaxRebuilds} \subseteq Nat
    /\ InsertRetries \in Nat \ {0} /\ Limit \in Nat \ {0}
    /\ Configured \subseteq Emitters

Events == 1..MaxEvent

VARIABLES
    ledger,   \* the rows of runtime_telemetry_event
    stream,   \* the subject's event stream, marked by event id
    view,     \* the latest projection: its newest event and its event_count
    pc,       \* per emitter
    event,    \* the event it emits
    tries,    \* the tries its insert is at
    previous, \* the projection it read
    errors,   \* its errors are not empty
    replay,   \* the projection rebuild() is about to write, or NoView
    clean,    \* history: events whose emission ended without an error
    rebuilds, \* calls of rebuild()
    rebuilt   \* history: one of them replaced the projection

emitter == <<pc, event, tries, previous, errors>>
kernelVars == <<ledger, stream, view, emitter, replay, rebuilds, clean, rebuilt>>

NoView   == [last |-> 0, count |-> 0]
Views    == [last : 0..MaxEvent, count : Nat]
Places   == {"idle", "persist", "read", "publish"}

KernelTypeOK ==
    /\ ledger \subseteq Events
    /\ stream \in Seq(Events)
    /\ view \in Views
    /\ pc \in [Emitters -> Places]
    /\ event \in [Emitters -> Events \cup {0}]
    /\ tries \in [Emitters -> 0..InsertRetries]
    /\ previous \in [Emitters -> Views]
    /\ errors \in [Emitters -> BOOLEAN]
    /\ replay \in Views
    /\ rebuilds \in 0..MaxRebuilds
    /\ clean \subseteq Events
    /\ rebuilt \in BOOLEAN

KernelInit ==
    /\ ledger = {} /\ stream = <<>> /\ view = NoView
    /\ pc = [k \in Emitters |-> "idle"]
    /\ event = [k \in Emitters |-> 0]
    /\ tries = [k \in Emitters |-> 0]
    /\ previous = [k \in Emitters |-> NoView]
    /\ errors = [k \in Emitters |-> FALSE]
    /\ replay = NoView /\ rebuilds = 0
    /\ clean = {}
    /\ rebuilt = FALSE

-----------------------------------------------------------------------------
(* The projection after an event: a late one changes nothing.              *)
Reduce(previousView, e) ==
    IF previousView # NoView /\ e <= previousView.last THEN previousView
    ELSE [last |-> e, count |-> previousView.count + 1]

Published == ToSet(stream)

(* The script's own comparison with what is there now.                     *)
Replaces(new) == view = NoView \/ new.last > view.last

-----------------------------------------------------------------------------
Step(k, place) == pc' = [pc EXCEPT ![k] = place]
Fails(k) == errors' = [errors EXCEPT ![k] = TRUE]

(* emit() returns, and its locals are gone.                                *)
Gone(k) ==
    /\ Step(k, "idle")
    /\ event' = [event EXCEPT ![k] = 0]
    /\ tries' = [tries EXCEPT ![k] = 0]
    /\ previous' = [previous EXCEPT ![k] = NoView]
    /\ errors' = [errors EXCEPT ![k] = FALSE]

Returns(k, failed) ==
    /\ Gone(k)
    /\ clean' = IF errors[k] \/ failed THEN clean ELSE clean \cup {event[k]}

EmitState(k) ==
    /\ pc[k] = "idle"
    /\ \E e \in Events : event' = [event EXCEPT ![k] = e]
    /\ tries' = [tries EXCEPT ![k] = 1]
    /\ Step(k, "persist")
    /\ UNCHANGED <<ledger, stream, view, previous, errors, replay, rebuilds, clean, rebuilt>>

Persisted(k) == Step(k, "read") /\ tries' = [tries EXCEPT ![k] = 0]

(* INSERT ... ON CONFLICT DO NOTHING; without a store that is an error too. *)
Persist(k) ==
    /\ pc[k] = "persist"
    /\ IF k \in Configured
       THEN ledger' = ledger \cup {event[k]} /\ errors' = errors
       ELSE ledger' = ledger /\ Fails(k)
    /\ Persisted(k)
    /\ UNCHANGED <<stream, view, event, previous, replay, rebuilds, clean, rebuilt>>

MoreAttempts(k) == tries[k] < InsertRetries

(* The insert raises, with the row in or not: again, up to InsertRetries.  *)
PersistFails(k) ==
    /\ pc[k] = "persist" /\ k \in Configured
    /\ ledger' \in {ledger, ledger \cup {event[k]}}
    /\ Fails(k)
    /\ IF MoreAttempts(k)
       THEN tries' = [tries EXCEPT ![k] = @ + 1] /\ pc' = pc
       ELSE Persisted(k)
    /\ UNCHANGED <<stream, view, event, previous, replay, rebuilds, clean, rebuilt>>

ReadProjection(k) ==
    /\ pc[k] = "read"
    /\ \/ previous' = [previous EXCEPT ![k] = view] /\ errors' = errors
       \/ previous' = [previous EXCEPT ![k] = NoView] /\ Fails(k)
    /\ Step(k, "publish")
    /\ UNCHANGED <<ledger, stream, view, event, tries, replay, rebuilds, clean, rebuilt>>

(* The script: nothing for a marked event; else mark it, append it and     *)
(* replace the projection, unless that is of a newer event.                *)
ScriptBlind(k) ==   \* mutant: the projection is set without a comparison
    IF event[k] \in Published
    THEN UNCHANGED <<stream, view>>
    ELSE /\ stream' = Append(stream, event[k])
         /\ view' = Reduce(previous[k], event[k])

Script(k) ==
    IF event[k] \in Published
    THEN UNCHANGED <<stream, view>>
    ELSE /\ stream' = Append(stream, event[k])
         /\ LET new == Reduce(previous[k], event[k])
            IN  view' = IF Replaces(new) THEN new ELSE view

Publish(k) ==
    /\ pc[k] = "publish"
    /\ Script(k)
    /\ Returns(k, FALSE)
    /\ UNCHANGED <<ledger, replay, rebuilds, rebuilt>>

PublishFailsQuietly(k) ==   \* mutant: the exception is not recorded
    /\ pc[k] = "publish"
    /\ Script(k) \/ UNCHANGED <<stream, view>>
    /\ Returns(k, FALSE)
    /\ UNCHANGED <<ledger, replay, rebuilds, rebuilt>>

PublishFails(k) ==
    /\ pc[k] = "publish"
    /\ Script(k) \/ UNCHANGED <<stream, view>>
    /\ Returns(k, TRUE)
    /\ UNCHANGED <<ledger, replay, rebuilds, rebuilt>>

(* The emitter's process dies, or the emission is cancelled.               *)
Die(k) ==
    /\ pc[k] # "idle"
    /\ Gone(k)
    /\ UNCHANGED <<ledger, stream, view, replay, rebuilds, clean, rebuilt>>

-----------------------------------------------------------------------------
(* What rebuild() reads: of the ledger the first Limit rows in the order   *)
(* of events; in a process without a PG store, the stream's last Limit.    *)
Oldest(S) == {e \in S : Cardinality({d \in S : d < e}) < Limit}
Newest(s) == {s[i] : i \in {j \in DOMAIN s : j > Len(s) - Limit}}

(* rebuild_projection: the events in their order, each counted.            *)
ReplayOnTop(S, n) ==   \* mutant: the replay starts from the projection there is
    [last |-> n, count |-> view.count + Cardinality(S)]
Replay(S, n) == [last |-> n, count |-> Cardinality(S)]

RebuildReads ==
    /\ replay = NoView /\ rebuilds < MaxRebuilds
    /\ rebuilds' = rebuilds + 1
    /\ \E S \in {Oldest(ledger), Newest(stream)} : \E n \in S :
          /\ \A e \in S : e <= n
          /\ replay' = Replay(S, n)
    /\ UNCHANGED <<ledger, stream, view, emitter, clean, rebuilt>>

(* A plain SET, whatever is there by now; or the SET fails.                *)
RebuildWrites ==
    /\ replay # NoView
    /\ \/ view' = replay /\ rebuilt' = TRUE
       \/ UNCHANGED <<view, rebuilt>>
    /\ replay' = NoView
    /\ UNCHANGED <<ledger, stream, emitter, rebuilds, clean>>

KernelNext ==
    \/ RebuildReads \/ RebuildWrites
    \/ \E k \in Emitters :
         \/ EmitState(k) \/ Persist(k) \/ PersistFails(k) \/ ReadProjection(k)
         \/ Publish(k) \/ PublishFails(k) \/ Die(k)

KernelSpec == KernelInit /\ [][KernelNext]_kernelVars

-----------------------------------------------------------------------------
(* "without allowing late arrivals to rewind state" (projections.py:18):   *)
(* however emitters overlap between their reads and their scripts, the     *)
(* projection is that of the newest event published so far.                *)
IsNewest(n, S) == IF S = {} THEN n = 0 ELSE n \in S /\ \A e \in S : e <= n

ViewNewest == ~rebuilt => IsNewest(view.last, Published)

(* Only a rebuild moves the projection back; an emission never does, not   *)
(* even one that read it before the rebuild.                               *)
OnlyRebuildRewinds ==
    [][view'.last < view.last => replay # NoView /\ replay' = NoView]_kernelVars

(* event_count never claims more events than there are up to last: neither *)
(* retries nor overlapping folds nor a rebuild in between count one twice. *)
CountHonest ==
    view.count <= Cardinality({e \in ledger \cup Published : e <= view.last})

(* "Degraded delivery is SURFACED, never silently treated as success"      *)
(* (kernel.py:140): an emission without errors is in the ledger, in the    *)
(* stream and, until a rebuild, covered by the projection.                 *)
NoSilentLoss ==
    /\ clean \subseteq ledger \cap Published
    /\ ~rebuilt => \A e \in clean : e <= view.last

=============================================================================
