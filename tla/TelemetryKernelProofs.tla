------------------------ MODULE TelemetryKernelProofs ------------------------
(***************************************************************************)
(* The telemetry projection is that of the newest event, never counts one  *)
(* twice and is never said to be complete when it is not, for any number   *)
(* of emitters, events and retries.                                        *)
(*                                                                         *)
(* The script compares what an emitter folded with what is there now, but  *)
(* it takes the fold as it comes; so the invariant says of every fold that *)
(* is under way what CountHonest and ViewNewest say of the projection.     *)
(***************************************************************************)
EXTENDS TelemetryKernel, FiniteSetTheorems, TLAPS

(* The events that left a trace anywhere.                                  *)
Known == ledger \cup Published

(* A projection that claims no more events than S has up to its last.      *)
Upto(n, S) == {e \in S : e <= n}
Honest(v, S) == v.count <= Cardinality(Upto(v.last, S))

FoldsHonest ==
    /\ Honest(view, Known)
    /\ Honest(replay, Known)
    /\ \A k \in Emitters : Honest(previous[k], Known)

(* An emission under way has an event, and without an error so far the     *)
(* ledger has it too.                                                      *)
InFlight ==
    \A k \in Emitters :
        /\ pc[k] # "idle" => event[k] \in Events
        /\ pc[k] \in {"read", "publish"} /\ ~errors[k] => event[k] \in ledger

(* Until a rebuild, what an emitter has read is no newer than what is      *)
(* there.                                                                  *)
ReadsBehind ==
    ~rebuilt => \A k \in Emitters : previous[k].last <= view.last

IInv ==
    /\ KernelTypeOK
    /\ FoldsHonest
    /\ InFlight
    /\ ReadsBehind
    /\ ViewNewest
    /\ NoSilentLoss

-----------------------------------------------------------------------------

LEMMA EventsFinite == IsFiniteSet(Events)
  BY FS_Interval, TelemetryAssumption DEF Events

(* A projection stays honest when more is known.                           *)
LEMMA HonestStays ==
  ASSUME NEW v \in Views, NEW S \in SUBSET Events, NEW T \in SUBSET Events,
         S \subseteq T, Honest(v, S)
  PROVE  Honest(v, T)
<1>1. IsFiniteSet(Upto(v.last, T)) /\ IsFiniteSet(Upto(v.last, S))
  BY EventsFinite, FS_Subset DEF Upto
<1>2. Upto(v.last, S) \subseteq Upto(v.last, T)
  BY DEF Upto
<1>3. Cardinality(Upto(v.last, S)) <= Cardinality(Upto(v.last, T))
  BY <1>1, <1>2, FS_Subset
<1>4. /\ Cardinality(Upto(v.last, S)) \in Nat
      /\ Cardinality(Upto(v.last, T)) \in Nat /\ v.count \in Nat
  BY <1>1, FS_CardinalityType DEF Views
<1> QED
  BY <1>3, <1>4 DEF Honest

LEMMA NoViewHonest ==
  ASSUME NEW S \in SUBSET Events
  PROVE  NoView \in Views /\ Honest(NoView, S)
<1>1. IsFiniteSet(Upto(0, S))
  BY EventsFinite, FS_Subset DEF Upto
<1>2. Cardinality(Upto(0, S)) \in Nat
  BY <1>1, FS_CardinalityType
<1> QED
  BY <1>2, TelemetryAssumption DEF NoView, Honest, Views

(* One fold: counted once, never back, and honest once its event is known. *)
LEMMA ReduceHonest ==
  ASSUME NEW v \in Views, NEW e \in Events, NEW S \in SUBSET Events,
         Honest(v, S), e \in S
  PROVE  /\ Reduce(v, e) \in Views
         /\ Honest(Reduce(v, e), S)
         /\ Reduce(v, e).last = IF e <= v.last THEN v.last ELSE e
<1>0. /\ v.last \in 0..MaxEvent /\ v.count \in Nat
      /\ e \in Nat \ {0} /\ e <= MaxEvent /\ MaxEvent \in Nat
  BY TelemetryAssumption DEF Views, Events
<1>1. CASE e <= v.last
  <2>1. v # NoView
    BY <1>0, <1>1 DEF NoView
  <2>2. Reduce(v, e) = v
    BY <1>1, <2>1 DEF Reduce
  <2> QED
    BY <1>1, <2>2
<1>2. CASE ~(e <= v.last)
  <2>1. Reduce(v, e) = [last |-> e, count |-> v.count + 1]
    BY <1>2 DEF Reduce
  <2>2. IsFiniteSet(Upto(v.last, S)) /\ IsFiniteSet(Upto(e, S))
    BY EventsFinite, FS_Subset DEF Upto
  <2>3. e \notin Upto(v.last, S)
    BY <1>2 DEF Upto
  <2>4. Upto(v.last, S) \cup {e} \subseteq Upto(e, S)
    <3>1. SUFFICES ASSUME NEW x \in S, x <= v.last \/ x = e PROVE x <= e
      BY DEF Upto
    <3>2. x \in Nat
      BY DEF Events
    <3> QED
      BY <1>0, <1>2, <3>1, <3>2
  <2>5. /\ IsFiniteSet(Upto(v.last, S) \cup {e})
        /\ Cardinality(Upto(v.last, S) \cup {e}) = Cardinality(Upto(v.last, S)) + 1
    BY <2>2, <2>3, FS_AddElement
  <2>6. Cardinality(Upto(v.last, S) \cup {e}) <= Cardinality(Upto(e, S))
    BY <2>2, <2>4, FS_Subset
  <2>7. Cardinality(Upto(v.last, S)) \in Nat /\ Cardinality(Upto(e, S)) \in Nat
    BY <2>2, FS_CardinalityType
  <2>8. v.count + 1 <= Cardinality(Upto(e, S))
    BY <1>0, <2>5, <2>6, <2>7 DEF Honest
  <2>9. Reduce(v, e).last = e /\ Reduce(v, e).count = v.count + 1
    BY <2>1
  <2>10. Reduce(v, e) \in Views
    BY <1>0, <2>1 DEF Views
  <2> QED
    BY <1>2, <2>8, <2>9, <2>10 DEF Honest
<1> QED
  BY <1>1, <1>2

(* A replay counts the events it read, all of them known.                  *)
LEMMA ReplayHonest ==
  ASSUME NEW K \in SUBSET Events, NEW S \in SUBSET K, NEW n \in S,
         \A e \in S : e <= n
  PROVE  Replay(S, n) \in Views /\ Honest(Replay(S, n), K)
<1>1. IsFiniteSet(S) /\ IsFiniteSet(Upto(n, K))
  BY EventsFinite, FS_Subset DEF Upto
<1>2. S \subseteq Upto(n, K)
  BY DEF Upto
<1>3. Cardinality(S) <= Cardinality(Upto(n, K)) /\ Cardinality(S) \in Nat
  BY <1>1, <1>2, FS_Subset, FS_CardinalityType
<1>4. n \in 0..MaxEvent
  BY TelemetryAssumption DEF Events
<1> QED
  BY <1>3, <1>4 DEF Replay, Views, Honest

LEMMA AppendPublishes ==
  ASSUME NEW s \in Seq(Events), NEW e \in Events
  PROVE  Append(s, e) \in Seq(Events) /\ ToSet(Append(s, e)) = ToSet(s) \cup {e}
<1>1. /\ DOMAIN s = 1..Len(s) /\ DOMAIN Append(s, e) = 1..(Len(s) + 1)
      /\ \A i \in 1..Len(s) : Append(s, e)[i] = s[i]
      /\ Append(s, e)[Len(s) + 1] = e /\ Len(s) \in Nat
      /\ Append(s, e) \in Seq(Events)
  OBVIOUS
<1>2. 1..(Len(s) + 1) = 1..Len(s) \cup {Len(s) + 1}
  BY <1>1
<1> QED
  BY <1>1, <1>2 DEF ToSet

LEMMA KnownEvents == KernelTypeOK => Published \subseteq Events /\ Known \subseteq Events
  BY DEF KernelTypeOK, Published, Known, ToSet

-----------------------------------------------------------------------------

LEMMA InitIInv == KernelInit => IInv
<1> SUFFICES ASSUME KernelInit PROVE IInv
  OBVIOUS
<1>1. NoView \in Views /\ 0 \in Nat
  BY NoViewHonest
<1>2. KernelTypeOK
  <2>1. /\ ledger \subseteq Events /\ view \in Views
        /\ replay \in Views /\ clean \subseteq Events /\ rebuilt \in BOOLEAN
        /\ rebuilds \in 0..MaxRebuilds /\ stream \in Seq(Events)
    <3>1. /\ ledger = {} /\ stream = <<>> /\ view = NoView /\ replay = NoView
          /\ clean = {} /\ rebuilt = FALSE /\ rebuilds = 0
      BY DEF KernelInit
    <3>2. 0 \in 0..MaxRebuilds
      BY TelemetryAssumption
    <3>3. /\ <<>> \in Seq(Events) /\ {} \subseteq Events /\ FALSE \in BOOLEAN
      OBVIOUS
    <3>4. stream \in Seq(Events)
      BY <3>1, <3>3
    <3>5. rebuilt \in BOOLEAN
      BY <3>1
    <3>6. rebuilds \in 0..MaxRebuilds
      BY <3>1, <3>2
    <3> QED
      BY <1>1, <3>1, <3>4, <3>5, <3>6
  <2>2. /\ pc \in [Emitters -> Places] /\ event \in [Emitters -> Events \cup {0}]
        /\ previous \in [Emitters -> Views] /\ errors \in [Emitters -> BOOLEAN]
        /\ tries \in [Emitters -> 0..InsertRetries]
    BY <1>1, TelemetryAssumption DEF KernelInit, Places
  <2> QED
    BY <2>1, <2>2 DEF KernelTypeOK
<1>3. Published = {}
  BY DEF KernelInit, Published, ToSet
<1>4. FoldsHonest
  BY <1>2, KnownEvents, NoViewHonest DEF KernelInit, FoldsHonest
<1>5. InFlight
  BY DEF KernelInit, InFlight
<1>6. ReadsBehind
  BY DEF KernelInit, ReadsBehind, NoView
<1>7. ViewNewest
  BY <1>3 DEF KernelInit, ViewNewest, IsNewest, NoView
<1>8. NoSilentLoss
  BY DEF KernelInit, NoSilentLoss
<1> QED
  BY <1>2, <1>4, <1>5, <1>6, <1>7, <1>8 DEF IInv

(* The script, or its failure, in whatever state it finds the projection.  *)
LEMMA ScriptForward ==
  ASSUME IInv, NEW k \in Emitters, pc[k] = "publish",
         Script(k) \/ UNCHANGED <<stream, view>>, ledger' = ledger
  PROVE  /\ stream' \in Seq(Events) /\ view' \in Views
         /\ Published \subseteq Published' /\ Known \subseteq Known'
         /\ Known' \in SUBSET Events
         /\ Script(k) => event[k] \in Published'
         /\ Honest(view', Known')
         /\ view.last <= view'.last
         /\ ~rebuilt => IsNewest(view'.last, Published')
<1>0. /\ KernelTypeOK /\ stream \in Seq(Events) /\ view \in Views /\ ledger \subseteq Events
      /\ previous[k] \in Views /\ event[k] \in Events
      /\ Published \subseteq Events /\ Known \in SUBSET Events
      /\ view.last \in Nat /\ event[k] \in Nat \ {0} /\ previous[k].last \in Nat
      /\ Honest(view, Known) /\ Honest(previous[k], Known)
  <2>1. KernelTypeOK /\ Published \subseteq Events /\ Known \in SUBSET Events
    BY KnownEvents DEF IInv
  <2>2. /\ stream \in Seq(Events) /\ view \in Views /\ ledger \subseteq Events
        /\ previous[k] \in Views
    BY <2>1 DEF KernelTypeOK
  <2>3. event[k] \in Events
    BY DEF IInv, InFlight
  <2>4. Honest(view, Known) /\ Honest(previous[k], Known)
    BY DEF IInv, FoldsHonest
  <2>5. event[k] \in Nat \ {0}
    BY <2>3 DEF Events
  <2>6. view.last \in Nat /\ previous[k].last \in Nat
    BY <2>2 DEF Views
  <2> QED
    BY <2>1, <2>2, <2>3, <2>4, <2>5, <2>6
<1>1. CASE UNCHANGED <<stream, view>>
  <2>1. Published' = Published /\ Known' = Known
    BY <1>1 DEF Published, Known
  <2>2. Script(k) => event[k] \in Published
    <3>1. SUFFICES ASSUME Script(k), event[k] \notin Published PROVE FALSE
      OBVIOUS
    <3>2. stream' = Append(stream, event[k])
      BY <3>1 DEF Script
    <3>3. Len(stream') = Len(stream) + 1 /\ Len(stream) \in Nat
      BY <1>0, <3>2
    <3> QED
      BY <1>1, <3>3
  <2> QED
    BY <1>0, <1>1, <2>1, <2>2 DEF IInv, ViewNewest
<1>2. CASE Script(k) /\ event[k] \in Published
  <2>1. UNCHANGED <<stream, view>>
    BY <1>2 DEF Script
  <2> QED
    BY <1>1, <2>1
<1>3. CASE Script(k) /\ event[k] \notin Published
  <2> DEFINE e == event[k]
             new == Reduce(previous[k], e)
  <2>1. stream' = Append(stream, e) /\ view' = IF Replaces(new) THEN new ELSE view
    BY <1>3 DEF Script
  <2>2. stream' \in Seq(Events) /\ Published' = Published \cup {e}
    BY <1>0, <2>1, AppendPublishes DEF Published
  <2>3. Known \subseteq Known' /\ Known' \in SUBSET Events /\ e \in Known'
    BY <1>0, <2>2 DEF Known
  <2>4. Honest(previous[k], Known') /\ Honest(view, Known')
    BY <1>0, <2>3, HonestStays
  <2>5. /\ new \in Views /\ Honest(new, Known')
        /\ new.last = IF e <= previous[k].last THEN previous[k].last ELSE e
    BY <1>0, <2>3, <2>4, ReduceHonest
  <2> HIDE DEF new, e
  <2>6. view' \in Views /\ Honest(view', Known')
    BY <1>0, <2>1, <2>4, <2>5
  <2>7. /\ new.last \in Nat
        /\ view'.last = IF Replaces(new) THEN new.last ELSE view.last
    BY <2>1, <2>5 DEF Views
  <2>8. Replaces(new) <=> new.last > view.last
    <3>1. view = NoView => new.last > view.last
      BY <1>0, <2>5 DEF NoView, e
    <3> QED
      BY <3>1 DEF Replaces
  <2>9. view.last <= view'.last
    BY <1>0, <2>7, <2>8
  <2>10. ~rebuilt => IsNewest(view'.last, Published')
    <3>1. SUFFICES ASSUME ~rebuilt PROVE IsNewest(view'.last, Published')
      OBVIOUS
    <3>2. previous[k].last <= view.last /\ IsNewest(view.last, Published)
      BY <3>1 DEF IInv, ReadsBehind, ViewNewest
    <3>3. e \in Nat \ {0}
      BY <1>0 DEF e
    <3>4. view'.last = IF e > view.last THEN e ELSE view.last
      BY <1>0, <2>5, <2>7, <2>8, <3>2, <3>3
    <3>5. Published \subseteq Nat
      BY <1>0 DEF Events
    <3>6. CASE Published = {}
      BY <1>0, <2>2, <3>2, <3>3, <3>4, <3>6 DEF IsNewest
    <3>7. CASE Published # {}
      BY <1>0, <2>2, <3>2, <3>3, <3>4, <3>5, <3>7 DEF IsNewest
    <3> QED
      BY <3>6, <3>7
  <2> QED
    BY <2>2, <2>3, <2>6, <2>9, <2>10, <1>0 DEF e
<1> QED
  BY <1>1, <1>2, <1>3

(* What emit() leaves behind when it returns or is cut short.              *)
LEMMA GoneLeaves ==
  ASSUME KernelTypeOK, NEW k \in Emitters, Gone(k)
  PROVE  /\ pc' \in [Emitters -> Places] /\ event' \in [Emitters -> Events \cup {0}]
         /\ tries' \in [Emitters -> 0..InsertRetries]
         /\ previous' \in [Emitters -> Views] /\ errors' \in [Emitters -> BOOLEAN]
         /\ pc'[k] = "idle" /\ previous'[k] = NoView
         /\ \A j \in Emitters \ {k} :
               /\ pc'[j] = pc[j] /\ event'[j] = event[j]
               /\ previous'[j] = previous[j] /\ errors'[j] = errors[j]
<1>1. NoView \in Views /\ 0 \in 0..InsertRetries
  BY NoViewHonest, TelemetryAssumption
<1>2. /\ pc' \in [Emitters -> Places] /\ pc'[k] = "idle"
      /\ \A j \in Emitters \ {k} : pc'[j] = pc[j]
  BY DEF KernelTypeOK, Gone, Step, Places
<1>3. /\ event' \in [Emitters -> Events \cup {0}]
      /\ \A j \in Emitters \ {k} : event'[j] = event[j]
  BY DEF KernelTypeOK, Gone
<1>4. tries' \in [Emitters -> 0..InsertRetries]
  BY <1>1 DEF KernelTypeOK, Gone
<1>5. /\ previous' \in [Emitters -> Views] /\ previous'[k] = NoView
      /\ \A j \in Emitters \ {k} : previous'[j] = previous[j]
  BY <1>1 DEF KernelTypeOK, Gone
<1>6. /\ errors' \in [Emitters -> BOOLEAN]
      /\ \A j \in Emitters \ {k} : errors'[j] = errors[j]
  BY DEF KernelTypeOK, Gone
<1> QED
  BY <1>2, <1>3, <1>4, <1>5, <1>6

(* An emission ends with what the script did to stream and view.           *)
LEMMA EndIInv ==
  ASSUME IInv, NEW k \in Emitters, Gone(k), pc[k] # "idle",
         stream' \in Seq(Events), view' \in Views,
         Published \subseteq Published', Known' \in SUBSET Events,
         Honest(view', Known'), view.last <= view'.last,
         ~rebuilt => IsNewest(view'.last, Published'),
         \/ clean' = clean
         \/ clean' = clean \cup {event[k]} /\ event[k] \in ledger \cap Published',
         UNCHANGED <<ledger, replay, rebuilds, rebuilt>>
  PROVE  IInv'
<1>0. /\ KernelTypeOK /\ Known \in SUBSET Events /\ event[k] \in Events
      /\ view \in Views /\ replay \in Views /\ clean \subseteq Events
      /\ previous \in [Emitters -> Views]
  BY KnownEvents DEF IInv, KernelTypeOK, InFlight
<1>1. KernelTypeOK'
  BY <1>0, GoneLeaves DEF KernelTypeOK
<1>2. Known \subseteq Known'
  BY DEF Known
<1>3. FoldsHonest'
  <2>1. Honest(replay', Known')
    BY <1>0, <1>2, HonestStays DEF IInv, FoldsHonest
  <2>2. ASSUME NEW j \in Emitters PROVE Honest(previous'[j], Known')
    <3>1. CASE j = k
      BY <1>0, <3>1, GoneLeaves, NoViewHonest
    <3>2. CASE j # k
      <4>1. previous'[j] = previous[j]
        BY <1>0, <3>2, GoneLeaves
      <4>2. Honest(previous[j], Known) /\ previous[j] \in Views
        BY <1>0 DEF IInv, FoldsHonest
      <4> QED
        BY <1>0, <1>2, <4>1, <4>2, HonestStays
    <3> QED
      BY <3>1, <3>2
  <2> QED
    BY <2>1, <2>2 DEF FoldsHonest
<1>4. InFlight'
  BY <1>0, GoneLeaves DEF IInv, InFlight
<1>5. ReadsBehind'
  <2>1. SUFFICES ASSUME ~rebuilt, NEW j \in Emitters
                 PROVE  previous'[j].last <= view'.last
    BY DEF ReadsBehind
  <2>2. view.last \in Nat /\ view'.last \in Nat /\ previous[j].last \in Nat
    BY <1>0 DEF Views
  <2>3. previous[j].last <= view.last
    BY <2>1 DEF IInv, ReadsBehind
  <2>4. CASE j = k
    BY <1>0, <2>2, <2>4, GoneLeaves DEF NoView
  <2>5. CASE j # k
    <3>1. previous'[j] = previous[j]
      BY <1>0, <2>5, GoneLeaves
    <3> QED
      BY <2>2, <2>3, <3>1
  <2> QED
    BY <2>4, <2>5
<1>6. ViewNewest'
  BY DEF ViewNewest
<1>7. NoSilentLoss'
  <2>1. clean' \subseteq ledger' \cap Published'
    BY DEF IInv, NoSilentLoss
  <2>2. ~rebuilt' => \A e \in clean' : e <= view'.last
    BY <2>1 DEF IsNewest
  <2> QED
    BY <2>1, <2>2 DEF NoSilentLoss
<1> QED
  BY <1>1, <1>3, <1>4, <1>5, <1>6, <1>7 DEF IInv

(* A step of an emission before the script: stream and projection stand,   *)
(* the ledger may grow.                                                    *)
LEMMA UnderWayIInv ==
  ASSUME IInv, KernelTypeOK', ledger \subseteq ledger', InFlight',
         \A j \in Emitters : previous'[j] \in {previous[j], view, NoView},
         UNCHANGED <<stream, view, replay, rebuilds, clean, rebuilt>>
  PROVE  IInv'
<1>0. /\ KernelTypeOK /\ Known \in SUBSET Events /\ Known' \in SUBSET Events
      /\ view \in Views /\ replay \in Views /\ previous \in [Emitters -> Views]
  <2>1. KernelTypeOK /\ Known \in SUBSET Events
    BY KnownEvents DEF IInv
  <2>2. ledger' \subseteq Events /\ Published' = Published /\ Published \subseteq Events
    BY <2>1, KnownEvents DEF KernelTypeOK, Published
  <2> QED
    BY <2>1, <2>2 DEF KernelTypeOK, Known
<1>1. Published' = Published /\ Known \subseteq Known'
  BY DEF Published, Known
<1>2. FoldsHonest'
  <2>1. Honest(replay', Known') /\ Honest(view', Known')
    BY <1>0, <1>1, HonestStays DEF IInv, FoldsHonest
  <2>2. ASSUME NEW j \in Emitters PROVE Honest(previous'[j], Known')
    <3>1. Honest(previous[j], Known) /\ previous[j] \in Views
      BY <1>0 DEF IInv, FoldsHonest
    <3>2. Honest(previous[j], Known') /\ Honest(NoView, Known')
      BY <1>0, <1>1, <3>1, HonestStays, NoViewHonest
    <3> QED
      BY <2>1, <3>2
  <2> QED
    BY <2>1, <2>2 DEF FoldsHonest
<1>3. ReadsBehind'
  <2>1. SUFFICES ASSUME ~rebuilt, NEW j \in Emitters
                 PROVE  previous'[j].last <= view'.last
    BY DEF ReadsBehind
  <2>2. view.last \in Nat /\ previous[j].last <= view.last /\ NoView.last = 0
    BY <1>0, <2>1 DEF Views, IInv, ReadsBehind, NoView
  <2> QED
    BY <2>2
<1>4. ViewNewest'
  BY <1>1 DEF IInv, ViewNewest
<1>5. NoSilentLoss'
  BY <1>1 DEF IInv, NoSilentLoss
<1> QED
  BY <1>2, <1>3, <1>4, <1>5 DEF IInv

-----------------------------------------------------------------------------

LEMMA EmitIInv ==
  ASSUME IInv, NEW k \in Emitters, EmitState(k)
  PROVE  IInv'
<1>0. KernelTypeOK
  BY DEF IInv
<1>1. PICK e \in Events : event' = [event EXCEPT ![k] = e]
  BY DEF EmitState
<1>2. KernelTypeOK'
  <2>1. 1 \in 0..InsertRetries
    BY TelemetryAssumption
  <2>2. tries' \in [Emitters -> 0..InsertRetries] /\ pc' \in [Emitters -> Places]
    BY <1>0, <2>1 DEF KernelTypeOK, EmitState, Step, Places
  <2>3. event' \in [Emitters -> Events \cup {0}]
    BY <1>0, <1>1 DEF KernelTypeOK
  <2> QED
    BY <1>0, <2>2, <2>3 DEF KernelTypeOK, EmitState
<1>3. InFlight'
  BY <1>0, <1>1 DEF IInv, InFlight, KernelTypeOK, EmitState, Step
<1> QED
  BY <1>2, <1>3, UnderWayIInv DEF EmitState

LEMMA PersistIInv ==
  ASSUME IInv, NEW k \in Emitters, Persist(k) \/ PersistFails(k)
  PROVE  IInv'
<1>0. KernelTypeOK /\ event[k] \in Events /\ pc[k] = "persist"
  BY DEF IInv, InFlight, Persist, PersistFails
<1>1. ledger' \in {ledger, ledger \cup {event[k]}}
  BY DEF Persist, PersistFails
<1>2. /\ errors' = errors /\ event[k] \in ledger'
      \/ Fails(k)
  BY DEF Persist, PersistFails
<1>3. \/ Persisted(k)
      \/ tries[k] < InsertRetries /\ tries' = [tries EXCEPT ![k] = @ + 1] /\ pc' = pc /\ Fails(k)
  BY DEF Persist, PersistFails, MoreAttempts
<1>4. UNCHANGED <<stream, view, event, previous, replay, rebuilds, clean, rebuilt>>
  BY DEF Persist, PersistFails
<1>5. KernelTypeOK'
  <2>1. ledger' \subseteq Events
    BY <1>0, <1>1 DEF KernelTypeOK
  <2>2. errors' \in [Emitters -> BOOLEAN]
    BY <1>0, <1>2 DEF KernelTypeOK, Fails
  <2>3. pc' \in [Emitters -> Places]
    BY <1>0, <1>3 DEF KernelTypeOK, Persisted, Step, Places
  <2>4. tries' \in [Emitters -> 0..InsertRetries]
    <3>1. 0 \in 0..InsertRetries /\ tries[k] \in 0..InsertRetries /\ InsertRetries \in Nat
      BY <1>0, TelemetryAssumption DEF KernelTypeOK
    <3>2. tries[k] < InsertRetries => tries[k] + 1 \in 0..InsertRetries
      BY <3>1
    <3> QED
      BY <1>0, <1>3, <3>1, <3>2 DEF KernelTypeOK, Persisted
  <2> QED
    BY <1>0, <1>4, <2>1, <2>2, <2>3, <2>4 DEF KernelTypeOK
<1>6. InFlight'
  <2>1. SUFFICES ASSUME NEW j \in Emitters
                 PROVE  /\ pc'[j] # "idle" => event'[j] \in Events
                        /\ pc'[j] \in {"read", "publish"} /\ ~errors'[j]
                           => event'[j] \in ledger'
    BY DEF InFlight
  <2>2. ledger \subseteq ledger' /\ event' = event
    BY <1>1, <1>4
  <2>3. CASE j # k
    <3>1. pc'[j] = pc[j] /\ errors'[j] = errors[j]
      BY <1>0, <1>2, <1>3, <2>3 DEF KernelTypeOK, Fails, Persisted, Step
    <3> QED
      BY <2>2, <3>1 DEF IInv, InFlight
  <2>4. CASE j = k
    <3>1. errors'[k] \/ event[k] \in ledger'
      BY <1>0, <1>2 DEF KernelTypeOK, Fails
    <3> QED
      BY <1>0, <2>2, <2>4, <3>1
  <2> QED
    BY <2>3, <2>4
<1> QED
  BY <1>1, <1>4, <1>5, <1>6, UnderWayIInv

LEMMA ReadIInv ==
  ASSUME IInv, NEW k \in Emitters, ReadProjection(k)
  PROVE  IInv'
<1>0. KernelTypeOK /\ view \in Views /\ NoView \in Views
  BY NoViewHonest DEF IInv, KernelTypeOK
<1>1. \/ previous' = [previous EXCEPT ![k] = view] /\ errors' = errors
      \/ previous' = [previous EXCEPT ![k] = NoView] /\ errors' = [errors EXCEPT ![k] = TRUE]
  BY DEF ReadProjection, Fails
<1>2. KernelTypeOK'
  <2>1. previous' \in [Emitters -> Views] /\ errors' \in [Emitters -> BOOLEAN]
    BY <1>0, <1>1 DEF KernelTypeOK
  <2>2. pc' \in [Emitters -> Places]
    BY <1>0 DEF KernelTypeOK, ReadProjection, Step, Places
  <2> QED
    BY <1>0, <2>1, <2>2 DEF KernelTypeOK, ReadProjection
<1>3. InFlight'
  <2>1. \A j \in Emitters : ~errors'[j] => ~errors[j]
    BY <1>0, <1>1 DEF KernelTypeOK
  <2> QED
    BY <1>0, <2>1 DEF IInv, InFlight, KernelTypeOK, ReadProjection, Step
<1>4. \A j \in Emitters : previous'[j] \in {previous[j], view, NoView}
  BY <1>0, <1>1 DEF KernelTypeOK
<1> QED
  BY <1>2, <1>3, <1>4, UnderWayIInv DEF ReadProjection

LEMMA PublishIInv ==
  ASSUME IInv, NEW k \in Emitters, Publish(k) \/ PublishFails(k)
  PROVE  IInv'
<1>1. /\ pc[k] = "publish" /\ Gone(k)
      /\ Script(k) \/ UNCHANGED <<stream, view>>
      /\ UNCHANGED <<ledger, replay, rebuilds, rebuilt>>
  BY DEF Publish, PublishFails, Returns
<1>2. /\ stream' \in Seq(Events) /\ view' \in Views
      /\ Published \subseteq Published' /\ Known' \in SUBSET Events
      /\ Script(k) => event[k] \in Published'
      /\ Honest(view', Known') /\ view.last <= view'.last
      /\ ~rebuilt => IsNewest(view'.last, Published')
  BY <1>1, ScriptForward
<1>3. ~errors[k] => event[k] \in ledger
  BY <1>1 DEF IInv, InFlight
<1>4. \/ clean' = clean
      \/ clean' = clean \cup {event[k]} /\ event[k] \in ledger \cap Published'
  <2>1. CASE Publish(k)
    BY <1>2, <1>3, <2>1 DEF Publish, Returns
  <2>2. CASE PublishFails(k)
    BY <2>2 DEF PublishFails, Returns
  <2> QED
    BY <2>1, <2>2
<1> QED
  BY <1>1, <1>2, <1>4, EndIInv

LEMMA DieIInv ==
  ASSUME IInv, NEW k \in Emitters, Die(k)
  PROVE  IInv'
<1>1. /\ Gone(k) /\ pc[k] # "idle"
      /\ UNCHANGED <<ledger, stream, view, replay, rebuilds, clean, rebuilt>>
  BY DEF Die
<1>2. KernelTypeOK /\ Known \in SUBSET Events /\ stream \in Seq(Events) /\ view \in Views
  BY KnownEvents DEF IInv, KernelTypeOK
<1>3. Published' = Published /\ Known' = Known
  BY <1>1 DEF Published, Known
<1>4. view.last \in Nat
  BY <1>2 DEF Views
<1>5. Honest(view, Known) /\ (~rebuilt => IsNewest(view.last, Published))
  BY DEF IInv, FoldsHonest, ViewNewest
<1> QED
  BY <1>1, <1>2, <1>3, <1>4, <1>5, EndIInv

LEMMA RebuildReadsIInv ==
  ASSUME IInv, RebuildReads
  PROVE  IInv'
<1>0. KernelTypeOK /\ Known \in SUBSET Events /\ Published \subseteq Known /\ ledger \subseteq Known
  BY KnownEvents DEF IInv, Known
<1>1. PICK S \in {Oldest(ledger), Newest(stream)} :
         \E n \in S : (\A e \in S : e <= n) /\ replay' = Replay(S, n)
  BY DEF RebuildReads
<1>2. S \subseteq Known
  <2>1. Oldest(ledger) \subseteq ledger
    BY DEF Oldest
  <2>2. Newest(stream) \subseteq Published
    BY DEF Newest, Published, ToSet
  <2> QED
    BY <1>0, <2>1, <2>2
<1>3. replay' \in Views /\ Honest(replay', Known)
  BY <1>0, <1>1, <1>2, ReplayHonest
<1>4. UNCHANGED <<ledger, stream, view, pc, event, tries, previous, errors, clean, rebuilt>>
  BY DEF RebuildReads, emitter
<1>5. Published' = Published /\ Known' = Known
  BY <1>4 DEF Published, Known
<1>6. rebuilds' \in 0..MaxRebuilds
  BY <1>0, TelemetryAssumption DEF KernelTypeOK, RebuildReads
<1>7. KernelTypeOK'
  BY <1>0, <1>3, <1>4, <1>6 DEF KernelTypeOK
<1>8. FoldsHonest'
  BY <1>3, <1>4, <1>5 DEF IInv, FoldsHonest
<1> QED
  BY <1>4, <1>5, <1>7, <1>8 DEF IInv, InFlight, ReadsBehind, ViewNewest, NoSilentLoss

LEMMA RebuildWritesIInv ==
  ASSUME IInv, RebuildWrites
  PROVE  IInv'
<1>0. KernelTypeOK /\ Known \in SUBSET Events
  BY KnownEvents DEF IInv
<1>1. NoView \in Views /\ Honest(NoView, Known)
  BY <1>0, NoViewHonest
<1>2. /\ UNCHANGED <<ledger, stream, pc, event, tries, previous, errors, rebuilds, clean>>
      /\ replay' = NoView
      /\ (view' = replay /\ rebuilt' = TRUE) \/ UNCHANGED <<view, rebuilt>>
  BY DEF RebuildWrites, emitter
<1>3. Published' = Published /\ Known' = Known
  BY <1>2 DEF Published, Known
<1>4. KernelTypeOK'
  BY <1>0, <1>1, <1>2 DEF KernelTypeOK
<1>5. FoldsHonest'
  BY <1>1, <1>2, <1>3 DEF IInv, FoldsHonest
<1> QED
  BY <1>2, <1>3, <1>4, <1>5 DEF IInv, InFlight, ReadsBehind, ViewNewest, NoSilentLoss

LEMMA StutterIInv ==
  ASSUME IInv, UNCHANGED kernelVars
  PROVE  IInv'
<1>1. Published' = Published /\ Known' = Known
  BY DEF kernelVars, Published, Known
<1> QED
  BY <1>1 DEF kernelVars, emitter, IInv, KernelTypeOK, FoldsHonest, InFlight, ReadsBehind,
              ViewNewest, NoSilentLoss

LEMMA StepIInv == IInv /\ [KernelNext]_kernelVars => IInv'
  BY EmitIInv, PersistIInv, ReadIInv, PublishIInv, DieIInv, RebuildReadsIInv,
     RebuildWritesIInv, StutterIInv DEF KernelNext

LEMMA Inductive == KernelSpec => []IInv
  BY InitIInv, StepIInv, PTL DEF KernelSpec

-----------------------------------------------------------------------------

(* KernelTypeOK: the state of the stores and of emit() keeps its type; no insert *)
(* is tried more than `retries` times.                                     *)
THEOREM TypeCorrect == KernelSpec => []KernelTypeOK
<1>1. IInv => KernelTypeOK
  BY DEF IInv
<1> QED
  BY <1>1, Inductive, PTL

(* ViewNewest: until a rebuild the projection is that of the newest event  *)
(* published, however emitters overlap between their reads and scripts     *)
(* and whatever fails.                                                     *)
THEOREM ProjectionNewest == KernelSpec => []ViewNewest
<1>1. IInv => ViewNewest
  BY DEF IInv
<1> QED
  BY <1>1, Inductive, PTL

(* CountHonest: event_count never claims more events than there are.       *)
THEOREM CountTrue == KernelSpec => []CountHonest
<1>1. IInv => CountHonest
  BY DEF IInv, FoldsHonest, Honest, Upto, Known, CountHonest
<1> QED
  BY <1>1, Inductive, PTL

(* NoSilentLoss: an emission that reports no error is in the ledger, in    *)
(* the stream and covered by the projection.                               *)
THEOREM DegradedSurfaced == KernelSpec => []NoSilentLoss
<1>1. IInv => NoSilentLoss
  BY DEF IInv
<1> QED
  BY <1>1, Inductive, PTL

(* OnlyRebuildRewinds: no emission moves the projection back, not even one *)
(* that read it before a rebuild replaced it.                              *)
THEOREM EmissionsForward == KernelSpec => OnlyRebuildRewinds
<1>1. IInv /\ [KernelNext]_kernelVars =>
        [view'.last < view.last => replay # NoView /\ replay' = NoView]_kernelVars
  <2> SUFFICES ASSUME IInv, [KernelNext]_kernelVars, view'.last < view.last
               PROVE  replay # NoView /\ replay' = NoView
    OBVIOUS
  <2>1. view.last \in Nat
    BY DEF IInv, KernelTypeOK, Views
  <2>2. CASE RebuildWrites
    BY <2>2 DEF RebuildWrites
  <2>3. ASSUME NEW k \in Emitters, Publish(k) \/ PublishFails(k) PROVE FALSE
    <3>1. pc[k] = "publish" /\ (Script(k) \/ UNCHANGED <<stream, view>>) /\ ledger' = ledger
      BY <2>3 DEF Publish, PublishFails
    <3>2. view.last <= view'.last /\ view' \in Views
      BY <3>1, ScriptForward
    <3>3. view'.last \in Nat
      BY <3>2 DEF Views
    <3> QED
      BY <2>1, <3>2, <3>3
  <2>4. CASE view' = view
    BY <2>1, <2>4
  <2>5. /\ RebuildReads => view' = view
        /\ UNCHANGED kernelVars => view' = view
        /\ \A k \in Emitters :
             EmitState(k) \/ Persist(k) \/ PersistFails(k) \/ ReadProjection(k) \/ Die(k)
               => view' = view
    BY DEF RebuildReads, kernelVars, EmitState, Persist, PersistFails, ReadProjection, Die
  <2> QED
    BY <2>2, <2>3, <2>4, <2>5 DEF KernelNext
<1> QED
  BY <1>1, Inductive, PTL DEF KernelSpec, OnlyRebuildRewinds

=============================================================================
