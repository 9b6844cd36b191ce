------------------------- MODULE DispatchLeaseProofs -------------------------
(***************************************************************************)
(* Until the guard fails open or a lease lapses under its batch, the       *)
(* own-plane lease is a mutex, for every number of invokes and any         *)
(* crashes: whoever computes, or is about to release, made the key that is *)
(* there.  And the governor whose denials the guard reads back: an outage  *)
(* refuses no invoke.                                                      *)
(***************************************************************************)
EXTENDS PlaneGovernance, DispatchLease, WellFoundedInduction, TLAPS

USE DispatchAssumption

(* Owning is what mutual exclusion rests on; it is not inductive without   *)
(* the key being alive, or another invoke could take it over.              *)
Owning ==
    \A r \in Invokes : leasePc[r] \in {"computing", "release"} =>
        holder[Plane(r)] = {r} /\ Held(Plane(r))

Guarded == \A r \in Invokes : leasePc[r] # "unguarded"

Calm == Owning /\ Guarded

(* The inductive invariant.                                                *)
IInv == LeaseTypeOK /\ (~trouble => Calm)

LEMMA PlaneType == \A r \in Invokes : Plane(r) \in Planes
  BY DEF Plane, Planes

LEMMA InitIInv == LeaseInit => IInv
  <1> SUFFICES ASSUME LeaseInit PROVE IInv
    OBVIOUS
  <1>1. LeaseTypeOK
    <2>1. trouble \in BOOLEAN /\ MaxLeaseClock \in Nat
      BY DEF LeaseInit
    <2> QED
      BY <2>1 DEF LeaseInit, LeaseTypeOK, LeasePlaces
  <1>2. Calm
    BY DEF LeaseInit, Owning, Guarded, Calm
  <1> QED
    BY <1>1, <1>2 DEF IInv

-----------------------------------------------------------------------------
(* The type invariant is inductive by itself.                              *)
LEMMA StepTypeOK == LeaseTypeOK /\ [LeaseNext]_leaseVars => LeaseTypeOK'
  <1> SUFFICES ASSUME LeaseTypeOK, [LeaseNext]_leaseVars PROVE LeaseTypeOK'
    OBVIOUS
  <1>0. leaseClock \in 0..MaxLeaseClock /\ leaseClock \in Nat
    BY DEF LeaseTypeOK
  <1>1. CASE LeaseTick
    <2>1. leaseClock' \in 0..MaxLeaseClock /\ trouble' \in BOOLEAN
      BY <1>0, <1>1 DEF LeaseTick, LeaseTypeOK
    <2>2. holder' \in [Planes -> SUBSET Invokes]
      BY <1>1 DEF LeaseTick, LeaseTypeOK
    <2> QED
      BY <1>1, <2>1, <2>2 DEF LeaseTick, LeaseTypeOK
  <1>2. ASSUME NEW p \in Planes, Crash(p) PROVE LeaseTypeOK'
    BY <1>2 DEF Crash, LeaseTypeOK, LeasePlaces
  <1>3. ASSUME NEW r \in Invokes, NEW place \in LeasePlaces, Go(r, place)
        PROVE  leasePc' \in [Invokes -> LeasePlaces]
    BY <1>3 DEF LeaseTypeOK, Go
  <1>4. ASSUME NEW r \in Invokes,
               Invoke(r) \/ GuardFails(r) \/ LookAtOther(r) \/ LookAtOtherFails(r) \/ ReleaseFails(r)
        PROVE  LeaseTypeOK'
    BY <1>3, <1>4 DEF Invoke, GuardFails, LookAtOther, LookAtOtherFails, ReleaseFails, LeaseTypeOK, LeasePlaces
  <1>6. ASSUME NEW r \in Invokes, Set(r)
        PROVE  lease' \in [Planes -> 0..(MaxLeaseClock + LeaseS)] /\ holder' \in [Planes -> SUBSET Invokes]
    BY <1>0, <1>6, PlaneType DEF Set, LeaseTypeOK
  <1>7. ASSUME NEW r \in Invokes, TakeLease(r) \/ TakeLeaseFails(r) PROVE LeaseTypeOK'
    BY <1>3, <1>6, <1>7 DEF TakeLease, TakeLeaseFails, LeaseTypeOK, LeasePlaces
  <1>8. ASSUME NEW r \in Invokes, Compute(r) PROVE LeaseTypeOK'
    BY <1>3, <1>8 DEF Compute, LeaseTypeOK, LeasePlaces
  <1>9. ASSUME NEW r \in Invokes, Release(r) PROVE LeaseTypeOK'
    BY <1>3, <1>9, PlaneType DEF Release, LeaseTypeOK, LeasePlaces
  <1>10. CASE UNCHANGED leaseVars
    BY <1>10 DEF leaseVars, LeaseTypeOK
  <1> QED
    BY <1>1, <1>2, <1>4, <1>7, <1>8, <1>9, <1>10 DEF LeaseNext

(* Trouble is for good.                                                    *)
LEMMA TroubleStays == LeaseTypeOK /\ [LeaseNext]_leaseVars /\ ~trouble' => ~trouble
  BY DEF LeaseTypeOK, LeaseNext, leaseVars, LeaseTick, Crash, Invoke, GuardFails, LookAtOther,
         LookAtOtherFails, TakeLease, TakeLeaseFails, Compute, Release, ReleaseFails

(* Steps of an invoke that leave the keys alone and lead to a place that   *)
(* owns nothing.                                                           *)
LEMMA LightStep ==
    ASSUME LeaseTypeOK, Calm, NEW r \in Invokes, NEW place \in {"idle", "other", "own"},
           Go(r, place), UNCHANGED <<leaseClock, lease, holder>>
    PROVE  Calm'
  <1>1. \A q \in Invokes : leasePc'[q] = IF q = r THEN place ELSE leasePc[q]
    BY DEF LeaseTypeOK, Go
  <1> QED
    BY <1>1 DEF Calm, Owning, Guarded, Held

(* What a calm step does to ownership, one step per action.                *)
LEMMA StepCalm ==
    ASSUME LeaseTypeOK, Calm, ~trouble', [LeaseNext]_leaseVars
    PROVE  Calm'
  <1>0. LeaseTypeOK /\ leaseClock \in Nat
    BY DEF LeaseTypeOK
  <1>1. CASE LeaseTick
    <2>1. leaseClock' = leaseClock + 1 /\ leasePc' = leasePc /\ lease' = lease
      BY <1>1 DEF LeaseTick
    <2>2. ASSUME NEW r \in Invokes, leasePc[r] \in {"computing", "release"}
          PROVE  holder'[Plane(r)] = {r} /\ leaseClock' < lease'[Plane(r)]
      <3>1. r \in In(Plane(r), {"computing", "release"})
        BY <2>2 DEF In
      <3>2. ~ \E p \in Planes : In(p, {"computing", "release"}) # {} /\ leaseClock + 1 >= lease[p]
        BY <1>1, Zenon DEF LeaseTick
      <3>3. leaseClock + 1 < lease[Plane(r)]
        BY <1>0, <3>1, <3>2, PlaneType DEF LeaseTypeOK
      <3>4. holder[Plane(r)] = {r}
        BY <2>2 DEF Calm, Owning
      <3> QED
        BY <1>1, <2>1, <3>3, <3>4, PlaneType DEF LeaseTick
    <2> QED
      BY <2>1, <2>2 DEF Calm, Owning, Guarded, Held
  <1>2. ASSUME NEW p \in Planes, Crash(p) PROVE Calm'
    <2>1. \A r \in Invokes : leasePc'[r] = "idle" \/ leasePc'[r] = leasePc[r]
      BY <1>2 DEF Crash
    <2> QED
      BY <1>2, <2>1 DEF Crash, Calm, Owning, Guarded, Held
  <1>3. ASSUME NEW r \in Invokes,
               Invoke(r) \/ LookAtOther(r) \/ ReleaseFails(r)
        PROVE  Calm'
    BY <1>0, <1>3, LightStep DEF Invoke, LookAtOther, ReleaseFails
  <1>4. ASSUME NEW r \in Invokes, TakeLease(r) PROVE Calm'
    <2>1. CASE Held(Plane(r))
      BY <1>0, <1>4, <2>1, LightStep DEF TakeLease
    <2>2. CASE ~Held(Plane(r))
      <3>1. Set(r) /\ Go(r, "computing") /\ UNCHANGED <<leaseClock>>
        BY <1>4, <2>2 DEF TakeLease
      <3>3. \A q \in Invokes : leasePc'[q] = IF q = r THEN "computing" ELSE leasePc[q]
        BY <1>0, <3>1 DEF LeaseTypeOK, Go
      <3>4. \A q \in Invokes : Plane(q) = Plane(r) => leasePc[q] \notin {"computing", "release"}
        BY <2>2 DEF Calm, Owning
      <3>5. holder' = [holder EXCEPT ![Plane(r)] = {r}]
            /\ lease' = [lease EXCEPT ![Plane(r)] = leaseClock + LeaseS]
        BY <3>1 DEF Set
      <3>6. ASSUME NEW q \in Invokes, leasePc'[q] \in {"computing", "release"}
            PROVE  holder'[Plane(q)] = {q} /\ leaseClock' < lease'[Plane(q)]
        <4>1. CASE q = r
          BY <1>0, <3>1, <3>5, <4>1, PlaneType DEF LeaseTypeOK
        <4>2. CASE q # r
          <5>1. leasePc[q] \in {"computing", "release"} /\ Plane(q) # Plane(r)
            BY <3>3, <3>4, <3>6, <4>2
          <5>2. holder[Plane(q)] = {q} /\ leaseClock < lease[Plane(q)]
            BY <5>1 DEF Calm, Owning, Held
          <5> QED
            BY <1>0, <3>1, <3>5, <5>1, <5>2, PlaneType DEF LeaseTypeOK
        <4> QED
          BY <4>1, <4>2
      <3> QED
        BY <3>3, <3>6 DEF Calm, Owning, Guarded, Held
    <2> QED
      BY <2>1, <2>2
  <1>5. ASSUME NEW r \in Invokes, Compute(r) PROVE Calm'
    <2>1. Go(r, "release") /\ UNCHANGED <<leaseClock, lease, holder>> /\ leasePc[r] = "computing"
      BY <1>5 DEF Compute, Calm, Guarded
    <2>2. \A q \in Invokes : leasePc'[q] = IF q = r THEN "release" ELSE leasePc[q]
      BY <1>0, <2>1 DEF LeaseTypeOK, Go
    <2> QED
      BY <2>1, <2>2 DEF Calm, Owning, Guarded, Held
  <1>6. ASSUME NEW r \in Invokes, Release(r) PROVE Calm'
    <2>1. \A q \in Invokes : leasePc'[q] = IF q = r THEN "idle" ELSE leasePc[q]
      BY <1>0, <1>6 DEF Release, LeaseTypeOK, Go
    <2>2. \A q \in Invokes : q # r /\ leasePc[q] \in {"computing", "release"} => Plane(q) # Plane(r)
      BY <1>6 DEF Calm, Owning, Release
    <2>3. \A q \in Invokes : Plane(q) # Plane(r) =>
              holder'[Plane(q)] = holder[Plane(q)] /\ lease'[Plane(q)] = lease[Plane(q)]
      BY <1>0, <1>6, PlaneType DEF Release, LeaseTypeOK
    <2> QED
      BY <1>6, <2>1, <2>2, <2>3 DEF Release, Calm, Owning, Guarded, Held
  <1>7. CASE UNCHANGED leaseVars
    BY <1>7 DEF leaseVars, Calm, Owning, Guarded, Held
  <1>8. ASSUME NEW r \in Invokes
         PROVE  ~GuardFails(r) /\ ~LookAtOtherFails(r) /\ ~TakeLeaseFails(r)
    BY DEF GuardFails, LookAtOtherFails, TakeLeaseFails
  <1> QED
    BY <1>1, <1>2, <1>3, <1>4, <1>5, <1>6, <1>7, <1>8 DEF LeaseNext

-----------------------------------------------------------------------------
(* The invariant the results below follow from.                            *)
THEOREM Invariance == LeaseSpec => []IInv
  <1>1. IInv /\ [LeaseNext]_leaseVars => IInv'
    <2> SUFFICES ASSUME IInv, [LeaseNext]_leaseVars PROVE IInv'
      OBVIOUS
    <2>1. LeaseTypeOK'
      BY StepTypeOK DEF IInv
    <2>2. ASSUME ~trouble' PROVE Calm'
      BY <2>2, TroubleStays, StepCalm DEF IInv
    <2> QED
      BY <2>1, <2>2 DEF IInv
  <1> QED
    BY InitIInv, <1>1, PTL DEF LeaseSpec

(* The leases and the places of the invokes keep their types; no lease is  *)
(* ever set beyond its time.                                               *)
THEOREM TypeCorrect == LeaseSpec => []LeaseTypeOK
  <1>1. IInv => LeaseTypeOK
    BY DEF IInv
  <1> QED
    BY <1>1, Invariance, PTL

(* Two invokes of one plane never compute together (authorize_dispatch).   *)
THEOREM OwnPlaneMutex == LeaseSpec => []OneBatchPerPlane
  <1>1. IInv => OneBatchPerPlane
    <2> SUFFICES ASSUME IInv, ~trouble, NEW p \in Planes,
                        NEW r \in Computing(p), NEW q \in Computing(p)
                 PROVE  r = q
      BY DEF OneBatchPerPlane
    <2>1. r \in Invokes /\ q \in Invokes /\ Plane(r) = p /\ Plane(q) = p
      BY DEF Computing, In
    <2>2. leasePc[r] = "computing" /\ leasePc[q] = "computing"
      BY DEF Computing, In, IInv, Calm, Guarded
    <2>3. holder[p] = {r} /\ holder[p] = {q}
      BY <2>1, <2>2 DEF IInv, Calm, Owning
    <2> QED
      BY <2>3
  <1> QED
    BY Invariance, <1>1, PTL

(* Only the invoke that took a lease ends it early (release_dispatch_lease).*)
THEOREM OwnLeaseOnly == LeaseSpec => LeaseOutlivesBatch
  <1> DEFINE Ends == ~trouble => \A p \in Planes : Held(p) /\ lease'[p] = 0 =>
                                    \A r \in holder[p] : leasePc[r] = "release"
  <1>1. IInv /\ [LeaseNext]_leaseVars => [Ends]_leaseVars
    <2> SUFFICES ASSUME IInv, LeaseNext, ~trouble,
                        NEW p \in Planes, Held(p), lease'[p] = 0, NEW h \in holder[p]
                 PROVE  leasePc[h] = "release"
      OBVIOUS
    <2>0. LeaseTypeOK /\ Owning /\ lease[p] # 0
      BY DEF IInv, Calm, LeaseTypeOK, Held
    <2>1. lease' # lease
      BY <2>0
    <2>2. \/ \E r \in Invokes : Release(r)
          \/ \E r \in Invokes : TakeLease(r) \/ TakeLeaseFails(r)
      BY <2>1 DEF LeaseNext, LeaseTick, Crash, Invoke, GuardFails, LookAtOther, LookAtOtherFails,
                  Compute, ReleaseFails
    <2>3. ASSUME NEW r \in Invokes, Release(r) PROVE leasePc[h] = "release"
      <3>1. p = Plane(r)
        BY <2>0, <2>3, PlaneType DEF Release, LeaseTypeOK
      <3>2. holder[p] = {r}
        BY <2>0, <2>3, <3>1 DEF Owning, Release
      <3> QED
        BY <2>3, <3>2 DEF Release
    <2>4. ASSUME NEW r \in Invokes, TakeLease(r) \/ TakeLeaseFails(r) PROVE FALSE
      <3>1. lease' = [lease EXCEPT ![Plane(r)] = leaseClock + LeaseS]
        BY <2>1, <2>4 DEF TakeLease, TakeLeaseFails, Set
      <3> QED
        BY <2>0, <3>1, PlaneType DEF LeaseTypeOK
    <2> QED
      BY <2>2, <2>3, <2>4
  <1> QED
    BY Invariance, <1>1, PTL DEF LeaseSpec, LeaseOutlivesBatch

-----------------------------------------------------------------------------
(* The governor.  A denial that quarantines a substrate is on the stream   *)
(* because an unsound build of it ran, and only then: what an outage       *)
(* refuses, it refuses under another rule.                                 *)
Rules   == {"binding-drift", "schema-drift", "observation-unavailable", "out-of-order-write"}
Denials == [substrate : Names, rule : Rules]

BuildKnown == \A n \in Names : build[n] # "sound" => n \in faulty

DenialsKnown ==
    \A i \in DOMAIN denials :
        denials[i].rule \in QuarantineRules => denials[i].substrate \in faulty

(* The state the rules look at.                                            *)
GovTyped ==
    /\ govClock \in 0..MaxGovClock /\ build \in [Names -> Builds]
    /\ govFire \in [Names -> GovFires]
    /\ projection \in [Names -> SUBSET {Entry(t) : t \in 0..MaxGovClock}]

(* The inductive invariant.                                                *)
GovIInv ==
    GovTyped /\ denials \in Seq(Denials) /\ BuildKnown /\ DenialsKnown /\ OutageRefusesNothing

(* A well-ordered set of numbers has a least one.                          *)
Below == {p \in Nat \X Nat : p[1] < p[2]}

LEMMA LeastNat ==
    ASSUME NEW T, T \subseteq Nat, T # {}
    PROVE  Min(T) \in T
  <1>1. Below = OpToRel(<, Nat)
    BY DEF OpToRel, Below
  <1>2. IsWellFoundedOn(Below, Nat)
    BY <1>1, NatLessThanWellFounded, Zenon
  <1>3. \E x \in T : \A y \in T : ~(<<y, x>> \in Below)
    BY ONLY <1>2, WFMin, T \subseteq Nat, T # {}, Zenon
  <1>4. PICK x \in T : \A y \in T : ~(<<y, x>> \in Below)
    BY ONLY <1>3
  <1>5. \A y \in T : x \in Nat /\ y \in Nat /\ ~(y < x)
    BY ONLY <1>4, T \subseteq Nat DEF Below
  <1>6. \A y \in T : x <= y
    BY ONLY <1>5
  <1> QED
    BY ONLY <1>4, <1>6 DEF Min

(* A verdict is "allow" or a rule that is broken.                          *)
LEMMA VerdictBroken ==
    ASSUME NEW gate \in Gates, NEW broken
    PROVE  Decide(gate, broken) = "allow" \/ Decide(gate, broken) \in broken
  <1> DEFINE rules == GateRules[gate]
             hits  == {i \in DOMAIN rules : rules[i] \in broken}
  <1>1. DOMAIN rules \subseteq Nat
    <2>1. gate \in {"fire", "publish", "pg_write"}
      BY DEF Gates
    <2>2. ASSUME NEW s \in Seq(STRING) PROVE DOMAIN s \subseteq Nat
      OBVIOUS
    <2> QED
      BY <2>1 DEF GateRules, Always, OutputRules
  <1>2. CASE hits = {}
    BY <1>2 DEF Decide
  <1>3. CASE hits # {}
    <2>1. Min(hits) \in hits
      BY <1>1, <1>3, LeastNat
    <2>2. Decide(gate, broken) = rules[Min(hits)]
      BY <1>3 DEF Decide
    <2> QED
      BY <2>1, <2>2
  <1> QED
    BY <1>2, <1>3

(* What quarantines is a fault of the build.                               *)
LEMMA BrokenFaulty ==
    ASSUME NEW n \in Names, NEW readable \in BOOLEAN, NEW rule \in Broken(n, readable),
           rule \in QuarantineRules
    PROVE  build[n] # "sound"
  BY DEF Broken, QuarantineRules

LEMMA NothingDenied == NoTicket.denied = {}
  BY DEF NoTicket

LEMMA GovInitInv == GovInit => GovIInv
  <1> SUFFICES ASSUME GovInit PROVE GovIInv
    OBVIOUS
  <1>1. GovTyped
    <2>1. 0 \in 0..MaxGovClock
      BY GovernanceAssumption
    <2>2. NoFire \in GovFires
      BY <2>1 DEF NoFire, GovFires
    <2> QED
      BY <2>1, <2>2 DEF GovInit, GovTyped, Builds
  <1>2. denials \in Seq(Denials) /\ DenialsKnown
    BY DEF GovInit, DenialsKnown
  <1> QED
    BY <1>1, <1>2 DEF GovInit, GovIInv, BuildKnown, OutageRefusesNothing, NoTicket

(* Who is quarantined had an unsound build.                                *)
LEMMA QuarantinedFaulty ==
    ASSUME GovIInv
    PROVE  Quarantined \cap Names \subseteq faulty
  BY DEF GovIInv, DenialsKnown, Quarantined, NewestDenials

(* No entry states an age, so no substrate is hot.                         *)
LEMMA AgesUnknown ==
    ASSUME GovIInv, NEW n \in Names
    PROVE  DispatchAge(n) = NoAge
  <1>1. CASE projection[n] # {}
    <2>1. PICK t : (CHOOSE e \in projection[n] : TRUE) = Entry(t)
      BY <1>1 DEF GovIInv, GovTyped
    <2>2. DOMAIN Entry(t) = {"computed_at_ms"}
      BY DEF Entry
    <2>3. AgeOf(Entry(t)) = NoAge
      BY <2>2 DEF AgeOf
    <2> QED
      BY <1>1, <2>1, <2>3 DEF DispatchAge
  <1>2. CASE projection[n] = {}
    BY <1>2 DEF DispatchAge
  <1> QED
    BY <1>1, <1>2

LEMMA TicketKeeps ==
    ASSUME GovIInv, AuthorizeDispatch
    PROVE  OutageRefusesNothing'
  <1>1. PICK asked \in Asked, unread \in {{}, {"denials"}, Names, Names \cup {"denials"}} :
           LET ages == [n \in Names |-> IF n \in unread THEN NoAge ELSE DispatchAge(n)]
               quarantine == IF "denials" \in unread THEN {} ELSE Quarantined
           IN  /\ ticket'.unread = unread
               /\ ticket'.denied = DecideDispatch(asked, quarantine, ages).denied
               /\ faulty' = faulty
    BY DEF AuthorizeDispatch
  <1> DEFINE ages == [n \in Names |-> IF n \in unread THEN NoAge ELSE DispatchAge(n)]
             quarantine == IF "denials" \in unread THEN {} ELSE Quarantined
  <1>2. ages = [n \in Names |-> NoAge]
    BY AgesUnknown
  <1>3. SUFFICES ASSUME NEW d \in ticket'.denied, d.substrate \in Names
                 PROVE  d.substrate \in faulty /\ "denials" \notin unread
    BY <1>1 DEF OutageRefusesNothing
  <1>4. PICK n \in Wanted(asked) :
           /\ d = [substrate |-> n, rule |-> Refusal(n, quarantine, IF n \in Names THEN ages[n] ELSE NoAge)]
           /\ d.rule # "none"
    BY <1>1, <1>3 DEF DecideDispatch
  <1>5. n \in Names /\ Refusal(n, quarantine, NoAge) # "none"
    BY <1>2, <1>3, <1>4
  <1>6. n \in quarantine
    BY <1>5 DEF Refusal
  <1>7. "denials" \notin unread /\ n \in Quarantined
    BY <1>6
  <1> QED
    BY <1>4, <1>5, <1>7, QuarantinedFaulty

(* A denial that is recorded.                                              *)
LEMMA RecordKeeps ==
    ASSUME GovIInv, NEW n \in Names, NEW rule \in Rules, RecordDenial(n, rule), faulty' = faulty,
           rule \in QuarantineRules => n \in faulty
    PROVE  denials' \in Seq(Denials) /\ DenialsKnown'
  <1>1. CASE denials' = Append(denials, [substrate |-> n, rule |-> rule])
    <2>1. [substrate |-> n, rule |-> rule] \in Denials /\ denials \in Seq(Denials)
      BY DEF Denials, GovIInv
    <2>2. /\ denials' \in Seq(Denials) /\ DOMAIN denials' = 1..(Len(denials) + 1)
          /\ denials'[Len(denials) + 1] = [substrate |-> n, rule |-> rule]
          /\ \A i \in 1..Len(denials) : denials'[i] = denials[i]
          /\ DOMAIN denials = 1..Len(denials) /\ Len(denials) \in Nat
      BY <1>1, <2>1
    <2>3. ASSUME NEW i \in DOMAIN denials'
          PROVE  denials'[i].rule \in QuarantineRules => denials'[i].substrate \in faulty
      <3>1. CASE i \in 1..Len(denials)
        BY <2>2, <3>1 DEF GovIInv, DenialsKnown
      <3>2. CASE i = Len(denials) + 1
        BY <2>2, <3>2 
      <3> QED
        BY <2>2, <3>1, <3>2
    <2> QED
      BY <2>2, <2>3 DEF DenialsKnown
  <1>2. CASE UNCHANGED denials
    BY <1>2 DEF GovIInv, DenialsKnown
  <1> QED
    BY <1>1, <1>2 DEF RecordDenial


LEMMA GovStepInv == GovIInv /\ [GovNext]_govVars => GovIInv'
  <1> SUFFICES ASSUME GovIInv, [GovNext]_govVars PROVE GovIInv'
    OBVIOUS
  <1>0. /\ govClock \in 0..MaxGovClock /\ MaxGovClock \in Nat /\ Residents \subseteq Names
        /\ NoFire \in GovFires /\ \A t \in 0..MaxGovClock : Entry(t) \in {Entry(u) : u \in 0..MaxGovClock}
    <2>1. 0 \in 0..MaxGovClock
      BY GovernanceAssumption
    <2> QED
      BY <2>1, GovernanceAssumption DEF GovIInv, GovTyped, NoFire, GovFires
  (* A ticket stands until the next step; then nothing is denied.          *)
  <1>t. ASSUME ticket' = NoTicket PROVE OutageRefusesNothing'
    BY <1>t DEF OutageRefusesNothing, NoTicket
  <1>d. ASSUME denials' = denials, faulty \subseteq faulty' PROVE denials' \in Seq(Denials) /\ DenialsKnown'
    BY <1>d DEF GovIInv, DenialsKnown
  <1>1. CASE GovTick
    <2>0. govClock' \in 0..MaxGovClock
      BY ONLY <1>0, <1>1 DEF GovTick
    <2>1. GovTyped'
      BY <1>1, <2>0 DEF GovTick, GovIInv, GovTyped
    <2> QED
      BY <1>1, <1>t, <1>d, <2>1 DEF GovTick, GovIInv, BuildKnown
  <1>2. ASSUME NEW n \in Residents, Deploy(n) PROVE GovIInv'
    <2>1. PICK b \in Builds \ {build[n]} :
             /\ build' = [build EXCEPT ![n] = b]
             /\ faulty' = IF b = "sound" THEN faulty ELSE faulty \cup {n}
      BY <1>2 DEF Deploy
    <2>2. GovTyped'
      BY <1>0, <1>2, <2>1 DEF Deploy, EndGovFire, GovIInv, GovTyped
    <2>3. BuildKnown'
      BY <1>0, <2>1 DEF GovIInv, GovTyped, BuildKnown
    <2> QED
      BY <1>2, <1>t, <1>d, <2>1, <2>2, <2>3 DEF Deploy, GovIInv
  <1>3. ASSUME NEW n \in Residents, StartFire(n) PROVE GovIInv'
    <2>1. [at |-> govClock, next |-> "fire"] \in GovFires
      BY <1>0 DEF GovFires, Gates
    <2>2. GovTyped'
      BY <1>0, <1>3, <2>1 DEF StartFire, GovIInv, GovTyped
    <2> QED
      BY <1>3, <1>t, <1>d, <2>2 DEF StartFire, GovIInv, BuildKnown
  <1>4. ASSUME NEW n \in Residents, GovernFire(n) PROVE GovIInv'
    <2>1. PICK readable \in BOOLEAN :
             LET rule == Decide(govFire[n].next, Broken(n, readable))
             IN  IF rule = "allow"
                 THEN /\ govFire' = [govFire EXCEPT ![n].next = AfterGate[@]]
                      /\ UNCHANGED denials
                 ELSE EndGovFire(n) /\ RecordDenial(n, rule)
      BY <1>4 DEF GovernFire
    <2> DEFINE rule == Decide(govFire[n].next, Broken(n, readable))
    <2>2. /\ govFire[n].next \in Gates /\ n \in Names /\ ticket' = NoTicket
          /\ UNCHANGED <<govClock, build, projection, invoking, faulty>>
      BY <1>0, <1>4 DEF GovernFire
    <2>3. govFire' \in [Names -> GovFires]
      <3>1. CASE rule = "allow"
        <4>1. AfterGate[govFire[n].next] \in Gates \cup {"none", "store"}
          BY <2>2 DEF Gates, AfterGate
        <4>2. govFire' = [govFire EXCEPT ![n].next = AfterGate[@]] /\ govFire \in [Names -> GovFires]
          BY <2>1, <3>1 DEF GovIInv, GovTyped
        <4> QED
          BY <2>2, <4>1, <4>2 DEF GovFires
      <3>2. CASE rule # "allow"
        BY <1>0, <2>1, <2>2, <3>2 DEF EndGovFire, GovIInv, GovTyped
      <3> QED
        BY <3>1, <3>2
    <2>4. denials' \in Seq(Denials) /\ DenialsKnown'
      <3>1. CASE rule = "allow"
        BY <1>d, <2>1, <2>2, <3>1
      <3>2. CASE rule # "allow"
        <4>1. rule \in Broken(n, readable)
          BY <2>2, <3>2, VerdictBroken
        <4>2. rule \in Rules
          BY <4>1 DEF Broken, Rules
        <4>3. rule \in QuarantineRules => n \in faulty
          BY <2>2, <4>1, BrokenFaulty DEF GovIInv, BuildKnown
        <4>4. RecordDenial(n, rule)
          BY <2>1, <3>2
        <4> HIDE DEF rule
        <4> QED
          BY <2>2, <4>2, <4>3, <4>4, RecordKeeps
      <3> QED
        BY <3>1, <3>2
    <2> QED
      BY <1>t, <2>2, <2>3, <2>4 DEF GovIInv, GovTyped, BuildKnown
  <1>5. ASSUME NEW n \in Residents, FireEnds(n) PROVE GovIInv'
    <2>1. GovTyped'
      BY <1>0, <1>5 DEF FireEnds, EndGovFire, GovIInv, GovTyped
    <2> QED
      BY <1>5, <1>t, <1>d, <2>1 DEF FireEnds, GovIInv, BuildKnown
  <1>6. ASSUME NEW n \in Residents, StoreFire(n) PROVE GovIInv'
    <2>1. govFire[n].at \in 0..MaxGovClock
      BY <1>0 DEF GovIInv, GovTyped, GovFires
    <2>2. GovTyped'
      BY <1>0, <1>6, <2>1 DEF StoreFire, EndGovFire, GovIInv, GovTyped
    <2> QED
      BY <1>6, <1>t, <1>d, <2>2 DEF StoreFire, GovIInv, BuildKnown
  <1>7. ASSUME NEW n \in Names, InvokePublishes(n) PROVE GovIInv'
    <2>1. GovTyped'
      BY <1>0, <1>7 DEF InvokePublishes, GovIInv, GovTyped
    <2> QED
      BY <1>7, <1>t, <1>d, <2>1 DEF InvokePublishes, GovIInv, BuildKnown
  <1>8. CASE AuthorizeDispatch
    <2>1. UNCHANGED <<govClock, build, govFire, projection, denials, faulty>>
      BY <1>8 DEF AuthorizeDispatch
    <2> QED
      BY <1>8, <1>d, <2>1, TicketKeeps DEF GovIInv, GovTyped, BuildKnown
  <1>9. CASE UNCHANGED govVars
    BY <1>9, <1>d DEF govVars, GovIInv, GovTyped, BuildKnown, OutageRefusesNothing
  <1> QED
    BY <1>1, <1>2, <1>3, <1>4, <1>5, <1>6, <1>7, <1>8, <1>9 DEF GovNext

THEOREM GovInvariance == GovSpec => []GovIInv
  BY GovInitInv, GovStepInv, PTL DEF GovSpec

(* A store that cannot be read, now or when a gate failed closed on it,    *)
(* refuses no invoke (gates.py:438).                                       *)
THEOREM OutagesRefuseNothing == GovSpec => []OutageRefusesNothing
  <1>1. GovIInv => OutageRefusesNothing
    BY DEF GovIInv
  <1> QED
    BY <1>1, GovInvariance, PTL

=============================================================================
