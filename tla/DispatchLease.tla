---------------------------- MODULE DispatchLease ----------------------------
(***************************************************************************)
(* The dispatch guard of /invoke: authorize_dispatch and release_dispatch_ *)
(* lease (governance/gates.py), decide_dispatch (governance/fsm.py) and    *)
(* their caller _invoke_guarded, in the calculation and in the analysis    *)
(* container alike.  A guarded invoke looks for the other plane's lease,    *)
(* takes its own plane's, computes, and deletes the lease.  Every Redis    *)
(* round trip is a step and may fail, and the guard prefers an invoke too  *)
(* many to one too few.                                                    *)
(*                                                                         *)
(* One symbol.  Which of the requested substrates are refused is           *)
(* PlaneGovernance's question; here an invoke may be left with none.       *)
(***************************************************************************)
EXTENDS Integers

CONSTANTS
    Invokes,     \* guarded invokes that can be under way
    Analysis,    \* those of the analysis plane
    LeaseS,      \* DISPATCH_LEASE_S
    MaxLeaseClock   \* bound: the clock stops here

ASSUME DispatchAssumption ==
    /\ Analysis \subseteq Invokes
    /\ LeaseS \in Nat \ {0}
    /\ MaxLeaseClock \in Nat

Planes == {"calculation", "analysis"}
Plane(r) == IF r \in Analysis THEN "analysis" ELSE "calculation"
Other(p) == IF p = "analysis" THEN "calculation" ELSE "analysis"

VARIABLES
    leaseClock,
    lease,    \* per plane, when its key expires; 0 when there is none
    leasePc,  \* per invoke
    holder,   \* history: per plane, the invokes whose SET made the key
    trouble   \* history: the guard failed open, or a lease lapsed under its batch

leaseVars == <<leaseClock, lease, leasePc, holder, trouble>>

LeasePlaces == {"idle", "other", "own", "computing", "unguarded", "release"}

LeaseTypeOK ==
    /\ leaseClock \in 0..MaxLeaseClock
    /\ lease \in [Planes -> 0..(MaxLeaseClock + LeaseS)]
    /\ leasePc \in [Invokes -> LeasePlaces]
    /\ holder \in [Planes -> SUBSET Invokes]
    /\ trouble \in BOOLEAN

LeaseInit ==
    /\ leaseClock = 0
    /\ lease = [p \in Planes |-> 0]
    /\ leasePc = [r \in Invokes |-> "idle"]
    /\ holder = [p \in Planes |-> {}]
    /\ trouble = FALSE

-----------------------------------------------------------------------------
Held(p) == leaseClock < lease[p]
In(p, places) == {r \in Invokes : Plane(r) = p /\ leasePc[r] \in places}
Computing(p) == In(p, {"computing", "unguarded"})
Go(r, place) == leasePc' = [leasePc EXCEPT ![r] = place]

(* Time passes; a key whose time has come is gone, whoever still works     *)
(* under it.                                                               *)
LeaseTick ==
    /\ leaseClock < MaxLeaseClock
    /\ leaseClock' = leaseClock + 1
    /\ holder' = [p \in Planes |-> IF leaseClock' < lease[p] THEN holder[p] ELSE {}]
    /\ trouble' = (trouble \/ \E p \in Planes : In(p, {"computing", "release"}) # {}
                                               /\ leaseClock + 1 >= lease[p])
    /\ UNCHANGED <<lease, leasePc>>

Invoke(r) ==
    /\ leasePc[r] = "idle"
    /\ Go(r, "other")
    /\ UNCHANGED <<leaseClock, lease, holder, trouble>>

(* The guard raises: compute without a ticket, and so without a lease.     *)
GuardFails(r) ==
    /\ leasePc[r] = "other"
    /\ Go(r, "unguarded")
    /\ trouble' = TRUE
    /\ UNCHANGED <<leaseClock, lease, holder>>

(* EXISTS of the other plane's lease, then decide_dispatch: deferred when  *)
(* it is there, and at an end when nothing requested is left to compute.   *)
LookAtOther(r) ==
    /\ leasePc[r] = "other"
    /\ \/ Go(r, "idle")
       \/ ~Held(Other(Plane(r))) /\ Go(r, "own")
    /\ UNCHANGED <<leaseClock, lease, holder, trouble>>

(* The EXISTS raises: the other plane counts as idle.                      *)
LookAtOtherFails(r) ==
    /\ leasePc[r] = "other"
    /\ Go(r, "own")
    /\ trouble' = TRUE
    /\ UNCHANGED <<leaseClock, lease, holder>>

(* SET NX EX of its own lease; deferred when it is there already.          *)
Set(r) ==
    /\ lease' = [lease EXCEPT ![Plane(r)] = leaseClock + LeaseS]
    /\ holder' = [holder EXCEPT ![Plane(r)] = {r}]

TakeLeaseOver(r) ==   \* mutant: SET without NX
    /\ leasePc[r] = "own"
    /\ Set(r) /\ Go(r, "computing")
    /\ UNCHANGED <<leaseClock, trouble>>

TakeLeaseKeep(r) ==   \* mutant: the deferred invoke runs the finally clause too
    /\ leasePc[r] = "own"
    /\ IF Held(Plane(r))
       THEN Go(r, "release") /\ UNCHANGED <<lease, holder>>
       ELSE Set(r) /\ Go(r, "computing")
    /\ UNCHANGED <<leaseClock, trouble>>

TakeLease(r) ==
    /\ leasePc[r] = "own"
    /\ IF Held(Plane(r))
       THEN Go(r, "idle") /\ UNCHANGED <<lease, holder>>
       ELSE Set(r) /\ Go(r, "computing")
    /\ UNCHANGED <<leaseClock, trouble>>

(* The SET raises, having set the key or not: the ticket stands.           *)
TakeLeaseFails(r) ==
    /\ leasePc[r] = "own"
    /\ \/ ~Held(Plane(r)) /\ Set(r)
       \/ UNCHANGED <<lease, holder>>
    /\ Go(r, "computing")
    /\ trouble' = TRUE
    /\ UNCHANGED leaseClock

(* invoke_many: the batch computes and publishes.                          *)
Compute(r) ==
    /\ leasePc[r] \in {"computing", "unguarded"}
    /\ Go(r, IF leasePc[r] = "computing" THEN "release" ELSE "idle")
    /\ UNCHANGED <<leaseClock, lease, holder, trouble>>

(* release_dispatch_lease: DEL, whoever made the key.                      *)
Release(r) ==
    /\ leasePc[r] = "release"
    /\ lease' = [lease EXCEPT ![Plane(r)] = 0]
    /\ holder' = [holder EXCEPT ![Plane(r)] = {}]
    /\ Go(r, "idle")
    /\ UNCHANGED <<leaseClock, trouble>>

ReleaseFails(r) ==
    /\ leasePc[r] = "release"
    /\ Go(r, "idle")
    /\ UNCHANGED <<leaseClock, lease, holder, trouble>>

(* A container dies with its invokes; the leases live in Redis.            *)
Crash(p) ==
    /\ leasePc' = [r \in Invokes |-> IF Plane(r) = p THEN "idle" ELSE leasePc[r]]
    /\ UNCHANGED <<leaseClock, lease, holder, trouble>>

LeaseNext ==
    \/ LeaseTick
    \/ \E p \in Planes : Crash(p)
    \/ \E r \in Invokes :
         \/ Invoke(r) \/ GuardFails(r) 
         \/ LookAtOther(r) \/ LookAtOtherFails(r)
         \/ TakeLease(r) \/ TakeLeaseFails(r)
         \/ Compute(r) \/ Release(r) \/ ReleaseFails(r)

LeaseSpec == LeaseInit /\ [][LeaseNext]_leaseVars

-----------------------------------------------------------------------------
(* "one compute batch at a time per plane" (gates.py:480), as far as it    *)
(* holds: until the guard fails open or a lease lapses under its batch,    *)
(* two invokes of a plane never compute together, whoever died holding the *)
(* lease before.                                                           *)
OneBatchPerPlane ==
    ~trouble => \A p \in Planes : \A r, q \in Computing(p) : r = q

(* And until then a lease that ends before its time is ended by the invoke *)
(* that took it: nobody opens the plane under a batch that still runs.     *)
LeaseOutlivesBatch ==
    [][~trouble => \A p \in Planes : Held(p) /\ lease'[p] = 0 =>
                      \A r \in holder[p] : leasePc[r] = "release"]_leaseVars

(* "cross-plane mutex: one compute batch at a time" (fsm.py:392), in the   *)
(* same calm.                                                              *)
OneBatchAcrossPlanes ==
    ~trouble => Computing("calculation") = {} \/ Computing("analysis") = {}

=============================================================================
