--------------------------- MODULE FairSlotsProofs ---------------------------
(***************************************************************************)
(* The compute slots hold their bound, leak nothing and leave none idle,   *)
(* for every set of tasks and every limit.                                 *)
(*                                                                         *)
(* None of the three is inductive: that a release may hand a slot over     *)
(* without touching the counter needs to know who is in the queue, in what *)
(* state, and that a queue exists only while every slot is taken.  IInv    *)
(* says so.                                                                *)
(***************************************************************************)
EXTENDS FairSlots, FiniteSetTheorems, SequenceTheorems, TLAPS

(* A task waits exactly while it owns a future.                            *)
WaitersHaveFutures == \A t \in Tasks : (pc[t] = "waiting") <=> (fut[t] # "none")

(* The deque holds futures nobody granted, each once.                      *)
QueueWellFormed ==
    /\ \A i \in DOMAIN queue : fut[queue[i]] \in {"pending", "cancelled"}
    /\ \A i, j \in DOMAIN queue : queue[i] = queue[j] => i = j

(* No pending future is forgotten.                                         *)
PendingQueued ==
    \A t \in Tasks : fut[t] = "pending" => \E i \in DOMAIN queue : queue[i] = t

(* Only a granted waiter is asked to raise when it resumes.                *)
KilledGranted == \A t \in kill : fut[t] = "granted"

(* A queue exists only while every slot is taken: acquire() joins one only *)
(* then, and release() leaves one behind only by handing its slot over.    *)
QueueMeansFull == queue # <<>> => held = Limit

IInv ==
    /\ TypeOK
    /\ WaitersHaveFutures
    /\ QueueWellFormed
    /\ PendingQueued
    /\ KilledGranted
    /\ QueueMeansFull
    /\ NoSlotLost

-----------------------------------------------------------------------------

(* What is left of a sequence without its i-th element.                    *)
LEMMA WithoutElement ==
  ASSUME NEW S, NEW q \in Seq(S), NEW i \in 1..Len(q), NEW r,
         r = RemoveAt(q, i)
  PROVE  /\ r \in Seq(S)
         /\ DOMAIN r = 1..(Len(q) - 1)
         /\ \A k \in 1..(i - 1) : r[k] = q[k]
         /\ \A k \in i..(Len(q) - 1) : r[k] = q[k + 1]
<1> DEFINE a == SubSeq(q, 1, i - 1)
           b == SubSeq(q, i + 1, Len(q))
<1>1. /\ a \in Seq(S) /\ Len(a) = i - 1
      /\ \A k \in 1..(i - 1) : a[k] = q[k]
  OBVIOUS
<1>2. /\ b \in Seq(S) /\ Len(b) = Len(q) - i
      /\ \A k \in 1..(Len(q) - i) : b[k] = q[k + i]
  OBVIOUS
<1> HIDE DEF a, b
<1>3. /\ a \o b \in Seq(S) /\ Len(a \o b) = Len(q) - 1
      /\ \A k \in 1..(i - 1) : (a \o b)[k] = a[k]
      /\ \A k \in i..(Len(q) - 1) : (a \o b)[k] = b[k - (i - 1)]
  <2>1. i \in 1..Len(q) /\ Len(q) \in Nat
    BY LenProperties
  <2>2. /\ a \o b \in Seq(S) /\ Len(a \o b) = Len(a) + Len(b)
        /\ \A j \in 1..(Len(a) + Len(b)) :
              (a \o b)[j] = IF j <= Len(a) THEN a[j] ELSE b[j - Len(a)]
    BY ONLY <1>1, <1>2, ConcatProperties
  <2>3. Len(a) + Len(b) = Len(q) - 1
    BY <1>1, <1>2, <2>1
  <2>4. ASSUME NEW k \in 1..(i - 1) PROVE (a \o b)[k] = a[k]
    BY <1>1, <2>1, <2>2, <2>3
  <2>5. ASSUME NEW k \in i..(Len(q) - 1) PROVE (a \o b)[k] = b[k - (i - 1)]
    BY <1>1, <2>1, <2>2, <2>3
  <2> QED
    BY <2>2, <2>3, <2>4, <2>5
<1>4. r = a \o b /\ Len(q) \in Nat /\ i \in Nat
  BY DEF a, b, RemoveAt
<1>5. ASSUME NEW k \in i..(Len(q) - 1) PROVE r[k] = q[k + 1]
  <2>1. k - (i - 1) \in 1..(Len(q) - i) /\ (k - (i - 1)) + i = k + 1
    BY <1>4
  <2>2. b[k - (i - 1)] = q[k + 1]
    BY <1>2, <2>1
  <2> QED
    BY <1>3, <1>4, <2>2
<1>6. r \in Seq(S) /\ Len(r) = Len(q) - 1
  BY <1>3, <1>4
<1>7. DOMAIN r = 1..(Len(q) - 1)
  BY <1>6, LenProperties
<1> QED
  BY <1>1, <1>3, <1>4, <1>5, <1>6, <1>7

LEMMA OwnersFinite == IsFiniteSet(Owners) /\ Cardinality(Owners) \in Nat
<1>1. Owners \subseteq Tasks
  BY DEF Owners
<1>2. IsFiniteSet(Owners)
  BY <1>1, TasksAssumption, FS_Subset
<1> QED
  BY <1>2, FS_CardinalityType

LEMMA InitIInv == Init => IInv
<1> SUFFICES ASSUME Init PROVE IInv
  OBVIOUS
<1>1. Owners = {}
  BY DEF Init, Owners
<1>2. NoSlotLost
  BY <1>1, FS_EmptySet DEF Init, NoSlotLost
<1>3. TypeOK
  BY LimitAssumption DEF Init, TypeOK, FutState, Place
<1> QED
  BY <1>2, <1>3 DEF Init, IInv, WaitersHaveFutures, QueueWellFormed,
     PendingQueued, KilledGranted, QueueMeansFull

(* release() on behalf of an owner t keeps the invariant, whether t held   *)
(* its slot or was cancelled before it could.                              *)
LEMMA ReleaseKeepsIInv ==
  ASSUME IInv, NEW t \in Tasks, t \in Owners,
         Release([fut EXCEPT ![t] = "none"]),
         pc' = [pc EXCEPT ![t] = "idle"],
         kill' = kill \ {t}
  PROVE  IInv'
<1> USE DEF IInv, TypeOK
<1>1. \A i \in DOMAIN queue : queue[i] \in Tasks /\ queue[i] # t
  BY DEF QueueWellFormed, Owners, WaitersHaveFutures
<1>2. held >= 1
  <2>1. Cardinality(Owners) # 0
    BY OwnersFinite, FS_EmptySet
  <2> QED
    BY <2>1, OwnersFinite DEF NoSlotLost
<1>3. CASE Pending = {}
  <2>1. /\ queue' = <<>>
        /\ held' = held - 1
        /\ fut' = [fut EXCEPT ![t] = "none"]
    BY <1>2, <1>3, LimitAssumption DEF Release
  <2>2. Owners' = Owners \ {t}
    BY <2>1 DEF Owners, WaitersHaveFutures
  <2>3. NoSlotLost'
    BY <2>1, <2>2, OwnersFinite, FS_RemoveElement DEF NoSlotLost
  <2>4. \A u \in Tasks : fut[u] # "pending"
    BY <1>3 DEF Pending, PendingQueued
  <2>5. TypeOK'
    BY <2>1, <1>2, LimitAssumption DEF FutState, Place
  <2> QED
    BY <2>1, <2>3, <2>4, <2>5 DEF WaitersHaveFutures, QueueWellFormed,
       PendingQueued, KilledGranted, QueueMeansFull
<1>4. CASE Pending # {}
  <2>1. PICK i \in Pending :
           /\ \A j \in Pending : i <= j
           /\ queue' = SubSeq(queue, i + 1, Len(queue))
           /\ fut' = [fut EXCEPT ![t] = "none", ![queue[i]] = "granted"]
           /\ held' = held
    BY <1>1, <1>4 DEF Release
  <2> DEFINE u == queue[i]
  <2>2. /\ i \in 1..Len(queue) /\ u \in Tasks /\ u # t
        /\ fut[u] = "pending" /\ u \notin Owners
    BY <1>1 DEF Pending, Owners, WaitersHaveFutures
  <2>3. /\ DOMAIN queue' = 1..(Len(queue) - i)
        /\ \A k \in DOMAIN queue' : k + i \in DOMAIN queue /\ queue'[k] = queue[k + i]
        /\ queue' \in Seq(Tasks)
    BY <2>1, <2>2
  <2>4. Owners' = (Owners \ {t}) \cup {u}
    BY <2>1, <2>2 DEF Owners, WaitersHaveFutures
  <2>5. NoSlotLost'
    <3>1. /\ IsFiniteSet(Owners \ {t})
          /\ Cardinality(Owners \ {t}) = Cardinality(Owners) - 1
      BY OwnersFinite, FS_RemoveElement
    <3>2. Cardinality((Owners \ {t}) \cup {u}) = Cardinality(Owners \ {t}) + 1
      BY <2>2, <3>1, FS_AddElement
    <3> QED
      BY <2>1, <2>4, <3>1, <3>2, OwnersFinite DEF NoSlotLost
  <2>6. TypeOK'
    BY <2>1, <2>2, <2>3 DEF FutState, Place
  <2>7. QueueWellFormed'
    BY <1>1, <2>1, <2>2, <2>3, SMTT(40) DEF QueueWellFormed
  <2>8. PendingQueued'
    <3> SUFFICES ASSUME NEW w \in Tasks, fut'[w] = "pending"
                 PROVE  \E k \in DOMAIN queue' : queue'[k] = w
      BY DEF PendingQueued
    <3>1. fut[w] = "pending" /\ w # u
      BY <2>1, <2>2
    <3>2. PICK j \in DOMAIN queue : queue[j] = w
      BY <3>1 DEF PendingQueued
    <3>3. j > i
      BY <2>1, <2>2, <3>1, <3>2 DEF Pending
    <3>4. j - i \in DOMAIN queue' /\ queue'[j - i] = w
      BY <2>2, <2>3, <3>2, <3>3
    <3> QED
      BY <3>4
  <2>9. WaitersHaveFutures'
    BY <2>1, <2>2 DEF WaitersHaveFutures
  <2>10. KilledGranted'
    BY <2>1, <2>2, <2>6 DEF KilledGranted
  <2>11. QueueMeansFull'
    BY <2>1, <2>2 DEF QueueMeansFull
  <2> QED
    BY <2>5, <2>6, <2>7, <2>8, <2>9, <2>10, <2>11
<1> QED
  BY <1>3, <1>4

LEMMA StepIInv == IInv /\ [Next]_vars => IInv'
<1> SUFFICES ASSUME IInv, [Next]_vars PROVE IInv'
  OBVIOUS
<1> USE DEF IInv, TypeOK
<1>1. ASSUME NEW t \in Tasks, AcquireFast(t) PROVE IInv'
  <2> USE <1>1 DEF AcquireFast
  <2>1. Owners' = Owners \cup {t} /\ t \notin Owners
    BY DEF Owners, WaitersHaveFutures
  <2>2. NoSlotLost'
    BY <2>1, OwnersFinite, FS_AddElement DEF NoSlotLost
  <2>3. TypeOK'
    BY LimitAssumption DEF Place
  <2> QED
    BY <2>2, <2>3 DEF WaitersHaveFutures, QueueWellFormed, PendingQueued,
       KilledGranted, QueueMeansFull
<1>2. ASSUME NEW t \in Tasks, AcquireWait(t) PROVE IInv'
  <2> USE <1>2 DEF AcquireWait
  <2>1. /\ fut[t] = "none"
        /\ \A i \in DOMAIN queue : queue[i] # t
    BY DEF WaitersHaveFutures, QueueWellFormed
  <2>2. /\ DOMAIN queue' = 1..(Len(queue) + 1)
        /\ DOMAIN queue = 1..Len(queue)
        /\ queue'[Len(queue) + 1] = t
        /\ \A k \in DOMAIN queue : queue'[k] = queue[k]
        /\ queue' \in Seq(Tasks)
    OBVIOUS
  <2>3. held = Limit
    BY LimitAssumption DEF QueueMeansFull
  <2>4. Owners' = Owners
    BY <2>1 DEF Owners
  <2>5. TypeOK'
    BY <2>2 DEF FutState, Place
  <2>6. QueueWellFormed'
    BY <2>1, <2>2 DEF QueueWellFormed
  <2>7. PendingQueued'
    <3> SUFFICES ASSUME NEW w \in Tasks, fut'[w] = "pending"
                 PROVE  \E k \in DOMAIN queue' : queue'[k] = w
      BY DEF PendingQueued
    <3>1. CASE w = t
      BY <2>2, <3>1
    <3>2. CASE w # t
      BY <2>2, <3>2 DEF PendingQueued
    <3> QED
      BY <3>1, <3>2
  <2> QED
    BY <2>1, <2>3, <2>4, <2>5, <2>6, <2>7 DEF WaitersHaveFutures,
       KilledGranted, QueueMeansFull, NoSlotLost
<1>3. ASSUME NEW t \in Tasks, CancelWaiter(t) PROVE IInv'
  <2>1. CASE fut[t] = "pending"
    <3>1. /\ fut' = [fut EXCEPT ![t] = "cancelled"]
          /\ UNCHANGED <<held, queue, pc, kill>>
      BY <1>3, <2>1 DEF CancelWaiter
    <3>2. Owners' = Owners
      BY <2>1, <3>1 DEF Owners
    <3> QED
      BY <2>1, <3>1, <3>2 DEF WaitersHaveFutures, QueueWellFormed,
         PendingQueued, KilledGranted, QueueMeansFull, NoSlotLost, FutState
  <2>2. CASE fut[t] = "granted"
    <3>1. kill' = kill \cup {t} /\ UNCHANGED <<held, queue, pc, fut>>
      BY <1>3, <2>2 DEF CancelWaiter
    <3>2. Owners' = Owners
      BY <3>1 DEF Owners
    <3> QED
      BY <2>2, <3>1, <3>2 DEF WaitersHaveFutures, QueueWellFormed,
         PendingQueued, KilledGranted, QueueMeansFull, NoSlotLost
  <2> QED
    BY <1>3, <2>1, <2>2 DEF CancelWaiter
<1>4. ASSUME NEW t \in Tasks, ResumeGranted(t) PROVE IInv'
  <2> USE <1>4 DEF ResumeGranted
  <2>1. Owners' = Owners
    BY DEF Owners
  <2>2. \A i \in DOMAIN queue : queue[i] # t
    BY DEF QueueWellFormed
  <2> QED
    BY <2>1, <2>2 DEF WaitersHaveFutures, QueueWellFormed, PendingQueued,
       KilledGranted, QueueMeansFull, NoSlotLost, FutState, Place
<1>5. ASSUME NEW t \in Tasks, ResumeKilled(t) PROVE IInv'
  BY <1>5, ReleaseKeepsIInv DEF ResumeKilled, Owners
<1>6. ASSUME NEW t \in Tasks, ResumeCancelled(t) PROVE IInv'
  <2>0. queue \in Seq(Tasks) /\ DOMAIN queue = 1..Len(queue) /\ Len(queue) \in Nat
    BY LenProperties
  <2> USE <1>6 DEF ResumeCancelled
  <2>1. Owners' = Owners
    BY DEF Owners
  <2>2. CASE \A i \in DOMAIN queue : queue[i] # t
    <3>1. queue' = queue
      BY <2>2
    <3> QED
      BY <2>1, <2>2, <3>1 DEF WaitersHaveFutures, QueueWellFormed,
         PendingQueued, KilledGranted, QueueMeansFull, NoSlotLost, FutState, Place
  <2>3. CASE \E i \in DOMAIN queue : queue[i] = t
    <3>1. PICK i \in DOMAIN queue :
             /\ queue[i] = t
             /\ queue' = RemoveAt(queue, i)
      BY <2>3
    <3>2. /\ pc[t] = "waiting" /\ fut[t] = "cancelled"
          /\ fut' = [fut EXCEPT ![t] = "none"]
          /\ pc' = [pc EXCEPT ![t] = "idle"]
          /\ UNCHANGED <<held, kill>>
      OBVIOUS
    <3> HIDE <1>6 DEF ResumeCancelled
    <3>4. i \in 1..Len(queue) /\ Len(queue) \in Nat /\ queue \in Seq(Tasks)
      BY <2>0, <3>1
    <3>3. /\ queue' \in Seq(Tasks)
          /\ DOMAIN queue' = 1..(Len(queue) - 1)
          /\ \A k \in 1..(i - 1) : queue'[k] = queue[k]
          /\ \A k \in i..(Len(queue) - 1) : queue'[k] = queue[k + 1]
      BY ONLY <3>1, <3>4, WithoutElement
    <3> DEFINE n == Len(queue)
               old(k) == IF k < i THEN k ELSE k + 1
    <3>5. ASSUME NEW k \in 1..(n - 1)
          PROVE  old(k) \in 1..n /\ old(k) # i /\ queue'[k] = queue[old(k)]
      <4>1. CASE k < i
        BY <3>3, <3>4, <4>1
      <4>2. CASE k >= i
        BY <3>3, <3>4, <4>2
      <4> QED
        BY <3>4, <4>1, <4>2
    <3>6. \A k, l \in 1..(n - 1) : old(k) = old(l) => k = l
      BY <3>4
    <3> HIDE DEF n, old
    <3>7. DOMAIN queue = 1..n /\ DOMAIN queue' = 1..(n - 1)
      BY <2>0, <3>3 DEF n
    <3>8. \A k \in 1..(n - 1) : queue'[k] # t /\ fut'[queue'[k]] = fut[queue[old(k)]]
      <4>1. i \in 1..n /\ \A k \in 1..n : queue[k] \in Tasks
        BY <2>0, <3>4, ElementOfSeq DEF n
      <4>2. ASSUME NEW k \in 1..(n - 1)
            PROVE  queue'[k] # t /\ fut'[queue'[k]] = fut[queue[old(k)]]
        <5>1. old(k) \in 1..n /\ old(k) # i /\ queue'[k] = queue[old(k)]
          BY <3>5
        <5>2. queue[old(k)] # queue[i]
          BY <3>7, <4>1, <5>1 DEF QueueWellFormed
        <5> QED
          BY <3>1, <3>2, <4>1, <5>1, <5>2
      <4> QED
        BY <4>2
    <3>9. QueueWellFormed'
      BY <3>5, <3>6, <3>7, <3>8 DEF QueueWellFormed
    <3>10. PendingQueued'
      <4> SUFFICES ASSUME NEW w \in Tasks, fut'[w] = "pending"
                   PROVE  \E k \in 1..(n - 1) : queue'[k] = w
        BY <3>7 DEF PendingQueued
      <4>1. w # t /\ fut[w] = "pending"
        BY <3>2
      <4>2. PICK j \in 1..n : queue[j] = w
        BY <3>7, <4>1 DEF PendingQueued
      <4>3. n \in Nat /\ i \in 1..n /\ j # i
        BY <3>1, <3>4, <4>1, <4>2 DEF n
      <4>4. CASE j < i
        <5>1. j \in 1..(n - 1) /\ queue'[j] = w
          BY <3>3, <4>2, <4>3, <4>4
        <5> QED
          BY <5>1
      <4>5. CASE j > i
        <5>1. j - 1 \in 1..(n - 1) /\ old(j - 1) = j
          BY <4>2, <4>3, <4>5 DEF old
        <5> QED
          BY <3>5, <4>2, <5>1
      <4> QED
        BY <4>3, <4>4, <4>5
    <3> QED
      BY <2>1, <3>1, <3>2, <3>3, <3>9, <3>10 DEF WaitersHaveFutures, KilledGranted,
         QueueMeansFull, NoSlotLost, FutState, Place
  <2> QED
    BY <2>2, <2>3
<1>7. ASSUME NEW t \in Tasks, ReleaseSlot(t) PROVE IInv'
  <2>1. t \notin kill /\ fut = [fut EXCEPT ![t] = "none"] /\ t \in Owners
    BY <1>7 DEF ReleaseSlot, KilledGranted, WaitersHaveFutures, Owners
  <2> QED
    BY <1>7, <2>1, ReleaseKeepsIInv DEF ReleaseSlot
<1>8. CASE UNCHANGED vars
  BY <1>8 DEF vars, WaitersHaveFutures, QueueWellFormed, PendingQueued,
     KilledGranted, QueueMeansFull, NoSlotLost, Owners
<1> QED
  BY <1>1, <1>2, <1>3, <1>4, <1>5, <1>6, <1>7, <1>8 DEF Next

THEOREM Invariance == Spec => []IInv
<1> QED
  BY InitIInv, StepIInv, PTL DEF Spec

-----------------------------------------------------------------------------

(* The variables keep their types; held stays within 0..Limit.             *)
THEOREM TypeCorrect == Spec => []TypeOK
<1>1. IInv => TypeOK
  BY DEF IInv
<1> QED
  BY <1>1, Invariance, PTL

(* Cancellation at any point neither leaks a slot nor frees one twice.     *)
THEOREM SlotsAccounted == Spec => []NoSlotLost
<1>1. IInv => NoSlotLost
  BY DEF IInv
<1> QED
  BY <1>1, Invariance, PTL

(* No more than Limit heavy sections run at once.                          *)
THEOREM SlotsBounded == Spec => []SlotBound
<1>1. IInv => SlotBound
  <2> SUFFICES ASSUME IInv PROVE SlotBound
    OBVIOUS
  <2> DEFINE H == {t \in Tasks : pc[t] = "holding"}
  <2>1. H \subseteq Owners
    BY DEF Owners
  <2>2. Cardinality(H) <= Cardinality(Owners) /\ Cardinality(H) \in Nat
    BY <2>1, OwnersFinite, FS_Subset, FS_CardinalityType
  <2> QED
    BY <2>2, OwnersFinite, LimitAssumption DEF IInv, TypeOK, NoSlotLost, SlotBound
<1> QED
  BY <1>1, Invariance, PTL

(* No wake-up is lost: a slot never idles while somebody waits for one.    *)
THEOREM SlotsNeverIdle == Spec => []NoIdleSlot
<1>1. IInv => NoIdleSlot
  BY DEF IInv, PendingQueued, QueueMeansFull, NoSlotLost, NoIdleSlot, TypeOK
<1> QED
  BY <1>1, Invariance, PTL

(* Slots are handed over first come, first served.                         *)
THEOREM SlotsInOrder == Spec => GrantsInOrder
<1>1. IInv /\ [Next]_vars =>
        [\A i \in DOMAIN queue :
           (fut[queue[i]] = "pending" /\ fut'[queue[i]] = "granted")
              => \A j \in 1..(i - 1) : fut[queue[j]] # "pending"]_vars
  <2> SUFFICES ASSUME IInv, Next,
                      NEW i \in DOMAIN queue,
                      fut[queue[i]] = "pending", fut'[queue[i]] = "granted",
                      NEW j \in 1..(i - 1), fut[queue[j]] = "pending"
               PROVE  FALSE
    OBVIOUS
  <2>1. /\ queue \in Seq(Tasks) /\ fut \in [Tasks -> FutState]
        /\ i \in 1..Len(queue) /\ j \in DOMAIN queue /\ j < i
        /\ queue[i] \in Tasks
    BY DEF IInv, TypeOK
  <2>2. ASSUME NEW t \in Tasks, queue[i] # t, Release([fut EXCEPT ![t] = "none"])
        PROVE  FALSE
    <3>1. i \in Pending /\ j \in Pending
      BY <2>1 DEF Pending
    <3>2. PICK k \in Pending :
             /\ \A l \in Pending : k <= l
             /\ fut' = [fut EXCEPT ![t] = "none", ![queue[k]] = "granted"]
      BY <2>2, <3>1 DEF Release
    <3>3. queue[k] = queue[i]
      BY <2>1, <2>2, <3>2
    <3> QED
      BY <2>1, <3>1, <3>2, <3>3 DEF IInv, QueueWellFormed, Pending
  <2>3. ASSUME NEW t \in Tasks, ResumeKilled(t) PROVE FALSE
    BY <2>2, <2>3 DEF ResumeKilled
  <2>4. ASSUME NEW t \in Tasks, ReleaseSlot(t) PROVE FALSE
    <3>1. fut = [fut EXCEPT ![t] = "none"] /\ queue[i] # t
      BY <2>1, <2>4 DEF ReleaseSlot, IInv, WaitersHaveFutures
    <3> QED
      BY <2>2, <2>4, <3>1 DEF ReleaseSlot
  <2> QED
    BY <2>1, <2>3, <2>4 DEF Next, AcquireFast, AcquireWait, CancelWaiter,
       ResumeGranted, ResumeCancelled
<1> QED
  BY <1>1, Invariance, PTL DEF Spec, GrantsInOrder

-----------------------------------------------------------------------------
(* The steps of the semaphore as steps of SlotService.  A release is a     *)
(* Leave, whoever it hands the slot to; futures that are already resolved  *)
(* come and go in the queue unseen.                                        *)

Standing == [t \in Waiting |-> InFront(t)]

LEMMA StandingPrimed ==
  Standing' = [t \in Waiting' |-> {u \in Waiting' : Before(queue', u, t)}]
  BY DEF Standing, InFront

(* One waiter leaves the line: nothing else changes as long as the others  *)
(* keep their order.                                                       *)
LEMMA OneLess ==
  ASSUME NEW x, Waiting' = Waiting \ {x},
         \A u, v \in Waiting' : Before(queue', u, v) <=> Before(queue, u, v)
  PROVE  Standing' = [u \in Waiting \ {x} |-> Standing[u] \ {x}]
<1>1. \A u \in Waiting \ {x} :
         {v \in Waiting' : Before(queue', v, u)} = Standing[u] \ {x}
  BY DEF Standing, InFront
<1> QED
  BY <1>1, StandingPrimed

LEMMA LineEmpty ==
  ASSUME IInv
  PROVE  /\ Waiting = {} <=> Pending = {}
         /\ queue = <<>> => Waiting = {}
         /\ Waiting # {} => Cardinality(Owners) = Limit
<1>1. (Waiting = {} <=> Pending = {}) /\ (queue = <<>> => Waiting = {})
  BY DEF IInv, TypeOK, Waiting, Pending, PendingQueued
<1> QED
  BY <1>1 DEF IInv, QueueMeansFull, NoSlotLost

(* A slot at once.                                                         *)
LEMMA FastStep ==
  ASSUME IInv, NEW t \in Tasks, AcquireFast(t)
  PROVE  /\ t \notin Owners \cup Waiting
         /\ Waiting = {} /\ Cardinality(Owners) < Limit
         /\ Owners' = Owners \cup {t} /\ Standing' = Standing
<1>1. Waiting = {} /\ Waiting' = {}
  BY LineEmpty DEF AcquireFast, Waiting
<1>2. t \notin Owners /\ Owners' = Owners \cup {t} /\ Cardinality(Owners) < Limit
  BY DEF IInv, TypeOK, WaitersHaveFutures, NoSlotLost, AcquireFast, Owners
<1> QED
  BY <1>1, <1>2, StandingPrimed DEF Standing

(* A place at the end of the line.                                         *)
LEMMA WaitStep ==
  ASSUME IInv, NEW t \in Tasks, AcquireWait(t)
  PROVE  /\ t \notin Owners \cup Waiting
         /\ ~(Cardinality(Owners) < Limit)
         /\ Owners' = Owners
         /\ Standing' = [u \in Waiting \cup {t} |-> IF u = t THEN Waiting ELSE Standing[u]]
<1> USE DEF IInv, TypeOK, AcquireWait
<1>1. /\ fut[t] = "none"
      /\ \A i \in DOMAIN queue : queue[i] # t
  BY DEF WaitersHaveFutures, QueueWellFormed
<1>2. /\ DOMAIN queue' = 1..(Len(queue) + 1)
      /\ DOMAIN queue = 1..Len(queue) /\ Len(queue) \in Nat
      /\ queue'[Len(queue) + 1] = t
      /\ \A k \in DOMAIN queue : queue'[k] = queue[k]
  OBVIOUS
<1>3. Owners' = Owners /\ Waiting' = Waiting \cup {t} /\ t \notin Owners \cup Waiting
  BY <1>1 DEF Owners, Waiting
<1>4. held = Limit /\ held = Cardinality(Owners) /\ held \in Nat
  BY LimitAssumption DEF QueueMeansFull, NoSlotLost
<1> HIDE DEF IInv, TypeOK, AcquireWait
<1>5. \A u \in Waiting : \E i \in DOMAIN queue : queue[i] = u
  BY DEF IInv, PendingQueued, Waiting
<1>6. {v \in Waiting' : Before(queue', v, t)} = Waiting
  <2>1. ASSUME NEW v \in Waiting PROVE Before(queue', v, t)
    <3>1. PICK i \in DOMAIN queue : queue[i] = v
      BY <1>5
    <3>2. i < Len(queue) + 1 /\ i \in DOMAIN queue' /\ Len(queue) + 1 \in DOMAIN queue'
      BY <1>2
    <3> QED
      BY <1>2, <3>1, <3>2 DEF Before
  <2>2. ~Before(queue', t, t)
    BY <1>1, <1>2 DEF Before
  <2> QED
    BY <1>3, <2>1, <2>2
<1>7. ASSUME NEW u \in Waiting
      PROVE  {v \in Waiting' : Before(queue', v, u)} = Standing[u]
  <2>1. \A v \in Waiting' : Before(queue', v, u) <=> Before(queue, v, u)
    BY <1>1, <1>2, <1>3 DEF Before
  <2>2. ~Before(queue, t, u)
    BY <1>1 DEF Before
  <2> QED
    BY <1>3, <2>1, <2>2 DEF Standing, InFront
<1>8. Standing' = [u \in Waiting \cup {t} |-> {v \in Waiting' : Before(queue', v, u)}]
  BY <1>3, StandingPrimed
<1>9. ~(Cardinality(Owners) < Limit)
  BY <1>4
<1> QED
  BY <1>3, <1>6, <1>7, <1>8, <1>9

(* A slot comes back.                                                      *)
LEMMA ReleaseStep ==
  ASSUME IInv, NEW t \in Tasks, t \in Owners,
         Release([fut EXCEPT ![t] = "none"]),
         pc' = [pc EXCEPT ![t] = "idle"]
  PROVE  IF Waiting = {}
         THEN Owners' = Owners \ {t} /\ Standing' = Standing
         ELSE \E u \in Waiting :
                /\ Standing[u] = {}
                /\ Owners' = (Owners \ {t}) \cup {u}
                /\ Standing' = [v \in Waiting \ {u} |-> Standing[v] \ {u}]
<1>1. queue \in Seq(Tasks) /\ DOMAIN queue = 1..Len(queue) /\ Len(queue) \in Nat
  BY LenProperties DEF IInv, TypeOK
<1>2. \A i \in DOMAIN queue : queue[i] \in Tasks /\ queue[i] # t
  BY <1>1 DEF IInv, TypeOK, QueueWellFormed, Owners, WaitersHaveFutures
<1>3. CASE Pending = {}
  <2>1. queue' = <<>> /\ fut' = [fut EXCEPT ![t] = "none"]
    BY <1>3 DEF Release
  <2>2. Waiting = {}
    BY <1>3, LineEmpty
  <2>3. Waiting' = {} /\ Owners' = Owners \ {t}
    BY <2>1, <2>2 DEF IInv, TypeOK, Waiting, Owners, WaitersHaveFutures
  <2> QED
    BY <2>2, <2>3, StandingPrimed DEF Standing
<1>4. CASE Pending # {}
  <2>1. PICK i \in Pending :
           /\ \A j \in Pending : i <= j
           /\ queue' = SubSeq(queue, i + 1, Len(queue))
           /\ fut' = [fut EXCEPT ![t] = "none", ![queue[i]] = "granted"]
    BY <1>2, <1>4 DEF Release
  <2> DEFINE u == queue[i]
  <2>2. /\ i \in 1..Len(queue) /\ u \in Tasks /\ u # t
        /\ fut[u] = "pending" /\ u \notin Owners /\ u \in Waiting
    BY <1>2, <2>1 DEF IInv, TypeOK, Pending, Owners, WaitersHaveFutures, Waiting
  <2>3. /\ DOMAIN queue' = 1..(Len(queue) - i)
        /\ \A k \in DOMAIN queue' : k + i \in DOMAIN queue /\ queue'[k] = queue[k + i]
    BY <1>1, <2>1, <2>2
  <2>4. Owners' = (Owners \ {t}) \cup {u}
    BY <2>1, <2>2 DEF IInv, TypeOK, Owners, WaitersHaveFutures
  <2>5. Waiting' = Waiting \ {u}
    <3>1. fut[t] # "pending"
      BY DEF IInv, TypeOK, Owners, WaitersHaveFutures
    <3> QED
      BY <2>1, <2>2, <3>1 DEF IInv, TypeOK, Waiting
  <2>6. \A j \in DOMAIN queue : queue[j] \in Waiting => j >= i
    BY <2>1 DEF Pending, Waiting
  <2>7. Standing[u] = {}
    <3>1. ASSUME NEW v \in Waiting, Before(queue, v, u) PROVE FALSE
      <4>1. PICK k, l \in DOMAIN queue : k < l /\ queue[k] = v /\ queue[l] = u
        BY <3>1 DEF Before
      <4>2. l = i
        BY <1>1, <2>2, <4>1 DEF IInv, QueueWellFormed
      <4> QED
        BY <1>1, <2>2, <2>6, <4>1, <4>2
    <3> QED
      BY <2>2, <3>1 DEF Standing, InFront
  <2>8. ASSUME NEW v \in Waiting', NEW w \in Waiting'
        PROVE  Before(queue', v, w) <=> Before(queue, v, w)
    <3>1. ASSUME NEW k \in DOMAIN queue, NEW l \in DOMAIN queue,
                 k < l, queue[k] = v, queue[l] = w
          PROVE  Before(queue', v, w)
      <4>1. k > i /\ l > i
        BY <1>1, <2>2, <2>5, <2>6, <3>1
      <4>2. k - i \in DOMAIN queue' /\ l - i \in DOMAIN queue' /\ k - i < l - i
        BY <1>1, <2>2, <2>3, <3>1, <4>1
      <4>3. queue'[k - i] = v /\ queue'[l - i] = w
        BY <1>1, <2>2, <2>3, <3>1, <4>2
      <4> QED
        BY <4>2, <4>3 DEF Before
    <3>2. ASSUME NEW k \in DOMAIN queue', NEW l \in DOMAIN queue',
                 k < l, queue'[k] = v, queue'[l] = w
          PROVE  Before(queue, v, w)
      <4>1. k + i \in DOMAIN queue /\ l + i \in DOMAIN queue /\ k + i < l + i
        BY <1>1, <2>2, <2>3, <3>2
      <4> QED
        BY <2>3, <3>2, <4>1 DEF Before
    <3> QED
      BY <3>1, <3>2 DEF Before
  <2>9. Standing' = [v \in Waiting \ {u} |-> Standing[v] \ {u}]
    BY <2>5, <2>8, OneLess
  <2> HIDE DEF u
  <2> QED
    BY <2>2, <2>4, <2>7, <2>9
<1> QED
  BY <1>3, <1>4

(* A cancelled future leaves the queue: the line does not change.          *)
LEMMA DropStep ==
  ASSUME IInv, NEW t \in Tasks, ResumeCancelled(t)
  PROVE  Owners' = Owners /\ Standing' = Standing
<1>1. queue \in Seq(Tasks) /\ DOMAIN queue = 1..Len(queue) /\ Len(queue) \in Nat
  BY LenProperties DEF IInv, TypeOK
<1>2. Owners' = Owners /\ Waiting' = Waiting /\ t \notin Waiting
  BY DEF IInv, TypeOK, ResumeCancelled, Owners, Waiting
<1>3. CASE queue' = queue
  BY <1>2, <1>3, StandingPrimed DEF Standing, InFront
<1>4. ASSUME NEW i \in DOMAIN queue, queue[i] = t, queue' = RemoveAt(queue, i)
      PROVE  Standing' = Standing
  <2>0. i \in 1..Len(queue)
    BY <1>1
  <2>1. /\ DOMAIN queue' = 1..(Len(queue) - 1)
        /\ \A k \in 1..(i - 1) : queue'[k] = queue[k]
        /\ \A k \in i..(Len(queue) - 1) : queue'[k] = queue[k + 1]
    BY ONLY <1>1, <1>4, <2>0, WithoutElement
  <2>2. ASSUME NEW v \in Waiting', NEW w \in Waiting'
        PROVE  Before(queue', v, w) <=> Before(queue, v, w)
    <3>1. ASSUME NEW k \in DOMAIN queue, NEW l \in DOMAIN queue,
                 k < l, queue[k] = v, queue[l] = w
          PROVE  Before(queue', v, w)
      <4> DEFINE new(n) == IF n < i THEN n ELSE n - 1
      <4>1. k # i /\ l # i
        BY <1>2, <1>4, <3>1
      <4>2. new(k) \in DOMAIN queue' /\ new(l) \in DOMAIN queue' /\ new(k) < new(l)
        BY <1>1, <2>0, <2>1, <3>1, <4>1
      <4>3. queue'[new(k)] = v
        <5>1. CASE k < i
          BY <1>1, <2>0, <2>1, <3>1, <5>1
        <5>2. CASE k > i
          <6>1. k - 1 \in i..(Len(queue) - 1) /\ (k - 1) + 1 = k
            BY <1>1, <2>0, <5>2
          <6> QED
            BY <2>1, <3>1, <5>2, <6>1, <1>1, <2>0
        <5> QED
          BY <1>1, <2>0, <4>1, <5>1, <5>2
      <4>4. queue'[new(l)] = w
        <5>1. CASE l < i
          BY <1>1, <2>0, <2>1, <3>1, <5>1
        <5>2. CASE l > i
          <6>1. l - 1 \in i..(Len(queue) - 1) /\ (l - 1) + 1 = l
            BY <1>1, <2>0, <5>2
          <6> QED
            BY <2>1, <3>1, <5>2, <6>1, <1>1, <2>0
        <5> QED
          BY <1>1, <2>0, <4>1, <5>1, <5>2
      <4> HIDE DEF new
      <4> QED
        BY <4>2, <4>3, <4>4 DEF Before
    <3>2. ASSUME NEW k \in DOMAIN queue', NEW l \in DOMAIN queue',
                 k < l, queue'[k] = v, queue'[l] = w
          PROVE  Before(queue, v, w)
      <4> DEFINE old(n) == IF n < i THEN n ELSE n + 1
      <4>1. \A n \in DOMAIN queue' : old(n) \in DOMAIN queue /\ queue'[n] = queue[old(n)]
        <5> SUFFICES ASSUME NEW n \in DOMAIN queue'
                     PROVE  old(n) \in DOMAIN queue /\ queue'[n] = queue[old(n)]
          OBVIOUS
        <5>1. CASE n < i
          BY <1>1, <2>0, <2>1, <5>1
        <5>2. CASE n >= i
          BY <1>1, <2>0, <2>1, <5>2
        <5> QED
          BY <1>1, <2>0, <2>1, <5>1, <5>2
      <4>2. old(k) < old(l)
        BY <1>1, <2>0, <2>1, <3>2
      <4> HIDE DEF old
      <4> QED
        BY <3>2, <4>1, <4>2 DEF Before
    <3> QED
      BY <3>1, <3>2 DEF Before
  <2>3. Waiting' = Waiting \ {t}
    BY <1>2
  <2>4. Standing' = [u \in Waiting \ {t} |-> Standing[u] \ {t}]
    BY <2>2, <2>3, OneLess
  <2>5. ASSUME NEW u \in Waiting PROVE Standing[u] \ {t} = Standing[u]
    BY <1>2 DEF Standing, InFront
  <2> QED
    BY <1>2, <2>3, <2>4, <2>5 DEF Standing
<1> QED
  BY <1>2, <1>3, <1>4 DEF ResumeCancelled

(* A waiter whose future is cancelled leaves the line; one that was        *)
(* granted already is not in it.                                           *)
LEMMA CancelStep ==
  ASSUME IInv, NEW t \in Tasks, CancelWaiter(t)
  PROVE  /\ Owners' = Owners
         /\ \/ Standing' = Standing
            \/ t \in Waiting /\ Standing' = [u \in Waiting \ {t} |-> Standing[u] \ {t}]
<1>1. CASE fut[t] = "pending" /\ fut' = [fut EXCEPT ![t] = "cancelled"]
  <2>1. Waiting' = Waiting \ {t} /\ t \in Waiting /\ Owners' = Owners /\ queue' = queue
    BY <1>1 DEF IInv, TypeOK, CancelWaiter, Waiting, Owners
  <2>2. Standing' = [u \in Waiting \ {t} |-> Standing[u] \ {t}]
    BY <2>1, OneLess
  <2> QED
    BY <2>1, <2>2
<1>2. CASE UNCHANGED fut
  BY <1>2, StandingPrimed DEF CancelWaiter, Waiting, Owners, Standing, InFront
<1> QED
  BY <1>1, <1>2 DEF CancelWaiter

LEMMA SameSize == \A S : Service!Cardinality(S) = Cardinality(S)
  BY DEF Cardinality, Service!Cardinality

LEMMA ServiceInit == Init => Service!Init
  BY DEF Init, Service!Init, Owners, Waiting

LEMMA ServiceStep == IInv /\ [Next]_vars => [Service!Next]_<<Owners, [t \in Waiting |-> InFront(t)]>>
<1> SUFFICES ASSUME IInv, [Next]_vars
             PROVE  \/ \E t \in Tasks : Service!Ask(t) \/ Service!Withdraw(t) \/ Service!Leave(t)
                    \/ Owners' = Owners /\ Standing' = Standing
  BY DEF Service!Next, Standing
<1>0. DOMAIN Standing = Waiting
  BY DEF Standing
<1>a. ASSUME NEW t \in Tasks, AcquireFast(t) PROVE Service!Ask(t)
  BY <1>a, FastStep, SameSize DEF Service!Ask, Service!Line, Standing
<1>b. ASSUME NEW t \in Tasks, AcquireWait(t) PROVE Service!Ask(t)
  BY <1>b, WaitStep, SameSize DEF Service!Ask, Service!Line, Standing
<1>c. ASSUME NEW t \in Tasks, Owners' = Owners, t \in Waiting,
             Standing' = [u \in Waiting \ {t} |-> Standing[u] \ {t}]
      PROVE  Service!Withdraw(t)
  BY <1>c DEF Service!Withdraw, Service!Line, Service!Without, Standing
<1>d. ASSUME NEW t \in Tasks, t \in Owners,
             Release([fut EXCEPT ![t] = "none"]), pc' = [pc EXCEPT ![t] = "idle"]
      PROVE  Service!Leave(t)
  BY <1>d, ReleaseStep DEF Service!Leave, Service!Line, Service!Without, Standing
<1>1. ASSUME NEW t \in Tasks, CancelWaiter(t)
      PROVE  Service!Withdraw(t) \/ (Owners' = Owners /\ Standing' = Standing)
  BY <1>1, <1>c, CancelStep
<1>2. ASSUME NEW t \in Tasks, ResumeGranted(t) PROVE Owners' = Owners /\ Standing' = Standing
  <2>1. Owners' = Owners /\ Waiting' = Waiting /\ queue' = queue
    BY <1>2 DEF IInv, TypeOK, ResumeGranted, Owners, Waiting
  <2> QED
    BY <2>1, StandingPrimed DEF Standing, InFront
<1>3. ASSUME NEW t \in Tasks, ResumeKilled(t) PROVE Service!Leave(t)
  BY <1>3, <1>d DEF ResumeKilled, Owners
<1>4. ASSUME NEW t \in Tasks, ReleaseSlot(t) PROVE Service!Leave(t)
  <2>1. fut = [fut EXCEPT ![t] = "none"] /\ t \in Owners
    BY <1>4 DEF ReleaseSlot, IInv, TypeOK, WaitersHaveFutures, Owners
  <2> QED
    BY <1>4, <1>d, <2>1 DEF ReleaseSlot
<1>5. CASE UNCHANGED vars
  BY <1>5, StandingPrimed DEF vars, Owners, Waiting, Standing, InFront
<1> QED
  BY <1>a, <1>b, <1>1, <1>2, <1>3, <1>4, <1>5, DropStep DEF Next

(* The semaphore implements the plain line of SlotService: futures, stale  *)
(* entries of the deque and delayed wake-ups are invisible to its users.   *)
THEOREM LineKept == Spec => ImplementsService
  BY ServiceInit, ServiceStep, Invariance, PTL DEF Spec, ImplementsService, Service!Spec

=============================================================================
