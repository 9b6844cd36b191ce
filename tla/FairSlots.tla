------------------------------ MODULE FairSlots ------------------------------
(***************************************************************************)
(* The compute slots of one plane: the FIFO semaphore _FairSemaphore of    *)
(* governance/gates.py and its two callers, acquire_compute_slot and       *)
(* release_compute_slot.  Every heavy section of every worker (evidence,   *)
(* compute, persist; or a backfill) holds one slot.                        *)
(*                                                                         *)
(* The tasks run on one asyncio loop, so the code between two awaits is    *)
(* atomic; what interleaves is which ready task the loop runs next, and    *)
(* when a task is cancelled.  A task that waits owns one future.  Cancel   *)
(* marks a pending future cancelled at once, but the waiter removes it     *)
(* from the queue only when the loop resumes it; a waiter that is already  *)
(* granted when it is cancelled must give the slot back.                   *)
(***************************************************************************)
EXTENDS Integers, Sequences, SequencesExt, FiniteSets

CONSTANTS Tasks,   \* the tasks of the plane that may ask for a slot
          Limit    \* compute_concurrency() of the plane's FSM

ASSUME TasksAssumption == IsFiniteSet(Tasks)
ASSUME LimitAssumption == Limit \in Nat \ {0}

VARIABLES held,    \* _held: slots handed out
          queue,   \* _queue: the tasks whose future is in the deque
          fut,     \* the state of each task's future
          pc,      \* where each task is
          kill     \* tasks granted and then cancelled before they resumed

vars == <<held, queue, fut, pc, kill>>

FutState == {"none", "pending", "granted", "cancelled"}
Place    == {"idle", "waiting", "holding"}

TypeOK ==
    /\ held \in 0..Limit
    /\ queue \in Seq(Tasks)
    /\ fut \in [Tasks -> FutState]
    /\ pc \in [Tasks -> Place]
    /\ kill \in SUBSET Tasks

Init ==
    /\ held = 0
    /\ queue = <<>>
    /\ fut = [t \in Tasks |-> "none"]
    /\ pc = [t \in Tasks |-> "idle"]
    /\ kill = {}

-----------------------------------------------------------------------------
(* The positions of the queue whose future nobody has resolved yet.        *)
Pending == {i \in DOMAIN queue : fut[queue[i]] = "pending"}

(* release(): the first pending future gets the slot, and every future     *)
(* popped before it was done already.  With nobody to hand it to, the slot *)
(* is free again.  done is the futures' state once the caller's own is     *)
(* dropped.                                                                *)
ReleaseNoSkip(done) ==
    IF queue = <<>> \/ fut[Head(queue)] # "pending"
    THEN /\ queue' = IF queue = <<>> THEN <<>> ELSE Tail(queue)
         /\ held' = IF held > 0 THEN held - 1 ELSE 0
         /\ fut' = done
    ELSE /\ queue' = Tail(queue)
         /\ fut' = [done EXCEPT ![Head(queue)] = "granted"]
         /\ held' = held

ReleaseLast(done) ==
    IF Pending = {}
    THEN /\ queue' = <<>>
         /\ held' = IF held > 0 THEN held - 1 ELSE 0
         /\ fut' = done
    ELSE \E i \in Pending :
            /\ \A j \in Pending : i >= j
            /\ queue' = RemoveAt(queue, i)
            /\ fut' = [done EXCEPT ![queue[i]] = "granted"]
            /\ held' = held

Release(done) ==
    IF Pending = {}
    THEN /\ queue' = <<>>
         /\ held' = IF held > 0 THEN held - 1 ELSE 0
         /\ fut' = done
    ELSE \E i \in Pending :
            /\ \A j \in Pending : i <= j
            /\ queue' = SubSeq(queue, i + 1, Len(queue))
            /\ fut' = [done EXCEPT ![queue[i]] = "granted"]
            /\ held' = held

(* acquire(), nobody queued and a slot free: no suspension at all.         *)
AcquireFast(t) ==
    /\ pc[t] = "idle"
    /\ held < Limit
    /\ queue = <<>>
    /\ held' = held + 1
    /\ pc' = [pc EXCEPT ![t] = "holding"]
    /\ UNCHANGED <<queue, fut, kill>>

(* acquire(), otherwise: append a future and suspend on it.                *)
AcquireWait(t) ==
    /\ pc[t] = "idle"
    /\ ~(held < Limit /\ queue = <<>>)
    /\ queue' = Append(queue, t)
    /\ fut' = [fut EXCEPT ![t] = "pending"]
    /\ pc' = [pc EXCEPT ![t] = "waiting"]
    /\ UNCHANGED <<held, kill>>

(* task.cancel() on a waiter whose future is pending cancels the future;   *)
(* on one that is granted it can only ask the task to raise when resumed.  *)
CancelWaiter(t) ==
    /\ pc[t] = "waiting"
    /\ \/ /\ fut[t] = "pending"
          /\ fut' = [fut EXCEPT ![t] = "cancelled"]
          /\ UNCHANGED kill
       \/ /\ fut[t] = "granted"
          /\ t \notin kill
          /\ kill' = kill \cup {t}
          /\ UNCHANGED fut
    /\ UNCHANGED <<held, queue, pc>>

(* The loop resumes a granted waiter: the slot is its own.                 *)
ResumeGranted(t) ==
    /\ pc[t] = "waiting"
    /\ fut[t] = "granted"
    /\ t \notin kill
    /\ pc' = [pc EXCEPT ![t] = "holding"]
    /\ fut' = [fut EXCEPT ![t] = "none"]
    /\ UNCHANGED <<held, queue, kill>>

(* The grant landed before the cancellation: release, then re-raise.       *)
ResumeKilledLeak(t) ==
    /\ pc[t] = "waiting"
    /\ fut[t] = "granted"
    /\ t \in kill
    /\ fut' = [fut EXCEPT ![t] = "none"]
    /\ pc' = [pc EXCEPT ![t] = "idle"]
    /\ kill' = kill \ {t}
    /\ UNCHANGED <<held, queue>>

ResumeKilled(t) ==
    /\ pc[t] = "waiting"
    /\ fut[t] = "granted"
    /\ t \in kill
    /\ Release([fut EXCEPT ![t] = "none"])
    /\ pc' = [pc EXCEPT ![t] = "idle"]
    /\ kill' = kill \ {t}

(* The wait itself was cancelled: drop the future from the queue if a      *)
(* release has not popped it already, then re-raise.                       *)
ResumeCancelled(t) ==
    /\ pc[t] = "waiting"
    /\ fut[t] = "cancelled"
    /\ \/ \E i \in DOMAIN queue :
             /\ queue[i] = t
             /\ queue' = RemoveAt(queue, i)
       \/ /\ \A i \in DOMAIN queue : queue[i] # t
          /\ queue' = queue
    /\ fut' = [fut EXCEPT ![t] = "none"]
    /\ pc' = [pc EXCEPT ![t] = "idle"]
    /\ UNCHANGED <<held, kill>>

(* release_compute_slot(): the heavy section is over, or raised, or was    *)
(* cancelled; the finally clause of _compute_slot runs in every case.      *)
ReleaseSlot(t) ==
    /\ pc[t] = "holding"
    /\ Release(fut)
    /\ pc' = [pc EXCEPT ![t] = "idle"]
    /\ UNCHANGED kill

Next ==
    \E t \in Tasks :
        \/ AcquireFast(t) \/ AcquireWait(t) \/ CancelWaiter(t)
        \/ ResumeGranted(t) \/ ResumeKilled(t) \/ ResumeCancelled(t)
        \/ ReleaseSlot(t)

Spec == Init /\ [][Next]_vars

(* The loop resumes every ready task, and every heavy section ends: its    *)
(* network calls carry timeouts (PG ten seconds, Redis and REST their      *)
(* clients' own).  Nobody is obliged to ask, or to cancel.                 *)
Fairness ==
    \A t \in Tasks :
        /\ WF_vars(ResumeGranted(t))
        /\ WF_vars(ResumeKilled(t))
        /\ WF_vars(ResumeCancelled(t))
        /\ WF_vars(ReleaseSlot(t))

FairSpec == Spec /\ Fairness

-----------------------------------------------------------------------------
(* The tasks a slot belongs to: the holders, and the waiters whose grant   *)
(* the loop has not delivered yet.                                         *)
Owners == {t \in Tasks : pc[t] = "holding" \/ fut[t] = "granted"}

(* At no time do more than Limit tasks run a heavy section (gates.py:      *)
(* "a real bound, not a per-instance wish").                               *)
SlotBound == Cardinality({t \in Tasks : pc[t] = "holding"}) <= Limit

(* The counter never drifts from the slots really owned, whatever mix of   *)
(* cancellations before and after a grant happened: none leaks, none is    *)
(* given back twice.                                                       *)
NoSlotLost == held = Cardinality(Owners)

(* No lost wake-up: while somebody waits, no slot is idle.                 *)
NoIdleSlot == (\E t \in Tasks : fut[t] = "pending") => Cardinality(Owners) = Limit

(* Each slot handed over goes to the longest waiter that still wants it,   *)
(* also across waiters that were cancelled in the queue.                   *)
GrantsInOrder ==
    [][\A i \in DOMAIN queue :
          (fut[queue[i]] = "pending" /\ fut'[queue[i]] = "granted")
             => \A j \in 1..(i - 1) : fut[queue[j]] # "pending"]_vars

(* The waiters of the deque that nobody has served or cancelled yet, each  *)
(* with those of them in front of it.                                      *)
Waiting == {t \in Tasks : fut[t] = "pending"}
Before(q, u, t) == \E i, j \in DOMAIN q : i < j /\ q[i] = u /\ q[j] = t
InFront(t) == {u \in Waiting : Before(queue, u, t)}

(* The semaphore does what SlotService promises: futures, stale entries of *)
(* the deque and delayed wake-ups are invisible to its users.              *)
Service == INSTANCE SlotService
             WITH owners <- Owners,
                  ahead  <- [t \in Waiting |-> InFront(t)]
ImplementsService == Service!Spec

(* Whoever waits is granted a slot, unless it gives up.                    *)
WaitersServed ==
    \A t \in Tasks : (fut[t] = "pending") ~> (fut[t] # "pending")

=============================================================================
