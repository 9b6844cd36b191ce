----------------------------- MODULE SlotService -----------------------------
(***************************************************************************)
(* What the compute slots promise, without futures, wake-ups or counters:  *)
(* at most Limit owners, and one line of waiters, first come first served. *)
(* A slot that comes back goes straight to the head of the line.           *)
(***************************************************************************)
EXTENDS Integers, FiniteSets

CONSTANTS Tasks, Limit

VARIABLES owners,  \* the tasks a slot belongs to
          ahead    \* of each task in the line, who stands in front of it

Line == DOMAIN ahead

Init ==
    /\ owners = {}
    /\ ahead = [t \in {} |-> {}]

(* A task that asks gets a slot at once only if there is one and nobody    *)
(* waits; otherwise it joins the end of the line.                          *)
Ask(t) ==
    /\ t \notin owners \cup Line
    /\ IF Cardinality(owners) < Limit /\ Line = {}
       THEN owners' = owners \cup {t} /\ ahead' = ahead
       ELSE owners' = owners /\ ahead' = [u \in Line \cup {t} |-> IF u = t THEN Line ELSE ahead[u]]

Without(t) == [u \in Line \ {t} |-> ahead[u] \ {t}]

(* A waiter may give up, from any place in the line.                       *)
Withdraw(t) ==
    /\ t \in Line
    /\ ahead' = Without(t)
    /\ owners' = owners

(* An owner leaves; its slot is never idle while somebody waits, and goes  *)
(* to a waiter with nobody in front of it.                                 *)
Leave(t) ==
    /\ t \in owners
    /\ IF Line = {}
       THEN owners' = owners \ {t} /\ ahead' = ahead
       ELSE \E u \in Line :
              /\ ahead[u] = {}
              /\ owners' = (owners \ {t}) \cup {u}
              /\ ahead' = Without(u)

Next == \E t \in Tasks : Ask(t) \/ Withdraw(t) \/ Leave(t)

Spec == Init /\ [][Next]_<<owners, ahead>>

=============================================================================
