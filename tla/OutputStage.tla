---------------------------- MODULE OutputStage ----------------------------
(***************************************************************************)
(* The end of an inference cycle: engine/core/output.py from the composed  *)
(* object on, and the placement helpers of engine/core/runner.py.  The     *)
(* answer is delivered first, then its row is inserted in PostgreSQL, then *)
(* inference.latest is set in Redis; the settled (or failed) terminal is   *)
(* written over both once more.  A cycle that failed before it had an      *)
(* answer places a degraded row.  Several processes may run a cycle for    *)
(* one symbol and venue, any of them may die between two steps, and every  *)
(* store call may fail before or after it took effect.                     *)
(***************************************************************************)
EXTENDS Naturals, FiniteSets

CONSTANTS OutCycles,  \* the cycles of one symbol and venue
          Nobody      \* inference.latest before the first answer

ASSUME NobodyAssumption == Nobody \notin OutCycles

VARIABLES
    step,      \* where each cycle is
    durable,   \* whether its engine has a durable store
    authored,  \* whether synthesis gave it an object to ship
    sent,      \* delivery: "none", "delivered" or "failed"
    ending,    \* its terminal in deterministic_state
    errors,    \* run_record_errors
    rows,      \* canonical_output: terminal per run_id, or "absent"
    latest     \* inference.latest: [by, ending]

outVars == <<step, durable, authored, sent, ending, errors, rows, latest>>

Endings == {"none", "pending_settlement", "settled", "delivery_failed",
            "budget_exhausted", "validation_failed", "infra_failed"}
Steps == {"running", "composed", "delivered", "degraded", "placed", "inserted", "recorded",
          "settling", "updated", "closed", "dead"}

OutInit ==
    /\ step = [c \in OutCycles |-> "running"]
    /\ durable \in [OutCycles -> BOOLEAN]
    /\ authored = [c \in OutCycles |-> FALSE]
    /\ sent = [c \in OutCycles |-> "none"]
    /\ ending = [c \in OutCycles |-> "none"]
    /\ errors = [c \in OutCycles |-> {}]
    /\ rows = [c \in OutCycles |-> "absent"]
    /\ latest = [by |-> Nobody, ending |-> "none"]

Moves(c, from, to) == step[c] = from /\ step' = [step EXCEPT ![c] = to]
Ends(c, how) == ending' = [ending EXCEPT ![c] = how]
Surfaces(c, what) == errors' = [errors EXCEPT ![c] = @ \cup {what}]
Writes(c) == rows' = [rows EXCEPT ![c] = ending[c]]
Shows(c) == latest' = [by |-> c, ending |-> ending[c]]

-----------------------------------------------------------------------------
(* A cycle that failed: its record has no answer, and the placement        *)
(* receipt of degraded_output is dropped.                                  *)
Fail(c) ==
    /\ Moves(c, "running", "degraded")
    /\ \E how \in {"validation_failed", "infra_failed"} : Ends(c, how)
    /\ UNCHANGED <<durable, authored, sent, errors, rows, latest>>

(* Synthesis, correction, architecture and the answer turn: the object     *)
(* that ships is authored, or the staged final when synthesis failed.      *)
ComposeAnswer(c) ==
    /\ Moves(c, "running", "composed")
    /\ \E shipped \in BOOLEAN : authored' = [authored EXCEPT ![c] = shipped]
    /\ Ends(c, "pending_settlement")
    /\ UNCHANGED <<durable, sent, errors, rows, latest>>
(* The budget was spent before a final was validated.                      *)
ComposeSpent(c) ==
    /\ Moves(c, "running", "degraded")
    /\ Ends(c, "budget_exhausted")
    /\ UNCHANGED <<durable, authored, sent, errors, rows, latest>>

(* The deliverable reaches its surface or raises; with nothing authored    *)
(* there is nothing to deliver.                                            *)
Deliver(c) ==
    /\ Moves(c, "composed", "delivered")
    /\ \E result \in IF authored[c] THEN {"delivered", "failed"} ELSE {"none"} :
         sent' = [sent EXCEPT ![c] = result]
    /\ UNCHANGED <<durable, authored, ending, errors, rows, latest>>

(* place_output: the durable insert.  The row of a degraded cycle ends the *)
(* placement and nobody reads its receipt.                                 *)
Inserts(c, from, to, after) ==
    \/ /\ durable[c] /\ Moves(c, from, to) /\ Writes(c)
       /\ UNCHANGED errors
    \/ /\ ~ durable[c] /\ Moves(c, from, to) /\ UNCHANGED rows
       /\ IF from = "delivered" THEN Surfaces(c, "no_store") ELSE UNCHANGED errors
    \/ /\ durable[c] /\ Moves(c, from, after)
       /\ Writes(c) \/ UNCHANGED rows
       /\ IF from = "delivered" THEN Surfaces(c, "insert") ELSE UNCHANGED errors
Insert(c) ==
    /\ \/ Inserts(c, "delivered", "inserted", "recorded")
       \/ Inserts(c, "degraded", "placed", "closed")
    /\ UNCHANGED <<durable, authored, sent, ending, latest>>

(* place_output: the projection, only behind a durable receipt.            *)
Project(c) ==
    /\ \/ /\ Moves(c, "inserted", "recorded") \/ Moves(c, "placed", "closed")
          /\ Shows(c) /\ UNCHANGED errors
       \/ /\ Moves(c, "inserted", "recorded") /\ Surfaces(c, "projection")
          /\ Shows(c) \/ UNCHANGED latest
       \/ /\ Moves(c, "placed", "closed") /\ UNCHANGED errors
          /\ Shows(c) \/ UNCHANGED latest
    /\ UNCHANGED <<durable, authored, sent, ending, rows>>

(* Settlement waits for the delivery and for no store.                     *)
SettleAlways(c) ==
    /\ Moves(c, "recorded", "settling")
    /\ Ends(c, "settled")
    /\ UNCHANGED <<durable, authored, sent, errors, rows, latest>>
Settle(c) ==
    /\ Moves(c, "recorded", "settling")
    /\ Ends(c, IF sent[c] = "failed" THEN "delivery_failed" ELSE "settled")
    /\ UNCHANGED <<durable, authored, sent, errors, rows, latest>>

(* finalize_output: the row once more, then the projection.  An update     *)
(* that matches no row has no receipt.                                     *)
UpdateBlind(c) ==
    /\ Moves(c, "settling", "updated")
    /\ (rows[c] # "absent" /\ Writes(c)) \/ UNCHANGED rows
    /\ UNCHANGED <<durable, authored, sent, ending, errors, latest>>
Update(c) ==
    /\ \/ /\ durable[c] /\ rows[c] # "absent" /\ Moves(c, "settling", "updated")
          /\ Writes(c) /\ UNCHANGED errors
       \/ /\ ~ durable[c] /\ Moves(c, "settling", "updated")
          /\ UNCHANGED rows /\ Surfaces(c, "no_store")
       \/ /\ durable[c] /\ rows[c] = "absent" /\ Moves(c, "settling", "closed")
          /\ UNCHANGED rows /\ Surfaces(c, "receipt")
       \/ /\ durable[c] /\ Moves(c, "settling", "closed")
          /\ (rows[c] # "absent" /\ Writes(c)) \/ UNCHANGED rows
          /\ Surfaces(c, "update")
    /\ UNCHANGED <<durable, authored, sent, ending, latest>>
(* The refresh of the projection notes a failure under redis_error, a key  *)
(* run_record_errors_of does not read.                                     *)
Refresh(c) ==
    /\ Moves(c, "updated", "closed")
    /\ Shows(c) \/ UNCHANGED latest
    /\ UNCHANGED <<durable, authored, sent, ending, errors, rows>>

(* The process dies; nothing resumes its cycle.                            *)
Die(c) ==
    /\ step[c] \notin {"closed", "dead"}
    /\ step' = [step EXCEPT ![c] = "dead"]
    /\ UNCHANGED <<durable, authored, sent, ending, errors, rows, latest>>

OutNext ==
    \E c \in OutCycles :
        \/ Fail(c) \/ ComposeAnswer(c) \/ ComposeSpent(c) \/ Deliver(c) \/ Insert(c)
        \/ Project(c) \/ Settle(c) \/ Update(c) \/ Refresh(c) \/ Die(c)

OutSpec == OutInit /\ [][OutNext]_outVars

-----------------------------------------------------------------------------
(* The row never says more than happened: a settled row is of a cycle      *)
(* whose answer did not fail to reach its surface, and what                *)
(* inference.latest shows of a cycle with a durable store is a row of it,  *)
(* whatever fails, dies or overlaps.                                       *)
RecordFirst ==
    /\ \A c \in OutCycles : rows[c] = "settled" => sent[c] # "failed" /\ (authored[c] => sent[c] = "delivered")
    /\ latest.by # Nobody /\ durable[latest.by] =>
         /\ rows[latest.by] # "absent"
         /\ latest.ending \in {"settled", "delivery_failed"} => rows[latest.by] = latest.ending

(* A cycle that closes with an answer and no recorded error has left its   *)
(* terminal in its row.                                                    *)
RowsHonest ==
    \A c \in OutCycles :
        step[c] = "closed" /\ errors[c] = {} /\ ending[c] \in {"settled", "delivery_failed"} =>
            rows[c] = ending[c]

(* "What it could not land is RECORDED here, never hidden": a closed cycle *)
(* without errors has its terminal in its row, and inference.latest does   *)
(* not show an earlier state of it.                                        *)
NothingHidden ==
    \A c \in OutCycles :
        step[c] = "closed" /\ errors[c] = {} =>
            /\ rows[c] = ending[c]
            /\ latest.by = c => latest.ending = ending[c]
=============================================================================
