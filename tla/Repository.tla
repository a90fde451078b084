----------------------------- MODULE Repository -----------------------------
(***************************************************************************)
(* What the processors, the services and the admin handlers see of the     *)
(* database: the statuses of the outbox_messages and dead_letter_messages  *)
(* tables, the row NewDeadLetterMessage builds, the "oldest pending rows,  *)
(* at most limit" query, and what one statement may do.                    *)
(***************************************************************************)
EXTENDS Integers, FiniteSets

(***************************************************************************)
(* A row that no transaction has inserted yet is "absent".                 *)
(***************************************************************************)
OutboxStatus == {"absent", "pending", "processing", "completed", "failed"}

DeadLetterStatus == {"pending", "retrying", "resolved", "discarded"}

(***************************************************************************)
(* failure_reason is a VARCHAR(100): only its length matters, because the  *)
(* database refuses an UPDATE that would make it longer.  Both reasons the *)
(* outbox processor writes ("No handler available" and "Max retries        *)
(* exceeded") have 20 characters.                                          *)
(***************************************************************************)
FailureReasonWidth == 100

CreationReason == 20

(* A dead letter row: the outbox message it copies, its status, its        *)
(* retry_count and the length of its failure_reason.                       *)
DeadLetterRow(M) == [orig: M, status: DeadLetterStatus, retries: Nat, reason: Nat]

NewDeadLetterMessage(m) ==
  [orig |-> m, status |-> "pending", retries |-> 0, reason |-> CreationReason]

(***************************************************************************)
(* SELECT ... WHERE status = 'pending' ORDER BY created_at ASC LIMIT limit *)
(* over a set S of rows.  A row is named by the rank of its created_at.    *)
(***************************************************************************)
Oldest(S, limit) == {m \in S : Cardinality({k \in S : k < m}) < limit}

(***************************************************************************)
(* One statement issued with a context: "ok" (applied, no error), "lost"   *)
(* (not applied, an error is returned) or "unacked" (applied, but the      *)
(* caller gets an error: the context ended or the connection broke after   *)
(* the server had executed it).  A context that is already over refuses    *)
(* the statement before it is sent.  "db" stands for a failing database    *)
(* or connection, "ctx" for the expiry of the batch's timeout, "stop" for  *)
(* the cancellation by Stop.                                               *)
(***************************************************************************)
Outcomes(live, disruptions) ==
       (IF live THEN {"ok"} ELSE {"lost"})
  \cup (IF live /\ "db" \in disruptions THEN {"lost"} ELSE {})
  \cup (IF live /\ disruptions \cap {"db", "ctx", "stop"} # {} THEN {"unacked"} ELSE {})

Applied(o) == o \in {"ok", "unacked"}

=============================================================================
