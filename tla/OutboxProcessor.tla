--------------------------- MODULE OutboxProcessor ---------------------------
(***************************************************************************)
(* The transactional outbox: the rows of outbox_messages, the polling loop *)
(* of outbox.Processor that claims them, publishes them to Kafka with      *)
(* retries and settles them, and the dead letter rows it writes.           *)
(*                                                                         *)
(* A message is named by the rank of its created_at; rows become visible   *)
(* in any order, when the transaction of the order service commits.  The   *)
(* process may lose its database, run out of the time it gives to a batch, *)
(* be stopped, or crash, as far as Disruptions says.                       *)
(***************************************************************************)
EXTENDS Repository, KafkaHandler, Sequences

CONSTANTS
  Messages,     \* outbox messages, ranked by created_at
  Handled,      \* the messages whose event type has a registered handler
  BatchSize,    \* ProcessorConfig.BatchSize
  MaxRetries,   \* ProcessorConfig.MaxRetries
  UseDLQ,       \* ProcessorConfig.UseDLQ
  Disruptions   \* what the environment may do: "db", "ctx", "stop", "crash"

ASSUME ConstantsAssumption ==
  /\ Messages \subseteq Nat \ {0}
  /\ IsFiniteSet(Messages)
  /\ Handled \subseteq Messages
  /\ BatchSize \in Nat \ {0}
  /\ MaxRetries \in Nat \ {0}
  /\ UseDLQ \in BOOLEAN
  /\ Disruptions \subseteq {"db", "ctx", "stop", "crash"}

VARIABLES
  status,     \* outbox_messages.status
  attempts,   \* outbox_messages.processing_attempts
  dlq,        \* dead_letter_messages, in created_at order
  copies,     \* how many calls of SendMessage wrote the message to the Kafka topic
  pc,         \* where the processor goroutine is
  batch,      \* the rows selected by processBatch and not yet reached
  cur,        \* the message processMessage works on
  try,        \* attempt of retry.Retry
  live,       \* the batch's context is neither expired nor cancelled
  life        \* the process: "running", "stopping" (Stop waits) or "down"

table   == <<status, attempts>>
control == <<pc, batch, cur, try>>
vars    == <<status, attempts, dlq, copies, pc, batch, cur, try, live, life>>

None == 0

Steps == {"idle", "claim", "attempt", "backoff", "markFailed", "deadLetter", "markCompleted"}

TypeOK ==
  /\ status \in [Messages -> OutboxStatus]
  /\ attempts \in [Messages -> Nat]
  /\ dlq \in Seq(DeadLetterRow(Messages))
  /\ copies \in [Messages -> Nat]
  /\ pc \in Steps
  /\ batch \subseteq Messages
  /\ cur \in Messages \cup {None}
  /\ try \in 0 .. MaxRetries
  /\ live \in BOOLEAN
  /\ life \in {"running", "stopping", "down"}

Init ==
  /\ status = [m \in Messages |-> "absent"]
  /\ attempts = [m \in Messages |-> 0]
  /\ dlq = << >>
  /\ copies = [m \in Messages |-> 0]
  /\ pc = "idle" /\ batch = {} /\ cur = None /\ try = 0
  /\ live = FALSE
  /\ life = "running"

-----------------------------------------------------------------------------
(***************************************************************************)
(* The order service commits a transaction that wrote the outbox row.      *)
(***************************************************************************)
CreateInTx(m) ==
  /\ status[m] = "absent"
  /\ status' = [status EXCEPT ![m] = "pending"]
  /\ UNCHANGED <<attempts, dlq, copies, control, live, life>>

(* Mutants of the query's WHERE clause.                                    *)
PendingOrProcessing == {m \in Messages : status[m] \in {"pending", "processing"}}
PendingOrFailed     == {m \in Messages : status[m] \in {"pending", "failed"}}

Pending == {m \in Messages : status[m] = "pending"}

(***************************************************************************)
(* The head of the loop over a batch: take the oldest of the rows left, or *)
(* go back to waiting for the ticker.                                      *)
(***************************************************************************)
Take(rest) ==
  /\ try' = 0
  /\ \/ rest = {} /\ pc' = "idle" /\ batch' = {} /\ cur' = None
     \/ \E m \in rest :
          /\ \A k \in rest : m <= k
          /\ pc' = "claim" /\ cur' = m /\ batch' = rest \ {m}

(***************************************************************************)
(* A tick: processBatch makes a context with a timeout and selects the     *)
(* oldest pending rows.  When the query fails, or finds nothing, the tick  *)
(* leaves no trace.                                                        *)
(***************************************************************************)
ProcessBatch ==
  /\ life = "running" /\ pc = "idle"
  /\ Pending # {}
  /\ live' = TRUE
  /\ Take(Oldest(Pending, BatchSize))
  /\ UNCHANGED <<table, dlq, copies, life>>

(***************************************************************************)
(* UPDATE outbox_messages SET status = s WHERE id = cur: no statement of   *)
(* the repository looks at the status it overwrites.                       *)
(***************************************************************************)
Mark(s, o) == status' = IF Applied(o) THEN [status EXCEPT ![cur] = s] ELSE status

(***************************************************************************)
(* On an error processMessage gives the message up and the loop goes on.   *)
(***************************************************************************)
MarkAsProcessing ==
  /\ pc = "claim"
  /\ \E o \in Outcomes(live, Disruptions) :
       /\ Mark("processing", o)
       /\ attempts' = IF Applied(o) THEN [attempts EXCEPT ![cur] = @ + 1] ELSE attempts
       /\ \/ /\ o = "ok" /\ cur \in Handled
             /\ pc' = "attempt" /\ try' = 1 /\ UNCHANGED <<batch, cur>>
          \/ /\ o = "ok" /\ cur \notin Handled
             /\ pc' = "markFailed" /\ UNCHANGED <<batch, cur, try>>
          \/ o # "ok" /\ Take(batch)
  /\ UNCHANGED <<dlq, copies, live, life>>

(* Mutant: the loop of Retry runs to attempt <= MaxAttempts + 1.           *)
LastAttemptLate == try = MaxRetries + 1

LastAttempt == try = MaxRetries

(***************************************************************************)
(* One attempt of retry.Retry: the context is looked at before the call,   *)
(* never by the Kafka producer.                                            *)
(***************************************************************************)
HandleMessage ==
  /\ pc = "attempt" /\ live
  /\ \E r \in PublishOutcomes :
       /\ copies' = IF r.written THEN [copies EXCEPT ![cur] = @ + 1] ELSE copies
       /\ pc' = IF r.acked THEN "markCompleted"
                ELSE IF LastAttempt THEN "markFailed" ELSE "backoff"
  /\ UNCHANGED <<table, dlq, batch, cur, try, live, life>>

(* No error is excluded from being retried: RetryableErrors is empty.      *)
Backoff ==
  /\ pc = "backoff"
  /\ pc' = "attempt" /\ try' = try + 1
  /\ UNCHANGED <<table, dlq, copies, batch, cur, live, life>>

(* Retry gives up when it finds the context over, before an attempt or     *)
(* while it waits for the next one; RetryWithDiscard then discards.        *)
RetryCancelled ==
  /\ pc \in {"attempt", "backoff"} /\ ~live
  /\ pc' = "markFailed"
  /\ UNCHANGED <<table, dlq, copies, batch, cur, try, live, life>>

(* Mutants: the discard function returns after its first statement; it     *)
(* returns nil, which RetryWithDiscard hands to processMessage; the message*)
(* is not completed after it was handled.                                  *)
MarkAsFailedOnly ==
  /\ pc = "markFailed"
  /\ \E o \in Outcomes(live, Disruptions) : Mark("failed", o)
  /\ Take(batch)
  /\ UNCHANGED <<attempts, dlq, copies, live, life>>

DiscardReturnsNil ==
  /\ pc = "deadLetter"
  /\ \E o \in Outcomes(live, Disruptions) :
       dlq' = IF Applied(o) THEN Append(dlq, NewDeadLetterMessage(cur)) ELSE dlq
  /\ pc' = "markCompleted"
  /\ UNCHANGED <<table, copies, batch, cur, try, live, life>>

NotMarkedAsCompleted ==
  /\ pc = "markCompleted"
  /\ Take(batch)
  /\ UNCHANGED <<table, dlq, copies, live, life>>

(***************************************************************************)
(* The discard function, and the branch for a message without a handler:   *)
(* both write the outbox row, then the dead letter row; an error of either *)
(* statement is logged and ignored.                                        *)
(***************************************************************************)
MarkAsFailed ==
  /\ pc = "markFailed"
  /\ \E o \in Outcomes(live, Disruptions) : Mark("failed", o)
  /\ IF UseDLQ THEN pc' = "deadLetter" /\ UNCHANGED <<batch, cur, try>>
               ELSE Take(batch)
  /\ UNCHANGED <<attempts, dlq, copies, live, life>>

DeadLetterCreate ==
  /\ pc = "deadLetter"
  /\ \E o \in Outcomes(live, Disruptions) :
       dlq' = IF Applied(o) THEN Append(dlq, NewDeadLetterMessage(cur)) ELSE dlq
  /\ Take(batch)
  /\ UNCHANGED <<table, copies, live, life>>

MarkAsCompleted ==
  /\ pc = "markCompleted"
  /\ \E o \in Outcomes(live, Disruptions) : Mark("completed", o)
  /\ Take(batch)
  /\ UNCHANGED <<attempts, dlq, copies, live, life>>

-----------------------------------------------------------------------------
(***************************************************************************)
(* The timeout of the batch's context, Stop (which cancels the context and *)
(* waits for the goroutine), a crash, and the next process.                *)
(***************************************************************************)
ContextExpires ==
  /\ "ctx" \in Disruptions
  /\ pc # "idle" /\ live
  /\ live' = FALSE
  /\ UNCHANGED <<table, dlq, copies, control, life>>

Stop ==
  /\ "stop" \in Disruptions
  /\ life = "running"
  /\ life' = "stopping" /\ live' = FALSE
  /\ UNCHANGED <<table, dlq, copies, control>>

Exit ==
  /\ life = "stopping" /\ pc = "idle"
  /\ life' = "down"
  /\ UNCHANGED <<table, dlq, copies, control, live>>

Crash ==
  /\ "crash" \in Disruptions
  /\ life # "down"
  /\ life' = "down" /\ live' = FALSE
  /\ pc' = "idle" /\ batch' = {} /\ cur' = None /\ try' = 0
  /\ UNCHANGED <<table, dlq, copies>>

(* Mutant: the goroutine gets the context that Stop cancelled.             *)
StartCancelled ==
  /\ life = "down"
  /\ life' = "stopping"
  /\ UNCHANGED <<table, dlq, copies, control, live>>

Start ==
  /\ life = "down"
  /\ life' = "running"
  /\ UNCHANGED <<table, dlq, copies, control, live>>

(* What the goroutine does until it waits for the ticker again.            *)
ProcessMessage ==
  \/ MarkAsProcessing
  \/ HandleMessage
  \/ Backoff
  \/ RetryCancelled
  \/ MarkAsFailed
  \/ DeadLetterCreate
  \/ MarkAsCompleted

Next ==
  \/ \E m \in Messages : CreateInTx(m)
  \/ ProcessBatch
  \/ ProcessMessage
  \/ ContextExpires
  \/ Stop
  \/ Exit
  \/ Crash
  \/ Start

Spec == Init /\ [][Next]_vars

(***************************************************************************)
(* The Go scheduler runs a goroutine that can run, the ticker ticks, the   *)
(* supervisor (restart: always) starts a process that went down.  Under    *)
(* disruptions a tick and a claim succeed infinitely often if they are     *)
(* tried infinitely often: the database is not down for ever, and no       *)
(* process is stopped or out of time before its first statement each time. *)
(***************************************************************************)
Fairness ==
  /\ WF_vars(ProcessMessage) /\ WF_vars(Exit) /\ WF_vars(Start)
  /\ SF_vars(ProcessBatch)
  /\ SF_vars(MarkAsProcessing /\ status' # status)

FairSpec == Spec /\ Fairness

-----------------------------------------------------------------------------
Parked(m) == \E i \in DOMAIN dlq : dlq[i].orig = m

(***************************************************************************)
(* A row says "completed" only when Kafka holds the message, whatever      *)
(* statement, call or process failed on the way.                           *)
(***************************************************************************)
CompletedIsPublished == \A m \in Messages : status[m] = "completed" => copies[m] > 0

(***************************************************************************)
(* The batch is a copy of rows read before the first of them is worked on, *)
(* and no UPDATE looks at the status it overwrites.  Even so no row is     *)
(* claimed twice, in one process or across restarts.                       *)
(***************************************************************************)
ClaimedOnce == \A m \in Messages : attempts[m] <= 1

(***************************************************************************)
(* Lost acknowledgements duplicate a message in the topic, but never into  *)
(* more copies than the attempts of one RetryWithDiscard.                  *)
(***************************************************************************)
BoundedDuplicates == \A m \in Messages : copies[m] <= MaxRetries

(***************************************************************************)
(* A message has at most one dead letter row, and a message that has one   *)
(* is never reported as completed and never waits to be claimed.           *)
(***************************************************************************)
DeadLetteredOnce ==
  /\ \A i, j \in DOMAIN dlq : dlq[i].orig = dlq[j].orig => i = j
  /\ \A m \in Messages : Parked(m) => status[m] \in {"processing", "failed"}

(***************************************************************************)
(* Without disruptions nothing is lost: a claimed row is in the hands of   *)
(* the processor, and a failed one is in the dead letter queue or about to *)
(* be.                                                                     *)
(***************************************************************************)
NothingLost ==
  \A m \in Messages :
    /\ status[m] = "processing" => m = cur
    /\ status[m] = "failed" /\ UseDLQ => Parked(m) \/ (m = cur /\ pc = "deadLetter")

(* No UPDATE, however late or stale, changes a completed or a failed row.  *)
SettledIsFinal ==
  [][\A m \in Messages :
       status[m] \in {"completed", "failed"} => status'[m] = status[m]]_vars

(* Every row that is committed is claimed in the end.                      *)
EventuallyClaimed ==
  \A m \in Messages : status[m] = "pending" ~> status[m] \notin {"absent", "pending"}

(***************************************************************************)
(* The promise of the discard function (and of its comments, "Mark as      *)
(* failed in outbox", "Send to DLQ if enabled"): once it has returned, the *)
(* message it handled is failed, or at least parked.                       *)
(***************************************************************************)
DiscardSettles ==
  [][pc = "deadLetter" /\ pc' # "deadLetter" /\ life' # "down"
       => status'[cur] = "failed" \/ Parked(cur)']_vars

(***************************************************************************)
(* What an observer of one row, of its copies in the topic and of its dead *)
(* letter sees: the processor implements MessageLifecycle.                 *)
(***************************************************************************)
Lifecycle == INSTANCE MessageLifecycle WITH
  state  <- status,
  sent   <- copies,
  parked <- [m \in Messages |-> Parked(m)],
  Limit  <- MaxRetries

LifecycleSpec == Lifecycle!Spec
=============================================================================
