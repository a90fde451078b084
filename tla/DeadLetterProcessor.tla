------------------------- MODULE DeadLetterProcessor -------------------------
(***************************************************************************)
(* The dead letter queue: the rows of dead_letter_messages, the polling    *)
(* loop of outbox.DeadLetterProcessor that tries to publish them again,    *)
(* and the two admin requests that change them, each in a goroutine of the *)
(* HTTP server.  A row is named by its index in dlq, which is its rank in  *)
(* created_at.                                                             *)
(***************************************************************************)
EXTENDS Repository, KafkaHandler, Sequences

CONSTANTS
  Messages,     \* outbox messages
  Handled,      \* the messages whose event type has a registered handler
  BatchSize,    \* DeadLetterProcessorConfig.BatchSize
  MaxRetries,   \* DeadLetterProcessorConfig.MaxRetries
  Admins,       \* admin requests in flight at the same time
  Reasons,      \* the lengths of the reasons an admin gives for a discard
  Disruptions   \* what the environment may do: "db", "ctx", "stop", "crash"

ASSUME ConstantsAssumption ==
  /\ Messages \subseteq Nat \ {0}
  /\ IsFiniteSet(Messages)
  /\ Handled \subseteq Messages
  /\ BatchSize \in Nat \ {0}
  /\ MaxRetries \in Nat \ {0}
  /\ Reasons \subseteq Nat \ {0}
  /\ Disruptions \subseteq {"db", "ctx", "stop", "crash"}

VARIABLES
  dlq,      \* dead_letter_messages, in created_at order
  copies,   \* how many calls of SendMessage wrote the message to the Kafka topic
  pc,       \* where the processor goroutine is
  batch,    \* the rows selected by processBatch and not yet reached
  cur,      \* the row processMessage works on
  try,      \* attempt of retry.Retry
  live,     \* the batch's context is neither expired nor cancelled
  life,     \* the processor: "running", "stopping" (Stop waits) or "down"
  admin     \* what each admin request has done

control == <<pc, batch, cur, try>>
vars    == <<dlq, copies, pc, batch, cur, try, live, life, admin>>

None == 0

Ids == DOMAIN dlq

Steps == {"idle", "claim", "attempt", "backoff", "exhausted", "unhandled", "resolve"}

(***************************************************************************)
(* "checked": the retry handler has seen a pending row and not marked it;  *)
(* "told": it has answered "Dead letter message marked for retry".         *)
(***************************************************************************)
Requests == [at : {"none"}, id : {None}] \cup [at : {"checked", "told"}, id : Nat \ {0}]

NoRequest == [at |-> "none", id |-> None]

TypeOK ==
  /\ dlq \in Seq(DeadLetterRow(Messages))
  /\ \A i \in Ids : dlq[i].reason <= FailureReasonWidth
  /\ copies \in [Messages -> Nat]
  /\ pc \in Steps
  /\ batch \subseteq Ids
  /\ cur \in Ids \cup {None}
  /\ try \in 0 .. MaxRetries
  /\ live \in BOOLEAN
  /\ life \in {"running", "stopping", "stopped", "down"}
  /\ admin \in [Admins -> Requests]
  /\ \A a \in Admins : admin[a].id \in Ids \cup {None}

Init ==
  /\ dlq = << >>
  /\ copies = [m \in Messages |-> 0]
  /\ pc = "idle" /\ batch = {} /\ cur = None /\ try = 0
  /\ live = FALSE
  /\ life = "running"
  /\ admin = [a \in Admins |-> NoRequest]

-----------------------------------------------------------------------------
(* The outbox processor gives a message up, at most once.                  *)
Create(m) ==
  /\ \A i \in Ids : dlq[i].orig # m
  /\ dlq' = Append(dlq, NewDeadLetterMessage(m))
  /\ UNCHANGED <<copies, control, live, life, admin>>

(* Mutant: the query also selects the rows that are being retried.         *)
PendingOrRetrying == {i \in Ids : dlq[i].status \in {"pending", "retrying"}}

Pending == {i \in Ids : dlq[i].status = "pending"}

(***************************************************************************)
(* The repository's UPDATEs of one row.  They name the row by its id and   *)
(* do not look at its status; ResetToRetry, which does, has no caller.     *)
(***************************************************************************)
MarkAsRetrying(i, o) ==
  dlq' = IF Applied(o)
         THEN [dlq EXCEPT ![i].status = "retrying", ![i].retries = @ + 1]
         ELSE dlq

MarkAsResolved(i, o) ==
  dlq' = IF Applied(o) THEN [dlq EXCEPT ![i].status = "resolved"] ELSE dlq

(***************************************************************************)
(* failure_reason = CONCAT(failure_reason, ' | Discarded: ', reason): the  *)
(* column has a width, and an UPDATE that exceeds it fails as a whole.     *)
(***************************************************************************)
Discarded == 14

Extended(i, reason) == dlq[i].reason + Discarded + reason

(* Mutant: a reason that is too long is not refused.                       *)
FitsAlways(i, reason) == TRUE

Fits(i, reason) == Extended(i, reason) <= FailureReasonWidth

MarkAsDiscarded(i, reason, o) ==
  dlq' = IF Applied(o) /\ Fits(i, reason)
         THEN [dlq EXCEPT ![i].status = "discarded", ![i].reason = Extended(i, reason)]
         ELSE dlq

-----------------------------------------------------------------------------
(* The head of the loop over a batch, as in OutboxProcessor.               *)
Take(rest) ==
  /\ try' = 0
  /\ \/ rest = {} /\ pc' = "idle" /\ batch' = {} /\ cur' = None
     \/ \E i \in rest :
          /\ \A k \in rest : i <= k
          /\ pc' = "claim" /\ cur' = i /\ batch' = rest \ {i}

ProcessBatch ==
  /\ life = "running" /\ pc = "idle"
  /\ Pending # {}
  /\ live' = TRUE
  /\ Take(Oldest(Pending, BatchSize))
  /\ UNCHANGED <<dlq, copies, life, admin>>

(* Mutant: the error of MarkAsRetrying is not returned.                    *)
ClaimErrorIgnored ==
  /\ pc = "claim"
  /\ \E o \in Outcomes(live, Disruptions) :
       /\ MarkAsRetrying(cur, o)
       /\ pc' = "attempt" /\ try' = 1 /\ UNCHANGED <<batch, cur>>
  /\ UNCHANGED <<copies, live, life, admin>>

(* MarkAsRetrying, at the head of processMessage.                          *)
Claim ==
  /\ pc = "claim"
  /\ \E o \in Outcomes(live, Disruptions) :
       /\ MarkAsRetrying(cur, o)
       /\ \/ /\ o = "ok" /\ dlq[cur].orig \in Handled
             /\ pc' = "attempt" /\ try' = 1 /\ UNCHANGED <<batch, cur>>
          \/ /\ o = "ok" /\ dlq[cur].orig \notin Handled
             /\ pc' = "unhandled" /\ UNCHANGED <<batch, cur, try>>
          \/ o # "ok" /\ Take(batch)
  /\ UNCHANGED <<copies, live, life, admin>>

(* Mutant: the loop of Retry runs to attempt <= MaxAttempts + 1.           *)
LastAttemptLate == try = MaxRetries + 1

LastAttempt == try = MaxRetries

HandleMessage ==
  /\ pc = "attempt" /\ live
  /\ \E r \in PublishOutcomes :
       /\ copies' = IF r.written THEN [copies EXCEPT ![dlq[cur].orig] = @ + 1] ELSE copies
       /\ pc' = IF r.acked THEN "resolve"
                ELSE IF LastAttempt THEN "exhausted" ELSE "backoff"
  /\ UNCHANGED <<dlq, batch, cur, try, live, life, admin>>

Backoff ==
  /\ pc = "backoff"
  /\ pc' = "attempt" /\ try' = try + 1
  /\ UNCHANGED <<dlq, copies, batch, cur, live, life, admin>>

RetryCancelled ==
  /\ pc \in {"attempt", "backoff"} /\ ~live
  /\ pc' = "exhausted"
  /\ UNCHANGED <<dlq, copies, batch, cur, try, live, life, admin>>

(***************************************************************************)
(* The reasons the processor writes: "No handler available", and "Failed   *)
(* to process message after 5 attempts: " followed by an error of Retry.   *)
(* The shortest of those is "retry cancelled by context: context           *)
(* canceled".                                                              *)
(***************************************************************************)
NoHandlerReason == 20
ExhaustedReason == 44 + 44

DiscardUnhandled ==
  /\ pc = "unhandled"
  /\ \E o \in Outcomes(live, Disruptions) :
       MarkAsDiscarded(cur, NoHandlerReason, o)
  /\ Take(batch)
  /\ UNCHANGED <<copies, live, life, admin>>

DiscardExhausted ==
  /\ pc = "exhausted"
  /\ \E o \in Outcomes(live, Disruptions) :
       MarkAsDiscarded(cur, ExhaustedReason, o)
  /\ Take(batch)
  /\ UNCHANGED <<copies, live, life, admin>>

Resolve ==
  /\ pc = "resolve"
  /\ \E o \in Outcomes(live, Disruptions) : MarkAsResolved(cur, o)
  /\ Take(batch)
  /\ UNCHANGED <<copies, live, life, admin>>

-----------------------------------------------------------------------------
(***************************************************************************)
(* POST /admin/dead-letters/{id}/retry reads the row, refuses unless it is *)
(* pending, and marks it with a second statement.                          *)
(***************************************************************************)
CheckRetry(a, i) ==
  /\ life # "down" /\ admin[a].at # "checked"
  /\ dlq[i].status = "pending"
  /\ admin' = [admin EXCEPT ![a] = [at |-> "checked", id |-> i]]
  /\ UNCHANGED <<dlq, copies, control, live, life>>

MarkRetry(a) ==
  /\ life # "down" /\ admin[a].at = "checked"
  /\ \E o \in Outcomes(TRUE, Disruptions) :
       /\ MarkAsRetrying(admin[a].id, o)
       /\ admin' = [admin EXCEPT ![a] = IF o = "ok" THEN [@ EXCEPT !.at = "told"] ELSE NoRequest]
  /\ UNCHANGED <<copies, control, live, life>>

(* The discard request does not read the row first.                        *)
Discard(a, i) ==
  /\ life # "down" /\ admin[a].at # "checked"
  /\ \E reason \in Reasons, o \in Outcomes(TRUE, Disruptions) :
       MarkAsDiscarded(i, reason, o)
  /\ admin' = [admin EXCEPT ![a] = NoRequest]
  /\ UNCHANGED <<copies, control, live, life>>

-----------------------------------------------------------------------------
ContextExpires ==
  /\ "ctx" \in Disruptions
  /\ pc # "idle" /\ live
  /\ live' = FALSE
  /\ UNCHANGED <<dlq, copies, control, life, admin>>

Stop ==
  /\ "stop" \in Disruptions
  /\ life = "running"
  /\ life' = "stopping" /\ live' = FALSE
  /\ UNCHANGED <<dlq, copies, control, admin>>

(* Mutant: Stop does not wait for the goroutine.                           *)
ExitEarly ==
  /\ life = "stopping"
  /\ life' = "stopped"
  /\ UNCHANGED <<dlq, copies, control, live, admin>>

(* Stop has waited; requests are still served.                             *)
Exit ==
  /\ life = "stopping" /\ pc = "idle"
  /\ life' = "stopped"
  /\ UNCHANGED <<dlq, copies, control, live, admin>>

(* The rest of Server.Shutdown: the database is closed, so that a request  *)
(* which has read its row fails, and the process ends.                     *)
Close ==
  /\ life = "stopped"
  /\ life' = "down"
  /\ admin' = [a \in Admins |-> NoRequest]
  /\ UNCHANGED <<dlq, copies, control, live>>

Crash ==
  /\ "crash" \in Disruptions
  /\ life # "down"
  /\ life' = "down" /\ live' = FALSE
  /\ pc' = "idle" /\ batch' = {} /\ cur' = None /\ try' = 0
  /\ admin' = [a \in Admins |-> NoRequest]
  /\ UNCHANGED <<dlq, copies>>

(* Mutant: the goroutine gets the context that Stop cancelled.             *)
StartCancelled ==
  /\ life = "down"
  /\ life' = "stopping"
  /\ UNCHANGED <<dlq, copies, control, live, admin>>

Start ==
  /\ life = "down"
  /\ life' = "running"
  /\ UNCHANGED <<dlq, copies, control, live, admin>>

ProcessMessage ==
  \/ Claim
  \/ HandleMessage
  \/ Backoff
  \/ RetryCancelled
  \/ DiscardUnhandled
  \/ DiscardExhausted
  \/ Resolve

AdminRequest ==
  \E a \in Admins :
    \/ \E i \in Ids : CheckRetry(a, i) \/ Discard(a, i)
    \/ MarkRetry(a)

Next ==
  \/ \E m \in Messages : Create(m)
  \/ ProcessBatch
  \/ ProcessMessage
  \/ AdminRequest
  \/ ContextExpires
  \/ Stop
  \/ Exit
  \/ Close
  \/ Crash
  \/ Start

Spec == Init /\ [][Next]_vars

(* As in OutboxProcessor; an admin need not do anything, but a request     *)
(* that has read a row goes on to mark it.                                 *)
Fairness ==
  /\ WF_vars(ProcessMessage) /\ WF_vars(Exit) /\ WF_vars(Close) /\ WF_vars(Start)
  /\ \A a \in Admins : WF_vars(MarkRetry(a))
  /\ SF_vars(ProcessBatch)
  /\ SF_vars(Claim /\ dlq' # dlq)

FairSpec == Spec /\ Fairness

-----------------------------------------------------------------------------
(***************************************************************************)
(* A row says "resolved" only when Kafka holds its message, whatever the   *)
(* admins wrote to the row while it was being published.                   *)
(***************************************************************************)
ResolvedIsPublished ==
  \A i \in Ids : dlq[i].status = "resolved" => copies[dlq[i].orig] > 0

(***************************************************************************)
(* No interleaving of polls, stale batches, admin requests and restarts    *)
(* makes the queue publish a message more often than one RetryWithDiscard  *)
(* tries.                                                                  *)
(***************************************************************************)
BoundedRepublish == \A m \in Messages : copies[m] <= MaxRetries

(* A message leaves the queue only after its retry_count says that it was  *)
(* retried: a claim that may not have been applied publishes nothing.      *)
PublishedIsCounted ==
  \A i \in Ids : copies[dlq[i].orig] > 0 => dlq[i].retries >= 1

(* Every row of the queue is taken out of "pending" in the end.            *)
EventuallyClaimed ==
  \A i \in 1 .. Cardinality(Messages) :
    (i \in Ids /\ dlq[i].status = "pending") ~> (i \in Ids /\ dlq[i].status # "pending")

(***************************************************************************)
(* "RetryWithDiscard retries a function and applies the discard policy if  *)
(* all retries fail".                                                      *)
(***************************************************************************)
ExhaustedIsDiscarded ==
  [][pc = "exhausted" /\ pc' # "exhausted" /\ life' # "down"
       => dlq'[cur].status = "discarded"]_vars

(***************************************************************************)
(* "Dead letter message marked for retry": the processor gets to the row,  *)
(* unless the row is resolved or discarded first.  It has got to it, too,  *)
(* if retry_count counts its claim beside the admin's mark.                *)
(***************************************************************************)
Reached(i) ==
  i \in Ids /\ (cur = i \/ dlq[i].retries > 1 \/ dlq[i].status \in {"resolved", "discarded"})

MarkedIsRetried ==
  \A a \in Admins, i \in 1 .. Cardinality(Messages) :
    (admin[a].at = "told" /\ admin[a].id = i) ~> Reached(i)
=============================================================================
