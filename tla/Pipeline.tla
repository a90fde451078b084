------------------------------- MODULE Pipeline -------------------------------
(***************************************************************************)
(* The two processors in one server, over one database and one topic: the  *)
(* outbox processor fills the dead letter queue that the other one drains, *)
(* while admins write to it.  Server.Shutdown stops them one after the     *)
(* other, and then closes what they use; a crash takes everything.         *)
(***************************************************************************)
EXTENDS Integers, Sequences

CONSTANTS
  Messages, Handled, Admins, Reasons, Disruptions,
  BatchSize, MaxRetries,         \* of the outbox processor
  DLQBatchSize, DLQMaxRetries    \* of the dead letter processor

VARIABLES
  status, attempts,                            \* outbox_messages
  dlq,                                         \* dead_letter_messages
  copies,                                      \* the Kafka topic
  opc, obatch, ocur, otry, olive, olife,       \* the outbox processor
  dpc, dbatch, dcur, dtry, dlive, dlife,       \* the dead letter processor
  admin,                                       \* admin requests
  closed                                       \* what Shutdown has closed

outbox     == <<opc, obatch, ocur, otry, olive, olife>>
deadLetter == <<dpc, dbatch, dcur, dtry, dlive, dlife, admin>>
vars       == <<status, attempts, dlq, copies, outbox, deadLetter, closed>>

O == INSTANCE OutboxProcessor WITH
       UseDLQ <- TRUE,
       pc <- opc, batch <- obatch, cur <- ocur, try <- otry, live <- olive, life <- olife

D == INSTANCE DeadLetterProcessor WITH
       BatchSize <- DLQBatchSize, MaxRetries <- DLQMaxRetries,
       pc <- dpc, batch <- dbatch, cur <- dcur, try <- dtry, live <- dlive, life <- dlife

ASSUME ConstantsAssumption == O!ConstantsAssumption /\ D!ConstantsAssumption

Init == O!Init /\ D!Init /\ closed = {}

-----------------------------------------------------------------------------
(* A step of one goroutine, with its context, leaves the other alone.      *)
OutboxStep ==
  /\ \/ \E m \in Messages : O!CreateInTx(m)
     \/ O!ProcessBatch
     \/ O!ProcessMessage
     \/ O!ContextExpires
  /\ UNCHANGED <<deadLetter, closed>>

(* A database that is closed refuses the statements of a request.          *)
AdminRequest ==
  /\ D!AdminRequest
  /\ "database" \in closed =>
       UNCHANGED dlq /\ \A a \in Admins : admin'[a] \in {admin[a], D!NoRequest}

DeadLetterStep ==
  /\ \/ D!ProcessBatch
     \/ D!ProcessMessage
     \/ AdminRequest
     \/ D!ContextExpires
  /\ UNCHANGED <<status, attempts, outbox, closed>>

(***************************************************************************)
(* Server.Shutdown: outboxProcessor.Stop, which waits for its goroutine,   *)
(* deadLetterProcessor.Stop, kafkaProducer.Close, db.Close, and the end of *)
(* the HTTP server.  The rate limiters and the consumer, stopped before    *)
(* the producer, share nothing with the rest.                              *)
(***************************************************************************)
StopOutbox == (O!Stop \/ O!Exit) /\ UNCHANGED <<deadLetter, closed>>

StopDeadLetter ==
  /\ olife = "down"
  /\ D!Stop \/ D!Exit
  /\ UNCHANGED <<status, attempts, outbox, closed>>

CloseProducer ==
  /\ dlife = "stopped" /\ closed = {}
  /\ closed' = {"producer"}
  /\ UNCHANGED <<status, attempts, dlq, copies, outbox, deadLetter>>

CloseDatabase ==
  /\ closed = {"producer"}
  /\ closed' = {"producer", "database"}
  /\ UNCHANGED <<status, attempts, dlq, copies, outbox, deadLetter>>

EndServer ==
  /\ closed = {"producer", "database"}
  /\ D!Close
  /\ closed' = {}
  /\ UNCHANGED <<status, attempts, outbox>>

Crash ==
  /\ \/ O!Crash /\ D!Crash
     \/ olife = "down" /\ D!Crash /\ UNCHANGED <<status, attempts, outbox>>
  /\ closed' = {}

Start == O!Start /\ D!Start /\ UNCHANGED closed

Next ==
  \/ OutboxStep
  \/ DeadLetterStep
  \/ StopOutbox
  \/ StopDeadLetter
  \/ CloseProducer
  \/ CloseDatabase
  \/ EndServer
  \/ Crash
  \/ Start

Spec == Init /\ [][Next]_vars

Fairness ==
  /\ WF_vars(O!ProcessBatch /\ UNCHANGED <<deadLetter, closed>>)
  /\ WF_vars(O!ProcessMessage /\ UNCHANGED <<deadLetter, closed>>)
  /\ WF_vars(D!ProcessBatch /\ UNCHANGED <<status, attempts, outbox, closed>>)
  /\ WF_vars(D!ProcessMessage /\ UNCHANGED <<status, attempts, outbox, closed>>)

FairSpec == Spec /\ Fairness

-----------------------------------------------------------------------------
(***************************************************************************)
(* A message is in the hands of one processor at a time: the outbox        *)
(* processor has let go of it when its dead letter becomes visible.        *)
(***************************************************************************)
OneHolder == dcur \in DOMAIN dlq => dlq[dcur].orig # ocur

(***************************************************************************)
(* Shutdown closes nothing that is in use: neither processor has a message *)
(* in hand, or polls again, once the producer or the database is closed.   *)
(***************************************************************************)
ClosedIsUnused ==
  closed # {} => /\ ocur = O!None /\ olife = "down"
                 /\ dcur = D!None /\ dlife = "stopped"

(***************************************************************************)
(* End to end, a message is published no more often than the two           *)
(* RetryWithDiscard calls try, across shutdowns, crashes and admin         *)
(* requests.                                                               *)
(***************************************************************************)
TotalDuplicates == \A m \in Messages : copies[m] <= MaxRetries + DLQMaxRetries

(***************************************************************************)
(* Without disruptions, and beside the second processor, the first one     *)
(* loses nothing.                                                          *)
(***************************************************************************)
NothingLost == O!NothingLost

(***************************************************************************)
(* Without disruptions a committed message is settled in the end: it is    *)
(* completed, or it has failed and its dead letter is taken up.            *)
(***************************************************************************)
Accounted ==
  \A m \in Messages :
    status[m] = "pending" ~>
      \/ status[m] = "completed"
      \/ /\ status[m] = "failed"
         /\ \E i \in DOMAIN dlq : dlq[i].orig = m /\ dlq[i].status # "pending"
=============================================================================
