--------------------------- MODULE PipelineProofs ---------------------------
(***************************************************************************)
(* The theorems about Pipeline, for any messages, configuration, admins    *)
(* and set of disruptions.  Nothing is proved again: the invariants of the *)
(* two processors are those of their own proofs, each with the lemma that  *)
(* says what it stands of the other.  The outbox processor allows others   *)
(* to change rows and to publish what is parked; the dead letter processor *)
(* allows others to append a row, and to publish, up to a bound, what has  *)
(* none.  Here each is shown to do no more than the other allows, and what *)
(* belongs to neither is added: the order of the shutdown.                 *)
(***************************************************************************)
EXTENDS Pipeline, TLAPS

OP == INSTANCE OutboxProcessorProofs WITH
        UseDLQ <- TRUE,
        pc <- opc, batch <- obatch, cur <- ocur, try <- otry, live <- olive, life <- olife

DP == INSTANCE DeadLetterProcessorProofs WITH
        BatchSize <- DLQBatchSize, MaxRetries <- DLQMaxRetries,
        pc <- dpc, batch <- dbatch, cur <- dcur, try <- dtry, live <- dlive, life <- dlife

(***************************************************************************)
(* A processor that is down, or has been waited for, is idle; the second   *)
(* is stopped after the first, and everything is closed after both.        *)
(***************************************************************************)
Waited ==
  /\ olife = "down" => opc = "idle"
  /\ dlife \in {"stopped", "down"} => dpc = "idle"
  /\ dlife # "running" => olife = "down"
  /\ closed # {} => dlife = "stopped"
  /\ closed \in {{}, {"producer"}, {"producer", "database"}}

(* The inductive invariant.                                                *)
IInv ==
  /\ OP!IInv
  /\ DP!IInv(MaxRetries)
  /\ Waited

-----------------------------------------------------------------------------
(***************************************************************************)
(* Pipeline and the proofs of the components name the same operators.      *)
(***************************************************************************)
LEMMA SameLibrary ==
  /\ \A S : O!IsFiniteSet(S) <=> OP!IsFiniteSet(S)
  /\ \A S : D!IsFiniteSet(S) <=> DP!IsFiniteSet(S)
  /\ \A S, n : O!Oldest(S, n) = OP!Oldest(S, n)
  /\ \A S, n : D!Oldest(S, n) = DP!Oldest(S, n)
<1>1. \A S : O!Cardinality(S) = OP!Cardinality(S)
  BY DEF O!Cardinality, OP!Cardinality
<1>2. \A S : D!Cardinality(S) = DP!Cardinality(S)
  BY DEF D!Cardinality, DP!Cardinality
<1>3. \A S : O!IsFiniteSet(S) <=> OP!IsFiniteSet(S)
  BY DEF O!IsFiniteSet, OP!IsFiniteSet
<1>4. \A S : D!IsFiniteSet(S) <=> DP!IsFiniteSet(S)
  BY DEF D!IsFiniteSet, DP!IsFiniteSet
<1>5. \A S, n : O!Oldest(S, n) = OP!Oldest(S, n)
  BY <1>1 DEF O!Oldest, OP!Oldest
<1>6. \A S, n : D!Oldest(S, n) = DP!Oldest(S, n)
  BY <1>2 DEF D!Oldest, DP!Oldest
<1> QED BY <1>3, <1>4, <1>5, <1>6

(* The assumptions on the constants are those of the components.           *)
LEMMA Assumptions ==
  /\ OP!ConstantsAssumption /\ DP!ConstantsAssumption
  /\ MaxRetries \in Nat /\ MaxRetries >= 1
  /\ O!None \notin Messages
<1>1. OP!ConstantsAssumption
  BY ConstantsAssumption, SameLibrary DEF O!ConstantsAssumption, OP!ConstantsAssumption
<1>2. DP!ConstantsAssumption
  BY ConstantsAssumption, SameLibrary DEF D!ConstantsAssumption, DP!ConstantsAssumption
<1>3. MaxRetries \in Nat /\ MaxRetries >= 1
  BY <1>1 DEF OP!ConstantsAssumption
<1>4. O!None \notin Messages
  BY <1>1 DEF OP!ConstantsAssumption, O!None
<1> QED BY <1>1, <1>2, <1>3, <1>4

(* The actions of the outbox processor.                                    *)
LEMMA SameOutbox ==
  /\ \A m : O!CreateInTx(m) <=> OP!CreateInTx(m)
  /\ O!ProcessBatch <=> OP!ProcessBatch
  /\ O!MarkAsProcessing <=> OP!MarkAsProcessing
  /\ O!HandleMessage <=> OP!HandleMessage
  /\ O!Backoff <=> OP!Backoff
  /\ O!RetryCancelled <=> OP!RetryCancelled
  /\ O!MarkAsFailed <=> OP!MarkAsFailed
  /\ O!DeadLetterCreate <=> OP!DeadLetterCreate
  /\ O!MarkAsCompleted <=> OP!MarkAsCompleted
  /\ O!ContextExpires <=> OP!ContextExpires
  /\ O!Stop <=> OP!Stop
  /\ O!Exit <=> OP!Exit
  /\ O!Crash <=> OP!Crash
  /\ O!Start <=> OP!Start
<1>1. \A m : O!CreateInTx(m) <=> OP!CreateInTx(m)
  BY DEF O!CreateInTx, OP!CreateInTx, O!control, OP!control
<1>2. O!ProcessBatch <=> OP!ProcessBatch
  BY SameLibrary DEF O!ProcessBatch, OP!ProcessBatch, O!Pending, OP!Pending, O!Take, OP!Take, O!None,
      OP!None, O!table, OP!table
<1>3. O!MarkAsProcessing <=> OP!MarkAsProcessing
  BY DEF O!MarkAsProcessing, OP!MarkAsProcessing, O!Mark, OP!Mark, O!Outcomes, OP!Outcomes,
      O!Applied, OP!Applied, O!Take, OP!Take, O!None, OP!None
<1>4. O!HandleMessage <=> OP!HandleMessage
  BY DEF O!HandleMessage, OP!HandleMessage, O!PublishOutcomes, OP!PublishOutcomes, O!LastAttempt,
      OP!LastAttempt, O!table, OP!table
<1>5. O!Backoff <=> OP!Backoff
  BY DEF O!Backoff, OP!Backoff, O!table, OP!table
<1>6. O!RetryCancelled <=> OP!RetryCancelled
  BY DEF O!RetryCancelled, OP!RetryCancelled, O!table, OP!table
<1>7. O!MarkAsFailed <=> OP!MarkAsFailed
  BY DEF O!MarkAsFailed, OP!MarkAsFailed, O!Mark, OP!Mark, O!Outcomes, OP!Outcomes, O!Applied,
      OP!Applied, O!Take, OP!Take, O!None, OP!None
<1>8. O!DeadLetterCreate <=> OP!DeadLetterCreate
  BY DEF O!DeadLetterCreate, OP!DeadLetterCreate, O!Outcomes, OP!Outcomes, O!Applied, OP!Applied,
      O!NewDeadLetterMessage, OP!NewDeadLetterMessage, O!CreationReason, OP!CreationReason,
      O!Take, OP!Take, O!None, OP!None, O!table, OP!table
<1>9. O!MarkAsCompleted <=> OP!MarkAsCompleted
  BY DEF O!MarkAsCompleted, OP!MarkAsCompleted, O!Mark, OP!Mark, O!Outcomes, OP!Outcomes,
      O!Applied, OP!Applied, O!Take, OP!Take, O!None, OP!None
<1>10. O!ContextExpires <=> OP!ContextExpires
  BY DEF O!ContextExpires, OP!ContextExpires, O!table, OP!table, O!control, OP!control
<1>11. O!Stop <=> OP!Stop
  BY DEF O!Stop, OP!Stop, O!table, OP!table, O!control, OP!control
<1>12. O!Exit <=> OP!Exit
  BY DEF O!Exit, OP!Exit, O!table, OP!table, O!control, OP!control
<1>13. O!Crash <=> OP!Crash
  BY DEF O!Crash, OP!Crash, O!None, OP!None, O!table, OP!table
<1>14. O!Start <=> OP!Start
  BY DEF O!Start, OP!Start, O!table, OP!table, O!control, OP!control
<1> QED BY <1>1, <1>2, <1>3, <1>4, <1>5, <1>6, <1>7, <1>8, <1>9, <1>10, <1>11, <1>12, <1>13, <1>14

(* The actions of the dead letter processor and of the admins.             *)
LEMMA SameDeadLetter ==
  /\ D!ProcessBatch <=> DP!ProcessBatch
  /\ D!Claim <=> DP!Claim
  /\ D!HandleMessage <=> DP!HandleMessage
  /\ D!Backoff <=> DP!Backoff
  /\ D!RetryCancelled <=> DP!RetryCancelled
  /\ D!DiscardUnhandled <=> DP!DiscardUnhandled
  /\ D!DiscardExhausted <=> DP!DiscardExhausted
  /\ D!Resolve <=> DP!Resolve
  /\ \A a, i : D!CheckRetry(a, i) <=> DP!CheckRetry(a, i)
  /\ \A a : D!MarkRetry(a) <=> DP!MarkRetry(a)
  /\ \A a, i : D!Discard(a, i) <=> DP!Discard(a, i)
  /\ D!ContextExpires <=> DP!ContextExpires
  /\ D!Stop <=> DP!Stop
  /\ D!Exit <=> DP!Exit
  /\ D!Close <=> DP!Close
  /\ D!Crash <=> DP!Crash
  /\ D!Start <=> DP!Start
<1>1. D!ProcessBatch <=> DP!ProcessBatch
  BY SameLibrary DEF D!ProcessBatch, DP!ProcessBatch, D!Pending, DP!Pending, D!Take, DP!Take, D!None,
      DP!None, D!Ids, DP!Ids
<1>2. D!Claim <=> DP!Claim
  BY DEF D!Claim, DP!Claim, D!MarkAsRetrying, DP!MarkAsRetrying, D!Outcomes, DP!Outcomes,
      D!Applied, DP!Applied, D!Take, DP!Take, D!None, DP!None
<1>3. D!HandleMessage <=> DP!HandleMessage
  BY DEF D!HandleMessage, DP!HandleMessage, D!PublishOutcomes, DP!PublishOutcomes, D!LastAttempt,
      DP!LastAttempt
<1>4. D!Backoff <=> DP!Backoff
  BY DEF D!Backoff, DP!Backoff
<1>5. D!RetryCancelled <=> DP!RetryCancelled
  BY DEF D!RetryCancelled, DP!RetryCancelled
<1>6. D!DiscardUnhandled <=> DP!DiscardUnhandled
  BY DEF D!DiscardUnhandled, DP!DiscardUnhandled, D!MarkAsDiscarded, DP!MarkAsDiscarded,
      D!NoHandlerReason, DP!NoHandlerReason, D!Outcomes, DP!Outcomes, D!Applied, DP!Applied,
      D!Fits, DP!Fits, D!Extended, DP!Extended, D!Discarded, DP!Discarded,
      D!FailureReasonWidth, DP!FailureReasonWidth, D!Take, DP!Take, D!None, DP!None
<1>7. D!DiscardExhausted <=> DP!DiscardExhausted
  BY DEF D!DiscardExhausted, DP!DiscardExhausted, D!MarkAsDiscarded, DP!MarkAsDiscarded,
      D!ExhaustedReason, DP!ExhaustedReason, D!Outcomes, DP!Outcomes, D!Applied, DP!Applied,
      D!Fits, DP!Fits, D!Extended, DP!Extended, D!Discarded, DP!Discarded,
      D!FailureReasonWidth, DP!FailureReasonWidth, D!Take, DP!Take, D!None, DP!None
<1>8. D!Resolve <=> DP!Resolve
  BY DEF D!Resolve, DP!Resolve, D!MarkAsResolved, DP!MarkAsResolved, D!Outcomes, DP!Outcomes,
      D!Applied, DP!Applied, D!Take, DP!Take, D!None, DP!None
<1>9. \A a, i : D!CheckRetry(a, i) <=> DP!CheckRetry(a, i)
  BY DEF D!CheckRetry, DP!CheckRetry, D!control, DP!control
<1>10. \A a : D!MarkRetry(a) <=> DP!MarkRetry(a)
  BY DEF D!MarkRetry, DP!MarkRetry, D!MarkAsRetrying, DP!MarkAsRetrying, D!Outcomes, DP!Outcomes,
      D!Applied, DP!Applied, D!NoRequest, DP!NoRequest, D!None, DP!None, D!control, DP!control
<1>11. \A a, i : D!Discard(a, i) <=> DP!Discard(a, i)
  BY DEF D!Discard, DP!Discard, D!MarkAsDiscarded, DP!MarkAsDiscarded, D!Outcomes, DP!Outcomes,
      D!Applied, DP!Applied, D!Fits, DP!Fits, D!Extended, DP!Extended, D!Discarded,
      DP!Discarded, D!FailureReasonWidth, DP!FailureReasonWidth, D!NoRequest, DP!NoRequest,
      D!None, DP!None, D!control, DP!control
<1>12. D!ContextExpires <=> DP!ContextExpires
  BY DEF D!ContextExpires, DP!ContextExpires, D!control, DP!control
<1>13. D!Stop <=> DP!Stop
  BY DEF D!Stop, DP!Stop, D!control, DP!control
<1>14. D!Exit <=> DP!Exit
  BY DEF D!Exit, DP!Exit, D!control, DP!control
<1>15. D!Close <=> DP!Close
  BY DEF D!Close, DP!Close, D!NoRequest, DP!NoRequest, D!None, DP!None, D!control, DP!control
<1>16. D!Crash <=> DP!Crash
  BY DEF D!Crash, DP!Crash, D!NoRequest, DP!NoRequest, D!None, DP!None
<1>17. D!Start <=> DP!Start
  BY DEF D!Start, DP!Start, D!control, DP!control
<1> QED BY <1>1, <1>2, <1>3, <1>4, <1>5, <1>6, <1>7, <1>8, <1>9, <1>10, <1>11, <1>12, <1>13, <1>14, <1>15, <1>16, <1>17

-----------------------------------------------------------------------------
(* A step of the outbox processor, by itself.                              *)
OutboxNext ==
  \/ \E m \in Messages : O!CreateInTx(m)
  \/ O!ProcessBatch \/ O!ProcessMessage \/ O!ContextExpires
  \/ O!Stop \/ O!Exit \/ O!Crash \/ O!Start

(* It is a step of the component.                                          *)
LEMMA OutboxNextIsNext == OutboxNext => OP!Next
BY SameOutbox DEF OutboxNext, OP!Next, O!ProcessMessage, OP!ProcessMessage

(* A step of the dead letter processor or of an admin.                     *)
DeadLetterNext ==
  \/ D!ProcessBatch \/ D!ProcessMessage \/ D!AdminRequest \/ D!ContextExpires
  \/ D!Stop \/ D!Exit \/ D!Close \/ D!Crash \/ D!Start

(* The parts of it that change rows.                                       *)
LEMMA SameWork ==
  /\ D!ProcessMessage <=> DP!ProcessMessage
  /\ D!AdminRequest <=> DP!AdminRequest
<1>1. D!ProcessMessage <=> DP!ProcessMessage
  BY SameDeadLetter DEF D!ProcessMessage, DP!ProcessMessage
<1>2. D!AdminRequest <=> DP!AdminRequest
  BY SameDeadLetter DEF D!AdminRequest, DP!AdminRequest, D!Ids, DP!Ids
<1> QED BY <1>1, <1>2

(* It is a step of the component.                                          *)
LEMMA DeadLetterNextIsNext == DeadLetterNext => DP!Next
BY SameDeadLetter, SameWork DEF DeadLetterNext, DP!Next

(***************************************************************************)
(* The rows and copies a step of the outbox processor leaves to the other: *)
(* unchanged, with a row more, or with one copy more of a message that has *)
(* no row and is still within its own bound.                               *)
(***************************************************************************)
LEMMA OutboxBesideDeadLetter ==
  ASSUME OP!IInv, DP!IInv(MaxRetries), OutboxNext, UNCHANGED deadLetter
  PROVE  DP!IInv(MaxRetries)'
<1> DEFINE Same == UNCHANGED <<dpc, dbatch, dcur, dtry, dlive, dlife, admin>>
<1>1. Same
  BY DEF deadLetter
<1>2. CASE O!HandleMessage
  <2>1. /\ dlq' = dlq /\ OP!TypeOK /\ OP!TypeOK'
        /\ ocur \in Messages /\ ~OP!Parked(ocur) /\ copies[ocur] < otry /\ otry <= MaxRetries
        /\ copies' = copies \/ copies' = [copies EXCEPT ![ocur] = @ + 1]
    <3>1. OP!HandleMessage
      BY <1>2, SameOutbox
    <3>2. OP!IInv'
      BY <3>1, Assumptions, OP!HandleMessageIInv
    <3>3. otry <= MaxRetries
      BY Assumptions DEF OP!IInv, OP!TypeOK
    <3> QED BY <3>1, <3>2, <3>3 DEF OP!HandleMessage, OP!IInv, OP!Position, OP!Held, OP!Counted
  <2>2. copies' \in [Messages -> Nat] /\ copies \in [Messages -> Nat] /\ otry \in Nat
    BY <2>1, Assumptions DEF OP!TypeOK
  <2>3. \A m \in Messages : copies'[m] # copies[m] =>
          copies'[m] >= copies[m] /\ copies'[m] <= MaxRetries /\ \A i \in DP!Ids : dlq[i].orig # m
    BY <2>1, <2>2, Assumptions DEF OP!Parked, DP!Ids
  <2>4. UNCHANGED <<dlq, DP!control, dlive, dlife, admin>>
    BY <1>1, <2>1 DEF DP!control
  <2> QED BY <2>2, <2>3, <2>4, Assumptions, DP!BesideIInv
<1>3. CASE O!DeadLetterCreate
  <2>1. OP!DeadLetterCreate /\ opc = "deadLetter"
    BY <1>3, SameOutbox DEF O!DeadLetterCreate
  <2>2. /\ ocur \in Messages /\ \A i \in DP!Ids : dlq[i].orig # ocur
        /\ copies' = copies
        /\ dlq' = dlq \/ dlq' = Append(dlq, OP!NewDeadLetterMessage(ocur))
    BY <2>1 DEF OP!IInv, OP!Position, OP!Held, OP!Parked, OP!DeadLetterCreate, DP!Ids
  <2>3. OP!NewDeadLetterMessage(ocur) = DP!NewDeadLetterMessage(ocur)
    BY DEF OP!NewDeadLetterMessage, DP!NewDeadLetterMessage, OP!CreationReason, DP!CreationReason
  <2>4. CASE dlq' = dlq
    <3>1. UNCHANGED DP!vars
      BY <1>1, <2>2, <2>4 DEF DP!vars
    <3> QED BY <3>1, Assumptions, DP!NextIInv
  <2>5. CASE dlq' = Append(dlq, OP!NewDeadLetterMessage(ocur))
    <3>1. DP!Create(ocur)
      BY <1>1, <2>2, <2>3, <2>5 DEF DP!Create, DP!control
    <3> QED BY <2>2, <3>1, Assumptions, DP!CreateIInv
  <2> QED BY <2>2, <2>4, <2>5
<1>4. CASE ~O!HandleMessage /\ ~O!DeadLetterCreate
  <2>1. UNCHANGED <<dlq, copies>>
    BY <1>4 DEF OutboxNext, O!ProcessMessage, O!CreateInTx, O!ProcessBatch, O!MarkAsProcessing,
       O!Backoff, O!RetryCancelled, O!MarkAsFailed, O!MarkAsCompleted, O!ContextExpires,
       O!Stop, O!Exit, O!Crash, O!Start
  <2>2. UNCHANGED DP!vars
    BY <1>1, <2>1 DEF DP!vars
  <2> QED BY <2>2, Assumptions, DP!NextIInv
<1> QED BY <1>2, <1>3, <1>4

(* A step of the dead letter processor publishes and changes only parked   *)
(* messages.                                                               *)
LEMMA DeadLetterBesideOutbox ==
  ASSUME OP!IInv, DP!IInv(MaxRetries), DeadLetterNext, UNCHANGED <<status, attempts, outbox>>
  PROVE  OP!IInv' /\ \A m : OP!Parked(m)' <=> OP!Parked(m)
<1>1. UNCHANGED <<OP!table, OP!control, olive, olife>>
  BY DEF OP!table, OP!control, outbox
<1>2. /\ dlq \in Seq(OP!DeadLetterRow(Messages))
      /\ copies \in [Messages -> Nat]
  BY DEF OP!IInv, OP!TypeOK
<1>3. OP!DeadLetterRow(Messages) = DP!DeadLetterRow(Messages)
  BY DEF OP!DeadLetterRow, DP!DeadLetterRow, OP!DeadLetterStatus, DP!DeadLetterStatus
<1>4. /\ dlq' \in Seq(OP!DeadLetterRow(Messages)) /\ DOMAIN dlq' = DOMAIN dlq
      /\ \A i \in DOMAIN dlq : dlq'[i].orig = dlq[i].orig
      /\ copies' \in [Messages -> Nat]
      /\ \A m \in Messages : copies'[m] >= copies[m] /\ (OP!Parked(m) \/ copies'[m] = copies[m])
  <2>1. CASE D!ProcessBatch \/ D!ProcessMessage \/ D!AdminRequest
    <3>1. DP!ProcessBatch \/ DP!ProcessMessage \/ DP!AdminRequest
      BY <2>1, SameDeadLetter, SameWork
    <3>2. DP!IInv(MaxRetries)'
      BY DeadLetterNextIsNext, Assumptions, DP!NextIInv
    <3>3. copies' \in [Messages -> Nat]
      BY <3>2 DEF DP!IInv, DP!TypeOK
    <3>4. /\ dlq' \in Seq(DP!DeadLetterRow(Messages)) /\ DOMAIN dlq' = DOMAIN dlq
          /\ \A i \in DOMAIN dlq : dlq'[i].orig = dlq[i].orig
          /\ \A m \in Messages :
               /\ copies'[m] >= copies[m]
               /\ (\E i \in DOMAIN dlq : dlq[i].orig = m) \/ copies'[m] = copies[m]
      BY <3>1, Assumptions, DP!Effect
    <3> QED BY <1>3, <3>3, <3>4 DEF OP!Parked
  <2>2. CASE D!ContextExpires \/ D!Stop \/ D!Exit \/ D!Close \/ D!Crash \/ D!Start
    <3>1. UNCHANGED <<dlq, copies>>
      BY <2>2 DEF D!ContextExpires, D!Stop, D!Exit, D!Close, D!Crash, D!Start
    <3>2. \A m \in Messages : copies'[m] >= copies[m] /\ copies'[m] = copies[m]
      BY <1>2, <3>1
    <3> QED BY <1>2, <3>1, <3>2
  <2> QED BY <2>1, <2>2 DEF DeadLetterNext
<1> QED BY <1>1, <1>4, Assumptions, OP!BesideIInv

-----------------------------------------------------------------------------
(* The processors start with empty tables, and nothing is closed.          *)
LEMMA InitIInv == Init => IInv
<1> SUFFICES ASSUME Init PROVE IInv
  OBVIOUS
<1>1. OP!Init
  BY DEF Init, O!Init, OP!Init, O!None, OP!None
<1>2. DP!Init
  BY DEF Init, D!Init, DP!Init, D!None, DP!None, D!NoRequest, DP!NoRequest
<1>3. OP!IInv
  BY <1>1, Assumptions, OP!InitIInv
<1>4. DP!IInv(MaxRetries)
  BY <1>2, Assumptions, DP!InitIInv
<1>5. Waited
  BY DEF Init, O!Init, D!Init, Waited
<1> QED BY <1>3, <1>4, <1>5 DEF IInv

(* The steps that move the first processor alone.                          *)
LEMMA OutboxSteps ==
  ASSUME IInv, OutboxStep \/ StopOutbox
  PROVE  IInv'
<1>1. OutboxNext /\ UNCHANGED <<deadLetter, closed>>
  BY DEF OutboxStep, StopOutbox, OutboxNext
<1>2. OP!IInv'
  BY <1>1, OutboxNextIsNext, Assumptions, OP!NextIInv DEF IInv
<1>3. DP!IInv(MaxRetries)'
  BY <1>1, OutboxBesideDeadLetter DEF IInv
<1>4. Waited'
  <2>1. UNCHANGED <<dpc, dlife, closed>>
    BY <1>1 DEF deadLetter
  <2>2. olife = "down" => olife' = "down" /\ opc' = opc
    <3>1. ASSUME NEW m \in Messages, O!CreateInTx(m) PROVE olife' = olife /\ opc' = opc
      BY <3>1 DEF O!CreateInTx, O!control
    <3>2. CASE O!ContextExpires \/ O!Stop \/ O!Exit
      BY <3>2 DEF O!ContextExpires, O!Stop, O!Exit, O!control
    <3>3. CASE O!ProcessBatch
      BY <3>3 DEF O!ProcessBatch
    <3>4. CASE O!ProcessMessage
      <4>1. opc # "idle"
        BY <3>4 DEF O!ProcessMessage, O!MarkAsProcessing, O!HandleMessage, O!Backoff,
           O!RetryCancelled, O!MarkAsFailed, O!DeadLetterCreate, O!MarkAsCompleted
      <4> QED BY <4>1 DEF IInv, Waited
    <3> QED BY <3>1, <3>2, <3>3, <3>4 DEF OutboxStep, StopOutbox
  <2>3. olife # "down" /\ olife' = "down" => opc' = "idle"
    <3>1. CASE OutboxStep
      <4>1. olife' = olife
        BY <3>1 DEF OutboxStep, O!CreateInTx, O!ProcessBatch, O!ContextExpires, O!ProcessMessage,
           O!MarkAsProcessing, O!HandleMessage, O!Backoff, O!RetryCancelled, O!MarkAsFailed,
           O!DeadLetterCreate, O!MarkAsCompleted
      <4> QED BY <4>1
    <3>2. CASE StopOutbox
      BY <3>2 DEF StopOutbox, O!Stop, O!Exit, O!control
    <3> QED BY <3>1, <3>2
  <2> QED BY <2>1, <2>2, <2>3 DEF IInv, Waited
<1> QED BY <1>2, <1>3, <1>4 DEF IInv

(* The steps that move the second processor or an admin alone.             *)
LEMMA DeadLetterSteps ==
  ASSUME IInv, DeadLetterStep \/ StopDeadLetter \/ EndServer
  PROVE  IInv'
<1>1. DeadLetterNext /\ UNCHANGED <<status, attempts, outbox>>
  BY DEF DeadLetterStep, AdminRequest, StopDeadLetter, EndServer, DeadLetterNext
<1>2. OP!IInv'
  BY <1>1, DeadLetterBesideOutbox DEF IInv
<1>3. DP!IInv(MaxRetries)'
  BY <1>1, DeadLetterNextIsNext, Assumptions, DP!NextIInv DEF IInv
<1>4. Waited'
  <2>1. UNCHANGED <<opc, olife>>
    BY <1>1 DEF outbox
  <2>2. CASE DeadLetterStep
    <3>1. dlife' = dlife /\ closed' = closed
      BY <2>2 DEF DeadLetterStep, AdminRequest, D!AdminRequest, D!CheckRetry, D!MarkRetry, D!Discard,
         D!ProcessBatch, D!ContextExpires, D!ProcessMessage, D!Claim, D!HandleMessage, D!Backoff,
         D!RetryCancelled, D!DiscardUnhandled, D!DiscardExhausted, D!Resolve
    <3>2. dlife # "running" /\ dpc = "idle" => dpc' = dpc
      BY <2>2 DEF DeadLetterStep, AdminRequest, D!AdminRequest, D!CheckRetry, D!MarkRetry, D!Discard,
         D!ProcessBatch, D!ContextExpires, D!ProcessMessage, D!Claim, D!HandleMessage, D!Backoff,
         D!RetryCancelled, D!DiscardUnhandled, D!DiscardExhausted, D!Resolve, D!control
    <3> QED BY <2>1, <3>1, <3>2 DEF IInv, Waited
  <2>3. CASE StopDeadLetter
    BY <2>1, <2>3 DEF StopDeadLetter, D!Stop, D!Exit, D!control, IInv, Waited
  <2>4. CASE EndServer
    BY <2>1, <2>4 DEF EndServer, D!Close, D!control, IInv, Waited
  <2> QED BY <2>2, <2>3, <2>4
<1> QED BY <1>2, <1>3, <1>4 DEF IInv

(* A crash, and the next process.                                          *)
LEMMA RestartSteps ==
  ASSUME IInv, Crash \/ Start
  PROVE  IInv'
<1>1. DP!Crash \/ DP!Start
  BY SameDeadLetter DEF Crash, Start
<1>2. DP!IInv(MaxRetries)'
  <2>1. DP!Next
    BY <1>1 DEF DP!Next
  <2> QED BY <2>1, Assumptions, DP!NextIInv DEF IInv
<1>3. OP!IInv'
  <2>1. CASE OP!Crash \/ OP!Start
    <3>1. OP!Next
      BY <2>1 DEF OP!Next
    <3> QED BY <3>1, Assumptions, OP!NextIInv DEF IInv
  <2>2. CASE D!Crash /\ UNCHANGED <<status, attempts, outbox>>
    <3>1. UNCHANGED OP!vars
      BY <2>2 DEF D!Crash, outbox, OP!vars
    <3> QED BY <3>1, Assumptions, OP!NextIInv DEF IInv
  <2> QED BY <2>1, <2>2, SameOutbox DEF Crash, Start
<1>4. Waited'
  <2>1. CASE Crash
    <3>1. dpc' = "idle" /\ dlife' = "down" /\ closed' = {}
      BY <2>1 DEF Crash, D!Crash
    <3>2. opc' = "idle" /\ olife' = "down"
      BY <2>1 DEF Crash, O!Crash, outbox, IInv, Waited
    <3> QED BY <3>1, <3>2 DEF Waited
  <2>2. CASE Start
    <3>1. dlife = "down" /\ dlife' = "running" /\ olife' = "running" /\ closed' = closed
      BY <2>2 DEF Start, O!Start, D!Start
    <3> QED BY <3>1 DEF IInv, Waited
  <2> QED BY <2>1, <2>2
<1> QED BY <1>2, <1>3, <1>4 DEF IInv

(* Shutdown closes what the processors have used.                          *)
LEMMA CloseSteps ==
  ASSUME IInv, CloseProducer \/ CloseDatabase \/ UNCHANGED vars
  PROVE  IInv'
<1>1. UNCHANGED <<status, attempts, dlq, copies, outbox, deadLetter>>
  BY DEF CloseProducer, CloseDatabase, vars
<1>2. UNCHANGED OP!vars /\ UNCHANGED DP!vars
  BY <1>1 DEF OP!vars, DP!vars, outbox, deadLetter
<1>3. OP!IInv' /\ DP!IInv(MaxRetries)'
  BY <1>2, Assumptions, OP!NextIInv, DP!NextIInv DEF IInv
<1>4. Waited'
  <2>1. UNCHANGED <<opc, olife, dpc, dlife>>
    BY <1>1 DEF outbox, deadLetter
  <2> QED BY <2>1 DEF CloseProducer, CloseDatabase, vars, IInv, Waited
<1> QED BY <1>3, <1>4 DEF IInv

(* Every step keeps the invariant.                                         *)
LEMMA NextIInv == IInv /\ [Next]_vars => IInv'
BY OutboxSteps, DeadLetterSteps, RestartSteps, CloseSteps DEF Next

(* The inductive invariant holds of every behaviour.                       *)
THEOREM SpecIInv == Spec => []IInv
BY InitIInv, NextIInv, PTL DEF Spec

(***************************************************************************)
(* Beside each other both processors keep their types: no row, batch or    *)
(* request of one names what the other has changed.                        *)
(***************************************************************************)
THEOREM TypeCorrect == Spec => [](OP!TypeOK /\ DP!TypeOK)
<1>1. IInv => OP!TypeOK /\ DP!TypeOK
  BY DEF IInv, OP!IInv, DP!IInv
<1> QED BY <1>1, SpecIInv, PTL

(***************************************************************************)
(* No message is in the hands of both processors: what the first one holds *)
(* has no row in the queue.                                                *)
(***************************************************************************)
THEOREM OneHolderHolds == Spec => []OneHolder
<1>1. IInv => OneHolder
  <2> SUFFICES ASSUME IInv, dcur \in DOMAIN dlq PROVE dlq[dcur].orig # ocur
    BY DEF OneHolder
  <2>1. dlq[dcur].orig \in Messages
    <3>1. dlq \in Seq(OP!DeadLetterRow(Messages))
      BY DEF IInv, OP!IInv, OP!TypeOK
    <3>2. dlq[dcur] \in OP!DeadLetterRow(Messages)
      BY <3>1
    <3> QED BY <3>2 DEF OP!DeadLetterRow
  <2>2. CASE opc = "idle"
    <3>1. ocur = OP!None /\ OP!None = O!None
      BY <2>2 DEF IInv, OP!IInv, OP!Position, OP!None, O!None
    <3> QED BY <2>1, <3>1, Assumptions
  <2>3. CASE opc # "idle"
    <3>1. ~OP!Parked(ocur)
      BY <2>3 DEF IInv, OP!IInv, OP!Held
    <3> QED BY <3>1 DEF OP!Parked
  <2> QED BY <2>2, <2>3
<1> QED BY <1>1, SpecIInv, PTL

(* Shutdown closes the producer and the database when nobody uses them.    *)
THEOREM ClosedIsUnusedHolds == Spec => []ClosedIsUnused
<1>1. IInv => ClosedIsUnused
  <2> SUFFICES ASSUME IInv, closed # {}
               PROVE  ocur = O!None /\ olife = "down" /\ dcur = D!None /\ dlife = "stopped"
    BY DEF ClosedIsUnused
  <2>1. dlife = "stopped" /\ olife = "down" /\ opc = "idle" /\ dpc = "idle"
    BY DEF IInv, Waited
  <2>2. ocur = OP!None /\ dcur = DP!None
    BY <2>1 DEF IInv, OP!IInv, OP!Position, DP!IInv, DP!Position
  <2> QED BY <2>1, <2>2 DEF OP!None, O!None, DP!None, D!None
<1> QED BY <1>1, SpecIInv, PTL

(***************************************************************************)
(* No message is published more often than the outbox processor and the    *)
(* dead letter processor try together, whatever happens to the server.     *)
(***************************************************************************)
THEOREM TotalDuplicatesHolds == Spec => []TotalDuplicates
<1>1. IInv => TotalDuplicates
  BY DEF IInv, DP!IInv, DP!Bounded, TotalDuplicates
<1> QED BY <1>1, SpecIInv, PTL

(***************************************************************************)
(* What each processor promises alone, it keeps beside the other: what a   *)
(* row of either table says of the topic is true, and a message has one    *)
(* dead letter at most.                                                    *)
(***************************************************************************)
THEOREM TablesAreTrue ==
  Spec => [](OP!CompletedIsPublished /\ OP!ClaimedOnce /\ OP!DeadLetteredOnce
             /\ DP!ResolvedIsPublished)
<1>1. IInv => /\ OP!CompletedIsPublished /\ OP!ClaimedOnce /\ OP!DeadLetteredOnce
              /\ DP!ResolvedIsPublished
  BY DEF IInv, OP!IInv, DP!IInv
<1> QED BY <1>1, SpecIInv, PTL

(***************************************************************************)
(* No step of the server, of the second processor or of an admin changes   *)
(* an outbox row that is completed or failed.                              *)
(***************************************************************************)
THEOREM SettledIsFinalHolds == Spec => OP!SettledIsFinal
<1>1. ASSUME IInv, [Next]_vars, NEW m \in Messages, status[m] \in {"completed", "failed"}
      PROVE  status'[m] = status[m]
  <2>1. CASE OutboxStep \/ StopOutbox \/ Start \/ (O!Crash /\ D!Crash)
    <3>1. OP!Next
      BY <2>1, OutboxNextIsNext DEF OutboxNext, OutboxStep, StopOutbox, Start
    <3> QED BY <1>1, <3>1, Assumptions, OP!SettledStep DEF IInv
  <2>2. CASE \/ DeadLetterStep \/ StopDeadLetter \/ EndServer \/ CloseProducer \/ CloseDatabase
             \/ D!Crash /\ UNCHANGED <<status, attempts, outbox>>
             \/ UNCHANGED vars
    <3>1. status' = status
      BY <2>2 DEF DeadLetterStep, StopDeadLetter, EndServer, CloseProducer, CloseDatabase, vars
    <3> QED BY <3>1
  <2> QED BY <1>1, <2>1, <2>2 DEF Next, Crash
<1>2. UNCHANGED vars => UNCHANGED OP!vars
  BY DEF vars, outbox, OP!vars
<1>3. IInv /\ [Next]_vars
        => [\A m \in Messages :
              status[m] \in {"completed", "failed"} => status'[m] = status[m]]_(OP!vars)
  BY <1>1
<1> QED BY <1>3, SpecIInv, PTL DEF Spec, OP!SettledIsFinal

-----------------------------------------------------------------------------
(* What the proofs of the first processor call Calm, beside the second.    *)
LEMMA CalmStep ==
  ASSUME Disruptions = {}, IInv, OP!Calm, [Next]_vars
  PROVE  OP!Calm'
<1>1. CASE OutboxStep \/ StopOutbox \/ Start \/ (O!Crash /\ D!Crash)
  <2>1. OP!Next
    BY <1>1, OutboxNextIsNext DEF OutboxNext, OutboxStep, StopOutbox, Start
  <2> QED BY <2>1, Assumptions, OP!CalmStep DEF IInv
<1>2. CASE \/ DeadLetterStep \/ StopDeadLetter \/ EndServer
           \/ D!Crash /\ UNCHANGED <<status, attempts, outbox>>
  <2>1. DeadLetterNext /\ UNCHANGED <<status, attempts, outbox>>
    BY <1>2 DEF DeadLetterStep, AdminRequest, StopDeadLetter, EndServer, DeadLetterNext
  <2>2. \A m : OP!Parked(m)' <=> OP!Parked(m)
    BY <2>1, DeadLetterBesideOutbox DEF IInv
  <2> QED BY <2>1, <2>2 DEF OP!Calm, OP!NothingLost, outbox
<1>3. CASE CloseProducer \/ CloseDatabase \/ UNCHANGED vars
  <2>1. UNCHANGED OP!vars
    BY <1>3 DEF CloseProducer, CloseDatabase, vars, outbox, OP!vars
  <2> QED BY <2>1, Assumptions, OP!CalmStep DEF IInv
<1> QED BY <1>1, <1>2, <1>3 DEF Next, Crash

(***************************************************************************)
(* Without disruptions the first processor loses nothing, whatever the     *)
(* second one and the admins do to the queue that it writes to.            *)
(***************************************************************************)
THEOREM NothingLostHolds == ASSUME Disruptions = {} PROVE Spec => []NothingLost
<1>1. Init => OP!Calm
  <2>1. Init => OP!Init
    BY DEF Init, O!Init, OP!Init, O!None, OP!None
  <2> QED BY <2>1, Assumptions, OP!InitCalm
<1>2. IInv /\ OP!Calm /\ [Next]_vars => OP!Calm'
  BY CalmStep
<1>3. OP!Calm => NothingLost
  BY DEF OP!Calm, OP!NothingLost, NothingLost, O!NothingLost, OP!Parked, O!Parked
<1> QED BY <1>1, <1>2, <1>3, SpecIInv, PTL DEF Spec

-----------------------------------------------------------------------------
(***************************************************************************)
(* The second processor sends a message that was parked once more: its     *)
(* outbox row stays as it is, and the message stays parked.                *)
(***************************************************************************)
Republish(m) ==
  /\ OP!MapParked[m]
  /\ copies[m] < MaxRetries + DLQMaxRetries
  /\ copies' = [copies EXCEPT ![m] = @ + 1]
  /\ status' = status /\ OP!MapParked' = OP!MapParked

(* All that the second processor and the admins do to a message.           *)
LEMMA DeadLetterLifecycle ==
  ASSUME IInv, DeadLetterNext, UNCHANGED <<status, attempts, outbox>>
  PROVE  (\E m \in Messages : Republish(m)) \/ UNCHANGED OP!Lifecycle!vars
<1>1. status' = status /\ OP!MapParked' = OP!MapParked
  <2>1. \A m : OP!Parked(m)' <=> OP!Parked(m)
    BY DeadLetterBesideOutbox DEF IInv
  <2>2. \A m : OP!Parked(m) \in BOOLEAN /\ OP!Parked(m)' \in BOOLEAN
    BY DEF OP!Parked
  <2>3. \A m : OP!Parked(m)' = OP!Parked(m)
    BY <2>1, <2>2
  <2> QED BY <2>3 DEF OP!MapParked
<1>2. CASE copies' = copies
  BY <1>1, <1>2 DEF OP!Lifecycle!vars, OP!MapParked
<1>3. CASE copies' # copies
  <2> DEFINE m == dlq[dcur].orig
  <2>1. D!HandleMessage
    BY <1>3 DEF DeadLetterNext, D!ProcessMessage, D!AdminRequest, D!CheckRetry, D!MarkRetry,
       D!Discard, D!ProcessBatch, D!Claim, D!Backoff, D!RetryCancelled, D!DiscardUnhandled,
       D!DiscardExhausted, D!Resolve, D!ContextExpires, D!Stop, D!Exit, D!Close, D!Crash, D!Start
  <2>2. dpc = "attempt" /\ copies' = [copies EXCEPT ![m] = @ + 1]
    BY <1>3, <2>1 DEF D!HandleMessage
  <2>3. DP!TypeOK /\ dcur \in DP!Ids /\ copies[m] < MaxRetries + dtry
    BY <2>2 DEF IInv, DP!IInv, DP!Position, DP!Counted
  <2>4. m \in Messages /\ copies[m] \in Nat
    BY <2>3, Assumptions, DP!RowTypes
  <2>5. dtry \in Nat /\ dtry <= DLQMaxRetries /\ DLQMaxRetries \in Nat
    BY <2>3, Assumptions DEF DP!TypeOK, DP!ConstantsAssumption
  <2>6. copies[m] < MaxRetries + DLQMaxRetries
    BY <2>3, <2>4, <2>5, Assumptions
  <2>7. OP!MapParked[m]
    BY <2>3, <2>4 DEF OP!MapParked, OP!Parked, DP!Ids
  <2> HIDE DEF m
  <2> QED BY <1>1, <2>2, <2>4, <2>6, <2>7 DEF Republish
<1> QED BY <1>2, <1>3

(***************************************************************************)
(* End to end: until a message is parked, the whole server, with its       *)
(* shutdowns and crashes, does nothing to it that MessageLifecycle does    *)
(* not allow; what is done to it afterwards does not touch its outbox row, *)
(* and sends it no more often than both processors try together.           *)
(***************************************************************************)
THEOREM EndToEnd ==
  Spec => /\ OP!Lifecycle!Init
          /\ [][OP!Lifecycle!Next \/ \E m \in Messages : Republish(m)]_(OP!Lifecycle!vars)
<1>1. Init => OP!Lifecycle!Init
  <2>1. Init => OP!Init
    BY DEF Init, O!Init, OP!Init, O!None, OP!None
  <2> QED BY <2>1, Assumptions, OP!LifecycleInit
<1>2. ASSUME IInv, [Next]_vars
      PROVE  [OP!Lifecycle!Next \/ \E m \in Messages : Republish(m)]_(OP!Lifecycle!vars)
  <2>1. CASE OutboxStep \/ StopOutbox \/ Start \/ (O!Crash /\ D!Crash)
    <3>1. OP!Next
      BY <2>1, OutboxNextIsNext DEF OutboxNext, OutboxStep, StopOutbox, Start
    <3>2. [OP!Lifecycle!Next]_(OP!Lifecycle!vars)
      BY <1>2, <3>1, Assumptions, OP!LifecycleStep DEF IInv
    <3> QED BY <3>2
  <2>2. CASE \/ DeadLetterStep \/ StopDeadLetter \/ EndServer
             \/ D!Crash /\ UNCHANGED <<status, attempts, outbox>>
    <3>1. DeadLetterNext /\ UNCHANGED <<status, attempts, outbox>>
      BY <2>2 DEF DeadLetterStep, AdminRequest, StopDeadLetter, EndServer, DeadLetterNext
    <3> QED BY <1>2, <3>1, DeadLetterLifecycle
  <2>3. CASE CloseProducer \/ CloseDatabase \/ UNCHANGED vars
    <3>1. UNCHANGED OP!vars
      BY <2>3 DEF CloseProducer, CloseDatabase, vars, outbox, OP!vars
    <3>2. [OP!Lifecycle!Next]_(OP!Lifecycle!vars)
      BY <1>2, <3>1, Assumptions, OP!LifecycleStep DEF IInv
    <3> QED BY <3>2
  <2> QED BY <1>2, <2>1, <2>2, <2>3 DEF Next, Crash
<1> QED BY <1>1, <1>2, SpecIInv, PTL DEF Spec
=============================================================================
