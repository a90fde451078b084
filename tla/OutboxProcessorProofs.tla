------------------------ MODULE OutboxProcessorProofs ------------------------
(***************************************************************************)
(* Proofs, for any messages, batch size, number of retries and set of      *)
(* disruptions, that the outbox processor keeps the safety properties of   *)
(* OutboxProcessor and implements MessageLifecycle.                        *)
(***************************************************************************)
EXTENDS OutboxProcessor, TLAPS

(* Where the processor is, and which row it has in its hands.              *)
Position ==
  /\ pc = "idle" => cur = None /\ batch = {}
  /\ pc # "idle" => cur \in Messages
  /\ cur \notin batch
  /\ pc \in {"attempt", "backoff"} => try >= 1
  /\ pc = "backoff" => try < MaxRetries

(***************************************************************************)
(* The rows read ahead are as they were read: nobody but the processor     *)
(* moves a row that is pending, and it moves only the row it works on.     *)
(***************************************************************************)
Fresh ==
  /\ \A m \in batch : status[m] = "pending"
  /\ pc = "claim" => status[cur] = "pending"

(***************************************************************************)
(* The row in hand has the status the last step gave it, and no dead       *)
(* letter.                                                                 *)
(***************************************************************************)
Held ==
  /\ pc \in {"attempt", "backoff", "markFailed", "markCompleted"} => status[cur] = "processing"
  /\ pc = "deadLetter" => status[cur] \in {"processing", "failed"}
  /\ pc # "idle" => ~Parked(cur)

(* An attempt adds one copy, and a row that was not claimed has none.      *)
Counted ==
  /\ \A m \in Messages : status[m] \in {"absent", "pending"} => attempts[m] = 0 /\ copies[m] = 0
  /\ pc = "attempt" => copies[cur] < try
  /\ pc = "backoff" => copies[cur] <= try
  /\ pc = "markCompleted" => copies[cur] > 0

(***************************************************************************)
(* BoundedDuplicates, of the messages the processor has not parked: it     *)
(* publishes no others, whoever else does.                                 *)
(***************************************************************************)
BoundedAhead == \A m \in Messages : Parked(m) \/ copies[m] <= MaxRetries

(* The inductive invariant: the safety properties, and what they need.     *)
IInv ==
  /\ TypeOK
  /\ Position
  /\ Fresh
  /\ Held
  /\ Counted
  /\ CompletedIsPublished
  /\ ClaimedOnce
  /\ BoundedAhead
  /\ DeadLetteredOnce

-----------------------------------------------------------------------------
(* The two outcomes of the loop head: rest, or a fresh row of the batch.   *)
LEMMA TakeEffect ==
  ASSUME NEW rest \in SUBSET Messages, Take(rest)
  PROVE  /\ try' = 0
         /\ \/ pc' = "idle" /\ batch' = {} /\ cur' = None
            \/ pc' = "claim" /\ cur' \in rest /\ batch' = rest \ {cur'}
BY DEF Take

(* None is no message. *)
LEMMA NoneIsNoMessage == None \notin Messages
BY ConstantsAssumption DEF None

(* There is a first attempt.                                               *)
LEMMA MaxRetriesPositive == MaxRetries \in Nat /\ MaxRetries >= 1
BY ConstantsAssumption

(* What appending the dead letter of c does to the parked messages.        *)
LEMMA AppendParks ==
  ASSUME TypeOK, NEW c \in Messages, dlq' = Append(dlq, NewDeadLetterMessage(c))
  PROVE  /\ dlq' \in Seq(DeadLetterRow(Messages))
         /\ \A m \in Messages : Parked(m)' <=> Parked(m) \/ m = c
         /\ (\A i, j \in DOMAIN dlq : dlq[i].orig = dlq[j].orig => i = j) /\ ~Parked(c)
              => \A i, j \in DOMAIN dlq' : dlq'[i].orig = dlq'[j].orig => i = j
<1> DEFINE row == NewDeadLetterMessage(c)
<1>1. row \in DeadLetterRow(Messages) /\ row.orig = c
  BY DEF NewDeadLetterMessage, DeadLetterRow, DeadLetterStatus, CreationReason
<1>2. dlq \in Seq(DeadLetterRow(Messages))
  BY DEF TypeOK
<1>3. /\ dlq' \in Seq(DeadLetterRow(Messages))
      /\ Len(dlq') = Len(dlq) + 1
      /\ DOMAIN dlq = 1 .. Len(dlq) /\ DOMAIN dlq' = 1 .. Len(dlq) + 1
      /\ \A i \in 1 .. Len(dlq) : dlq'[i] = dlq[i]
      /\ dlq'[Len(dlq) + 1] = row
      /\ Len(dlq) \in Nat
  <2> HIDE DEF row
  <2> QED BY <1>1, <1>2 DEF row
<1>4. \A m \in Messages : Parked(m)' <=> Parked(m) \/ m = c
  BY <1>1, <1>3 DEF Parked
<1>5. ASSUME \A i, j \in DOMAIN dlq : dlq[i].orig = dlq[j].orig => i = j, ~Parked(c)
      PROVE  \A i, j \in DOMAIN dlq' : dlq'[i].orig = dlq'[j].orig => i = j
  <2> HIDE DEF row
  <2> QED BY <1>1, <1>3, <1>5 DEF Parked
<1> QED BY <1>3, <1>4, <1>5

(* What leaves the queue alone parks nothing.                              *)
LEMMA SameParked ==
  ASSUME dlq' = dlq
  PROVE  \A m : Parked(m)' <=> Parked(m)
BY DEF Parked

-----------------------------------------------------------------------------
(* The empty tables satisfy the invariant.                                 *)
LEMMA InitIInv == Init => IInv
<1> SUFFICES ASSUME Init PROVE IInv
  OBVIOUS
<1>1. TypeOK
  <2>1. << >> \in Seq(DeadLetterRow(Messages))
    OBVIOUS
  <2>2. dlq \in Seq(DeadLetterRow(Messages))
    BY <2>1 DEF Init
  <2>3. /\ status \in [Messages -> OutboxStatus]
        /\ attempts \in [Messages -> Nat]
        /\ copies \in [Messages -> Nat]
    BY DEF Init, OutboxStatus
  <2>4. /\ pc \in Steps /\ batch \subseteq Messages /\ cur \in Messages \cup {None}
        /\ live \in BOOLEAN /\ life \in {"running", "stopping", "down"}
    BY DEF Init, Steps
  <2>5. try \in 0 .. MaxRetries
    BY ConstantsAssumption DEF Init
  <2> QED BY <2>2, <2>3, <2>4, <2>5 DEF TypeOK
<1>2. \A m : ~Parked(m)
  BY DEF Init, Parked
<1>3. Position /\ Fresh /\ Held /\ Counted
  BY <1>2 DEF Init, Position, Fresh, Held, Counted
<1>4. CompletedIsPublished /\ ClaimedOnce /\ BoundedAhead /\ DeadLetteredOnce
  BY <1>2, ConstantsAssumption
  DEF Init, CompletedIsPublished, ClaimedOnce, BoundedAhead, DeadLetteredOnce
<1> QED BY <1>1, <1>3, <1>4 DEF IInv

(***************************************************************************)
(* One lemma per action: what it does to each part of the invariant.       *)
(***************************************************************************)
LEMMA CreateInTxIInv ==
  ASSUME IInv, NEW m \in Messages, CreateInTx(m)
  PROVE  IInv'
<1> USE DEF CreateInTx, table, control
<1>1. TypeOK'
  BY DEF IInv, TypeOK, OutboxStatus
<1>2. Position'
  BY DEF IInv, Position
<1>3. Fresh'
  BY DEF IInv, TypeOK, Fresh, Position
<1>4. Held'
  BY SameParked DEF IInv, TypeOK, Held, Position
<1>5. Counted'
  BY DEF IInv, TypeOK, Counted
<1>6. (CompletedIsPublished /\ ClaimedOnce /\ BoundedAhead)'
  BY SameParked DEF IInv, TypeOK, CompletedIsPublished, ClaimedOnce, BoundedAhead
<1>7. DeadLetteredOnce'
  BY SameParked DEF IInv, TypeOK, DeadLetteredOnce
<1> QED BY <1>1, <1>2, <1>3, <1>4, <1>5, <1>6, <1>7 DEF IInv

(* A batch is read: its rows are pending.                                  *)
LEMMA ProcessBatchIInv ==
  ASSUME IInv, ProcessBatch
  PROVE  IInv'
<1> DEFINE rest == Oldest(Pending, BatchSize)
<1>1. rest \subseteq Messages /\ \A m \in rest : status[m] = "pending"
  BY DEF Oldest, Pending
<1>2. /\ try' = 0
      /\ \/ pc' = "idle" /\ batch' = {} /\ cur' = None
         \/ pc' = "claim" /\ cur' \in rest /\ batch' = rest \ {cur'}
  <2> HIDE DEF rest
  <2>1. Take(rest)
    BY DEF ProcessBatch, rest
  <2> QED BY <1>1, <2>1, TakeEffect
<1> HIDE DEF rest
<1>3. UNCHANGED <<status, attempts, dlq, copies, life>> /\ live' = TRUE
  BY DEF ProcessBatch, table
<1>4. TypeOK'
  BY <1>1, <1>2, <1>3, MaxRetriesPositive DEF IInv, TypeOK, Steps
<1>5. Position' /\ Fresh' /\ Counted'
  BY <1>1, <1>2, <1>3, NoneIsNoMessage DEF IInv, TypeOK, Position, Fresh, Counted
<1>6. Held'
  BY <1>1, <1>2, <1>3, SameParked DEF IInv, Held, DeadLetteredOnce
<1>7. (CompletedIsPublished /\ ClaimedOnce /\ BoundedAhead /\ DeadLetteredOnce)'
  BY <1>3, SameParked
  DEF IInv, CompletedIsPublished, ClaimedOnce, BoundedAhead, DeadLetteredOnce
<1> QED BY <1>4, <1>5, <1>6, <1>7 DEF IInv

(* The claim: a pending row was never claimed nor published.               *)
LEMMA MarkAsProcessingIInv ==
  ASSUME IInv, MarkAsProcessing
  PROVE  IInv'
<1>1. PICK o \in Outcomes(live, Disruptions) :
        /\ Mark("processing", o)
        /\ attempts' = IF Applied(o) THEN [attempts EXCEPT ![cur] = @ + 1] ELSE attempts
        /\ \/ /\ o = "ok" /\ cur \in Handled
              /\ pc' = "attempt" /\ try' = 1 /\ UNCHANGED <<batch, cur>>
           \/ /\ o = "ok" /\ cur \notin Handled
              /\ pc' = "markFailed" /\ UNCHANGED <<batch, cur, try>>
           \/ o # "ok" /\ Take(batch)
  BY DEF MarkAsProcessing
<1>2. pc = "claim" /\ UNCHANGED <<dlq, copies, live, life>>
  BY DEF MarkAsProcessing
<1>3. /\ TypeOK
      /\ cur \in Messages /\ cur \notin batch /\ batch \subseteq Messages
      /\ status[cur] = "pending" /\ attempts[cur] = 0 /\ copies[cur] = 0
      /\ ~Parked(cur)
  BY <1>2 DEF IInv, TypeOK, Position, Fresh, Held, Counted
<1>4. /\ status' \in [Messages -> OutboxStatus] /\ attempts' \in [Messages -> Nat]
      /\ \A m \in Messages : m # cur => status'[m] = status[m] /\ attempts'[m] = attempts[m]
      /\ \/ status'[cur] = "processing" /\ attempts'[cur] = 1
         \/ status'[cur] = "pending" /\ attempts'[cur] = 0 /\ o # "ok"
  BY <1>1, <1>3 DEF Mark, Applied, TypeOK, OutboxStatus
<1>5. \/ /\ pc' = "attempt" /\ try' = 1 /\ status'[cur] = "processing"
         /\ UNCHANGED <<batch, cur>>
      \/ /\ pc' = "markFailed" /\ status'[cur] = "processing"
         /\ UNCHANGED <<batch, cur, try>>
      \/ pc' = "idle" /\ batch' = {} /\ cur' = None /\ try' = 0
      \/ pc' = "claim" /\ cur' \in batch /\ batch' = batch \ {cur'} /\ try' = 0
  BY <1>1, <1>3, <1>4, TakeEffect
<1>6. TypeOK'
  BY <1>2, <1>3, <1>4, <1>5, MaxRetriesPositive DEF TypeOK, Steps
<1>7. Position' /\ Fresh'
  BY <1>2, <1>3, <1>4, <1>5, NoneIsNoMessage DEF IInv, TypeOK, Position, Fresh
<1>8. Counted'
  BY <1>2, <1>3, <1>4, <1>5 DEF IInv, TypeOK, Counted, Fresh
<1>9. Held' /\ DeadLetteredOnce'
  <2>1. \A m \in Messages : Parked(m)' <=> Parked(m)
    BY <1>2, SameParked
  <2>2. \A m \in batch : ~Parked(m)
    BY <1>3 DEF IInv, Fresh, DeadLetteredOnce
  <2>3. Held'
    BY <1>2, <1>3, <1>4, <1>5, <2>1, <2>2, NoneIsNoMessage DEF Held
  <2>4. DeadLetteredOnce'
    BY <1>2, <1>3, <1>4, <2>1 DEF IInv, DeadLetteredOnce
  <2> QED BY <2>3, <2>4
<1>10. (CompletedIsPublished /\ ClaimedOnce /\ BoundedAhead)'
  BY SameParked, <1>2, <1>3, <1>4 DEF IInv, CompletedIsPublished, ClaimedOnce, BoundedAhead
<1> QED BY <1>6, <1>7, <1>8, <1>9, <1>10 DEF IInv

(* An attempt: one copy more, still no more than attempts.                 *)
LEMMA HandleMessageIInv ==
  ASSUME IInv, HandleMessage
  PROVE  IInv'
<1>1. PICK r \in PublishOutcomes :
        /\ copies' = IF r.written THEN [copies EXCEPT ![cur] = @ + 1] ELSE copies
        /\ pc' = IF r.acked THEN "markCompleted"
                 ELSE IF LastAttempt THEN "markFailed" ELSE "backoff"
  BY DEF HandleMessage
<1>2. pc = "attempt" /\ UNCHANGED <<status, attempts, dlq, batch, cur, try, live, life>>
  BY DEF HandleMessage, table
<1>3. /\ TypeOK
      /\ cur \in Messages /\ status[cur] = "processing"
      /\ try >= 1 /\ try <= MaxRetries /\ copies[cur] < try
  BY <1>2, MaxRetriesPositive DEF IInv, TypeOK, Position, Held, Counted
<1>4. /\ copies' \in [Messages -> Nat]
      /\ \A m \in Messages : m # cur => copies'[m] = copies[m]
      /\ copies'[cur] = copies[cur] \/ copies'[cur] = copies[cur] + 1
      /\ r.acked => copies'[cur] = copies[cur] + 1
  BY <1>1, <1>3 DEF TypeOK, PublishOutcomes
<1>5. \/ pc' = "markCompleted" /\ copies'[cur] > 0
      \/ pc' = "markFailed"
      \/ pc' = "backoff" /\ try < MaxRetries
  BY <1>1, <1>3, <1>4, MaxRetriesPositive DEF LastAttempt, TypeOK
<1>6. TypeOK'
  BY <1>2, <1>3, <1>4, <1>5 DEF TypeOK, Steps
<1>7. Position' /\ Fresh'
  BY <1>2, <1>3, <1>5 DEF IInv, Position, Fresh
<1>8. Counted'
  BY <1>2, <1>3, <1>4, <1>5 DEF IInv, TypeOK, Counted
<1>9. Held' /\ DeadLetteredOnce'
  BY <1>2, <1>3, <1>5, SameParked DEF IInv, Held, DeadLetteredOnce
<1>10. (CompletedIsPublished /\ ClaimedOnce /\ BoundedAhead)'
  <2>1. (CompletedIsPublished /\ ClaimedOnce)'
    BY <1>2, <1>3, <1>4 DEF IInv, CompletedIsPublished, ClaimedOnce
  <2>2. copies'[cur] <= MaxRetries
    BY <1>3, <1>4, MaxRetriesPositive DEF TypeOK
  <2>3. BoundedAhead'
    BY <1>2, <1>3, <1>4, <2>2, SameParked DEF IInv, BoundedAhead
  <2> QED BY <2>1, <2>3
<1> QED BY <1>6, <1>7, <1>8, <1>9, <1>10 DEF IInv

(* The next attempt.                                                       *)
LEMMA BackoffIInv ==
  ASSUME IInv, Backoff
  PROVE  IInv'
<1> USE DEF Backoff, table
<1>1. TypeOK'
  BY MaxRetriesPositive DEF IInv, TypeOK, Position, Steps
<1>2. Position' /\ Fresh' /\ Counted'
  BY DEF IInv, TypeOK, Position, Fresh, Counted
<1>3. Held' /\ DeadLetteredOnce'
  BY SameParked DEF IInv, Held, DeadLetteredOnce
<1>4. (CompletedIsPublished /\ ClaimedOnce /\ BoundedAhead)'
  BY SameParked DEF IInv, CompletedIsPublished, ClaimedOnce, BoundedAhead
<1> QED BY <1>1, <1>2, <1>3, <1>4 DEF IInv

(* The context ends a retry.                                               *)
LEMMA RetryCancelledIInv ==
  ASSUME IInv, RetryCancelled
  PROVE  IInv'
<1> USE DEF RetryCancelled, table
<1>1. TypeOK'
  BY DEF IInv, TypeOK, Steps
<1>2. Position' /\ Fresh' /\ Counted'
  BY DEF IInv, TypeOK, Position, Fresh, Counted
<1>3. Held' /\ DeadLetteredOnce'
  BY SameParked DEF IInv, Held, DeadLetteredOnce
<1>4. (CompletedIsPublished /\ ClaimedOnce /\ BoundedAhead)'
  BY SameParked DEF IInv, CompletedIsPublished, ClaimedOnce, BoundedAhead
<1> QED BY <1>1, <1>2, <1>3, <1>4 DEF IInv

(* MarkAsFailed and MarkAsCompleted: s is what is written, or not.         *)
LEMMA MarkEffect ==
  ASSUME TypeOK, cur \in Messages, NEW s \in OutboxStatus,
         \E o \in Outcomes(live, Disruptions) : Mark(s, o)
  PROVE  /\ status' \in [Messages -> OutboxStatus]
         /\ \A m \in Messages : m # cur => status'[m] = status[m]
         /\ status'[cur] \in {status[cur], s}
BY DEF Mark, TypeOK

(* A claimed row is failed, or stays claimed.                              *)
LEMMA MarkAsFailedIInv ==
  ASSUME IInv, MarkAsFailed
  PROVE  IInv'
<1>1. pc = "markFailed" /\ UNCHANGED <<attempts, dlq, copies, live, life>>
  BY DEF MarkAsFailed
<1>2. /\ TypeOK
      /\ cur \in Messages /\ cur \notin batch /\ batch \subseteq Messages
      /\ status[cur] = "processing" /\ ~Parked(cur)
  BY <1>1 DEF IInv, TypeOK, Position, Held
<1>3. /\ status' \in [Messages -> OutboxStatus]
      /\ \A m \in Messages : m # cur => status'[m] = status[m]
      /\ status'[cur] \in {"processing", "failed"}
  BY <1>2, MarkEffect DEF MarkAsFailed, OutboxStatus
<1>4. \/ pc' = "deadLetter" /\ UNCHANGED <<batch, cur, try>>
      \/ pc' = "idle" /\ batch' = {} /\ cur' = None /\ try' = 0
      \/ pc' = "claim" /\ cur' \in batch /\ batch' = batch \ {cur'} /\ try' = 0
  BY <1>2, TakeEffect DEF MarkAsFailed
<1>5. TypeOK'
  BY <1>1, <1>2, <1>3, <1>4, MaxRetriesPositive DEF TypeOK, Steps
<1>6. Position' /\ Fresh' /\ Counted'
  BY <1>1, <1>2, <1>3, <1>4, NoneIsNoMessage DEF IInv, TypeOK, Position, Fresh, Counted
<1>7. Held' /\ DeadLetteredOnce'
  BY <1>1, <1>2, <1>3, <1>4, SameParked, NoneIsNoMessage DEF IInv, Fresh, Held, DeadLetteredOnce
<1>8. (CompletedIsPublished /\ ClaimedOnce /\ BoundedAhead)'
  BY SameParked, <1>1, <1>2, <1>3 DEF IInv, CompletedIsPublished, ClaimedOnce, BoundedAhead
<1> QED BY <1>5, <1>6, <1>7, <1>8 DEF IInv

(* The dead letter of a row that has none.                                 *)
LEMMA DeadLetterCreateIInv ==
  ASSUME IInv, DeadLetterCreate
  PROVE  IInv'
<1>1. pc = "deadLetter" /\ UNCHANGED <<status, attempts, copies, live, life>>
  BY DEF DeadLetterCreate, table
<1>2. /\ TypeOK
      /\ cur \in Messages /\ cur \notin batch /\ batch \subseteq Messages
      /\ status[cur] \in {"processing", "failed"} /\ ~Parked(cur)
  BY <1>1 DEF IInv, TypeOK, Position, Held
<1>3. /\ try' = 0
      /\ \/ pc' = "idle" /\ batch' = {} /\ cur' = None
         \/ pc' = "claim" /\ cur' \in batch /\ batch' = batch \ {cur'}
  BY <1>2, TakeEffect DEF DeadLetterCreate
<1>4. dlq' = dlq \/ dlq' = Append(dlq, NewDeadLetterMessage(cur))
  BY DEF DeadLetterCreate
<1>5. /\ dlq' \in Seq(DeadLetterRow(Messages))
      /\ \A m \in Messages : Parked(m)' => Parked(m) \/ m = cur
      /\ \A m \in Messages : Parked(m) => Parked(m)'
      /\ \A i, j \in DOMAIN dlq' : dlq'[i].orig = dlq'[j].orig => i = j
  <2>1. CASE dlq' = dlq
    BY <1>2, <2>1, SameParked DEF IInv, TypeOK, DeadLetteredOnce
  <2>2. CASE dlq' = Append(dlq, NewDeadLetterMessage(cur))
    BY <1>2, <2>2, AppendParks DEF IInv, DeadLetteredOnce
  <2> QED BY <1>4, <2>1, <2>2
<1>6. TypeOK'
  BY <1>1, <1>2, <1>3, <1>5, MaxRetriesPositive DEF TypeOK, Steps
<1>7. Position' /\ Fresh' /\ Counted'
  BY <1>1, <1>2, <1>3, NoneIsNoMessage DEF IInv, TypeOK, Position, Fresh, Counted
<1>8. Held' /\ DeadLetteredOnce'
  BY <1>1, <1>2, <1>3, <1>5, NoneIsNoMessage DEF IInv, Fresh, Held, DeadLetteredOnce
<1>9. (CompletedIsPublished /\ ClaimedOnce /\ BoundedAhead)'
  BY <1>1, <1>5 DEF IInv, CompletedIsPublished, ClaimedOnce, BoundedAhead
<1> QED BY <1>6, <1>7, <1>8, <1>9 DEF IInv

(* Only a published row is completed.                                      *)
LEMMA MarkAsCompletedIInv ==
  ASSUME IInv, MarkAsCompleted
  PROVE  IInv'
<1>1. pc = "markCompleted" /\ UNCHANGED <<attempts, dlq, copies, live, life>>
  BY DEF MarkAsCompleted
<1>2. /\ TypeOK
      /\ cur \in Messages /\ cur \notin batch /\ batch \subseteq Messages
      /\ status[cur] = "processing" /\ ~Parked(cur) /\ copies[cur] > 0
  BY <1>1 DEF IInv, TypeOK, Position, Held, Counted
<1>3. /\ status' \in [Messages -> OutboxStatus]
      /\ \A m \in Messages : m # cur => status'[m] = status[m]
      /\ status'[cur] \in {"processing", "completed"}
  BY <1>2, MarkEffect DEF MarkAsCompleted, OutboxStatus
<1>4. /\ try' = 0
      /\ \/ pc' = "idle" /\ batch' = {} /\ cur' = None
         \/ pc' = "claim" /\ cur' \in batch /\ batch' = batch \ {cur'}
  BY <1>2, TakeEffect DEF MarkAsCompleted
<1>5. TypeOK'
  BY <1>1, <1>2, <1>3, <1>4, MaxRetriesPositive DEF TypeOK, Steps
<1>6. Position' /\ Fresh' /\ Counted'
  BY <1>1, <1>2, <1>3, <1>4, NoneIsNoMessage DEF IInv, TypeOK, Position, Fresh, Counted
<1>7. Held' /\ DeadLetteredOnce'
  BY <1>1, <1>2, <1>3, <1>4, SameParked, NoneIsNoMessage DEF IInv, Fresh, Held, DeadLetteredOnce
<1>8. (CompletedIsPublished /\ ClaimedOnce /\ BoundedAhead)'
  BY SameParked, <1>1, <1>2, <1>3 DEF IInv, CompletedIsPublished, ClaimedOnce, BoundedAhead
<1> QED BY <1>5, <1>6, <1>7, <1>8 DEF IInv

(* Stop, Exit, Start and the timeout touch no row and no local variable.   *)
LEMMA ControlIInv ==
  ASSUME IInv, ContextExpires \/ Stop \/ Exit \/ Start \/ UNCHANGED vars
  PROVE  IInv'
<1>1. UNCHANGED <<status, attempts, dlq, copies, pc, batch, cur, try>>
  BY DEF ContextExpires, Stop, Exit, Start, vars, table, control
<1>2. TypeOK'
  <2>1. live' \in BOOLEAN /\ life' \in {"running", "stopping", "down"}
    BY DEF IInv, TypeOK, ContextExpires, Stop, Exit, Start, vars
  <2> QED BY <1>1, <2>1 DEF IInv, TypeOK
<1>3. Position' /\ Fresh' /\ Counted'
  BY <1>1 DEF IInv, Position, Fresh, Counted
<1>4. Held' /\ DeadLetteredOnce'
  BY <1>1, SameParked DEF IInv, Held, DeadLetteredOnce
<1>5. (CompletedIsPublished /\ ClaimedOnce /\ BoundedAhead)'
  BY SameParked, <1>1 DEF IInv, CompletedIsPublished, ClaimedOnce, BoundedAhead
<1> QED BY <1>2, <1>3, <1>4, <1>5 DEF IInv

(* A crash forgets the local variables and keeps the rows.                 *)
LEMMA CrashIInv ==
  ASSUME IInv, Crash
  PROVE  IInv'
<1>1. UNCHANGED <<status, attempts, dlq, copies>>
  BY DEF Crash, table
<1>2. pc' = "idle" /\ batch' = {} /\ cur' = None /\ try' = 0 /\ live' = FALSE /\ life' = "down"
  BY DEF Crash
<1>3. TypeOK'
  <2>1. try' \in 0 .. MaxRetries
    BY <1>2, MaxRetriesPositive
  <2>2. pc' \in Steps /\ batch' \subseteq Messages /\ cur' \in Messages \cup {None}
    BY <1>2 DEF Steps
  <2>3. live' \in BOOLEAN /\ life' \in {"running", "stopping", "down"}
    BY <1>2
  <2> QED BY <1>1, <2>1, <2>2, <2>3 DEF IInv, TypeOK
<1>4. Position' /\ Fresh' /\ Counted'
  BY <1>1, <1>2 DEF IInv, Position, Fresh, Counted
<1>5. Held' /\ DeadLetteredOnce'
  BY <1>1, <1>2, SameParked DEF IInv, Held, DeadLetteredOnce
<1>6. (CompletedIsPublished /\ ClaimedOnce /\ BoundedAhead)'
  BY SameParked, <1>1 DEF IInv, CompletedIsPublished, ClaimedOnce, BoundedAhead
<1> QED BY <1>3, <1>4, <1>5, <1>6 DEF IInv

(* Every step keeps the invariant.                                         *)
LEMMA NextIInv == IInv /\ [Next]_vars => IInv'
<1> SUFFICES ASSUME IInv, [Next]_vars PROVE IInv'
  OBVIOUS
<1>1. ASSUME NEW m \in Messages, CreateInTx(m) PROVE IInv'
  BY <1>1, CreateInTxIInv
<1>2. CASE ProcessBatch
  BY <1>2, ProcessBatchIInv
<1>3. CASE ProcessMessage
  <2>1. CASE MarkAsProcessing
    BY <2>1, MarkAsProcessingIInv
  <2>2. CASE HandleMessage
    BY <2>2, HandleMessageIInv
  <2>3. CASE Backoff
    BY <2>3, BackoffIInv
  <2>4. CASE RetryCancelled
    BY <2>4, RetryCancelledIInv
  <2>5. CASE MarkAsFailed
    BY <2>5, MarkAsFailedIInv
  <2>6. CASE DeadLetterCreate
    BY <2>6, DeadLetterCreateIInv
  <2>7. CASE MarkAsCompleted
    BY <2>7, MarkAsCompletedIInv
  <2> QED BY <1>3, <2>1, <2>2, <2>3, <2>4, <2>5, <2>6, <2>7 DEF ProcessMessage
<1>4. CASE Crash
  BY <1>4, CrashIInv
<1>5. CASE ContextExpires \/ Stop \/ Exit \/ Start \/ UNCHANGED vars
  BY <1>5, ControlIInv
<1> QED BY <1>1, <1>2, <1>3, <1>4, <1>5 DEF Next

(* The inductive invariant holds of every behaviour.                       *)
THEOREM SpecIInv == Spec => []IInv
BY InitIInv, NextIInv, PTL DEF Spec

(* Every variable keeps its type: no attempt number leaves 0 .. MaxRetries.*)
THEOREM TypeCorrect == Spec => []TypeOK
<1>1. IInv => TypeOK
  BY DEF IInv
<1> QED BY <1>1, SpecIInv, PTL

(* A completed row was published, whatever failed on the way.              *)
THEOREM CompletedIsPublishedHolds == Spec => []CompletedIsPublished
<1>1. IInv => CompletedIsPublished
  BY DEF IInv
<1> QED BY <1>1, SpecIInv, PTL

(* No row is claimed twice, and no message is published more often than    *)
(* one RetryWithDiscard tries, across timeouts, stops and crashes.         *)
THEOREM ClaimedOnceHolds == Spec => []ClaimedOnce
<1>1. IInv => ClaimedOnce
  BY DEF IInv
<1> QED BY <1>1, SpecIInv, PTL

(* Only an attempt adds a copy, and the row in hand has fewer than tries.  *)
LEMMA DuplicatesStep ==
  ASSUME IInv, BoundedDuplicates, [Next]_vars
  PROVE  BoundedDuplicates'
<1>1. CASE HandleMessage
  <2>1. /\ TypeOK /\ cur \in Messages /\ copies[cur] < try
    BY <1>1 DEF HandleMessage, IInv, Position, Counted
  <2>2. copies' = copies \/ copies' = [copies EXCEPT ![cur] = @ + 1]
    BY <1>1 DEF HandleMessage
  <2>3. copies[cur] + 1 <= MaxRetries
    BY <2>1, MaxRetriesPositive DEF TypeOK
  <2> QED BY <2>1, <2>2, <2>3 DEF TypeOK, BoundedDuplicates
<1>2. CASE ~HandleMessage
  <2>1. copies' = copies
    BY <1>2 DEF Next, ProcessMessage, CreateInTx, ProcessBatch, MarkAsProcessing, Backoff,
       RetryCancelled, MarkAsFailed, DeadLetterCreate, MarkAsCompleted, ContextExpires,
       Stop, Exit, Crash, Start, vars
  <2> QED BY <2>1 DEF BoundedDuplicates
<1> QED BY <1>1, <1>2

(* No message is published more often than one RetryWithDiscard tries.     *)
THEOREM BoundedDuplicatesHolds == Spec => []BoundedDuplicates
<1>1. Init => BoundedDuplicates
  BY ConstantsAssumption DEF Init, BoundedDuplicates
<1>2. IInv /\ BoundedDuplicates /\ [Next]_vars => BoundedDuplicates'
  BY DuplicatesStep
<1> QED BY <1>1, <1>2, SpecIInv, PTL DEF Spec

(* A message has one dead letter at most, and is then not completed.       *)
THEOREM DeadLetteredOnceHolds == Spec => []DeadLetteredOnce
<1>1. IInv => DeadLetteredOnce
  BY DEF IInv
<1> QED BY <1>1, SpecIInv, PTL

-----------------------------------------------------------------------------
(***************************************************************************)
(* What the dead letter processor and the admins do beside this one: they  *)
(* change rows of the queue, and publish messages that are parked.         *)
(***************************************************************************)
LEMMA BesideIInv ==
  ASSUME IInv, UNCHANGED <<table, control, live, life>>,
         dlq' \in Seq(DeadLetterRow(Messages)), DOMAIN dlq' = DOMAIN dlq,
         \A i \in DOMAIN dlq : dlq'[i].orig = dlq[i].orig,
         copies' \in [Messages -> Nat],
         \A m \in Messages : copies'[m] >= copies[m] /\ (Parked(m) \/ copies'[m] = copies[m])
  PROVE  IInv' /\ \A m : Parked(m)' <=> Parked(m)
<1>1. \A m : Parked(m)' <=> Parked(m)
  BY DEF Parked
<1>2. UNCHANGED <<status, attempts, pc, batch, cur, try, live, life>>
  BY DEF table, control
<1>3. TypeOK' /\ Position' /\ Fresh'
  BY <1>2 DEF IInv, TypeOK, Position, Fresh
<1>4. Held' /\ DeadLetteredOnce'
  BY <1>1, <1>2 DEF IInv, Held, DeadLetteredOnce
<1>5. Counted'
  <2>1. \A m \in Messages : status[m] \in {"absent", "pending"} => copies'[m] = copies[m]
    BY DEF IInv, DeadLetteredOnce
  <2>2. pc # "idle" => cur \in Messages /\ copies'[cur] = copies[cur]
    BY DEF IInv, Position, Held
  <2> QED BY <1>2, <2>1, <2>2 DEF IInv, Counted
<1>6. CompletedIsPublished'
  <2>1. \A m \in Messages : copies[m] \in Nat /\ copies'[m] \in Nat
    BY DEF IInv, TypeOK
  <2> QED BY <1>2, <2>1 DEF IInv, CompletedIsPublished
<1>7. ClaimedOnce' /\ BoundedAhead'
  BY <1>1, <1>2 DEF IInv, ClaimedOnce, BoundedAhead
<1> QED BY <1>1, <1>3, <1>4, <1>5, <1>6, <1>7 DEF IInv

-----------------------------------------------------------------------------
(* The processor writes only a row it holds, and it holds no settled row.  *)
LEMMA SettledStep ==
  ASSUME IInv, [Next]_vars, NEW m \in Messages, status[m] \in {"completed", "failed"}
  PROVE  status'[m] = status[m]
<1>1. ASSUME NEW k \in Messages, CreateInTx(k) PROVE status'[m] = status[m]
  BY <1>1 DEF CreateInTx, IInv, TypeOK
<1>2. CASE MarkAsProcessing
  <2>1. status[cur] = "pending"
    BY <1>2 DEF MarkAsProcessing, IInv, Fresh
  <2> QED BY <1>2, <2>1 DEF MarkAsProcessing, Mark, IInv, TypeOK
<1>3. CASE MarkAsFailed \/ MarkAsCompleted
  <2>1. status[cur] = "processing"
    BY <1>3 DEF MarkAsFailed, MarkAsCompleted, IInv, Held
  <2> QED BY <1>3, <2>1 DEF MarkAsFailed, MarkAsCompleted, Mark, IInv, TypeOK
<1>4. CASE \/ ProcessBatch \/ HandleMessage \/ Backoff \/ RetryCancelled \/ DeadLetterCreate
           \/ ContextExpires \/ Stop \/ Exit \/ Crash \/ Start \/ UNCHANGED vars
  BY <1>4 DEF ProcessBatch, HandleMessage, Backoff, RetryCancelled, DeadLetterCreate,
     ContextExpires, Stop, Exit, Crash, Start, vars, table
<1> QED BY <1>1, <1>2, <1>3, <1>4 DEF Next, ProcessMessage

(* No UPDATE, however late or stale, changes a completed or a failed row.  *)
THEOREM SettledIsFinalHolds == Spec => SettledIsFinal
<1>1. IInv /\ [Next]_vars
        => [\A m \in Messages :
              status[m] \in {"completed", "failed"} => status'[m] = status[m]]_vars
  BY SettledStep
<1> QED BY <1>1, SpecIInv, PTL DEF Spec, SettledIsFinal

-----------------------------------------------------------------------------
(***************************************************************************)
(* Without disruptions the context of a batch stays alive and every        *)
(* statement succeeds, so that a row leaves the processor's hands settled. *)
(***************************************************************************)
Calm ==
  /\ life = "running"
  /\ pc # "idle" => live
  /\ pc = "deadLetter" => UseDLQ /\ status[cur] = "failed"
  /\ NothingLost

(* Without disruptions every statement succeeds.                           *)
LEMMA CalmOutcome ==
  ASSUME Disruptions = {}, live
  PROVE  Outcomes(live, Disruptions) = {"ok"}
BY DEF Outcomes

(* The first process is calm.                                              *)
LEMMA InitCalm == Init => Calm
BY DEF Init, Calm, NothingLost

(* Every step keeps Calm.                                                  *)
LEMMA CalmStep ==
  ASSUME Disruptions = {}, IInv, Calm, [Next]_vars
  PROVE  Calm'
<1>1. ASSUME NEW k \in Messages, CreateInTx(k) PROVE Calm'
  BY <1>1, SameParked DEF CreateInTx, control, IInv, TypeOK, Calm, NothingLost
<1>2. CASE ProcessBatch
  <2>1. Take(Oldest(Pending, BatchSize)) /\ Oldest(Pending, BatchSize) \subseteq Messages
    BY <1>2 DEF ProcessBatch, Oldest, Pending
  <2>2. pc' \in {"idle", "claim"}
    BY <2>1, TakeEffect
  <2>3. \A m \in Messages : status[m] # "processing"
    BY <1>2, NoneIsNoMessage DEF ProcessBatch, IInv, Position, Calm, NothingLost
  <2> QED BY <1>2, <2>2, <2>3, SameParked DEF ProcessBatch, table, Calm, NothingLost
<1>3. CASE MarkAsProcessing
  <2>1. pc = "claim" /\ live /\ cur \in Messages /\ status[cur] = "pending"
    BY <1>3 DEF MarkAsProcessing, IInv, Position, Fresh, Calm
  <2>2. /\ status' = [status EXCEPT ![cur] = "processing"]
        /\ pc' \in {"attempt", "markFailed"} /\ cur' = cur
    BY <1>3, <2>1, CalmOutcome DEF MarkAsProcessing, Mark, Applied
  <2> QED BY <1>3, <2>1, <2>2, SameParked
       DEF MarkAsProcessing, IInv, TypeOK, Calm, NothingLost
<1>4. CASE HandleMessage \/ Backoff \/ RetryCancelled
  <2>1. /\ UNCHANGED <<status, dlq, cur, live, life>>
        /\ pc \in {"attempt", "backoff"}
        /\ pc' \in {"attempt", "backoff", "markFailed", "markCompleted"}
    BY <1>4 DEF HandleMessage, Backoff, RetryCancelled, table
  <2> QED BY <2>1, SameParked DEF Calm, NothingLost
<1>5. CASE MarkAsFailed
  <2>1. pc = "markFailed" /\ live /\ cur \in Messages /\ batch \subseteq Messages
    BY <1>5 DEF MarkAsFailed, IInv, TypeOK, Position, Calm
  <2>2. status' = [status EXCEPT ![cur] = "failed"]
    BY <1>5, <2>1, CalmOutcome DEF MarkAsFailed, Mark, Applied
  <2>3. \/ UseDLQ /\ pc' = "deadLetter" /\ cur' = cur
        \/ ~UseDLQ /\ pc' \in {"idle", "claim"}
    BY <1>5, <2>1, TakeEffect DEF MarkAsFailed
  <2> QED BY <1>5, <2>1, <2>2, <2>3, SameParked
       DEF MarkAsFailed, IInv, TypeOK, Calm, NothingLost
<1>6. CASE DeadLetterCreate
  <2>1. pc = "deadLetter" /\ live /\ cur \in Messages /\ batch \subseteq Messages /\ UseDLQ
    BY <1>6 DEF DeadLetterCreate, IInv, TypeOK, Position, Calm
  <2>2. dlq' = Append(dlq, NewDeadLetterMessage(cur))
    BY <1>6, <2>1, CalmOutcome DEF DeadLetterCreate, Applied
  <2>3. \A m \in Messages : Parked(m)' <=> Parked(m) \/ m = cur
    BY <2>1, <2>2, AppendParks DEF IInv
  <2>4. pc' \in {"idle", "claim"}
    BY <1>6, <2>1, TakeEffect DEF DeadLetterCreate
  <2>5. status[cur] # "processing"
    BY <2>1 DEF Calm
  <2> QED BY <1>6, <2>1, <2>3, <2>4, <2>5 DEF DeadLetterCreate, table, Calm, NothingLost
<1>7. CASE MarkAsCompleted
  <2>1. pc = "markCompleted" /\ live /\ cur \in Messages /\ batch \subseteq Messages
    BY <1>7 DEF MarkAsCompleted, IInv, TypeOK, Position, Calm
  <2>2. status' = [status EXCEPT ![cur] = "completed"]
    BY <1>7, <2>1, CalmOutcome DEF MarkAsCompleted, Mark, Applied
  <2>3. pc' \in {"idle", "claim"}
    BY <1>7, <2>1, TakeEffect DEF MarkAsCompleted
  <2> QED BY <1>7, <2>1, <2>2, <2>3, SameParked
       DEF MarkAsCompleted, IInv, TypeOK, Calm, NothingLost
<1>8. CASE ContextExpires \/ Stop \/ Exit \/ Crash \/ Start
  BY <1>8 DEF ContextExpires, Stop, Exit, Crash, Start, Calm
<1>9. CASE UNCHANGED vars
  BY <1>9, SameParked DEF vars, Calm, NothingLost
<1> QED BY <1>1, <1>2, <1>3, <1>4, <1>5, <1>6, <1>7, <1>8, <1>9 DEF Next, ProcessMessage

(* Without disruptions no claimed row is left behind, and every failed one *)
(* goes to the dead letter queue.                                          *)
THEOREM NothingLostHolds == ASSUME Disruptions = {} PROVE Spec => []NothingLost
<1>1. Init => Calm
  BY InitCalm
<1>2. IInv /\ Calm /\ [Next]_vars => Calm'
  BY CalmStep
<1>3. Calm => NothingLost
  BY DEF Calm
<1> QED BY <1>1, <1>2, <1>3, SpecIInv, PTL DEF Spec

-----------------------------------------------------------------------------
(***************************************************************************)
(* Refinement.  Everything a step does to a row, to its copies and to its  *)
(* dead letter is one step of MessageLifecycle for one message, or none.   *)
(***************************************************************************)
MapParked == [m \in Messages |-> Parked(m)]

(* What leaves the queue alone leaves the abstract queue alone.            *)
LEMMA SameMapParked ==
  ASSUME dlq' = dlq
  PROVE  MapParked' = MapParked
BY DEF MapParked, Parked

(* The initial states are initial states of MessageLifecycle.              *)
LEMMA LifecycleInit == Init => Lifecycle!Init
<1> SUFFICES ASSUME Init PROVE Lifecycle!Init
  OBVIOUS
<1>1. \A m : Parked(m) = FALSE
  BY DEF Init, Parked
<1> QED BY <1>1 DEF Init, Lifecycle!Init

(* Every step is a step of MessageLifecycle, or none.                      *)
LEMMA LifecycleStep ==
  ASSUME IInv, [Next]_vars
  PROVE  [Lifecycle!Next]_(Lifecycle!vars)
<1> USE DEF MapParked
<1>1. ASSUME NEW k \in Messages, CreateInTx(k) PROVE Lifecycle!Next
  <2>1. Lifecycle!Commit(k)
    BY <1>1, SameMapParked DEF CreateInTx, Lifecycle!Commit, Lifecycle!Move
  <2> QED BY <2>1 DEF Lifecycle!Next
<1>2. CASE MarkAsProcessing
  <2>1. cur \in Messages /\ status[cur] = "pending" /\ UNCHANGED <<dlq, copies>>
    BY <1>2 DEF MarkAsProcessing, IInv, Position, Fresh
  <2>2. status' = status \/ status' = [status EXCEPT ![cur] = "processing"]
    BY <1>2 DEF MarkAsProcessing, Mark
  <2>3. CASE status' = status
    BY <2>1, <2>3, SameMapParked DEF Lifecycle!vars
  <2>4. CASE status' = [status EXCEPT ![cur] = "processing"]
    <3>1. Lifecycle!Claim(cur)
      BY <2>1, <2>4, SameMapParked DEF Lifecycle!Claim, Lifecycle!Move
    <3> QED BY <2>1, <3>1 DEF Lifecycle!Next
  <2> QED BY <2>2, <2>3, <2>4
<1>3. CASE HandleMessage
  <2>1. /\ cur \in Messages /\ status[cur] = "processing" /\ ~Parked(cur)
        /\ copies[cur] < MaxRetries
        /\ UNCHANGED <<status, dlq>>
    BY <1>3, MaxRetriesPositive
    DEF HandleMessage, table, IInv, TypeOK, Position, Held, Counted
  <2>2. copies' = copies \/ copies' = [copies EXCEPT ![cur] = @ + 1]
    BY <1>3 DEF HandleMessage
  <2>3. CASE copies' = copies
    BY <2>1, <2>3, SameMapParked DEF Lifecycle!vars
  <2>4. CASE copies' = [copies EXCEPT ![cur] = @ + 1]
    <3>1. Lifecycle!Publish(cur)
      BY <2>1, <2>4, SameMapParked DEF Lifecycle!Publish
    <3> QED BY <2>1, <3>1 DEF Lifecycle!Next
  <2> QED BY <2>2, <2>3, <2>4
<1>4. CASE MarkAsFailed
  <2>1. cur \in Messages /\ status[cur] = "processing" /\ UNCHANGED <<dlq, copies>>
    BY <1>4 DEF MarkAsFailed, IInv, Position, Held
  <2>2. status' = status \/ status' = [status EXCEPT ![cur] = "failed"]
    BY <1>4 DEF MarkAsFailed, Mark
  <2>3. CASE status' = status
    BY <2>1, <2>3, SameMapParked DEF Lifecycle!vars
  <2>4. CASE status' = [status EXCEPT ![cur] = "failed"]
    <3>1. Lifecycle!Fail(cur)
      BY <2>1, <2>4, SameMapParked DEF Lifecycle!Fail, Lifecycle!Move
    <3> QED BY <2>1, <3>1 DEF Lifecycle!Next
  <2> QED BY <2>2, <2>3, <2>4
<1>5. CASE DeadLetterCreate
  <2>1. /\ cur \in Messages /\ status[cur] \in {"processing", "failed"} /\ ~Parked(cur)
        /\ UNCHANGED <<status, copies>>
    BY <1>5 DEF DeadLetterCreate, table, IInv, Position, Held
  <2>2. dlq' = dlq \/ dlq' = Append(dlq, NewDeadLetterMessage(cur))
    BY <1>5 DEF DeadLetterCreate
  <2>3. CASE dlq' = dlq
    BY <2>1, <2>3, SameMapParked DEF Lifecycle!vars
  <2>4. CASE dlq' = Append(dlq, NewDeadLetterMessage(cur))
    <3>1. \A m \in Messages : Parked(m)' <=> Parked(m) \/ m = cur
      BY <2>1, <2>4, AppendParks DEF IInv
    <3>2. MapParked' = [MapParked EXCEPT ![cur] = TRUE]
      <4>1. \A m \in Messages : Parked(m) \in BOOLEAN /\ Parked(m)' \in BOOLEAN
        BY DEF Parked
      <4>2. \A m \in Messages : Parked(m)' = IF m = cur THEN TRUE ELSE Parked(m)
        BY <3>1, <4>1
      <4> QED BY <2>1, <4>2
    <3>3. Lifecycle!Park(cur)
      BY <2>1, <3>2 DEF Lifecycle!Park
    <3> QED BY <2>1, <3>3 DEF Lifecycle!Next
  <2> QED BY <2>2, <2>3, <2>4
<1>6. CASE MarkAsCompleted
  <2>1. /\ cur \in Messages /\ status[cur] = "processing" /\ ~Parked(cur) /\ copies[cur] > 0
        /\ UNCHANGED <<dlq, copies>>
    BY <1>6 DEF MarkAsCompleted, IInv, Position, Held, Counted
  <2>2. status' = status \/ status' = [status EXCEPT ![cur] = "completed"]
    BY <1>6 DEF MarkAsCompleted, Mark
  <2>3. CASE status' = status
    BY <2>1, <2>3, SameMapParked DEF Lifecycle!vars
  <2>4. CASE status' = [status EXCEPT ![cur] = "completed"]
    <3>1. Lifecycle!Complete(cur)
      BY <2>1, <2>4, SameMapParked DEF Lifecycle!Complete, Lifecycle!Move
    <3> QED BY <2>1, <3>1 DEF Lifecycle!Next
  <2> QED BY <2>2, <2>3, <2>4
<1>7. CASE \/ ProcessBatch \/ Backoff \/ RetryCancelled
           \/ ContextExpires \/ Stop \/ Exit \/ Crash \/ Start \/ UNCHANGED vars
  <2>1. UNCHANGED <<status, dlq, copies>>
    BY <1>7 DEF ProcessBatch, Backoff, RetryCancelled, ContextExpires, Stop, Exit,
       Crash, Start, vars, table
  <2> QED BY <2>1, SameMapParked DEF Lifecycle!vars
<1> QED BY <1>1, <1>2, <1>3, <1>4, <1>5, <1>6, <1>7 DEF Next, ProcessMessage

(***************************************************************************)
(* The polling loop, with its batches, retries, stale contexts, stops and  *)
(* crashes, implements the life cycle of each message.                     *)
(***************************************************************************)
THEOREM Refinement == Spec => LifecycleSpec
BY LifecycleInit, LifecycleStep, SpecIInv, PTL DEF Spec, LifecycleSpec, Lifecycle!Spec
=============================================================================
