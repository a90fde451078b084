---------------------- MODULE DeadLetterProcessorProofs ----------------------
(***************************************************************************)
(* Proofs, for any messages, batch size, number of retries, admins and set *)
(* of disruptions, that the dead letter queue keeps the safety properties  *)
(* of DeadLetterProcessor.  Unlike the outbox, the queue is written to by  *)
(* others, too: an admin may change the status of any row at any time, of  *)
(* one in a batch or in the processor's hands as well.  What the proofs    *)
(* rest on is therefore not what a row says but what cannot be undone: no  *)
(* statement makes a row pending again.                                    *)
(***************************************************************************)
EXTENDS DeadLetterProcessor, TLAPS

(* The places of the processor between the claim of a row and its end.     *)
Claimed == {"attempt", "backoff", "exhausted", "unhandled", "resolve"}

(* Where the processor is, and which row it has in its hands.              *)
Position ==
  /\ pc = "idle" => cur = None /\ batch = {}
  /\ pc # "idle" => cur \in Ids
  /\ cur \notin batch
  /\ pc \in {"attempt", "backoff"} => try >= 1
  /\ pc = "backoff" => try < MaxRetries

(***************************************************************************)
(* What follows is relative to before, the number of copies a message may  *)
(* have when its row is created: none, if nobody but this processor        *)
(* publishes, and as many as the outbox processor may have tried, beside   *)
(* it.                                                                     *)
(*                                                                         *)
(* A message has one row, and is not published by the queue before it has  *)
(* one.                                                                    *)
(***************************************************************************)
OneRow(before) ==
  /\ \A i, j \in Ids : dlq[i].orig = dlq[j].orig => i = j
  /\ \A m \in Messages : copies[m] > before => \E i \in Ids : dlq[i].orig = m

(***************************************************************************)
(* A row that was not claimed yet, whatever an admin has written to it     *)
(* since it was read, has not been published.                              *)
(***************************************************************************)
Unpublished(before) ==
  /\ \A i \in Ids : dlq[i].status = "pending" => copies[dlq[i].orig] <= before
  /\ \A i \in batch : copies[dlq[i].orig] <= before
  /\ pc \in {"claim", "unhandled"} => copies[dlq[cur].orig] <= before

(* The row in hand was claimed, and each attempt adds one copy at most.    *)
Counted(before) ==
  /\ pc \in Claimed => dlq[cur].status # "pending" /\ dlq[cur].retries >= 1
  /\ pc = "attempt" => copies[dlq[cur].orig] < before + try
  /\ pc = "backoff" => copies[dlq[cur].orig] <= before + try
  /\ pc = "resolve" => copies[dlq[cur].orig] > 0

(* BoundedRepublish and PublishedIsCounted, relative to before.            *)
Bounded(before) == \A m \in Messages : copies[m] <= before + MaxRetries

Recorded(before) ==
  \A i \in Ids : copies[dlq[i].orig] > before => dlq[i].retries >= 1

(* The inductive invariant: the safety properties, and what they need.     *)
IInv(before) ==
  /\ TypeOK
  /\ Position
  /\ OneRow(before)
  /\ Unpublished(before)
  /\ Counted(before)
  /\ ResolvedIsPublished
  /\ Bounded(before)
  /\ Recorded(before)

-----------------------------------------------------------------------------
(***************************************************************************)
(* What a step leaves of the rows, if it appends none.                     *)
(***************************************************************************)
Kept ==
  /\ dlq' \in Seq(DeadLetterRow(Messages)) /\ DOMAIN dlq' = Ids
  /\ \A i \in Ids :
       /\ dlq'[i].orig = dlq[i].orig
       /\ dlq'[i].retries >= dlq[i].retries
       /\ dlq'[i].reason <= FailureReasonWidth
       /\ dlq'[i].status = "pending" => dlq[i].status = "pending"
       /\ dlq'[i].status = "resolved" => dlq[i].status = "resolved" \/ copies[dlq[i].orig] > 0

(* The rows have the types of their columns.                               *)
LEMMA RowTypes ==
  ASSUME TypeOK, NEW i \in Ids
  PROVE  /\ i \in Nat \ {0} /\ i # None
         /\ dlq[i] \in DeadLetterRow(Messages)
         /\ dlq[i].orig \in Messages /\ copies[dlq[i].orig] \in Nat
         /\ dlq[i].status \in DeadLetterStatus
         /\ dlq[i].retries \in Nat
         /\ dlq[i].reason \in Nat /\ dlq[i].reason <= FailureReasonWidth
<1>1. dlq \in Seq(DeadLetterRow(Messages))
  BY DEF TypeOK
<1>2. i \in 1 .. Len(dlq) /\ Len(dlq) \in Nat
  BY <1>1 DEF Ids
<1>3. dlq[i] \in DeadLetterRow(Messages)
  BY <1>1, <1>2
<1> QED BY <1>2, <1>3 DEF DeadLetterRow, TypeOK, None

(* The same in the next state.                                             *)
LEMMA RowTypesNext ==
  ASSUME Kept, NEW i \in Ids
  PROVE  /\ dlq'[i] \in DeadLetterRow(Messages)
         /\ dlq'[i].retries \in Nat
<1>1. dlq' \in Seq(DeadLetterRow(Messages)) /\ i \in DOMAIN dlq'
  BY DEF Kept
<1>2. dlq'[i] \in DeadLetterRow(Messages)
  BY <1>1
<1> QED BY <1>2 DEF DeadLetterRow

(* One row is replaced by another.                                         *)
LEMMA ReplaceRow ==
  ASSUME NEW R, NEW s \in Seq(R), NEW i \in DOMAIN s, NEW row \in R
  PROVE  /\ [s EXCEPT ![i] = row] \in Seq(R)
         /\ DOMAIN [s EXCEPT ![i] = row] = DOMAIN s
         /\ [s EXCEPT ![i] = row][i] = row
         /\ \A k \in DOMAIN s : k # i => [s EXCEPT ![i] = row][k] = s[k]
OBVIOUS

(* A queue that is left alone is kept.                                     *)
LEMMA SameRows ==
  ASSUME TypeOK, dlq' = dlq
  PROVE  Kept
<1>1. dlq' \in Seq(DeadLetterRow(Messages)) /\ DOMAIN dlq' = Ids
  BY DEF TypeOK, Ids
<1> QED BY <1>1, RowTypes DEF Kept

(* A row that is replaced by one of the same message, which says no less.  *)
LEMMA OtherRow ==
  ASSUME TypeOK, NEW i \in Ids, NEW row \in DeadLetterRow(Messages),
         dlq' = [dlq EXCEPT ![i] = row],
         row.orig = dlq[i].orig, row.retries >= dlq[i].retries, row.reason <= FailureReasonWidth,
         row.status # "pending",
         row.status = "resolved" => copies[dlq[i].orig] > 0
  PROVE  Kept /\ dlq'[i] = row
<1>1. /\ dlq' \in Seq(DeadLetterRow(Messages)) /\ DOMAIN dlq' = Ids
      /\ dlq'[i] = row
      /\ \A k \in Ids : k # i => dlq'[k] = dlq[k]
  <2>1. dlq \in Seq(DeadLetterRow(Messages))
    BY DEF TypeOK
  <2> QED BY <2>1, ReplaceRow DEF Ids
<1>2. ASSUME NEW k \in Ids, k # i
      PROVE  /\ dlq'[k].orig = dlq[k].orig
             /\ dlq'[k].retries >= dlq[k].retries
             /\ dlq'[k].reason <= FailureReasonWidth
             /\ dlq'[k].status = dlq[k].status
  BY <1>1, <1>2, RowTypes
<1> QED BY <1>1, <1>2 DEF Kept

(* The row that the first of the UPDATEs below writes.                     *)
LEMMA RetriedRow ==
  ASSUME NEW r \in DeadLetterRow(Messages)
  PROVE  LET row == [r EXCEPT !.status = "retrying", !.retries = @ + 1]
         IN  /\ row \in DeadLetterRow(Messages)
             /\ row.orig = r.orig /\ row.reason = r.reason
             /\ row.retries = r.retries + 1 /\ row.status = "retrying"
<1> DEFINE row == [r EXCEPT !.status = "retrying", !.retries = @ + 1]
<1>1. r.retries + 1 \in Nat
  BY DEF DeadLetterRow
<1>2. \A k \in Nat : [r EXCEPT !.status = "retrying", !.retries = k] \in DeadLetterRow(Messages)
  BY DEF DeadLetterRow, DeadLetterStatus
<1>3. row = [r EXCEPT !.status = "retrying", !.retries = r.retries + 1]
  BY DEF DeadLetterRow
<1>4. row \in DeadLetterRow(Messages)
  BY <1>1, <1>2, <1>3
<1>5. row.orig = r.orig /\ row.reason = r.reason /\ row.retries = r.retries + 1 /\ row.status = "retrying"
  BY DEF DeadLetterRow
<1> QED BY <1>4, <1>5

(* UPDATE ... SET status = 'retrying', retry_count = retry_count + 1.      *)
LEMMA MarkAsRetryingKeeps ==
  ASSUME TypeOK, NEW i \in Ids, NEW o, MarkAsRetrying(i, o)
  PROVE  /\ Kept
         /\ Applied(o) => dlq'[i].status # "pending" /\ dlq'[i].retries >= 1
<1>1. CASE ~Applied(o)
  BY <1>1, SameRows DEF MarkAsRetrying
<1>2. CASE Applied(o)
  <2> DEFINE row == [dlq[i] EXCEPT !.status = "retrying", !.retries = @ + 1]
  <2>1. dlq' = [dlq EXCEPT ![i] = row]
    BY <1>2 DEF MarkAsRetrying
  <2>2. /\ row \in DeadLetterRow(Messages)
        /\ row.orig = dlq[i].orig /\ row.reason = dlq[i].reason
        /\ row.retries = dlq[i].retries + 1 /\ row.status = "retrying"
    BY RowTypes, RetriedRow
  <2>3. row.retries >= dlq[i].retries /\ row.retries >= 1 /\ row.reason <= FailureReasonWidth
    BY <2>2, RowTypes
  <2> HIDE DEF row
  <2> QED BY <2>1, <2>2, <2>3, OtherRow
<1> QED BY <1>1, <1>2

(* UPDATE ... SET status = 'discarded', failure_reason = CONCAT(...).      *)
LEMMA MarkAsDiscardedKeeps ==
  ASSUME TypeOK, NEW i \in Ids, NEW reason \in Nat, NEW o, MarkAsDiscarded(i, reason, o)
  PROVE  Kept
<1>1. CASE ~(Applied(o) /\ Fits(i, reason))
  BY <1>1, SameRows DEF MarkAsDiscarded
<1>2. CASE Applied(o) /\ Fits(i, reason)
  <2> DEFINE row == [dlq[i] EXCEPT !.status = "discarded", !.reason = Extended(i, reason)]
  <2>1. dlq' = [dlq EXCEPT ![i] = row]
    BY <1>2 DEF MarkAsDiscarded
  <2>2. Extended(i, reason) \in Nat /\ Extended(i, reason) <= FailureReasonWidth
    BY <1>2, RowTypes DEF Fits, Extended, Discarded
  <2>3. /\ row \in DeadLetterRow(Messages)
        /\ row.orig = dlq[i].orig /\ row.reason = Extended(i, reason)
        /\ row.retries = dlq[i].retries /\ row.status = "discarded"
    BY <2>2, RowTypes DEF DeadLetterRow, DeadLetterStatus
  <2>4. row.retries >= dlq[i].retries
    BY <2>3, RowTypes
  <2> HIDE DEF row
  <2> QED BY <2>1, <2>2, <2>3, <2>4, OtherRow
<1> QED BY <1>1, <1>2

(* UPDATE ... SET status = 'resolved', of a message that was published.    *)
LEMMA MarkAsResolvedKeeps ==
  ASSUME TypeOK, NEW i \in Ids, copies[dlq[i].orig] > 0, NEW o, MarkAsResolved(i, o)
  PROVE  Kept
<1>1. CASE ~Applied(o)
  BY <1>1, SameRows DEF MarkAsResolved
<1>2. CASE Applied(o)
  <2> DEFINE row == [dlq[i] EXCEPT !.status = "resolved"]
  <2>1. dlq' = [dlq EXCEPT ![i] = row]
    BY <1>2 DEF MarkAsResolved
  <2>2. /\ row \in DeadLetterRow(Messages)
        /\ row.orig = dlq[i].orig /\ row.reason = dlq[i].reason
        /\ row.retries = dlq[i].retries /\ row.status = "resolved"
    BY RowTypes DEF DeadLetterRow, DeadLetterStatus
  <2>3. row.retries >= dlq[i].retries /\ row.reason <= FailureReasonWidth
    BY <2>2, RowTypes
  <2> HIDE DEF row
  <2> QED BY <2>1, <2>2, <2>3, OtherRow
<1> QED BY <1>1, <1>2

-----------------------------------------------------------------------------
(***************************************************************************)
(* The parts of the invariant that say nothing of the processor survive    *)
(* every step that only updates rows.                                      *)
(***************************************************************************)
LEMMA KeptRows ==
  ASSUME NEW b \in Nat, IInv(b), Kept, copies' = copies
  PROVE  /\ OneRow(b)' /\ ResolvedIsPublished' /\ Bounded(b)' /\ Recorded(b)'
         /\ Ids' = Ids
         /\ \A i \in Ids : dlq'[i].reason <= FailureReasonWidth
         /\ \A i \in Ids : dlq'[i].status = "pending" => copies'[dlq'[i].orig] <= b
         /\ \A i \in Ids : copies'[dlq'[i].orig] = copies[dlq[i].orig]
<1>1. Ids' = Ids /\ \A i \in Ids : dlq'[i].orig = dlq[i].orig
  BY DEF Kept, Ids
<1>2. OneRow(b)'
  BY <1>1 DEF IInv, OneRow
<1>3. ResolvedIsPublished'
  BY <1>1 DEF IInv, Kept, ResolvedIsPublished
<1>4. Bounded(b)'
  BY DEF IInv, Bounded
<1>5. Recorded(b)'
  <2> SUFFICES ASSUME NEW i \in Ids, copies[dlq[i].orig] > b
               PROVE  dlq'[i].retries >= 1
    BY <1>1 DEF Recorded
  <2>1. dlq[i].retries >= 1 /\ dlq'[i].retries >= dlq[i].retries
    BY DEF IInv, Kept, Recorded
  <2>2. dlq[i].retries \in Nat /\ dlq'[i].retries \in Nat
    BY RowTypes, RowTypesNext DEF IInv
  <2> QED BY <2>1, <2>2
<1>6. \A i \in Ids : dlq'[i].status = "pending" => copies'[dlq'[i].orig] <= b
  BY <1>1 DEF IInv, Kept, Unpublished
<1> QED BY <1>1, <1>2, <1>3, <1>4, <1>5, <1>6 DEF Kept

(* And so do the others if the processor does not move.                    *)
LEMMA KeptControl ==
  ASSUME NEW b \in Nat, IInv(b), Kept, copies' = copies, UNCHANGED control
  PROVE  Position' /\ Unpublished(b)' /\ Counted(b)'
<1>1. /\ Ids' = Ids /\ UNCHANGED <<pc, batch, cur, try>>
      /\ \A i \in Ids : copies'[dlq'[i].orig] = copies[dlq[i].orig]
      /\ \A i \in Ids : dlq'[i].status = "pending" => copies'[dlq'[i].orig] <= b
  BY KeptRows DEF control
<1>2. pc # "idle" => cur \in Ids
  BY DEF IInv, Position
<1>3. Position'
  BY <1>1 DEF IInv, Position
<1>4. Unpublished(b)'
  BY <1>1, <1>2 DEF IInv, TypeOK, Unpublished
<1>5. Counted(b)'
  <2>1. ASSUME pc \in Claimed
        PROVE  dlq'[cur].status # "pending" /\ dlq'[cur].retries >= 1
    <3>1. cur \in Ids /\ dlq[cur].status # "pending" /\ dlq[cur].retries >= 1
      BY <1>2, <2>1 DEF IInv, Counted, Claimed
    <3>2. dlq'[cur].status # "pending" /\ dlq'[cur].retries >= dlq[cur].retries
      BY <3>1 DEF Kept
    <3>3. dlq[cur].retries \in Nat /\ dlq'[cur].retries \in Nat
      BY <3>1, RowTypes, RowTypesNext DEF IInv
    <3> QED BY <3>1, <3>2, <3>3
  <2>2. pc \in {"attempt", "backoff", "resolve"} => cur \in Ids
    BY <1>2
  <2> QED BY <1>1, <2>1, <2>2 DEF IInv, Counted
<1> QED BY <1>3, <1>4, <1>5

(* The two outcomes of the loop head: rest, or a row of the batch.         *)
LEMMA TakeEffect ==
  ASSUME NEW rest \in SUBSET Ids, Take(rest)
  PROVE  /\ try' = 0
         /\ \/ pc' = "idle" /\ batch' = {} /\ cur' = None
            \/ pc' = "claim" /\ cur' \in rest /\ batch' = rest \ {cur'}
BY DEF Take

(* The processor goes on to a row that was not published.                  *)
LEMMA KeptTake ==
  ASSUME NEW b \in Nat, IInv(b), Kept, copies' = copies,
         NEW rest \in SUBSET Ids, Take(rest), \A i \in rest : copies[dlq[i].orig] <= b
  PROVE  /\ Position' /\ Unpublished(b)' /\ Counted(b)'
         /\ pc' \in Steps /\ batch' \subseteq Ids /\ cur' \in Ids \cup {None}
         /\ try' \in 0 .. MaxRetries
<1>1. /\ try' = 0
      /\ \/ pc' = "idle" /\ batch' = {} /\ cur' = None
         \/ pc' = "claim" /\ cur' \in rest /\ batch' = rest \ {cur'}
  BY TakeEffect
<1>2. /\ Ids' = Ids
      /\ \A i \in Ids : copies'[dlq'[i].orig] = copies[dlq[i].orig]
      /\ \A i \in Ids : dlq'[i].status = "pending" => copies'[dlq'[i].orig] <= b
  BY KeptRows
<1>3. Position'
  BY <1>1, <1>2 DEF Position
<1>4. Unpublished(b)'
  BY <1>1, <1>2 DEF Unpublished
<1>5. Counted(b)'
  BY <1>1 DEF Counted, Claimed
<1>6. pc' \in Steps /\ batch' \subseteq Ids /\ cur' \in Ids \cup {None}
  BY <1>1 DEF Steps
<1>7. try' \in 0 .. MaxRetries
  BY <1>1, ConstantsAssumption
<1> QED BY <1>3, <1>4, <1>5, <1>6, <1>7

-----------------------------------------------------------------------------
(* The empty queue satisfies the invariant.                                *)
LEMMA InitIInv ==
  ASSUME NEW b \in Nat, Init
  PROVE  IInv(b)
<1>1. dlq = << >> /\ Ids = {}
  BY DEF Init, Ids
<1>2. dlq \in Seq(DeadLetterRow(Messages))
  BY <1>1
<1>3. try \in 0 .. MaxRetries
  BY ConstantsAssumption DEF Init
<1>4. admin \in [Admins -> Requests] /\ \A a \in Admins : admin[a].id \in Ids \cup {None}
  BY DEF Init, NoRequest, Requests
<1>5. TypeOK
  BY <1>1, <1>2, <1>3, <1>4 DEF Init, TypeOK, Steps
<1>6. Position /\ OneRow(b) /\ Unpublished(b) /\ Counted(b)
  BY <1>1 DEF Init, Position, OneRow, Unpublished, Counted, Claimed
<1>7. ResolvedIsPublished /\ Bounded(b) /\ Recorded(b)
  BY <1>1, ConstantsAssumption DEF Init, ResolvedIsPublished, Bounded, Recorded
<1> QED BY <1>5, <1>6, <1>7 DEF IInv

(* There is a first attempt.                                               *)
LEMMA MaxRetriesPositive == MaxRetries \in Nat /\ MaxRetries >= 1
BY ConstantsAssumption

(* A new row: its message has no other, and was not published yet.         *)
LEMMA CreateIInv ==
  ASSUME NEW b \in Nat, IInv(b), NEW m \in Messages, Create(m)
  PROVE  IInv(b)'
<1> DEFINE row == NewDeadLetterMessage(m)
           new == Len(dlq) + 1
<1>1. /\ row \in DeadLetterRow(Messages)
      /\ row.orig = m /\ row.status = "pending" /\ row.retries = 0
      /\ row.reason <= FailureReasonWidth
  BY DEF NewDeadLetterMessage, DeadLetterRow, DeadLetterStatus, CreationReason, FailureReasonWidth
<1>2. /\ dlq' \in Seq(DeadLetterRow(Messages))
      /\ Ids' = Ids \cup {new} /\ new \notin Ids /\ new # None
      /\ \A i \in Ids : dlq'[i] = dlq[i]
      /\ dlq'[new] = row
  <2>1. dlq \in Seq(DeadLetterRow(Messages)) /\ dlq' = Append(dlq, row)
    BY DEF IInv, TypeOK, Create
  <2>2. DOMAIN dlq = 1 .. Len(dlq) /\ Len(dlq) \in Nat
    BY <2>1
  <2> HIDE DEF row
  <2>3. /\ Append(dlq, row) \in Seq(DeadLetterRow(Messages))
        /\ Len(Append(dlq, row)) = Len(dlq) + 1
        /\ DOMAIN Append(dlq, row) = 1 .. Len(dlq) + 1
        /\ \A i \in 1 .. Len(dlq) : Append(dlq, row)[i] = dlq[i]
        /\ Append(dlq, row)[Len(dlq) + 1] = row
    BY <1>1, <2>1, <2>2
  <2> QED BY <2>1, <2>2, <2>3 DEF Ids, None
<1>3. /\ UNCHANGED <<copies, pc, batch, cur, try, live, life, admin>>
      /\ \A i \in Ids : dlq[i].orig # m
      /\ copies[m] \in Nat /\ copies[m] <= b /\ ~(copies[m] > b)
  <2>1. \A i \in Ids : dlq[i].orig # m
    BY DEF Create
  <2>2. copies[m] \in Nat /\ ~(copies[m] > b)
    BY <2>1 DEF IInv, TypeOK, OneRow
  <2> QED BY <2>1, <2>2 DEF Create, control
<1> HIDE DEF row, new
<1>4. TypeOK'
  <2>1. \A i \in Ids' : dlq'[i].reason <= FailureReasonWidth
    BY <1>1, <1>2 DEF IInv, TypeOK
  <2>2. \A a \in Admins : admin'[a].id \in Ids' \cup {None}
    BY <1>2, <1>3 DEF IInv, TypeOK
  <2> QED BY <1>2, <1>3, <2>1, <2>2 DEF IInv, TypeOK
<1>5. Position' /\ OneRow(b)'
  BY <1>1, <1>2, <1>3 DEF IInv, Position, OneRow
<1>6. Unpublished(b)' /\ Counted(b)'
  <2>1. pc # "idle" => cur \in Ids
    BY DEF IInv, Position
  <2> QED BY <1>1, <1>2, <1>3, <2>1 DEF IInv, TypeOK, Unpublished, Counted, Claimed
<1>7. (ResolvedIsPublished /\ Bounded(b) /\ Recorded(b))'
  BY <1>1, <1>2, <1>3 DEF IInv, ResolvedIsPublished, Bounded, Recorded
<1> QED BY <1>4, <1>5, <1>6, <1>7 DEF IInv

(* A batch is read: its rows are pending.                                  *)
LEMMA ProcessBatchIInv ==
  ASSUME NEW b \in Nat, IInv(b), ProcessBatch
  PROVE  IInv(b)'
<1> DEFINE rest == Oldest(Pending, BatchSize)
<1>1. rest \subseteq Ids /\ \A i \in rest : copies[dlq[i].orig] <= b
  BY DEF Oldest, Pending, IInv, Unpublished
<1>2. Take(rest) /\ live' = TRUE /\ UNCHANGED <<dlq, copies, life, admin>>
  BY DEF ProcessBatch
<1> HIDE DEF rest
<1>3. Kept
  BY <1>2, SameRows DEF IInv
<1>4. /\ Position' /\ Unpublished(b)' /\ Counted(b)'
      /\ pc' \in Steps /\ batch' \subseteq Ids /\ cur' \in Ids \cup {None}
      /\ try' \in 0 .. MaxRetries
  BY <1>1, <1>2, <1>3, KeptTake
<1>5. TypeOK'
  BY <1>2, <1>4 DEF IInv, TypeOK, Ids
<1> QED BY <1>2, <1>3, <1>4, <1>5, KeptRows DEF IInv

(* TypeOK of a step that updates rows and moves the processor.             *)
LEMMA KeptTypes ==
  ASSUME NEW b \in Nat, IInv(b), Kept, UNCHANGED <<copies, live, life, admin>>,
         pc' \in Steps, batch' \subseteq Ids, cur' \in Ids \cup {None}, try' \in 0 .. MaxRetries
  PROVE  TypeOK'
<1>1. Ids' = Ids /\ \A i \in Ids : dlq'[i].reason <= FailureReasonWidth
  BY KeptRows
<1>2. dlq' \in Seq(DeadLetterRow(Messages))
  BY DEF Kept
<1> QED BY <1>1, <1>2 DEF IInv, TypeOK

(* The claim: the row is not pending any more, and counts the retry.       *)
LEMMA ClaimIInv ==
  ASSUME NEW b \in Nat, IInv(b), Claim
  PROVE  IInv(b)'
<1>1. PICK o \in Outcomes(live, Disruptions) :
        /\ MarkAsRetrying(cur, o)
        /\ \/ /\ o = "ok"
              /\ pc' = "attempt" /\ try' = 1 /\ UNCHANGED <<batch, cur>>
           \/ /\ o = "ok"
              /\ pc' = "unhandled" /\ UNCHANGED <<batch, cur, try>>
           \/ o # "ok" /\ Take(batch)
  BY DEF Claim
<1>2. pc = "claim" /\ UNCHANGED <<copies, live, life, admin>>
  BY DEF Claim
<1>3. /\ TypeOK /\ cur \in Ids /\ cur \notin batch /\ batch \subseteq Ids
      /\ copies[dlq[cur].orig] <= b
      /\ \A i \in batch : copies[dlq[i].orig] <= b
  BY <1>2 DEF IInv, TypeOK, Position, Unpublished
<1>4. Kept /\ (o = "ok" => dlq'[cur].status # "pending" /\ dlq'[cur].retries >= 1)
  BY <1>1, <1>3, MarkAsRetryingKeeps DEF Applied
<1>5. (OneRow(b) /\ ResolvedIsPublished /\ Bounded(b) /\ Recorded(b))'
  BY <1>2, <1>4, KeptRows
<1>6. CASE Take(batch)
  <2>1. /\ Position' /\ Unpublished(b)' /\ Counted(b)'
        /\ pc' \in Steps /\ batch' \subseteq Ids /\ cur' \in Ids \cup {None}
        /\ try' \in 0 .. MaxRetries
    BY <1>2, <1>3, <1>4, <1>6, KeptTake
  <2> QED BY <1>2, <1>4, <1>5, <2>1, KeptTypes DEF IInv
<1>7. CASE /\ o = "ok" /\ pc' \in {"attempt", "unhandled"} /\ UNCHANGED <<batch, cur>>
           /\ pc' = "attempt" => try' = 1
           /\ try' \in 0 .. MaxRetries
  <2>1. /\ Ids' = Ids
        /\ \A i \in Ids : copies'[dlq'[i].orig] = copies[dlq[i].orig]
        /\ \A i \in Ids : dlq'[i].status = "pending" => copies'[dlq'[i].orig] <= b
    BY <1>2, <1>4, KeptRows
  <2>2. Position'
    BY <1>3, <1>7, <2>1 DEF Position
  <2>3. Unpublished(b)'
    BY <1>3, <1>7, <2>1 DEF Unpublished
  <2>4. Counted(b)'
    <3>1. copies[dlq[cur].orig] \in Nat
      BY <1>3, RowTypes
    <3>2. copies[dlq[cur].orig] < b + 1
      BY <1>3, <3>1
    <3> QED BY <1>3, <1>4, <1>7, <2>1, <3>2 DEF Counted
  <2>5. pc' \in Steps
    BY <1>7 DEF Steps
  <2>6. TypeOK'
    BY <1>2, <1>3, <1>4, <1>7, <2>5, KeptTypes
  <2> QED BY <1>5, <2>2, <2>3, <2>4, <2>6 DEF IInv
<1>8. 1 \in 0 .. MaxRetries
  BY MaxRetriesPositive
<1> QED BY <1>1, <1>3, <1>6, <1>7, <1>8 DEF TypeOK

(* An attempt: one copy more, still no more than attempts.                 *)
LEMMA HandleMessageIInv ==
  ASSUME NEW b \in Nat, IInv(b), HandleMessage
  PROVE  IInv(b)'
<1> DEFINE m == dlq[cur].orig
<1>1. PICK r \in PublishOutcomes :
        /\ copies' = IF r.written THEN [copies EXCEPT ![m] = @ + 1] ELSE copies
        /\ pc' = IF r.acked THEN "resolve"
                 ELSE IF LastAttempt THEN "exhausted" ELSE "backoff"
  BY DEF HandleMessage
<1>2. pc = "attempt" /\ UNCHANGED <<dlq, batch, cur, try, live, life, admin>>
  BY DEF HandleMessage
<1>3. /\ TypeOK /\ Ids' = Ids /\ dlq' = dlq
      /\ cur \in Ids /\ cur \notin batch /\ batch \subseteq Ids
      /\ try \in Nat /\ try >= 1 /\ try <= MaxRetries
      /\ dlq[cur].status # "pending" /\ dlq[cur].retries >= 1
  BY <1>2, MaxRetriesPositive DEF IInv, TypeOK, Position, Counted, Claimed, Ids
<1>4. m \in Messages /\ copies[m] \in Nat /\ copies[m] < b + try
  BY <1>2, <1>3, RowTypes DEF IInv, Counted
<1>5. \A i \in Ids : dlq[i].orig \in Messages /\ (i # cur => dlq[i].orig # m)
  BY <1>3, RowTypes DEF IInv, OneRow
<1>6. /\ copies' \in [Messages -> Nat]
      /\ \A k \in Messages : k # m => copies'[k] = copies[k]
      /\ copies'[m] = copies[m] \/ copies'[m] = copies[m] + 1
      /\ r.acked => copies'[m] = copies[m] + 1
  <2> HIDE DEF m
  <2> QED BY <1>1, <1>3, <1>4 DEF TypeOK, PublishOutcomes
<1>7. copies'[m] <= b + try /\ copies'[m] <= b + MaxRetries /\ copies'[m] \in Nat
  <2> HIDE DEF m
  <2> QED BY <1>3, <1>4, <1>6, MaxRetriesPositive
<1>8. \/ pc' = "resolve" /\ copies'[m] > 0
      \/ pc' = "exhausted"
      \/ pc' = "backoff" /\ try < MaxRetries
  <2> HIDE DEF m
  <2> QED BY <1>1, <1>3, <1>4, <1>6, MaxRetriesPositive DEF LastAttempt
<1>9. TypeOK'
  BY <1>2, <1>3, <1>6, <1>8 DEF TypeOK, Steps
<1>10. Position'
  BY <1>2, <1>3, <1>8 DEF IInv, Position
<1>11. OneRow(b)'
  BY <1>3, <1>6 DEF IInv, OneRow
<1>12. \A i \in Ids : i # cur => copies'[dlq[i].orig] = copies[dlq[i].orig]
  BY <1>5, <1>6
<1>13. Unpublished(b)'
  BY <1>2, <1>3, <1>8, <1>12 DEF IInv, Unpublished
<1>14. Counted(b)'
  BY <1>2, <1>3, <1>7, <1>8 DEF Counted
<1>15. ResolvedIsPublished'
  BY <1>3, <1>4, <1>6, <1>12 DEF IInv, ResolvedIsPublished
<1>16. Bounded(b)'
  BY <1>6, <1>7 DEF IInv, Bounded
<1>17. Recorded(b)'
  BY <1>3, <1>12 DEF IInv, Recorded
<1> QED BY <1>9, <1>10, <1>11, <1>13, <1>14, <1>15, <1>16, <1>17 DEF IInv

(* The next attempt, and the end of a retry by the context.                *)
LEMMA RetryIInv ==
  ASSUME NEW b \in Nat, IInv(b), Backoff \/ RetryCancelled
  PROVE  IInv(b)'
<1>1. UNCHANGED <<dlq, copies, batch, cur, live, life, admin>>
  BY DEF Backoff, RetryCancelled
<1>2. \/ pc = "backoff" /\ pc' = "attempt" /\ try' = try + 1
      \/ pc \in {"attempt", "backoff"} /\ pc' = "exhausted" /\ try' = try
  BY DEF Backoff, RetryCancelled
<1>3. /\ try \in Nat /\ try >= 1 /\ try <= MaxRetries /\ cur \in Ids
      /\ pc = "backoff" => try < MaxRetries
  BY <1>2, MaxRetriesPositive DEF IInv, TypeOK, Position
<1>4. copies[dlq[cur].orig] \in Nat
  BY <1>3, RowTypes DEF IInv
<1>5. Kept
  BY <1>1, SameRows DEF IInv
<1>6. try' \in 0 .. MaxRetries /\ pc' \in Steps
  BY <1>2, <1>3, MaxRetriesPositive DEF Steps
<1>7. TypeOK'
  BY <1>1, <1>5, <1>6, KeptTypes DEF IInv, TypeOK
<1>8. Position'
  BY <1>1, <1>2, <1>3 DEF IInv, Position, Ids
<1>9. Unpublished(b)'
  BY <1>1, <1>2 DEF IInv, Unpublished, Ids
<1>10. Counted(b)'
  BY <1>1, <1>2, <1>3, <1>4 DEF IInv, Counted, Claimed
<1> QED BY <1>1, <1>5, <1>7, <1>8, <1>9, <1>10, KeptRows DEF IInv

(* The end of a row: discarded, resolved, or neither if the UPDATE fails.  *)
LEMMA EndOfRowIInv ==
  ASSUME NEW b \in Nat, IInv(b), DiscardUnhandled \/ DiscardExhausted \/ Resolve
  PROVE  IInv(b)'
<1>1. Take(batch) /\ UNCHANGED <<copies, live, life, admin>> /\ pc # "idle"
  BY DEF DiscardUnhandled, DiscardExhausted, Resolve
<1>2. /\ TypeOK /\ cur \in Ids /\ batch \subseteq Ids
      /\ \A i \in batch : copies[dlq[i].orig] <= b
  BY <1>1 DEF IInv, TypeOK, Position, Unpublished
<1>3. Kept
  <2>1. CASE DiscardUnhandled \/ DiscardExhausted
    <3>1. NoHandlerReason \in Nat /\ ExhaustedReason \in Nat
      BY DEF NoHandlerReason, ExhaustedReason
    <3> QED BY <1>2, <2>1, <3>1, MarkAsDiscardedKeeps DEF DiscardUnhandled, DiscardExhausted
  <2>2. CASE Resolve
    <3>1. copies[dlq[cur].orig] > 0
      BY <2>2 DEF Resolve, IInv, Counted
    <3> QED BY <1>2, <2>2, <3>1, MarkAsResolvedKeeps DEF Resolve
  <2> QED BY <2>1, <2>2
<1>4. /\ Position' /\ Unpublished(b)' /\ Counted(b)'
      /\ pc' \in Steps /\ batch' \subseteq Ids /\ cur' \in Ids \cup {None}
      /\ try' \in 0 .. MaxRetries
  BY <1>1, <1>2, <1>3, KeptTake
<1> QED BY <1>1, <1>3, <1>4, KeptRows, KeptTypes DEF IInv

(***************************************************************************)
(* The steps that leave the processor alone and at most update a row: the  *)
(* admin requests, and the steps of the server and of time.                *)
(***************************************************************************)
LEMMA AroundIInv ==
  ASSUME NEW b \in Nat, IInv(b), Kept, copies' = copies, UNCHANGED control,
         live' \in BOOLEAN, life' \in {"running", "stopping", "stopped", "down"},
         admin' \in [Admins -> Requests],
         \A a \in Admins : admin'[a].id \in Ids \cup {None}
  PROVE  IInv(b)'
<1>1. /\ OneRow(b)' /\ ResolvedIsPublished' /\ Bounded(b)' /\ Recorded(b)'
      /\ Ids' = Ids /\ \A i \in Ids : dlq'[i].reason <= FailureReasonWidth
  BY KeptRows
<1>2. Position' /\ Unpublished(b)' /\ Counted(b)'
  BY KeptControl
<1>3. dlq' \in Seq(DeadLetterRow(Messages))
  BY DEF Kept
<1>4. TypeOK'
  BY <1>1, <1>3 DEF IInv, TypeOK, control
<1> QED BY <1>1, <1>2, <1>4 DEF IInv

(* What a request that ends or goes on leaves in admin.                    *)
LEMMA RequestTypes ==
  ASSUME TypeOK, NEW a \in Admins, NEW r \in Requests, r.id \in Ids \cup {None},
         admin' = [admin EXCEPT ![a] = r]
  PROVE  /\ admin' \in [Admins -> Requests]
         /\ \A c \in Admins : admin'[c].id \in Ids \cup {None}
BY DEF TypeOK

(* An admin reads a row, marks it for retry, or discards it.               *)
LEMMA AdminIInv ==
  ASSUME NEW b \in Nat, IInv(b), AdminRequest
  PROVE  IInv(b)'
<1>1. TypeOK /\ NoRequest \in Requests /\ NoRequest.id = None
  BY DEF IInv, NoRequest, Requests
<1>2. PICK a \in Admins : (\E i \in Ids : CheckRetry(a, i) \/ Discard(a, i)) \/ MarkRetry(a)
  BY DEF AdminRequest
<1>3. CASE \E i \in Ids : CheckRetry(a, i)
  <2>1. PICK i \in Ids : CheckRetry(a, i)
    BY <1>3
  <2>2. UNCHANGED <<dlq, copies, control, live, life>>
    BY <2>1 DEF CheckRetry
  <2>3. [at |-> "checked", id |-> i] \in Requests
    BY <1>1, RowTypes DEF Requests
  <2>4. /\ admin' \in [Admins -> Requests]
        /\ \A c \in Admins : admin'[c].id \in Ids \cup {None}
    BY <1>1, <2>1, <2>3, RequestTypes DEF CheckRetry
  <2>5. Kept
    BY <1>1, <2>2, SameRows
  <2> QED BY <1>1, <2>2, <2>4, <2>5, AroundIInv DEF TypeOK
<1>4. CASE \E i \in Ids : Discard(a, i)
  <2>1. PICK i \in Ids : Discard(a, i)
    BY <1>4
  <2>2. UNCHANGED <<copies, control, live, life>>
    BY <2>1 DEF Discard
  <2>3. /\ admin' \in [Admins -> Requests]
        /\ \A c \in Admins : admin'[c].id \in Ids \cup {None}
    BY <1>1, <2>1, RequestTypes DEF Discard
  <2>4. Kept
    <3>1. PICK reason \in Reasons, o \in Outcomes(TRUE, Disruptions) : MarkAsDiscarded(i, reason, o)
      BY <2>1 DEF Discard
    <3>2. reason \in Nat
      BY ConstantsAssumption
    <3> QED BY <1>1, <3>1, <3>2, MarkAsDiscardedKeeps
  <2> QED BY <1>1, <2>2, <2>3, <2>4, AroundIInv DEF TypeOK
<1>5. CASE MarkRetry(a)
  <2>1. UNCHANGED <<copies, control, live, life>> /\ admin[a].at = "checked"
    BY <1>5 DEF MarkRetry
  <2>2. PICK o \in Outcomes(TRUE, Disruptions) :
          /\ MarkAsRetrying(admin[a].id, o)
          /\ admin' = [admin EXCEPT ![a] = IF o = "ok" THEN [@ EXCEPT !.at = "told"] ELSE NoRequest]
    BY <1>5 DEF MarkRetry
  <2>3. /\ admin[a].id \in Ids /\ [admin[a] EXCEPT !.at = "told"] \in Requests
        /\ [admin[a] EXCEPT !.at = "told"].id = admin[a].id
    <3>1. admin[a] \in [at : {"checked", "told"}, id : Nat \ {0}]
      BY <1>1, <2>1 DEF TypeOK, Requests
    <3> QED BY <1>1, <3>1 DEF TypeOK, Requests, None
  <2>4. /\ admin' \in [Admins -> Requests]
        /\ \A c \in Admins : admin'[c].id \in Ids \cup {None}
    BY <1>1, <2>2, <2>3, RequestTypes
  <2>5. Kept
    BY <1>1, <2>2, <2>3, MarkAsRetryingKeeps
  <2> QED BY <1>1, <2>1, <2>4, <2>5, AroundIInv DEF TypeOK
<1> QED BY <1>2, <1>3, <1>4, <1>5

(* What happens around the processor and the admins.                       *)
LEMMA ControlIInv ==
  ASSUME NEW b \in Nat, IInv(b), ContextExpires \/ Stop \/ Exit \/ Close \/ Start \/ UNCHANGED vars
  PROVE  IInv(b)'
<1>1. TypeOK /\ NoRequest \in Requests /\ NoRequest.id = None
  BY DEF IInv, NoRequest, Requests
<1>2. UNCHANGED <<dlq, copies, control>> /\ Kept
  BY <1>1, SameRows DEF ContextExpires, Stop, Exit, Close, Start, vars, control
<1>3. live' \in BOOLEAN /\ life' \in {"running", "stopping", "stopped", "down"}
  BY <1>1 DEF TypeOK, ContextExpires, Stop, Exit, Close, Start, vars
<1>4. admin' = admin \/ admin' = [a \in Admins |-> NoRequest]
  BY DEF ContextExpires, Stop, Exit, Close, Start, vars
<1>5. /\ admin' \in [Admins -> Requests]
      /\ \A a \in Admins : admin'[a].id \in Ids \cup {None}
  BY <1>1, <1>4 DEF TypeOK
<1> QED BY <1>2, <1>3, <1>5, AroundIInv

(* A crash forgets the batch and the requests, not the rows.               *)
LEMMA CrashIInv ==
  ASSUME NEW b \in Nat, IInv(b), Crash
  PROVE  IInv(b)'
<1>1. /\ UNCHANGED <<dlq, copies>>
      /\ pc' = "idle" /\ batch' = {} /\ cur' = None /\ try' = 0
      /\ live' = FALSE /\ life' = "down" /\ admin' = [a \in Admins |-> NoRequest]
  BY DEF Crash
<1>2. Ids' = Ids
  BY <1>1 DEF Ids
<1>3. NoRequest \in Requests /\ NoRequest.id = None
  BY DEF NoRequest, Requests
<1>4. try' \in 0 .. MaxRetries
  BY <1>1, MaxRetriesPositive
<1>5. TypeOK'
  BY <1>1, <1>2, <1>3, <1>4 DEF IInv, TypeOK, Steps
<1>6. Position' /\ OneRow(b)' /\ Unpublished(b)' /\ Counted(b)'
  BY <1>1, <1>2 DEF IInv, Position, OneRow, Unpublished, Counted, Claimed
<1>7. (ResolvedIsPublished /\ Bounded(b) /\ Recorded(b))'
  BY <1>1, <1>2 DEF IInv, ResolvedIsPublished, Bounded, Recorded
<1> QED BY <1>5, <1>6, <1>7 DEF IInv

(* Every step keeps the invariant.                                         *)
LEMMA NextIInv ==
  ASSUME NEW b \in Nat, IInv(b), [Next]_vars
  PROVE  IInv(b)'
<1>1. ASSUME NEW m \in Messages, Create(m) PROVE IInv(b)'
  BY <1>1, CreateIInv
<1>2. CASE ProcessBatch
  BY <1>2, ProcessBatchIInv
<1>3. CASE ProcessMessage
  <2>1. CASE Claim
    BY <2>1, ClaimIInv
  <2>2. CASE HandleMessage
    BY <2>2, HandleMessageIInv
  <2>3. CASE Backoff \/ RetryCancelled
    BY <2>3, RetryIInv
  <2>4. CASE DiscardUnhandled \/ DiscardExhausted \/ Resolve
    BY <2>4, EndOfRowIInv
  <2> QED BY <1>3, <2>1, <2>2, <2>3, <2>4 DEF ProcessMessage
<1>4. CASE AdminRequest
  BY <1>4, AdminIInv
<1>5. CASE Crash
  BY <1>5, CrashIInv
<1>6. CASE ContextExpires \/ Stop \/ Exit \/ Close \/ Start \/ UNCHANGED vars
  BY <1>6, ControlIInv
<1> QED BY <1>1, <1>2, <1>3, <1>4, <1>5, <1>6 DEF Next

(***************************************************************************)
(* What the outbox processor does beside this one: it appends a row, as    *)
(* Create does, or publishes a message that has no row yet.                *)
(***************************************************************************)
LEMMA BesideIInv ==
  ASSUME NEW b \in Nat, IInv(b), UNCHANGED <<dlq, control, live, life, admin>>,
         copies' \in [Messages -> Nat],
         \A m \in Messages : copies'[m] # copies[m] =>
           copies'[m] >= copies[m] /\ copies'[m] <= b /\ \A i \in Ids : dlq[i].orig # m
  PROVE  IInv(b)'
<1>1. /\ Ids' = Ids /\ dlq' = dlq /\ UNCHANGED <<pc, batch, cur, try>>
      /\ \A i \in Ids : copies'[dlq[i].orig] = copies[dlq[i].orig]
  BY RowTypes DEF IInv, Ids, control
<1>2. pc # "idle" => cur \in Ids
  BY DEF IInv, Position
<1>3. TypeOK' /\ Position'
  BY <1>1 DEF IInv, TypeOK, Position
<1>4. OneRow(b)'
  BY <1>1 DEF IInv, TypeOK, OneRow
<1>5. Unpublished(b)' /\ Counted(b)'
  BY <1>1, <1>2 DEF IInv, TypeOK, Unpublished, Counted, Claimed
<1>6. ResolvedIsPublished' /\ Recorded(b)'
  BY <1>1 DEF IInv, ResolvedIsPublished, Recorded
<1>7. Bounded(b)'
  BY MaxRetriesPositive DEF IInv, TypeOK, Bounded
<1> QED BY <1>3, <1>4, <1>5, <1>6, <1>7 DEF IInv

(***************************************************************************)
(* Work on the queue replaces rows by rows that say no less: whoever does  *)
(* it, and whatever the row says by then.                                  *)
(***************************************************************************)
LEMMA WorkKeeps ==
  ASSUME NEW b \in Nat, IInv(b), ProcessBatch \/ ProcessMessage \/ AdminRequest
  PROVE  Kept
<1>0. TypeOK
  BY DEF IInv
<1>1. CASE ProcessBatch \/ HandleMessage \/ Backoff \/ RetryCancelled
  BY <1>0, <1>1, SameRows DEF ProcessBatch, HandleMessage, Backoff, RetryCancelled
<1>2. CASE Claim
  <2>1. cur \in Ids
    BY <1>2 DEF Claim, IInv, Position
  <2> QED BY <1>0, <1>2, <2>1, MarkAsRetryingKeeps DEF Claim
<1>3. CASE DiscardUnhandled \/ DiscardExhausted
  <2>1. NoHandlerReason \in Nat /\ ExhaustedReason \in Nat
    BY DEF NoHandlerReason, ExhaustedReason
  <2>2. cur \in Ids
    BY <1>3 DEF DiscardUnhandled, DiscardExhausted, IInv, Position
  <2> QED BY <1>0, <1>3, <2>1, <2>2, MarkAsDiscardedKeeps DEF DiscardUnhandled, DiscardExhausted
<1>4. CASE Resolve
  <2>1. cur \in Ids /\ copies[dlq[cur].orig] > 0
    BY <1>4 DEF Resolve, IInv, Position, Counted
  <2> QED BY <1>0, <1>4, <2>1, MarkAsResolvedKeeps DEF Resolve
<1>5. CASE AdminRequest
  <2>1. PICK a \in Admins : (\E i \in Ids : CheckRetry(a, i) \/ Discard(a, i)) \/ MarkRetry(a)
    BY <1>5 DEF AdminRequest
  <2>2. ASSUME NEW i \in Ids, CheckRetry(a, i) PROVE Kept
    BY <1>0, <2>2, SameRows DEF CheckRetry
  <2>3. ASSUME NEW i \in Ids, Discard(a, i) PROVE Kept
    <3>1. PICK reason \in Reasons, o \in Outcomes(TRUE, Disruptions) : MarkAsDiscarded(i, reason, o)
      BY <2>3 DEF Discard
    <3>2. reason \in Nat
      BY ConstantsAssumption
    <3> QED BY <1>0, <3>1, <3>2, MarkAsDiscardedKeeps
  <2>4. ASSUME MarkRetry(a) PROVE Kept
    <3>1. admin[a].id \in Ids
      BY <1>0, <2>4 DEF MarkRetry, TypeOK, Requests, None
    <3> QED BY <1>0, <2>4, <3>1, MarkAsRetryingKeeps DEF MarkRetry
  <2> QED BY <2>1, <2>2, <2>3, <2>4
<1> QED BY <1>1, <1>2, <1>3, <1>4, <1>5 DEF ProcessMessage

(***************************************************************************)
(* What this processor and the admins do to the queue and to the topic: no *)
(* row is added or lost or gets another message, and only a message that   *)
(* has a row is published.                                                 *)
(***************************************************************************)
LEMMA Effect ==
  ASSUME NEW b \in Nat, IInv(b), ProcessBatch \/ ProcessMessage \/ AdminRequest
  PROVE  /\ dlq' \in Seq(DeadLetterRow(Messages)) /\ DOMAIN dlq' = DOMAIN dlq
         /\ \A i \in DOMAIN dlq : dlq'[i].orig = dlq[i].orig
         /\ \A m \in Messages :
              /\ copies'[m] >= copies[m]
              /\ (\E i \in DOMAIN dlq : dlq[i].orig = m) \/ copies'[m] = copies[m]
<1>1. TypeOK /\ \A m \in Messages : copies[m] \in Nat
  BY DEF IInv, TypeOK
<1>2. Kept
  BY WorkKeeps
<1>3. /\ dlq' \in Seq(DeadLetterRow(Messages)) /\ DOMAIN dlq' = DOMAIN dlq
      /\ \A i \in DOMAIN dlq : dlq'[i].orig = dlq[i].orig
  BY <1>2 DEF Kept, Ids
<1>4. CASE HandleMessage
  <2>1. cur \in Ids /\ dlq[cur].orig \in Messages
    BY <1>1, <1>4, RowTypes DEF HandleMessage, IInv, Position
  <2>2. copies' = copies \/ copies' = [copies EXCEPT ![dlq[cur].orig] = @ + 1]
    BY <1>4 DEF HandleMessage
  <2> QED BY <1>1, <1>3, <2>1, <2>2 DEF TypeOK, Ids
<1>5. CASE ~HandleMessage
  <2>1. copies' = copies
    BY <1>5 DEF ProcessBatch, ProcessMessage, AdminRequest, Claim, Backoff, RetryCancelled,
       DiscardUnhandled, DiscardExhausted, Resolve, CheckRetry, Discard, MarkRetry
  <2> QED BY <1>1, <1>3, <2>1
<1> QED BY <1>4, <1>5

-----------------------------------------------------------------------------
(* The inductive invariant holds of every behaviour.                       *)
THEOREM SpecIInv == Spec => []IInv(0)
<1>1. Init => IInv(0)
  BY InitIInv
<1>2. IInv(0) /\ [Next]_vars => IInv(0)'
  BY NextIInv
<1> QED BY <1>1, <1>2, PTL DEF Spec

(* Every variable keeps its type: no reason outgrows its column, and a     *)
(* request or a batch never names a row that is not there.                 *)
THEOREM TypeCorrect == Spec => []TypeOK
<1>1. IInv(0) => TypeOK
  BY DEF IInv
<1> QED BY <1>1, SpecIInv, PTL

(* A resolved row was published, whatever the admins wrote to it.          *)
THEOREM ResolvedIsPublishedHolds == Spec => []ResolvedIsPublished
<1>1. IInv(0) => ResolvedIsPublished
  BY DEF IInv
<1> QED BY <1>1, SpecIInv, PTL

(* The queue publishes a message no more often than one RetryWithDiscard   *)
(* tries, across stale batches, admin requests, stops and crashes.         *)
THEOREM BoundedRepublishHolds == Spec => []BoundedRepublish
<1>1. IInv(0) => BoundedRepublish
  BY MaxRetriesPositive DEF IInv, Bounded, BoundedRepublish
<1> QED BY <1>1, SpecIInv, PTL

(* A message that left the queue has a row that counts a retry.            *)
THEOREM PublishedIsCountedHolds == Spec => []PublishedIsCounted
<1>1. IInv(0) => PublishedIsCounted
  BY DEF IInv, Recorded, PublishedIsCounted
<1> QED BY <1>1, SpecIInv, PTL

-----------------------------------------------------------------------------
(***************************************************************************)
(* The life of a row, from one state to the next: it keeps its message,    *)
(* its retry_count never falls, it is not pending again once it was        *)
(* claimed or discarded, and it becomes resolved only if its message was   *)
(* published.                                                              *)
(***************************************************************************)
MovesOn(i) ==
  /\ i \in DOMAIN dlq'
  /\ dlq'[i].orig = dlq[i].orig
  /\ dlq'[i].retries >= dlq[i].retries
  /\ dlq'[i].status = "pending" => dlq[i].status = "pending"
  /\ dlq'[i].status = "resolved" => dlq[i].status = "resolved" \/ copies[dlq[i].orig] > 0

(* No step of the processor or of an admin takes a row back.               *)
LEMMA RowStep ==
  ASSUME NEW b \in Nat, IInv(b), [Next]_vars, NEW i \in Ids
  PROVE  MovesOn(i)
<1>1. CASE ProcessBatch \/ ProcessMessage \/ AdminRequest
  <2>1. Kept
    BY <1>1, WorkKeeps
  <2> QED BY <2>1 DEF Kept, MovesOn
<1>2. ASSUME NEW m \in Messages, Create(m) PROVE MovesOn(i)
  <2>1. dlq \in Seq(DeadLetterRow(Messages)) /\ i \in 1 .. Len(dlq)
    BY DEF IInv, TypeOK, Ids
  <2>2. dlq' = Append(dlq, NewDeadLetterMessage(m))
    BY <1>2 DEF Create
  <2>3. i \in DOMAIN dlq' /\ dlq'[i] = dlq[i]
    BY <2>1, <2>2 DEF NewDeadLetterMessage
  <2> QED BY <2>3, RowTypes DEF MovesOn, IInv
<1>3. CASE dlq' = dlq
  BY <1>3, RowTypes DEF MovesOn, IInv, Ids
<1> QED BY <1>1, <1>2, <1>3
     DEF Next, ContextExpires, Stop, Exit, Close, Crash, Start, vars

(***************************************************************************)
(* The statements of the processor and of the admins do not look at the    *)
(* status that they overwrite.  Even so, and however they interleave, a    *)
(* row only moves on: an admin that marks a row for retry after it was     *)
(* resolved or discarded does not get it polled again.                     *)
(***************************************************************************)
THEOREM RowsMoveOn == Spec => [][\A i \in Ids : MovesOn(i)]_vars
<1>1. IInv(0) /\ [Next]_vars => \A i \in Ids : MovesOn(i)
  BY RowStep
<1> QED BY <1>1, SpecIInv, PTL DEF Spec
=============================================================================
