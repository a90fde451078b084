-------------------------- MODULE OrderServiceProofs --------------------------
(***************************************************************************)
(* The theorems about OrderService, for any orders, requests, statuses and *)
(* details: the events of an order and the order agree.  The lemmas also   *)
(* serve ShipmentServiceProofs, whose requests take up the order later and *)
(* build the event inside the transaction.                                 *)
(***************************************************************************)
EXTENDS OrderService, SequenceTheorems, TLAPS

(* A transaction that has written its order and is not over.               *)
Writing == {"insert", "commit"}

Working(r) == job[r] # NoJob

(* Nobody else knows an order that is being created.                       *)
Alone ==
  \A r, q \in Requests :
    Working(r) /\ Working(q) /\ job[r].type = "created" /\ job[q].order = job[r].order
      => q = r

(* What a request may rely on about the order that it read.                *)
Grounded ==
  \A r \in Requests : Working(r) =>
    /\ job[r].type = "created" <=> orders[job[r].order].status = "absent"
    /\ pc[r] \in Writing /\ job[r].type # "created" => Exists(job[r].order)

(* The lock of a row.                                                      *)
Exclusive ==
  \A r, q \in Requests :
    pc[r] \in Writing /\ pc[q] \in Writing /\ job[r].order = job[q].order => r = q

(* The times of the events: nothing is younger than the clock, and whoever *)
(* read an order built its event after that of the order's creation; 0 is  *)
(* the time of an event that is not built yet.                             *)
Aged ==
  /\ \A i \in DOMAIN outbox :
       outbox[i].created <= clock /\ orders[outbox[i].order].status # "absent"
  /\ \A r \in Requests : Working(r) /\ job[r].created # 0 =>
       \A i \in DOMAIN outbox :
         outbox[i].order = job[r].order /\ outbox[i].type = "created"
           => outbox[i].created < job[r].created
  /\ \A r \in Requests : Working(r) => job[r].created <= clock

Dated == \A r \in Requests : pc[r] = "commit" => job[r].created # 0

IInv ==
  /\ TypeOK
  /\ Alone /\ Grounded /\ Exclusive /\ Aged /\ Dated
  /\ StatusTold
  /\ CreatedComesFirst

(* Here the event is built before the transaction.                         *)
BuiltFirst == \A r \in Requests : pc[r] \in {"write", "insert"} => job[r].created # 0

(* A request takes up its work, before or after it builds the event.       *)
Takes(r, type, o, row, step) ==
  /\ pc[r] = "new"
  /\ pc' = [pc EXCEPT ![r] = step]
  /\ job' = [job EXCEPT ![r] = [type |-> type, order |-> o, row |-> row, created |-> 0]]

-----------------------------------------------------------------------------
(* What a request carries is never NoJob.                                  *)
LEMMA JobIsNoNoJob == ASSUME NEW j \in Jobs PROVE j # NoJob
BY DEF Jobs, NoJob, Types

(* What is in the outbox is an event.                                      *)
LEMMA EventTypes ==
  ASSUME TypeOK
  PROVE  /\ DOMAIN outbox = 1 .. Len(outbox) /\ Len(outbox) \in Nat
         /\ \A i \in DOMAIN outbox : outbox[i] \in Events /\ outbox[i].created \in Nat
<1>1. outbox \in Seq(Events)
  BY DEF TypeOK
<1>2. \A e \in Events : e.created \in Nat
  BY DEF Events
<1> QED BY <1>1, <1>2

(* A new request takes up its work.                                        *)
LEMMA TakesEffect ==
  ASSUME TypeOK, NEW r \in Requests, NEW type \in Types, NEW o \in Orders,
         NEW row \in [status : Statuses, details : Details],
         NEW step \in {"build", "write"}, Takes(r, type, o, row, step)
  PROVE  /\ pc[r] = "new" /\ job[r] = NoJob
         /\ pc' \in [Requests -> Steps] /\ pc'[r] = step
         /\ job' \in [Requests -> Jobs \cup {NoJob}]
         /\ Working(r)' /\ job'[r].type = type /\ job'[r].order = o
         /\ job'[r].created = 0
         /\ \A q \in Requests \ {r} : pc'[q] = pc[q] /\ job'[q] = job[q]
         /\ \A q \in Requests : job'[q] = NoJob <=> pc'[q] \in {"new", "done"}
<1> DEFINE j == [type |-> type, order |-> o, row |-> row, created |-> 0]
<1>1. j \in Jobs /\ j # NoJob
  BY JobIsNoNoJob DEF Jobs
<1>2. /\ pc[r] = "new"
      /\ pc' = [pc EXCEPT ![r] = step]
      /\ job' = [job EXCEPT ![r] = j]
  BY DEF Takes
<1>3. j.type = type /\ j.order = o /\ j.created = 0
  OBVIOUS
<1> HIDE DEF j
<1> QED BY <1>1, <1>2, <1>3 DEF TypeOK, Steps, Working

(* A request ends, with its transaction, if it had one.                    *)
LEMMA EndEffect ==
  ASSUME TypeOK, NEW r \in Requests, End(r)
  PROVE  /\ pc' \in [Requests -> Steps] /\ pc'[r] = "done"
         /\ job' \in [Requests -> Jobs \cup {NoJob}] /\ job'[r] = NoJob
         /\ \A q \in Requests \ {r} : pc'[q] = pc[q] /\ job'[q] = job[q]
         /\ \A q \in Requests : job'[q] = NoJob <=> pc'[q] \in {"new", "done"}
BY DEF TypeOK, End, Steps

(* The initial states satisfy the invariant.                               *)
LEMMA InitIInv == Init => IInv
<1> SUFFICES ASSUME Init PROVE IInv
  OBVIOUS
<1>1. TypeOK
  BY DEF Init, TypeOK, Rows, Steps
<1>2. \A o \in Orders : ~Exists(o)
  BY ConstantsAssumption DEF Init, Exists
<1> QED BY <1>1, <1>2
     DEF Init, IInv, Alone, Grounded, Exclusive, Aged, Dated, StatusTold, CreatedComesFirst,
         Working, Writing

(* The steps that leave the tables and the clock alone and end a request.  *)
LEMMA EndIInv ==
  ASSUME IInv, NEW r \in Requests, End(r), UNCHANGED <<orders, outbox, clock>>
  PROVE  IInv'
<1>1. TypeOK'
  BY EndEffect DEF IInv, TypeOK
<1>2. Alone'
  BY EndEffect DEF IInv, Alone, Working
<1>3. Grounded'
  BY EndEffect DEF IInv, Grounded, Working, Exists
<1>4. Exclusive'
  BY EndEffect DEF IInv, Exclusive, Writing
<1>5. Aged' /\ Dated'
  BY EndEffect DEF IInv, Aged, Dated, Working
<1>6. StatusTold' /\ CreatedComesFirst'
  BY DEF IInv, StatusTold, CreatedComesFirst, Exists, Latest
<1> QED BY <1>1, <1>2, <1>3, <1>4, <1>5, <1>6 DEF IInv

(* Failures, and updates that find their order deleted.                    *)
LEMMA FailIInv ==
  ASSUME IInv, NEW r \in Requests, Fail(r)
  PROVE  IInv'
BY EndIInv DEF Fail

(* The requests that read, or make up, an order.                           *)
LEMMA TakesIInv ==
  ASSUME IInv, NEW r \in Requests, NEW type \in Types, NEW o \in Orders,
         NEW row \in [status : Statuses, details : Details],
         NEW step \in {"build", "write"}, Takes(r, type, o, row, step),
         type = "created" <=> orders[o].status = "absent",
         type = "created" => InFlight(o) = {},
         UNCHANGED <<orders, outbox, clock>>
  PROVE  IInv'
<1>1. TypeOK'
  BY TakesEffect DEF IInv, TypeOK
<1>2. Alone'
  <2>1. \A q \in Requests : Working(q) /\ job[q].order = o => job[q].type # "created" /\ type # "created"
    BY DEF IInv, Grounded, InFlight, Working
  <2> QED BY <2>1, TakesEffect DEF IInv, Alone, Working
<1>3. Grounded'
  BY TakesEffect DEF IInv, Grounded, Working, Exists, Writing
<1>4. Exclusive'
  BY TakesEffect DEF IInv, Exclusive, Writing
<1>5. Aged' /\ Dated'
  BY TakesEffect DEF IInv, TypeOK, Aged, Dated, Working
<1>6. StatusTold' /\ CreatedComesFirst'
  BY DEF IInv, StatusTold, CreatedComesFirst, Exists, Latest
<1> QED BY <1>1, <1>2, <1>3, <1>4, <1>5, <1>6 DEF IInv

LEMMA CarryIInv ==
  ASSUME IInv, NEW r \in Requests, NEW type \in Types, NEW o \in Orders,
         NEW row \in [status : Statuses, details : Details], Carry(r, type, o, row),
         type = "created" <=> orders[o].status = "absent",
         type = "created" => InFlight(o) = {},
         UNCHANGED <<orders, outbox, clock>>
  PROVE  IInv'
<1>1. Takes(r, type, o, row, "build")
  BY DEF Carry, Takes
<1> QED BY <1>1, TakesIInv

(* A row that exists, with one field replaced, can be written.             *)
LEMMA CopyType ==
  ASSUME TypeOK, NEW o \in Orders, Exists(o)
  PROVE  /\ orders[o].status # "absent" /\ orders[o].status # "deleted"
         /\ \A d \in Details : [orders[o] EXCEPT !.details = d] \in [status : Statuses, details : Details]
         /\ \A s \in Statuses : [orders[o] EXCEPT !.status = s] \in [status : Statuses, details : Details]
BY ConstantsAssumption DEF TypeOK, Exists, Rows

LEMMA CreateOrderIInv ==
  ASSUME IInv, NEW r \in Requests, NEW o \in Orders, NEW d \in Details, CreateOrder(r, o, d)
  PROVE  IInv'
<1>1. [status |-> "pending", details |-> d] \in [status : Statuses, details : Details]
  BY ConstantsAssumption
<1> QED BY <1>1, CarryIInv DEF CreateOrder, NewOrder, Types

LEMMA UpdateOrderIInv ==
  ASSUME IInv, NEW r \in Requests, NEW o \in Orders, NEW d \in Details, UpdateOrder(r, o, d)
  PROVE  IInv'
<1>1. Exists(o) /\ TypeOK
  BY DEF UpdateOrder, IInv
<1> QED BY <1>1, CopyType, CarryIInv DEF UpdateOrder, Types

LEMMA UpdateOrderStatusIInv ==
  ASSUME IInv, NEW r \in Requests, NEW o \in Orders, NEW s, UpdateOrderStatus(r, o, s)
  PROVE  IInv'
<1>1. Exists(o) /\ s \in Statuses /\ TypeOK
  BY DEF UpdateOrderStatus, IInv
<1> QED BY <1>1, CopyType, CarryIInv DEF UpdateOrderStatus, Types

(* The event is younger than everything that is in the outbox.             *)
LEMMA BuiltIInv ==
  ASSUME IInv, NEW r \in Requests, Working(r),
         NEW step \in {"write", "insert"}, step = "insert" <=> pc[r] \in Writing,
         pc' = [pc EXCEPT ![r] = step],
         job' = [job EXCEPT ![r].created = clock + 1],
         clock' = clock + 1, UNCHANGED <<orders, outbox>>
  PROVE  IInv'
<1>1. /\ Working(r) /\ job[r] \in Jobs /\ clock \in Nat
      /\ job \in [Requests -> Jobs \cup {NoJob}] /\ pc \in [Requests -> Steps]
  BY DEF IInv, TypeOK, Working
<1> DEFINE j == [job[r] EXCEPT !.created = clock + 1]
<1>2. /\ j \in Jobs /\ j # NoJob
      /\ j.type = job[r].type /\ j.order = job[r].order /\ j.created = clock + 1
  BY <1>1, JobIsNoNoJob DEF Jobs
<1>3. /\ pc' = [pc EXCEPT ![r] = step] /\ job' = [job EXCEPT ![r] = j]
      /\ UNCHANGED <<orders, outbox>> /\ clock' = clock + 1
  OBVIOUS
<1> HIDE DEF j
<1>4. /\ pc' \in [Requests -> Steps] /\ pc'[r] = step
      /\ job' \in [Requests -> Jobs \cup {NoJob}] /\ job'[r] = j
      /\ \A q \in Requests \ {r} : pc'[q] = pc[q] /\ job'[q] = job[q]
  BY <1>1, <1>2, <1>3 DEF Steps
<1>5. TypeOK'
  BY <1>1, <1>2, <1>3, <1>4 DEF IInv, TypeOK
<1>6. Alone'
  BY <1>1, <1>2, <1>4 DEF IInv, Alone, Working
<1>7. Grounded'
  BY <1>1, <1>2, <1>3, <1>4 DEF IInv, Grounded, Working, Exists, Writing
<1>8. Exclusive'
  BY <1>2, <1>4 DEF IInv, Exclusive, Writing
<1>9. Aged' /\ Dated'
  <2>1. \A i \in DOMAIN outbox : outbox[i].created \in Nat
    BY EventTypes DEF IInv
  <2>2. \A q \in Requests : Working(q) => job[q].created \in Nat
    BY <1>1 DEF Working, Jobs
  <2> QED BY <1>1, <1>2, <1>3, <1>4, <2>1, <2>2 DEF IInv, Aged, Dated, Working
<1>10. StatusTold' /\ CreatedComesFirst'
  BY <1>3 DEF IInv, StatusTold, CreatedComesFirst, Exists, Latest
<1> QED BY <1>5, <1>6, <1>7, <1>8, <1>9, <1>10 DEF IInv

LEMMA NewEventIInv ==
  ASSUME IInv, NEW r \in Requests, NewEvent(r)
  PROVE  IInv'
<1>1. pc[r] = "build" /\ Working(r) /\ pc[r] \notin Writing
  BY DEF NewEvent, IInv, TypeOK, Working, Writing
<1> QED BY <1>1, BuiltIInv DEF NewEvent

(* The UPDATE takes the lock that nobody has.                              *)
LEMMA UpdateInTxIInv ==
  ASSUME IInv, NEW r \in Requests, UpdateInTx(r)
  PROVE  IInv'
<1>1. CASE job[r].type = "created" \/ Exists(job[r].order)
  <2>1. /\ pc[r] = "write" /\ ~Locked(job[r].order)
        /\ pc' = [pc EXCEPT ![r] = "insert"] /\ UNCHANGED <<orders, outbox, clock, job>>
    BY <1>1 DEF UpdateInTx
  <2>2. /\ pc' \in [Requests -> Steps] /\ pc'[r] = "insert"
        /\ \A q \in Requests \ {r} : pc'[q] = pc[q]
    BY <2>1 DEF IInv, TypeOK, Steps
  <2>3. \A q \in Requests : pc[q] \in Writing => Working(q) /\ job[q].order # job[r].order
    BY <2>1 DEF IInv, TypeOK, Locked, InFlight, Working, Writing
  <2>4. TypeOK'
    BY <2>1, <2>2 DEF IInv, TypeOK
  <2>5. Alone' /\ Grounded'
    BY <1>1, <2>1, <2>2 DEF IInv, Alone, Grounded, Working, Exists, Writing
  <2>6. Exclusive'
    BY <2>1, <2>2, <2>3 DEF IInv, Exclusive, Writing
  <2>7. Aged' /\ Dated'
    BY <2>1, <2>2 DEF IInv, Aged, Dated, Working
  <2>8. StatusTold' /\ CreatedComesFirst'
    BY <2>1 DEF IInv, StatusTold, CreatedComesFirst, Exists, Latest
  <2> QED BY <2>4, <2>5, <2>6, <2>7, <2>8 DEF IInv
<1>2. CASE ~(job[r].type = "created" \/ Exists(job[r].order))
  BY <1>2, EndIInv DEF UpdateInTx
<1> QED BY <1>1, <1>2

LEMMA InsertMessageIInv ==
  ASSUME IInv, NEW r \in Requests, InsertMessage(r), job[r].created # 0
  PROVE  IInv'
<1>1. /\ pc[r] = "insert" /\ pc' = [pc EXCEPT ![r] = "commit"]
      /\ UNCHANGED <<orders, outbox, clock, job>>
  BY DEF InsertMessage
<1>2. /\ pc' \in [Requests -> Steps] /\ pc'[r] = "commit"
      /\ \A q \in Requests \ {r} : pc'[q] = pc[q]
  BY <1>1 DEF IInv, TypeOK, Steps
<1>3. TypeOK'
  BY <1>1, <1>2 DEF IInv, TypeOK
<1>4. Alone' /\ Grounded' /\ Exclusive'
  BY <1>1, <1>2 DEF IInv, Alone, Grounded, Exclusive, Working, Exists, Writing
<1>5. Aged' /\ Dated'
  BY <1>1, <1>2 DEF IInv, Aged, Dated, Working
<1>6. StatusTold' /\ CreatedComesFirst'
  BY <1>1 DEF IInv, StatusTold, CreatedComesFirst, Exists, Latest
<1> QED BY <1>3, <1>4, <1>5, <1>6 DEF IInv


(***************************************************************************)
(* A commit writes an order that the transaction has locked, and appends   *)
(* the event of the same order.                                            *)
(***************************************************************************)
LEMMA CommitEffect ==
  ASSUME IInv, NEW r \in Requests, Commit(r)
  PROVE  /\ job[r] \in Jobs /\ Working(r) /\ pc[r] = "commit"
         /\ orders' = [orders EXCEPT ![job[r].order] = job[r].row]
         /\ orders' \in [Orders -> Rows] /\ orders'[job[r].order] = job[r].row
         /\ \A o \in Orders \ {job[r].order} : orders'[o] = orders[o]
         /\ job[r].order \in Orders /\ job[r].row.status \in Statuses
         /\ outbox' \in Seq(Events)
         /\ DOMAIN outbox = 1 .. Len(outbox) /\ Len(outbox) \in Nat
         /\ DOMAIN outbox' = 1 .. Len(outbox) + 1
         /\ \A i \in 1 .. Len(outbox) : outbox'[i] = outbox[i]
         /\ outbox'[Len(outbox) + 1].type = job[r].type
         /\ outbox'[Len(outbox) + 1].order = job[r].order
         /\ outbox'[Len(outbox) + 1].status = job[r].row.status
         /\ outbox'[Len(outbox) + 1].created = job[r].created
         /\ clock' = clock
         /\ End(r)
<1>1. /\ pc[r] = "commit" /\ End(r) /\ clock' = clock
      /\ orders' = [orders EXCEPT ![job[r].order] = job[r].row]
      /\ outbox' = Append(outbox, Event(job[r]))
  BY DEF Commit
<1>2. job[r] \in Jobs /\ Working(r) /\ orders \in [Orders -> Rows] /\ outbox \in Seq(Events)
  BY <1>1 DEF IInv, TypeOK, Working
<1>3. /\ job[r].order \in Orders /\ job[r].row \in Rows /\ job[r].row.status \in Statuses
      /\ Event(job[r]) \in Events
      /\ Event(job[r]).type = job[r].type /\ Event(job[r]).order = job[r].order
      /\ Event(job[r]).status = job[r].row.status /\ Event(job[r]).created = job[r].created
  BY <1>2 DEF Jobs, Rows, Events, Event
<1>4. /\ orders' \in [Orders -> Rows] /\ orders'[job[r].order] = job[r].row
      /\ \A o \in Orders \ {job[r].order} : orders'[o] = orders[o]
  BY <1>1, <1>2, <1>3
<1> DEFINE e == Event(job[r])
<1>5. outbox' = Append(outbox, e) /\ e \in Events
  BY <1>1, <1>3
<1>6. /\ outbox' \in Seq(Events)
      /\ DOMAIN outbox = 1 .. Len(outbox) /\ Len(outbox) \in Nat
      /\ DOMAIN outbox' = 1 .. Len(outbox) + 1
      /\ \A i \in 1 .. Len(outbox) : outbox'[i] = outbox[i]
      /\ outbox'[Len(outbox) + 1] = e
  <2> HIDE DEF e
  <2> QED BY <1>2, <1>5
<1> QED BY <1>1, <1>2, <1>3, <1>4, <1>6

LEMMA CommitIInv ==
  ASSUME IInv, NEW r \in Requests, Commit(r)
  PROVE  IInv'
<1> DEFINE o == job[r].order
           n == Len(outbox) + 1
<1>1. TypeOK
  BY DEF IInv
<1>2. TypeOK'
  BY <1>1, CommitEffect, EndEffect DEF TypeOK
<1>3. Alone' /\ Exclusive' /\ Dated'
  BY <1>1, CommitEffect, EndEffect DEF IInv, Alone, Exclusive, Dated, Working, Writing
<1>4. \A q \in Requests \ {r} : Working(q) /\ job[q].order = o => job[q].type # "created"
  BY CommitEffect DEF IInv, Alone
<1>5. /\ o \in Orders /\ orders'[o].status \in Statuses
      /\ orders'[o].status \notin {"absent", "deleted"}
  BY CommitEffect, ConstantsAssumption
<1>6. Grounded'
  <2> SUFFICES ASSUME NEW q \in Requests, Working(q)'
               PROVE  /\ job'[q].type = "created" <=> orders'[job'[q].order].status = "absent"
                      /\ pc'[q] \in Writing /\ job'[q].type # "created"
                           => orders'[job'[q].order].status \in Statuses
    BY DEF Grounded, Exists
  <2>1. q # r /\ job'[q] = job[q] /\ pc'[q] = pc[q] /\ Working(q) /\ job[q] \in Jobs
    BY <1>1, CommitEffect, EndEffect DEF Working, TypeOK
  <2>2. job[q].order \in Orders
    BY <2>1 DEF Jobs
  <2>3. CASE job[q].order = o
    BY <1>4, <1>5, <2>1, <2>3
  <2>4. CASE job[q].order # o
    BY <2>1, <2>2, <2>4, CommitEffect DEF IInv, Grounded, Exists
  <2> QED BY <2>3, <2>4
<1>7. \A i \in DOMAIN outbox : outbox[i].order \in Orders /\ outbox[i].created \in Nat
  BY <1>1, EventTypes DEF Events
<1>8. job[r].type = "created" => \A i \in DOMAIN outbox : outbox[i].order # o
  BY CommitEffect DEF IInv, Aged, Grounded
<1>9. Aged'
  <2>1. ASSUME NEW i \in DOMAIN outbox'
        PROVE  outbox'[i].created <= clock' /\ orders'[outbox'[i].order].status # "absent"
    <3>1. CASE i = n
      BY <1>5, <3>1, CommitEffect DEF IInv, Aged
    <3>2. CASE i # n
      BY <1>5, <1>7, <2>1, <3>2, CommitEffect DEF IInv, Aged
    <3> QED BY <3>1, <3>2
  <2>2. ASSUME NEW q \in Requests, Working(q)', job'[q].created # 0, NEW i \in DOMAIN outbox',
               outbox'[i].order = job'[q].order, outbox'[i].type = "created"
        PROVE  outbox'[i].created < job'[q].created
    <3>1. q # r /\ job'[q] = job[q] /\ pc'[q] = pc[q] /\ Working(q)
      BY <1>1, <2>2, CommitEffect, EndEffect DEF Working
    <3>2. CASE i # n
      BY <2>2, <3>1, <3>2, CommitEffect DEF IInv, Aged
    <3>3. CASE i = n
      BY <2>2, <3>1, <3>3, CommitEffect DEF IInv, Alone
    <3> QED BY <3>2, <3>3
  <2>3. \A q \in Requests : Working(q)' => job'[q].created <= clock'
    BY <1>1, CommitEffect, EndEffect DEF IInv, Aged, Working
  <2> QED BY <2>1, <2>2, <2>3 DEF Aged
<1>10. StatusTold'
  <2> SUFFICES ASSUME NEW k \in Orders, Exists(k)'
               PROVE  \E i \in DOMAIN outbox' : Latest(k, i)' /\ outbox'[i].status = orders'[k].status
    BY DEF StatusTold
  <2>1. CASE k = o
    BY <2>1, CommitEffect DEF Latest
  <2>2. CASE k # o
    <3>1. orders'[k] = orders[k] /\ Exists(k)
      BY <2>2, CommitEffect DEF Exists
    <3>2. PICK i \in DOMAIN outbox : Latest(k, i) /\ outbox[i].status = orders[k].status
      BY <3>1 DEF IInv, StatusTold
    <3> QED BY <2>2, <3>1, <3>2, CommitEffect DEF Latest
  <2> QED BY <2>1, <2>2
<1>11. CreatedComesFirst'
  <2> SUFFICES ASSUME NEW i \in DOMAIN outbox', NEW j \in DOMAIN outbox',
                      outbox'[i].order = outbox'[j].order, outbox'[i].type = "created", i # j
               PROVE  outbox'[j].type # "created" /\ outbox'[i].created < outbox'[j].created
    BY DEF CreatedComesFirst
  <2>1. CASE i = n
    BY <1>8, <2>1, CommitEffect
  <2>2. CASE j = n
    BY <1>8, <2>2, CommitEffect DEF IInv, Aged, Dated
  <2>3. CASE i # n /\ j # n
    BY <2>3, CommitEffect DEF IInv, CreatedComesFirst
  <2> QED BY <2>1, <2>2, <2>3
<1> QED BY <1>2, <1>3, <1>6, <1>9, <1>10, <1>11 DEF IInv

(* A deleted order is one that nobody was writing.                         *)
LEMMA DeleteOrderIInv ==
  ASSUME IInv, NEW r \in Requests, NEW o \in Orders, DeleteOrder(r, o)
  PROVE  IInv'
<1>1. /\ pc[r] = "new" /\ Exists(o) /\ ~Locked(o)
      /\ orders' = [orders EXCEPT ![o].status = "deleted"]
      /\ pc' = [pc EXCEPT ![r] = "done"]
      /\ UNCHANGED <<outbox, clock, job>>
  BY DEF DeleteOrder
<1>2. /\ pc' \in [Requests -> Steps] /\ pc'[r] = "done"
      /\ \A q \in Requests \ {r} : pc'[q] = pc[q]
      /\ ~Working(r)
  BY <1>1 DEF IInv, TypeOK, Steps, Working
<1>3. /\ orders' \in [Orders -> Rows]
      /\ orders[o].status # "absent" /\ orders'[o].status = "deleted" /\ ~Exists(o)'
      /\ \A k \in Orders \ {o} : orders'[k] = orders[k]
  BY <1>1, ConstantsAssumption DEF IInv, TypeOK, Exists, Rows
<1>4. \A q \in Requests : Working(q) => job[q] \in Jobs /\ job[q].order \in Orders
  BY DEF IInv, TypeOK, Working, Jobs
<1>5. \A q \in Requests : Working(q) /\ pc[q] \in Writing => job[q].order # o
  BY <1>1 DEF Locked, InFlight, Working, Writing
<1>6. TypeOK'
  BY <1>1, <1>2, <1>3 DEF IInv, TypeOK
<1>7. Alone' /\ Exclusive' /\ Dated'
  BY <1>1, <1>2 DEF IInv, Alone, Exclusive, Dated, Working, Writing
<1>8. Grounded'
  BY <1>1, <1>2, <1>3, <1>4, <1>5 DEF IInv, Grounded, Working, Exists, Writing
<1>9. Aged'
  <2>1. \A i \in DOMAIN outbox : outbox[i].order \in Orders
    BY EventTypes DEF IInv, Events
  <2> QED BY <1>1, <1>2, <1>3, <2>1 DEF IInv, Aged, Working
<1>10. StatusTold' /\ CreatedComesFirst'
  BY <1>1, <1>3 DEF IInv, StatusTold, CreatedComesFirst, Exists, Latest
<1> QED BY <1>6, <1>7, <1>8, <1>9, <1>10 DEF IInv

-----------------------------------------------------------------------------
(* The steps that the order endpoints' requests make.                      *)
LEMMA RequestIInv ==
  ASSUME IInv, NEW r \in Requests, Request(r)
  PROVE  IInv'
<1>1. ASSUME NEW o \in Orders, NEW d \in Details, CreateOrder(r, o, d) \/ UpdateOrder(r, o, d)
      PROVE  IInv'
  BY <1>1, CreateOrderIInv, UpdateOrderIInv
<1>2. ASSUME NEW o \in Orders, NEW s, UpdateOrderStatus(r, o, s)
      PROVE  IInv'
  BY <1>2, UpdateOrderStatusIInv
<1>3. ASSUME NEW o \in Orders, DeleteOrder(r, o)
      PROVE  IInv'
  BY <1>3, DeleteOrderIInv
<1> QED BY <1>1, <1>2, <1>3 DEF Request

LEMMA TransactionIInv ==
  ASSUME IInv, NEW r \in Requests, Transaction(r), pc[r] = "insert" => job[r].created # 0
  PROVE  IInv'
<1>1. CASE InsertMessage(r)
  BY <1>1, InsertMessageIInv DEF InsertMessage
<1> QED BY <1>1, UpdateInTxIInv, CommitIInv, FailIInv DEF Transaction

(* A step that changes nothing here.                                       *)
LEMMA StutterIInv == IInv /\ UNCHANGED vars => IInv'
BY DEF vars, IInv, TypeOK, Alone, Grounded, Exclusive, Aged, Dated, StatusTold,
   CreatedComesFirst, Working, Exists, Writing, Latest

(* A request's event is built when it begins its transaction.              *)
LEMMA BuiltFirstStep ==
  ASSUME TypeOK, NEW r \in Requests, Request(r) \/ NewEvent(r) \/ Transaction(r),
         NEW q \in Requests, pc[q] \in {"write", "insert"} => job[q].created # 0
  PROVE  (pc[q] \in {"write", "insert"} => job[q].created # 0)'
<1>1. CASE Request(r)
  BY <1>1 DEF Request, CreateOrder, UpdateOrder, UpdateOrderStatus, DeleteOrder, Carry, TypeOK
<1>2. CASE NewEvent(r)
  <2>1. pc[r] = "build" /\ job[r] \in Jobs /\ clock \in Nat
    BY <1>2 DEF NewEvent, TypeOK
  <2>2. job'[r].created = clock + 1 /\ \A p \in Requests \ {r} : job'[p] = job[p] /\ pc'[p] = pc[p]
    BY <1>2, <2>1 DEF NewEvent, TypeOK, Jobs
  <2> QED BY <2>1, <2>2
<1>3. CASE Transaction(r)
  BY <1>3 DEF Transaction, UpdateInTx, InsertMessage, Commit, Fail, End, TypeOK
<1> QED BY <1>1, <1>2, <1>3

(* The invariant is inductive.                                             *)
LEMMA NextIInv == IInv /\ BuiltFirst /\ [Next]_vars => IInv' /\ BuiltFirst'
<1> SUFFICES ASSUME IInv, BuiltFirst, [Next]_vars PROVE IInv' /\ BuiltFirst'
  OBVIOUS
<1>1. CASE UNCHANGED vars
  BY <1>1, StutterIInv DEF vars, BuiltFirst
<1>2. ASSUME NEW r \in Requests, Request(r) \/ NewEvent(r) \/ Transaction(r)
      PROVE  IInv' /\ BuiltFirst'
  <2>1. IInv'
    BY <1>2, RequestIInv, NewEventIInv, TransactionIInv DEF BuiltFirst
  <2>2. BuiltFirst'
    BY <1>2, BuiltFirstStep DEF IInv, BuiltFirst
  <2> QED BY <2>1, <2>2
<1> QED BY <1>1, <1>2 DEF Next

LEMMA SpecIInv == Spec => []IInv
<1>1. Init => IInv /\ BuiltFirst
  BY InitIInv DEF Init, BuiltFirst
<1> QED BY <1>1, NextIInv, PTL DEF Spec

(* Every variable keeps its type; a request that has ended carries nothing. *)
THEOREM TypeCorrect == Spec => []TypeOK
<1>1. IInv => TypeOK
  BY DEF IInv
<1> QED BY <1>1, SpecIInv, PTL

(* The event committed last for an order tells the order's status.         *)
THEOREM StatusToldHolds == Spec => []StatusTold
<1>1. IInv => StatusTold
  BY DEF IInv
<1> QED BY <1>1, SpecIInv, PTL

(* The event of an order's creation is older than its other events.        *)
THEOREM CreatedComesFirstHolds == Spec => []CreatedComesFirst
<1>1. IInv => CreatedComesFirst
  BY DEF IInv
<1> QED BY <1>1, SpecIInv, PTL

(* One step neither revives a deleted order nor tells of it.               *)
LEMMA DeletedStep ==
  ASSUME IInv, NEW r \in Requests, Request(r) \/ NewEvent(r) \/ Transaction(r),
         NEW k \in Orders, orders[k].status = "deleted"
  PROVE  /\ orders'[k].status = "deleted"
         /\ \A i \in DOMAIN outbox' \ DOMAIN outbox : outbox'[i].order # k
<1>1. CASE Commit(r)
  <2>1. orders[job[r].order].status # "deleted"
    BY <1>1, CommitEffect, ConstantsAssumption DEF IInv, Grounded, Exists, Writing
  <2> QED BY <1>1, <2>1, CommitEffect
<1>2. ASSUME NEW o \in Orders, DeleteOrder(r, o)
      PROVE  orders'[k].status = "deleted" /\ outbox' = outbox
  BY <1>2 DEF DeleteOrder, IInv, TypeOK, Rows
<1>3. ASSUME UNCHANGED <<orders, outbox>>
      PROVE  orders'[k].status = "deleted" /\ outbox' = outbox
  BY <1>3
<1> QED BY <1>1, <1>2, <1>3
     DEF Request, Transaction, CreateOrder, UpdateOrder, UpdateOrderStatus, NewEvent, UpdateInTx,
         InsertMessage, Fail

(* No event tells of an order that is deleted.                             *)
THEOREM NothingAfterDeleteHolds == Spec => NothingAfterDelete
<1>1. IInv /\ [Next]_vars
        => [\A o \in Orders : orders[o].status = "deleted" =>
              /\ orders'[o].status = "deleted"
              /\ \A i \in DOMAIN outbox' \ DOMAIN outbox : outbox'[i].order # o]_vars
  <2> SUFFICES ASSUME IInv, Next, NEW k \in Orders, orders[k].status = "deleted"
               PROVE  /\ orders'[k].status = "deleted"
                      /\ \A i \in DOMAIN outbox' \ DOMAIN outbox : outbox'[i].order # k
    BY DEF vars
  <2> QED BY DeletedStep DEF Next
<1> QED BY <1>1, SpecIInv, PTL DEF Spec, NothingAfterDelete

-----------------------------------------------------------------------------
(***************************************************************************)
(* Refinement.  What a step does to the orders and to the outbox is one    *)
(* step of OrderLog, or nothing: that of a commit or of a deletion.        *)
(***************************************************************************)
MapLog == [i \in DOMAIN outbox |-> Told(outbox[i])]

(* An order that is being created is pending.                              *)
NewIsPending ==
  \A r \in Requests : Working(r) /\ job[r].type = "created" => job[r].row.status = "pending"

(* To tell is to append to the abstract log.                               *)
LEMMA ToldAppend ==
  ASSUME NEW s \in Seq(Events), NEW e \in Events
  PROVE  [i \in DOMAIN Append(s, e) |-> Told(Append(s, e)[i])]
           = Append([i \in DOMAIN s |-> Told(s[i])], Told(e))
<1> DEFINE T == [type : Types, order : Orders, status : Statuses]
           t == [i \in DOMAIN s |-> Told(s[i])]
           both == [i \in DOMAIN Append(s, e) |-> Told(Append(s, e)[i])]
           one == Told(e)
<1>1. DOMAIN s = 1 .. Len(s) /\ Len(s) \in Nat
  OBVIOUS
<1>2. \A x \in Events : Told(x) \in T
  BY DEF Events, Told
<1>3. \A i \in 1 .. Len(s) : s[i] \in Events
  OBVIOUS
<1>4. t \in [1 .. Len(s) -> T]
  BY <1>1, <1>2, <1>3
<1>5. t \in Seq(T) /\ Len(t) = Len(s)
  <2> DEFINE n == Len(s)
  <2>1. n \in Nat /\ t \in [1 .. n -> T]
    BY <1>1, <1>4
  <2> HIDE DEF n, t, T
  <2>2. t \in Seq(T) /\ Len(t) = n
    BY <2>1, LenProperties, SeqDef
  <2> QED BY <2>2 DEF n
<1>6. one \in T
  BY <1>2
<1>7. both = [i \in 1 .. Len(s) + 1 |-> IF i = Len(s) + 1 THEN one ELSE t[i]]
  BY <1>1
<1> HIDE DEF t, both, one
<1>8. Append(t, one) = [i \in 1 .. Len(s) + 1 |-> IF i = Len(s) + 1 THEN one ELSE t[i]]
  <2>1. /\ Append(t, one) \in Seq(T) /\ Len(Append(t, one)) = Len(s) + 1
        /\ \A i \in 1 .. Len(s) : Append(t, one)[i] = t[i]
        /\ Append(t, one)[Len(s) + 1] = one
    BY <1>5, <1>6, AppendProperties
  <2> DEFINE a == Append(t, one)
  <2>2. a \in [1 .. Len(s) + 1 -> T]
    BY <2>1, LenProperties
  <2>3. \A i \in 1 .. Len(s) + 1 : a[i] = IF i = Len(s) + 1 THEN one ELSE t[i]
    BY <1>1, <2>1
  <2> HIDE DEF a, T
  <2>4. a = [i \in 1 .. Len(s) + 1 |-> IF i = Len(s) + 1 THEN one ELSE t[i]]
    BY <2>2, <2>3
  <2> QED BY <2>4 DEF a
<1> QED BY <1>7, <1>8 DEF t, both, one

(* The initial states are those of OrderLog.                               *)
LEMMA LogInit == Init => Log!Init /\ NewIsPending
<1> SUFFICES ASSUME Init PROVE Log!Init /\ NewIsPending
  OBVIOUS
<1>1. MapLog = << >>
  BY DEF Init, MapLog
<1>2. NewIsPending
  BY DEF Init, NewIsPending, Working
<1> QED BY <1>1, <1>2 DEF Init, Log!Init, MapLog

(* Only CreateOrder begins to create an order.                             *)
LEMMA NewIsPendingStep ==
  ASSUME TypeOK, NewIsPending, NEW r \in Requests, Request(r) \/ NewEvent(r) \/ Transaction(r)
  PROVE  NewIsPending'
<1>1. ASSUME NEW type, NEW o, NEW row, Carry(r, type, o, row),
             type = "created" => row.status = "pending"
      PROVE  NewIsPending'
  <2> DEFINE j == [type |-> type, order |-> o, row |-> row, created |-> 0]
  <2>1. job' = [job EXCEPT ![r] = j] /\ j.type = type /\ j.row = row
    BY <1>1 DEF Carry
  <2> HIDE DEF j
  <2>2. job'[r] = j /\ \A q \in Requests \ {r} : job'[q] = job[q]
    BY <2>1 DEF TypeOK
  <2> QED BY <1>1, <2>1, <2>2 DEF NewIsPending, Working
<1>2. ASSUME NEW o \in Orders, NEW d \in Details, CreateOrder(r, o, d) \/ UpdateOrder(r, o, d)
      PROVE  NewIsPending'
  BY <1>1, <1>2 DEF CreateOrder, UpdateOrder, NewOrder
<1>3. ASSUME NEW o \in Orders, NEW s, UpdateOrderStatus(r, o, s)
      PROVE  NewIsPending'
  BY <1>1, <1>3 DEF UpdateOrderStatus
<1>4. CASE NewEvent(r)
  <2> DEFINE j == [job[r] EXCEPT !.created = clock + 1]
  <2>1. job[r] \in Jobs /\ Working(r)
    BY <1>4 DEF NewEvent, TypeOK, Working
  <2>2. job' = [job EXCEPT ![r] = j] /\ j.type = job[r].type /\ j.row = job[r].row
    BY <1>4, <2>1 DEF NewEvent, Jobs
  <2> HIDE DEF j
  <2>3. job'[r] = j /\ \A q \in Requests \ {r} : job'[q] = job[q]
    BY <2>2 DEF TypeOK
  <2> QED BY <2>1, <2>2, <2>3 DEF NewIsPending, Working
<1>5. CASE End(r)
  BY <1>5 DEF End, TypeOK, NewIsPending, Working
<1>6. CASE job' = job
  BY <1>6 DEF NewIsPending, Working
<1> QED BY <1>2, <1>3, <1>4, <1>5, <1>6
     DEF Request, DeleteOrder, Transaction, UpdateInTx, InsertMessage, Commit, Fail

(* Every step of a request is a step of OrderLog, or none.                 *)
LEMMA LogStep ==
  ASSUME IInv, NewIsPending, NEW r \in Requests, Request(r) \/ NewEvent(r) \/ Transaction(r)
  PROVE  [Log!Next]_(Log!vars)
<1>1. CASE Commit(r)
  <2> DEFINE o == job[r].order
             row == job[r].row
             type == job[r].type
  <2>1. /\ job[r] \in Jobs /\ Working(r) /\ pc[r] = "commit"
        /\ orders' = [orders EXCEPT ![o] = row]
    BY <1>1, CommitEffect
  <2>2. o \in Orders /\ row \in [status : Statuses, details : Details] /\ type \in Types
    BY <2>1 DEF Jobs
  <2>3. MapLog' = Append(MapLog, [type |-> type, order |-> o, status |-> row.status])
    <3> DEFINE e == Event(job[r])
    <3>1. outbox \in Seq(Events) /\ outbox' = Append(outbox, e)
      BY <1>1 DEF Commit, IInv, TypeOK
    <3>2. e \in Events /\ Told(e) = [type |-> type, order |-> o, status |-> row.status]
      BY <2>1, <2>2 DEF Event, Events, Told, Jobs
    <3> HIDE DEF e
    <3> QED BY <3>1, <3>2, ToldAppend DEF MapLog
  <2>4. Log!Write(o, row, type)
    BY <2>1, <2>3 DEF Log!Write, MapLog
  <2>5. CASE type = "created"
    <3>1. orders[o].status = "absent" /\ row.status = "pending"
      BY <2>1, <2>5 DEF IInv, Grounded, NewIsPending
    <3>2. row = [status |-> "pending", details |-> row.details] /\ row.details \in Details
      BY <2>2, <3>1
    <3>3. Log!Create(o, row.details)
      BY <2>4, <2>5, <3>1, <3>2 DEF Log!Create
    <3> QED BY <2>2, <3>2, <3>3 DEF Log!Next
  <2>6. CASE type # "created"
    <3>1. Exists(o) /\ type \in {"updated", "statusChanged"}
      BY <2>1, <2>2, <2>6 DEF IInv, Grounded, Writing, Types
    <3>2. Log!Change(o, row, type)
      BY <2>4, <3>1 DEF Log!Change, Log!Exists, Exists
    <3> QED BY <2>2, <3>1, <3>2 DEF Log!Next
  <2> QED BY <2>5, <2>6
<1>2. ASSUME NEW o \in Orders, DeleteOrder(r, o)
      PROVE  Log!Next
  <2>1. Log!Delete(o)
    BY <1>2 DEF DeleteOrder, Exists, Log!Delete, Log!Exists
  <2> QED BY <2>1 DEF Log!Next
<1>3. CASE UNCHANGED <<orders, outbox>>
  BY <1>3 DEF Log!vars
<1> QED BY <1>1, <1>2, <1>3
     DEF Request, Transaction, CreateOrder, UpdateOrder, UpdateOrderStatus, NewEvent, UpdateInTx,
         InsertMessage, Fail

(***************************************************************************)
(* The requests, with their copies, locks, rollbacks and late writes,      *)
(* implement the log: every change is committed with its event.            *)
(***************************************************************************)
THEOREM LogRefinement == Spec => LogSpec
<1>1. Init => Log!Init /\ NewIsPending
  BY LogInit
<1>2. IInv /\ NewIsPending /\ [Next]_vars => NewIsPending'
  <2>1. UNCHANGED vars /\ NewIsPending => NewIsPending'
    BY DEF vars, NewIsPending, Working
  <2> QED BY <2>1, NewIsPendingStep DEF Next, IInv
<1>3. IInv /\ NewIsPending /\ [Next]_vars => [Log!Next]_(Log!vars)
  <2>1. UNCHANGED vars => UNCHANGED Log!vars
    BY DEF vars, Log!vars
  <2> QED BY <2>1, LogStep DEF Next
<1> QED BY <1>1, <1>2, <1>3, SpecIInv, PTL DEF Spec, LogSpec, Log!Spec
=============================================================================
