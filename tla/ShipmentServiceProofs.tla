------------------------- MODULE ShipmentServiceProofs -------------------------
(***************************************************************************)
(* The theorems about ShipmentService, for any orders, requests, answers   *)
(* of the warehouse and number of attempts: the warehouse, the records,    *)
(* the orders and their events agree.  The lemmas of OrderServiceProofs    *)
(* say what the shared transaction does.                                   *)
(***************************************************************************)
EXTENDS ShipmentService, OrderServiceProofs, FiniteSetTheorems

Creates(r) == task[r] # NoTask /\ task[r].kind = "create"
Syncs(r) == task[r] # NoTask /\ task[r].kind = "sync"

(* The types of what OrderService does not know.                           *)
Creations == [order : Orders, by : Requests]
Records   == [order : Orders, ref : Nat, status : ShipmentStatuses]

Tables ==
  /\ warehouse \in Seq(Creations)
  /\ shipments \in Seq(Records)
  /\ untold \subseteq DOMAIN shipments

Tasks == task \in [Requests -> CreateTasks \cup SyncTasks \cup {NoTask}]

(* A shipment request is one of OrderService from the step "order" on, and *)
(* then writes a status.                                                   *)
Handed ==
  \A r \in Requests : task[r] # NoTask =>
    IF task[r].step = "order"
    THEN Working(r) /\ pc[r] \in {"write", "insert", "commit"} /\ job[r].type = "statusChanged"
    ELSE pc[r] = "new"

(* The others build their event before their transaction.                  *)
OthersBuiltFirst ==
  \A r \in Requests :
    task[r] = NoTask /\ pc[r] \in {"write", "insert"} => job[r].created # 0

(* Whoever works for a shipment works for an order that was created.       *)
KnownOrder(o) == orders[o].status # "absent"

Known ==
  /\ \A r \in Requests : Creates(r) => KnownOrder(task[r].order)
  /\ \A i \in DOMAIN shipments : KnownOrder(shipments[i].order)

(* The reference that a request has got is to a shipment of its order, and *)
(* nobody else has it.                                                     *)
Referring(r) == Creates(r) /\ task[r].step \in {"record", "order"}

OwnReference ==
  \A r \in Requests : Referring(r) =>
    /\ task[r].ref \in DOMAIN warehouse
    /\ warehouse[task[r].ref].order = task[r].order
    /\ \A q \in Requests : Referring(q) /\ task[q].ref = task[r].ref => q = r
    /\ IF task[r].step = "record"
       THEN \A i \in DOMAIN shipments : shipments[i].ref # task[r].ref
       ELSE \E i \in DOMAIN shipments : shipments[i].ref = task[r].ref

(* A sync is about a record, and carries the news of its order.            *)
Delivering ==
  \A r \in Requests : Syncs(r) =>
    /\ task[r].shipment \in DOMAIN shipments
    /\ task[r].step = "order" =>
         job[r].order = shipments[task[r].shipment].order /\ job[r].row.status = "delivered"

Control == IInv /\ Tasks /\ Handed /\ OthersBuiltFirst

Data ==
  /\ Tables
  /\ Known
  /\ OwnReference /\ RecordsMatch
  /\ Delivering /\ DeliveredIsTold

SInv == Control /\ Data

-----------------------------------------------------------------------------
(* What the two kinds of tasks are made of.                                *)
LEMMA TaskTypes ==
  ASSUME Tasks, NEW r \in Requests
  PROVE  /\ Creates(r) => task[r] \in CreateTasks
         /\ Syncs(r) => task[r] \in SyncTasks
         /\ task[r] # NoTask => Creates(r) \/ Syncs(r)
         /\ task[r] \in CreateTasks => Creates(r)
         /\ task[r] \in SyncTasks => Syncs(r)
<1>1. \A t \in CreateTasks : t.kind = "create" /\ t # NoTask
  BY DEF CreateTasks, NoTask
<1>2. \A t \in SyncTasks : t.kind = "sync" /\ t # NoTask
  BY DEF SyncTasks, NoTask
<1> QED BY <1>1, <1>2 DEF Tasks, Creates, Syncs

(* The invariant contains the types.                                       *)
LEMMA ShipmentTypes == SInv => ShipmentTypeOK
<1> SUFFICES ASSUME SInv PROVE ShipmentTypeOK
  OBVIOUS
<1>1. \A r \in Requests : task[r] # NoTask => (job[r] # NoJob <=> task[r].step = "order")
  BY DEF SInv, Control, Handed, Working, IInv, TypeOK
<1> QED BY <1>1 DEF SInv, Control, Data, IInv, Tables, Creations, Records, Tasks, ShipmentTypeOK

(* The initial states satisfy the invariant.                               *)
LEMMA ShipmentInitSInv == ShipmentInit => SInv
<1> SUFFICES ASSUME ShipmentInit PROVE SInv
  OBVIOUS
<1>1. IInv /\ \A r \in Requests : pc[r] = "new"
  BY InitIInv DEF ShipmentInit, Init
<1>2. warehouse = << >> /\ shipments = << >> /\ untold = {} /\ \A r \in Requests : task[r] = NoTask
  BY DEF ShipmentInit
<1>3. Tables /\ Tasks
  BY DEF ShipmentInit, Tables, Tasks
<1>4. Handed /\ OthersBuiltFirst
  BY <1>1, <1>2 DEF Handed, OthersBuiltFirst
<1>5. Known /\ OwnReference /\ RecordsMatch /\ Delivering /\ DeliveredIsTold
  BY <1>2 DEF Known, OwnReference, RecordsMatch, Delivering, DeliveredIsTold, Creates, Syncs, Referring
<1> QED BY <1>1, <1>3, <1>4, <1>5 DEF SInv, Control, Data

-----------------------------------------------------------------------------
(* A shipment request goes on, beside the transactions.                    *)
LEMMA StayControl ==
  ASSUME Control, UNCHANGED vars, NEW r \in Requests, pc[r] = "new",
         NEW t \in CreateTasks \cup SyncTasks, t.step # "order",
         task' = [task EXCEPT ![r] = t]
  PROVE  /\ Control'
         /\ task'[r] = t /\ \A q \in Requests \ {r} : task'[q] = task[q]
<1>1. IInv'
  BY StutterIInv DEF Control
<1>2. UNCHANGED <<orders, outbox, clock, pc, job>>
  BY DEF vars
<1>3. Tasks' /\ task'[r] = t /\ \A q \in Requests \ {r} : task'[q] = task[q]
  BY DEF Control, Tasks
<1>4. Handed' /\ OthersBuiltFirst'
  BY <1>2, <1>3 DEF Control, Handed, OthersBuiltFirst, Working
<1> QED BY <1>1, <1>3, <1>4 DEF Control

(* It ends before it has written an order.                                 *)
LEMMA LeaveControl ==
  ASSUME Control, UNCHANGED <<orders, outbox, clock>>, NEW r \in Requests,
         task[r] # NoTask, task[r].step # "order", Leave(r)
  PROVE  /\ Control' /\ job' = job
         /\ task'[r] = NoTask /\ \A q \in Requests \ {r} : task'[q] = task[q]
<1>1. pc[r] = "new" /\ job[r] = NoJob
  BY DEF Control, Handed, IInv, TypeOK
<1>2. /\ pc' = [pc EXCEPT ![r] = "done"] /\ job' = job
      /\ task' = [task EXCEPT ![r] = NoTask]
  BY DEF Leave
<1>3. End(r)
  BY <1>1, <1>2 DEF End, Control, IInv, TypeOK
<1>4. IInv'
  BY <1>3, EndIInv DEF Control
<1>5. Tasks' /\ task'[r] = NoTask /\ \A q \in Requests \ {r} : task'[q] = task[q]
  BY <1>2 DEF Control, Tasks
<1>6. pc'[r] = "done" /\ \A q \in Requests \ {r} : pc'[q] = pc[q]
  BY <1>2 DEF Control, IInv, TypeOK
<1>7. Handed' /\ OthersBuiltFirst'
  BY <1>2, <1>5, <1>6 DEF Control, Handed, OthersBuiltFirst, Working
<1> QED BY <1>2, <1>4, <1>5, <1>7 DEF Control

(* It hands the order, with its new status, to the transaction.            *)
LEMMA WriteControl ==
  ASSUME Control, UNCHANGED <<orders, outbox, clock>>, NEW r \in Requests,
         task[r] # NoTask, task[r].step # "order", NEW o \in Orders, KnownOrder(o),
         NEW status \in Statuses, NEW details \in Details,
         WriteOrder(r, o, status, details)
  PROVE  /\ Control'
         /\ job'[r].order = o /\ job'[r].row.status = status
         /\ \A q \in Requests \ {r} : job'[q] = job[q] /\ task'[q] = task[q]
         /\ task'[r] = [task[r] EXCEPT !.step = "order"]
         /\ task[r] \in CreateTasks => task'[r] \in CreateTasks
         /\ task[r] \in SyncTasks => task'[r] \in SyncTasks
<1> DEFINE row == [status |-> status, details |-> details]
           j == [type |-> "statusChanged", order |-> o, row |-> row, created |-> 0]
           t == [task[r] EXCEPT !.step = "order"]
<1>1. pc[r] = "new" /\ job \in [Requests -> Jobs \cup {NoJob}] /\ pc \in [Requests -> Steps]
  BY DEF Control, Handed, IInv, TypeOK
<1>2. row \in [status : Statuses, details : Details]
  OBVIOUS
<1>3. /\ pc' = [pc EXCEPT ![r] = "write"] /\ job' = [job EXCEPT ![r] = j]
      /\ task' = [task EXCEPT ![r] = t]
  BY DEF WriteOrder, Goto
<1>4. IInv'
  <2>1. Takes(r, "statusChanged", o, row, "write")
    BY <1>1, <1>3 DEF Takes
  <2> HIDE DEF row, j, t
  <2> QED BY <1>2, <2>1, TakesIInv DEF Control, KnownOrder, Types
<1>5. /\ task[r] \in CreateTasks => t \in CreateTasks
      /\ task[r] \in SyncTasks => t \in SyncTasks
  BY DEF CreateTasks, SyncTasks
<1>6. task[r] \in CreateTasks \/ task[r] \in SyncTasks
  BY TaskTypes DEF Control
<1>7. t.step = "order"
  BY <1>6 DEF CreateTasks, SyncTasks
<1>8. j.type = "statusChanged" /\ j.order = o /\ j.row.status = status /\ j \in Jobs
  BY <1>2 DEF Jobs, Types
<1> HIDE DEF t, j, row
<1>9. /\ task'[r] = t /\ job'[r] = j /\ pc'[r] = "write"
      /\ \A q \in Requests \ {r} : task'[q] = task[q] /\ job'[q] = job[q] /\ pc'[q] = pc[q]
      /\ Tasks'
  BY <1>1, <1>3, <1>5, <1>6 DEF Control, Tasks
<1>10. t # NoTask /\ Working(r)'
  <2>1. j # NoJob
    BY <1>8, JobIsNoNoJob
  <2>2. t # NoTask
    BY <1>5, <1>6 DEF CreateTasks, SyncTasks, NoTask
  <2> QED BY <1>9, <2>1, <2>2 DEF Working
<1>11. Handed' /\ OthersBuiltFirst'
  BY <1>7, <1>8, <1>9, <1>10 DEF Control, Handed, OthersBuiltFirst, Working
<1> QED BY <1>4, <1>5, <1>8, <1>9, <1>11 DEF Control, t

-----------------------------------------------------------------------------
(* What is recorded of a shipment.                                         *)
LEMMA RowTypes ==
  ASSUME Tables
  PROVE  /\ DOMAIN shipments = 1 .. Len(shipments) /\ Len(shipments) \in Nat
         /\ DOMAIN warehouse = 1 .. Len(warehouse) /\ Len(warehouse) \in Nat
         /\ \A i \in DOMAIN shipments :
              /\ shipments[i].order \in Orders /\ shipments[i].ref \in Nat
              /\ shipments[i].status \in ShipmentStatuses
<1>1. shipments \in Seq(Records) /\ warehouse \in Seq(Creations)
  BY DEF Tables
<1>2. \A i \in DOMAIN shipments : shipments[i] \in Records
  BY <1>1
<1>3. \A s \in Records : s.order \in Orders /\ s.ref \in Nat /\ s.status \in ShipmentStatuses
  BY DEF Records
<1> QED BY <1>1, <1>2, <1>3

(* A request that has nothing in hand yet, or gives up what it has, and    *)
(* tells so if it was a delivery, leaves everything as it was.             *)
LEMMA QuietData ==
  ASSUME SInv, UNCHANGED <<orders, outbox, warehouse, shipments>>,
         NEW r \in Requests,
         \A q \in Requests \ {r} : task'[q] = task[q] /\ job'[q] = job[q],
         untold \subseteq untold', untold' \subseteq DOMAIN shipments,
         \/ ~Syncs(r) \/ task[r].step \notin {"read", "order"}
         \/ task[r].shipment \in untold',
         \/ task'[r] = NoTask
         \/ Creates(r)' /\ task'[r].step = "post" /\ KnownOrder(task'[r].order)
         \/ Syncs(r)' /\ task'[r].step \in {"ask", "save"} /\ task'[r].shipment \in DOMAIN shipments
  PROVE  Data'
<1>1. Tables'
  BY DEF SInv, Data, Tables
<1>2. Known'
  BY DEF SInv, Data, Known, KnownOrder, Creates, Syncs
<1>3. OwnReference' /\ RecordsMatch'
  BY DEF SInv, Data, OwnReference, RecordsMatch, Referring, Creates, Syncs
<1>4. Delivering'
  BY DEF SInv, Data, Delivering, Creates, Syncs
<1>5. DeliveredIsTold'
  BY DEF SInv, Data, DeliveredIsTold, Exists, At, Syncs
<1> QED BY <1>1, <1>2, <1>3, <1>4, <1>5 DEF Data

(* A request for a shipment of an order that exists.                       *)
LEMMA CreateShipmentSInv ==
  ASSUME SInv, NEW r \in Requests, NEW o \in Orders, CreateShipment(r, o)
  PROVE  SInv'
<1> DEFINE t == [kind |-> "create", step |-> "post", order |-> o, status |-> orders[o].status,
                 details |-> orders[o].details, attempt |-> 1, ref |-> 0]
<1>1. /\ pc[r] = "new" /\ task[r] = NoTask /\ Exists(o)
      /\ task' = [task EXCEPT ![r] = t]
      /\ UNCHANGED vars /\ UNCHANGED <<warehouse, shipments, untold>>
  BY DEF CreateShipment
<1>2. orders[o].status \in Statuses /\ orders[o].details \in Details /\ KnownOrder(o)
  BY <1>1, ConstantsAssumption DEF SInv, Control, IInv, TypeOK, Exists, Rows, KnownOrder
<1>3. t \in CreateTasks /\ t.step = "post" /\ t.kind = "create" /\ t.order = o
  <2>1. 1 \in 1 .. MaxAttempts
    BY ShipmentAssumption
  <2> QED BY <1>2, <2>1 DEF CreateTasks
<1> HIDE DEF t
<1>4. Control' /\ task'[r] = t /\ \A q \in Requests \ {r} : task'[q] = task[q]
  BY <1>1, <1>3, StayControl DEF SInv
<1>5. Creates(r)' /\ KnownOrder(task'[r].order) /\ ~Syncs(r)
  <2>1. t # NoTask
    BY <1>3 DEF NoTask
  <2> QED BY <1>1, <1>2, <1>3, <1>4, <2>1 DEF Creates, Syncs
<1>6. UNCHANGED <<orders, outbox, job>> /\ untold \subseteq DOMAIN shipments
  BY <1>1 DEF vars, SInv, Data, Tables
<1>7. Data'
  BY <1>1, <1>3, <1>4, <1>5, <1>6, QuietData
<1> QED BY <1>4, <1>7 DEF SInv

(* A request to sync a shipment that is recorded.                          *)
LEMMA SyncShipmentSInv ==
  ASSUME SInv, NEW r \in Requests, NEW i \in DOMAIN shipments, SyncShipment(r, i)
  PROVE  SInv'
<1> DEFINE t == [kind |-> "sync", step |-> "ask", shipment |-> i, status |-> shipments[i].status]
<1>1. /\ pc[r] = "new" /\ task[r] = NoTask
      /\ task' = [task EXCEPT ![r] = t]
      /\ UNCHANGED vars /\ UNCHANGED <<warehouse, shipments, untold>>
  BY DEF SyncShipment
<1>2. i \in Nat /\ shipments[i].status \in ShipmentStatuses
  BY RowTypes DEF SInv, Data
<1>3. t \in SyncTasks /\ t.step = "ask" /\ t.kind = "sync" /\ t.shipment = i
  BY <1>2 DEF SyncTasks
<1> HIDE DEF t
<1>4. Control' /\ task'[r] = t /\ \A q \in Requests \ {r} : task'[q] = task[q]
  BY <1>1, <1>3, StayControl DEF SInv
<1>5. Syncs(r)' /\ ~Syncs(r)
  <2>1. t # NoTask
    BY <1>3 DEF NoTask
  <2> QED BY <1>1, <1>3, <1>4, <2>1 DEF Syncs
<1>6. UNCHANGED <<orders, outbox, job>> /\ untold \subseteq DOMAIN shipments
  BY <1>1 DEF vars, SInv, Data, Tables
<1>7. Data'
  BY <1>1, <1>3, <1>4, <1>5, <1>6, QuietData
<1> QED BY <1>4, <1>7 DEF SInv

(* The warehouse's status is news, or it is not.                           *)
LEMMA GetStatusSInv ==
  ASSUME SInv, NEW r \in Requests, GetStatus(r)
  PROVE  SInv'
<1>1. /\ task[r] # NoTask /\ task[r].step = "ask"
      /\ UNCHANGED <<orders, outbox, clock, warehouse, shipments, untold>>
  BY DEF GetStatus, At
<1>2. Syncs(r) /\ task[r] \in SyncTasks
  BY <1>1, TaskTypes DEF SInv, Control, CreateTasks
<1>3. task[r].shipment \in DOMAIN shipments /\ untold \subseteq DOMAIN shipments
  BY <1>2 DEF SInv, Data, Delivering, Tables
<1>4. CASE Leave(r)
  BY <1>1, <1>3, <1>4, LeaveControl, QuietData DEF SInv
<1>5. CASE ~Leave(r)
  <2>1. PICK s \in WarehouseStatuses :
          task' = [task EXCEPT ![r].step = "save", ![r].status = OurStatus(s)]
    BY <1>5 DEF GetStatus
  <2> DEFINE t == [task[r] EXCEPT !.step = "save", !.status = OurStatus(s)]
  <2>2. OurStatus(s) \in ShipmentStatuses
    BY DEF OurStatus, ShipmentStatuses
  <2>3. t \in SyncTasks /\ t.step = "save" /\ t.kind = "sync" /\ t.shipment = task[r].shipment
    BY <1>2, <2>2 DEF SyncTasks
  <2>4. task' = [task EXCEPT ![r] = t]
    BY <2>1
  <2>5. UNCHANGED vars /\ pc[r] = "new"
    BY <1>1, <1>5 DEF GetStatus, vars, SInv, Control, Handed
  <2> HIDE DEF t
  <2>6. Control' /\ task'[r] = t /\ \A q \in Requests \ {r} : task'[q] = task[q]
    BY <2>3, <2>4, <2>5, StayControl DEF SInv
  <2>7. Syncs(r)'
    <3>1. t # NoTask
      BY <2>3 DEF NoTask
    <3> QED BY <2>3, <2>6, <3>1 DEF Syncs
  <2>8. job' = job
    BY <2>5 DEF vars
  <2>9. Data'
    BY <1>1, <1>3, <2>3, <2>6, <2>7, <2>8, QuietData
  <2> QED BY <2>6, <2>9 DEF SInv
<1> QED BY <1>4, <1>5

(* The client goes away, or the process crashes, between two calls.        *)
LEMMA AbandonSInv ==
  ASSUME SInv, NEW r \in Requests, Abandon(r)
  PROVE  SInv'
<1>1. /\ task[r] # NoTask /\ task[r].step \in {"post", "record", "read"}
      /\ Leave(r) /\ untold' = NotTold(r)
      /\ UNCHANGED <<orders, outbox, clock, warehouse, shipments>>
  BY DEF Abandon, At
<1>2. /\ Control' /\ job' = job
      /\ task'[r] = NoTask /\ \A q \in Requests \ {r} : task'[q] = task[q]
  BY <1>1, LeaveControl DEF SInv
<1>3. /\ untold \subseteq untold' /\ untold' \subseteq DOMAIN shipments
      /\ Syncs(r) => task[r].shipment \in untold'
  BY <1>1 DEF NotTold, SInv, Data, Tables, Delivering, Syncs
<1>4. Data'
  BY <1>1, <1>2, <1>3, QuietData
<1> QED BY <1>2, <1>4 DEF SInv

(* What the warehouse creates has no record yet, and nobody refers to it.  *)
LEMMA WarehouseGrows ==
  ASSUME SInv, NEW r \in Requests, Creates(r), NEW created, Create(r, created)
  PROVE  /\ warehouse' \in Seq(Creations)
         /\ DOMAIN warehouse \subseteq DOMAIN warehouse'
         /\ \A n \in DOMAIN warehouse : warehouse'[n] = warehouse[n]
         /\ created => /\ Len(warehouse') \in DOMAIN warehouse'
                       /\ Len(warehouse') \notin DOMAIN warehouse
                       /\ warehouse'[Len(warehouse')].order = task[r].order
                       /\ Len(warehouse') \in Nat
<1> DEFINE c == [order |-> task[r].order, by |-> r]
<1>1. c \in Creations /\ c.order = task[r].order
  BY TaskTypes DEF SInv, Control, CreateTasks, Creations
<1>2. warehouse \in Seq(Creations)
  BY DEF SInv, Data, Tables
<1>3. warehouse' = IF created THEN Append(warehouse, c) ELSE warehouse
  BY DEF Create
<1> HIDE DEF c
<1> QED BY <1>1, <1>2, <1>3

(* A POST adds to the warehouse at most; a reference is to what it added.  *)
LEMMA PostData ==
  ASSUME SInv, UNCHANGED <<orders, outbox, shipments, untold>>,
         NEW r \in Requests, Creates(r), task[r].step = "post",
         \A q \in Requests \ {r} : task'[q] = task[q] /\ job'[q] = job[q],
         NEW created, Create(r, created),
         \/ task'[r] = NoTask
         \/ /\ Creates(r)' /\ task'[r].order = task[r].order
            /\ \/ task'[r].step = "post"
               \/ task'[r].step = "record" /\ created /\ task'[r].ref = Len(warehouse')
  PROVE  Data'
<1>1. Tables'
  BY WarehouseGrows DEF SInv, Data, Tables
<1>2. Known'
  BY DEF SInv, Data, Known, KnownOrder, Creates
<1>3. RecordsMatch'
  BY WarehouseGrows DEF SInv, Data, RecordsMatch
<1>4. OwnReference'
  <2>1. \A i \in DOMAIN shipments : shipments[i].ref \in DOMAIN warehouse
    BY DEF SInv, Data, RecordsMatch
  <2>2. \A q \in Requests : Referring(q) => task[q].ref \in DOMAIN warehouse /\ q # r
    BY DEF SInv, Data, OwnReference, Referring
  <2>3. \A q \in Requests \ {r} : Referring(q)' <=> Referring(q)
    BY DEF Referring, Creates
  <2>4. ASSUME NEW q \in Requests, Referring(q)'
        PROVE  /\ task'[q].ref \in DOMAIN warehouse'
               /\ warehouse'[task'[q].ref].order = task'[q].order
               /\ \A p \in Requests : Referring(p)' /\ task'[p].ref = task'[q].ref => p = q
               /\ IF task'[q].step = "record"
                  THEN \A i \in DOMAIN shipments' : shipments'[i].ref # task'[q].ref
                  ELSE \E i \in DOMAIN shipments' : shipments'[i].ref = task'[q].ref
    <3>1. CASE q = r
      <4>1. /\ task'[r].step = "record" /\ created /\ task'[r].ref = Len(warehouse')
            /\ task'[r].order = task[r].order
        BY <2>4, <3>1 DEF Referring, Creates
      <4>2. /\ task'[r].ref \in DOMAIN warehouse' /\ task'[r].ref \notin DOMAIN warehouse
            /\ warehouse'[task'[r].ref].order = task'[r].order
        BY <4>1, WarehouseGrows
      <4>3. \A p \in Requests : Referring(p)' /\ task'[p].ref = task'[r].ref => p = r
        BY <2>2, <2>3, <4>2
      <4>4. \A i \in DOMAIN shipments' : shipments'[i].ref # task'[r].ref
        BY <2>1, <4>2
      <4> QED BY <3>1, <4>1, <4>2, <4>3, <4>4
    <3>2. CASE q # r
      <4>1. /\ Referring(q) /\ task'[q] = task[q]
            /\ \A p \in Requests \ {r} : task'[p] = task[p]
        BY <2>3, <2>4, <3>2
      <4>2. Referring(r)' => task'[r].ref \notin DOMAIN warehouse
        BY WarehouseGrows DEF Referring, Creates
      <4> QED BY <2>2, <2>3, <3>2, <4>1, <4>2, WarehouseGrows DEF SInv, Data, OwnReference
    <3> QED BY <3>1, <3>2
  <2> QED BY <2>4 DEF OwnReference
<1>5. Delivering'
  <2>1. \A q \in Requests : Syncs(q)' => q # r /\ Syncs(q)
    BY DEF Syncs, Creates
  <2> QED BY <2>1 DEF SInv, Data, Delivering
<1>6. DeliveredIsTold'
  BY DEF SInv, Data, DeliveredIsTold, Exists, At, Creates
<1> QED BY <1>1, <1>2, <1>3, <1>4, <1>5, <1>6 DEF Data

LEMMA PostSInv ==
  ASSUME SInv, NEW r \in Requests, Post(r)
  PROVE  SInv'
<1>1. /\ task[r] # NoTask /\ task[r].step = "post"
      /\ UNCHANGED <<orders, outbox, clock, shipments, untold>>
  BY DEF Post, At
<1>2. Creates(r) /\ task[r] \in CreateTasks /\ pc[r] = "new"
  BY <1>1, TaskTypes DEF SInv, Control, Handed, SyncTasks
<1>3. PICK a \in Answers :
        /\ Create(r, a.created)
        /\ \/ /\ a.error = "none"
              /\ task' = [task EXCEPT ![r].step = "record", ![r].ref = Len(warehouse')]
              /\ UNCHANGED <<pc, job>>
           \/ /\ a.error = "retryable" /\ ~LastAttempt(task[r])
              /\ task' = [task EXCEPT ![r].attempt = @ + 1]
              /\ UNCHANGED <<pc, job>>
           \/ Leave(r)
  BY DEF Post
<1>4. CASE Leave(r)
  BY <1>1, <1>2, <1>3, <1>4, LeaveControl, PostData DEF SInv
<1>5. CASE /\ a.error = "none"
           /\ task' = [task EXCEPT ![r].step = "record", ![r].ref = Len(warehouse')]
           /\ UNCHANGED <<pc, job>>
  <2> DEFINE n == Len(warehouse')
             t == [task[r] EXCEPT !.step = "record", !.ref = n]
  <2>1. a.created
    BY <1>5 DEF Answers
  <2>2. n \in Nat
    BY <1>2, <1>3, <2>1, WarehouseGrows
  <2>3. task' = [task EXCEPT ![r] = t]
    BY <1>5
  <2>4. /\ t \in CreateTasks /\ t.step = "record" /\ t.kind = "create"
        /\ t.ref = n /\ t.order = task[r].order /\ t # NoTask
    <3> HIDE DEF n
    <3>1. /\ t \in CreateTasks /\ t.step = "record" /\ t.kind = "create"
          /\ t.ref = n /\ t.order = task[r].order
      BY <1>2, <2>2 DEF CreateTasks
    <3> QED BY <3>1 DEF NoTask
  <2>5. UNCHANGED vars /\ job' = job
    BY <1>1, <1>5 DEF vars
  <2> HIDE DEF t
  <2>6. Control' /\ task'[r] = t /\ \A q \in Requests \ {r} : task'[q] = task[q]
    BY <1>2, <2>3, <2>4, <2>5, StayControl DEF SInv
  <2>7. Creates(r)'
    BY <2>4, <2>6 DEF Creates
  <2>8. Data'
    BY <1>1, <1>2, <1>3, <2>1, <2>4, <2>5, <2>6, <2>7, PostData
  <2> QED BY <2>6, <2>8 DEF SInv
<1>6. CASE /\ a.error = "retryable" /\ ~LastAttempt(task[r])
           /\ task' = [task EXCEPT ![r].attempt = @ + 1]
           /\ UNCHANGED <<pc, job>>
  <2> DEFINE n == task[r].attempt + 1
             t == [task[r] EXCEPT !.attempt = n]
  <2>1. n \in 1 .. MaxAttempts
    BY <1>2, <1>6, ShipmentAssumption DEF CreateTasks, LastAttempt
  <2>2. task' = [task EXCEPT ![r] = t]
    BY <1>6
  <2>3. /\ t \in CreateTasks /\ t.step = "post" /\ t.kind = "create"
        /\ t.order = task[r].order /\ t # NoTask
    <3> HIDE DEF n
    <3>1. /\ t \in CreateTasks /\ t.step = "post" /\ t.kind = "create"
          /\ t.order = task[r].order
      BY <1>1, <1>2, <2>1 DEF CreateTasks
    <3> QED BY <3>1 DEF NoTask
  <2>4. UNCHANGED vars /\ job' = job
    BY <1>1, <1>6 DEF vars
  <2> HIDE DEF t
  <2>5. Control' /\ task'[r] = t /\ \A q \in Requests \ {r} : task'[q] = task[q]
    BY <1>2, <2>2, <2>3, <2>4, StayControl DEF SInv
  <2>6. Creates(r)'
    BY <2>3, <2>5 DEF Creates
  <2>7. Data'
    BY <1>1, <1>2, <1>3, <2>3, <2>4, <2>5, <2>6, PostData
  <2> QED BY <2>5, <2>7 DEF SInv
<1> QED BY <1>3, <1>4, <1>5, <1>6

(* A record is added, of a shipment that had none.                         *)
LEMMA RecordsGrow ==
  ASSUME SInv, NEW r \in Requests, Creates(r),
         shipments' = Append(shipments, NewShipment(task[r])),
         NEW n, n = Len(shipments) + 1
  PROVE  /\ shipments' \in Seq(Records)
         /\ DOMAIN shipments' = DOMAIN shipments \cup {n} /\ n \notin DOMAIN shipments
         /\ \A i \in DOMAIN shipments : shipments'[i] = shipments[i]
         /\ shipments'[n].order = task[r].order /\ shipments'[n].ref = task[r].ref
         /\ shipments'[n].status = "pending"
<1> DEFINE s == NewShipment(task[r])
<1>1. /\ s \in Records /\ s.order = task[r].order /\ s.ref = task[r].ref
      /\ s.status = "pending"
  BY TaskTypes DEF SInv, Control, CreateTasks, Records, NewShipment, ShipmentStatuses
<1>2. shipments \in Seq(Records)
  BY DEF SInv, Data, Tables
<1>3. shipments' = Append(shipments, s)
  OBVIOUS
<1> HIDE DEF s
<1> QED BY <1>1, <1>2, <1>3

(* The request has the only reference to what it records, before and after. *)
LEMMA RecordData ==
  ASSUME SInv, UNCHANGED <<orders, outbox, warehouse, untold>>,
         NEW r \in Requests, Creates(r), task[r].step = "record",
         \A q \in Requests \ {r} : task'[q] = task[q] /\ job'[q] = job[q],
         shipments' = Append(shipments, NewShipment(task[r])),
         \/ task'[r] = NoTask
         \/ /\ Creates(r)' /\ task'[r].step = "order"
            /\ task'[r].order = task[r].order /\ task'[r].ref = task[r].ref
  PROVE  Data'
<1> DEFINE n == Len(shipments) + 1
<1>1. /\ shipments' \in Seq(Records)
      /\ DOMAIN shipments' = DOMAIN shipments \cup {n} /\ n \notin DOMAIN shipments
      /\ \A i \in DOMAIN shipments : shipments'[i] = shipments[i]
      /\ shipments'[n].order = task[r].order /\ shipments'[n].ref = task[r].ref
      /\ shipments'[n].status = "pending"
  BY RecordsGrow
<1> HIDE DEF n
<1>2. Tables'
  BY <1>1 DEF SInv, Data, Tables
<1>3. Known'
  BY <1>1 DEF SInv, Data, Known, KnownOrder, Creates
<1>4. /\ Referring(r) /\ task[r].ref \in DOMAIN warehouse
      /\ warehouse[task[r].ref].order = task[r].order
      /\ \A q \in Requests \ {r} : Referring(q) => task[q].ref # task[r].ref
      /\ \A i \in DOMAIN shipments : shipments[i].ref # task[r].ref
  BY DEF SInv, Data, OwnReference, Referring
<1>5. RecordsMatch'
  BY <1>1, <1>4 DEF SInv, Data, RecordsMatch
<1>6. OwnReference'
  <2> SUFFICES ASSUME NEW q \in Requests, Referring(q)'
               PROVE  /\ task'[q].ref \in DOMAIN warehouse
                      /\ warehouse[task'[q].ref].order = task'[q].order
                      /\ \A p \in Requests : Referring(p)' /\ task'[p].ref = task'[q].ref => p = q
                      /\ IF task'[q].step = "record"
                         THEN \A i \in DOMAIN shipments' : shipments'[i].ref # task'[q].ref
                         ELSE \E i \in DOMAIN shipments' : shipments'[i].ref = task'[q].ref
    BY DEF OwnReference
  <2>1. /\ \A p \in Requests : Referring(p)' => Referring(p) /\ task'[p].ref = task[p].ref
                                              /\ task'[p].order = task[p].order
    BY <1>4 DEF Referring, Creates
  <2>2. CASE q = r
    <3>1. task'[r].step = "order"
      BY <2>2 DEF Referring, Creates
    <3> QED BY <1>1, <1>4, <2>1, <2>2, <3>1
  <2>3. CASE q # r
    BY <1>1, <1>4, <2>1, <2>3 DEF SInv, Data, OwnReference
  <2> QED BY <2>2, <2>3
<1>7. Delivering'
  <2>1. \A q \in Requests : Syncs(q)' => q # r /\ Syncs(q)
    BY DEF Syncs, Creates
  <2> QED BY <1>1, <2>1 DEF SInv, Data, Delivering
<1>8. DeliveredIsTold'
  BY <1>1 DEF SInv, Data, DeliveredIsTold, Exists, At, Creates
<1> QED BY <1>2, <1>3, <1>5, <1>6, <1>7, <1>8 DEF Data

LEMMA RecordSInv ==
  ASSUME SInv, NEW r \in Requests, Record(r)
  PROVE  SInv'
<1>1. /\ task[r] # NoTask /\ task[r].step = "record"
      /\ UNCHANGED <<orders, outbox, clock, warehouse, untold>>
  BY DEF Record, At
<1>2. Creates(r) /\ ~Syncs(r) /\ task[r] \in CreateTasks
  BY <1>1, TaskTypes DEF SInv, Control, SyncTasks, Creates, Syncs
<1>3. untold \subseteq DOMAIN shipments
  BY DEF SInv, Data, Tables
<1>4. CASE Leave(r)
  <2>1. /\ Control' /\ job' = job
        /\ task'[r] = NoTask /\ \A q \in Requests \ {r} : task'[q] = task[q]
    BY <1>1, <1>4, LeaveControl DEF SInv
  <2>2. shipments' = shipments \/ shipments' = Append(shipments, NewShipment(task[r]))
    BY DEF Record, Save
  <2>3. Data'
    BY <1>1, <1>2, <1>3, <2>1, <2>2, QuietData, RecordData
  <2> QED BY <2>1, <2>3 DEF SInv
<1>5. CASE ~Leave(r)
  <2>1. /\ shipments' = Append(shipments, NewShipment(task[r]))
        /\ WriteOrder(r, task[r].order, "shipped", task[r].details)
    BY <1>5 DEF Record, Save, Applied, ShipOrder
  <2>2. /\ task[r].order \in Orders /\ KnownOrder(task[r].order)
        /\ "shipped" \in Statuses /\ task[r].details \in Details
    BY <1>2, ShipmentAssumption DEF CreateTasks, SInv, Data, Known
  <2>3. /\ Control'
        /\ \A q \in Requests \ {r} : job'[q] = job[q] /\ task'[q] = task[q]
        /\ task'[r] = [task[r] EXCEPT !.step = "order"] /\ task'[r] \in CreateTasks
    BY <1>1, <1>2, <2>1, <2>2, WriteControl DEF SInv
  <2>4. /\ Creates(r)' /\ task'[r].step = "order"
        /\ task'[r].order = task[r].order /\ task'[r].ref = task[r].ref
    <3>1. task'[r].kind = "create" /\ task'[r] # NoTask
      BY <2>3 DEF CreateTasks, NoTask
    <3> QED BY <1>2, <2>3, <3>1 DEF CreateTasks, Creates
  <2>5. Data'
    BY <1>1, <1>2, <2>1, <2>3, <2>4, RecordData
  <2> QED BY <2>3, <2>5 DEF SInv
<1> QED BY <1>4, <1>5

(* The news of the warehouse is saved, and goes on to the order if it is   *)
(* of a delivery.                                                          *)
LEMMA UpdateStatusSInv ==
  ASSUME SInv, NEW r \in Requests, UpdateStatus(r)
  PROVE  SInv'
<1> DEFINE k == task[r].shipment
           status == task[r].status
<1>1. /\ task[r] # NoTask /\ task[r].step = "save"
      /\ UNCHANGED <<orders, outbox, clock, warehouse>>
  BY DEF UpdateStatus, At
<1>2. Syncs(r) /\ ~Creates(r) /\ task[r] \in SyncTasks /\ pc[r] = "new"
  BY <1>1, TaskTypes DEF SInv, Control, Handed, CreateTasks, Creates, Syncs
<1>3. k \in DOMAIN shipments /\ status \in ShipmentStatuses /\ untold \subseteq DOMAIN shipments
  BY <1>2 DEF SInv, Data, Delivering, Tables, SyncTasks
<1>4. PICK outcome \in Outcomes :
        /\ shipments' = IF Applied(outcome)
                        THEN [shipments EXCEPT ![k].status = status] ELSE shipments
        /\ IF outcome = "ok" /\ status = "delivered"
           THEN Goto(r, "read") /\ UNCHANGED <<pc, job, untold>>
           ELSE /\ Leave(r)
                /\ untold' = IF outcome = "unacked" /\ status = "delivered"
                             THEN untold \cup {k} ELSE untold
  BY DEF UpdateStatus
<1>5. /\ shipments' \in Seq(Records) /\ DOMAIN shipments' = DOMAIN shipments
      /\ \A i \in DOMAIN shipments :
           /\ shipments'[i].order = shipments[i].order /\ shipments'[i].ref = shipments[i].ref
           /\ i # k => shipments'[i].status = shipments[i].status
      /\ shipments'[k].status = IF Applied(outcome) THEN status ELSE shipments[k].status
  <2> DEFINE c == [shipments[k] EXCEPT !.status = status]
  <2>1. shipments \in Seq(Records) /\ shipments[k] \in Records
    BY <1>3 DEF SInv, Data, Tables
  <2>2. /\ c \in Records /\ c.order = shipments[k].order /\ c.ref = shipments[k].ref
        /\ c.status = status
    <3> HIDE DEF k, status
    <3> QED BY <1>3, <2>1 DEF Records
  <2>3. shipments' = IF Applied(outcome) THEN [shipments EXCEPT ![k] = c] ELSE shipments
    BY <1>4
  <2> HIDE DEF c, k, status
  <2> QED BY <1>3, <2>1, <2>2, <2>3
<1>6. /\ Control'
      /\ \A q \in Requests \ {r} : task'[q] = task[q] /\ job'[q] = job[q]
      /\ IF outcome = "ok" /\ status = "delivered"
         THEN Syncs(r)' /\ task'[r].step = "read" /\ task'[r].shipment = k
         ELSE task'[r] = NoTask
  <2>1. CASE outcome = "ok" /\ status = "delivered"
    <3> DEFINE t == [task[r] EXCEPT !.step = "read"]
    <3>1. /\ t \in SyncTasks /\ t.step = "read" /\ t.kind = "sync" /\ t.shipment = k
          /\ t # NoTask
      <4>1. t \in SyncTasks /\ t.step = "read" /\ t.kind = "sync" /\ t.shipment = k
        BY <1>2 DEF SyncTasks
      <4> QED BY <4>1 DEF NoTask
    <3>2. task' = [task EXCEPT ![r] = t] /\ UNCHANGED vars /\ job' = job
      BY <1>1, <1>4, <2>1 DEF Goto, vars
    <3> HIDE DEF t
    <3>3. Control' /\ task'[r] = t /\ \A q \in Requests \ {r} : task'[q] = task[q]
      BY <1>2, <3>1, <3>2, StayControl DEF SInv
    <3> QED BY <2>1, <3>1, <3>2, <3>3 DEF Syncs
  <2>2. CASE ~(outcome = "ok" /\ status = "delivered")
    <3>1. Leave(r)
      BY <1>4, <2>2
    <3>2. /\ Control' /\ job' = job
          /\ task'[r] = NoTask /\ \A q \in Requests \ {r} : task'[q] = task[q]
      BY <1>1, <3>1, LeaveControl DEF SInv
    <3> QED BY <2>2, <3>2
  <2> QED BY <2>1, <2>2
<1>7. untold \subseteq untold' /\ untold' \subseteq DOMAIN shipments
  BY <1>3, <1>4
<1>8. \A q \in Requests : Creates(q)' => q # r /\ Creates(q)
  BY <1>6 DEF Creates, Syncs
<1>9. Tables' /\ Known' /\ RecordsMatch'
  BY <1>1, <1>5, <1>6, <1>7, <1>8 DEF SInv, Data, Tables, Known, KnownOrder, RecordsMatch
<1>10. OwnReference'
  <2>1. \A q \in Requests : Referring(q)' => q # r /\ Referring(q)
    BY <1>6, <1>8 DEF Referring
  <2> QED BY <1>1, <1>5, <1>6, <2>1 DEF SInv, Data, OwnReference
<1>11. Delivering'
  BY <1>3, <1>5, <1>6 DEF SInv, Data, Delivering, Syncs
<1>12. DeliveredIsTold'
  <2> SUFFICES ASSUME NEW i \in DOMAIN shipments', shipments'[i].status = "delivered"
               PROVE  \/ i \in untold'
                      \/ ~Exists(shipments[i].order)
                      \/ \E m \in DOMAIN outbox :
                           outbox[m].order = shipments[i].order /\ outbox[m].status = "delivered"
                      \/ \E q \in Requests :
                           /\ At(q, "read")' \/ At(q, "order")'
                           /\ task'[q].kind = "sync" /\ task'[q].shipment = i
    BY <1>1, <1>5 DEF DeliveredIsTold, Exists
  <2>1. CASE i = k /\ outcome = "ok"
    <3>1. status = "delivered"
      BY <1>5, <2>1 DEF Applied
    <3> QED BY <1>6, <2>1, <3>1 DEF At, Syncs
  <2>2. CASE i = k /\ outcome = "unacked"
    <3>1. status = "delivered"
      BY <1>5, <2>2 DEF Applied
    <3> QED BY <1>4, <2>2, <3>1
  <2>3. CASE i # k \/ outcome = "lost"
    <3>1. shipments[i].status = "delivered" /\ i \in DOMAIN shipments
      BY <1>5, <2>3 DEF Applied
    <3>2. \A q \in Requests : At(q, "read") \/ At(q, "order") => q # r
      BY <1>1 DEF At
    <3> QED BY <1>6, <1>7, <3>1, <3>2 DEF SInv, Data, DeliveredIsTold, At
  <2>4. outcome \in {"ok", "lost", "unacked"}
    BY DEF Outcomes
  <2> QED BY <2>1, <2>2, <2>3, <2>4
<1> QED BY <1>6, <1>9, <1>10, <1>11, <1>12 DEF SInv, Data

(* A sync reads the order of a delivered shipment: it is written, or it    *)
(* has been told of, or it is deleted.                                     *)
LEMMA ReadOrderSInv ==
  ASSUME SInv, NEW r \in Requests, ReadOrder(r)
  PROVE  SInv'
<1> DEFINE k == task[r].shipment
           o == shipments[k].order
<1>1. /\ task[r] # NoTask /\ task[r].step = "read"
      /\ UNCHANGED <<orders, outbox, clock, warehouse, shipments, untold>>
      /\ IF Undelivered(o) THEN WriteOrder(r, o, "delivered", orders[o].details) ELSE Leave(r)
  BY DEF ReadOrder, At
<1>2. Syncs(r) /\ ~Creates(r) /\ task[r] \in SyncTasks
  BY <1>1, TaskTypes DEF SInv, Control, CreateTasks, Creates, Syncs
<1>3. k \in DOMAIN shipments /\ o \in Orders /\ KnownOrder(o)
  BY <1>2, RowTypes DEF SInv, Data, Delivering, Known
<1>4. /\ Control'
      /\ \A q \in Requests \ {r} : job'[q] = job[q] /\ task'[q] = task[q]
      /\ IF Undelivered(o)
         THEN /\ Syncs(r)' /\ task'[r].step = "order" /\ task'[r].shipment = k
              /\ job'[r].order = o /\ job'[r].row.status = "delivered"
         ELSE task'[r] = NoTask
  <2>1. CASE Undelivered(o)
    <3>1. orders[o].details \in Details /\ "delivered" \in Statuses
      BY <1>3, ShipmentAssumption DEF SInv, Control, IInv, TypeOK, Rows
    <3>2. WriteOrder(r, o, "delivered", orders[o].details)
      BY <1>1, <2>1
    <3> HIDE DEF o
    <3>3. /\ Control'
          /\ job'[r].order = o /\ job'[r].row.status = "delivered"
          /\ \A q \in Requests \ {r} : job'[q] = job[q] /\ task'[q] = task[q]
          /\ task'[r] = [task[r] EXCEPT !.step = "order"] /\ task'[r] \in SyncTasks
      BY <1>1, <1>2, <1>3, <3>1, <3>2, WriteControl DEF SInv
    <3>4. task'[r].step = "order" /\ task'[r].shipment = k
      BY <1>2, <3>3 DEF SyncTasks
    <3>5. Syncs(r)'
      BY <3>3 DEF Syncs, SyncTasks, NoTask
    <3> QED BY <2>1, <3>3, <3>4, <3>5
  <2>2. CASE ~Undelivered(o)
    <3>1. Leave(r)
      BY <1>1, <2>2
    <3>2. /\ Control' /\ job' = job
          /\ task'[r] = NoTask /\ \A q \in Requests \ {r} : task'[q] = task[q]
      BY <1>1, <3>1, LeaveControl DEF SInv
    <3> QED BY <2>2, <3>2
  <2> QED BY <2>1, <2>2
<1>5. ~Undelivered(o) =>
        \/ ~Exists(o)
        \/ \E m \in DOMAIN outbox : outbox[m].order = o /\ outbox[m].status = "delivered"
  BY <1>3 DEF Undelivered, SInv, Control, IInv, StatusTold, Latest
<1> HIDE DEF k, o
<1>6. \A q \in Requests : Creates(q)' => q # r /\ Creates(q)
  BY <1>4 DEF Creates, Syncs
<1>7. Tables' /\ Known' /\ RecordsMatch' /\ OwnReference'
  <2>1. \A q \in Requests : Referring(q)' => q # r /\ Referring(q)
    BY <1>4, <1>6 DEF Referring
  <2> QED BY <1>1, <1>4, <1>6, <2>1
       DEF SInv, Data, Tables, Known, KnownOrder, RecordsMatch, OwnReference
<1>8. Delivering'
  BY <1>1, <1>3, <1>4 DEF SInv, Data, Delivering, Syncs, o
<1>9. DeliveredIsTold'
  <2> SUFFICES ASSUME NEW i \in DOMAIN shipments, shipments[i].status = "delivered"
               PROVE  \/ i \in untold
                      \/ ~Exists(shipments[i].order)
                      \/ \E m \in DOMAIN outbox :
                           outbox[m].order = shipments[i].order /\ outbox[m].status = "delivered"
                      \/ \E q \in Requests :
                           /\ At(q, "read")' \/ At(q, "order")'
                           /\ task'[q].kind = "sync" /\ task'[q].shipment = i
    BY <1>1 DEF DeliveredIsTold, Exists
  <2>1. CASE i = k
    BY <1>4, <1>5, <2>1 DEF At, Syncs, o
  <2>2. CASE i # k
    BY <1>4, <2>2 DEF SInv, Data, DeliveredIsTold, At, k
  <2> QED BY <2>1, <2>2
<1> QED BY <1>4, <1>7, <1>8, <1>9 DEF SInv, Data

-----------------------------------------------------------------------------
(* What a step of a transaction, or a request of the order endpoints, does *)
(* to the orders and the outbox: an order that is known stays known, one   *)
(* that is deleted stays deleted, and events stay.                         *)
LEMMA OrderFacts ==
  ASSUME SInv, NEW r \in Requests, Request(r) \/ NewEvent(r) \/ Transaction(r)
  PROVE  /\ \A o \in Orders : KnownOrder(o) => KnownOrder(o)'
         /\ \A o \in Orders : KnownOrder(o) /\ ~Exists(o) => ~Exists(o)'
         /\ \A m \in DOMAIN outbox : m \in DOMAIN outbox' /\ outbox'[m] = outbox[m]
         /\ \A q \in Requests \ {r} : pc'[q] = pc[q] /\ job'[q] = job[q]
<1>1. IInv /\ TypeOK
  BY DEF SInv, Control, IInv
<1>2. \A o \in Orders : KnownOrder(o) /\ ~Exists(o) => ~Exists(o)'
  <2> SUFFICES ASSUME NEW o \in Orders, KnownOrder(o), ~Exists(o)
               PROVE  ~Exists(o)'
    OBVIOUS
  <2>1. orders[o].status = "deleted"
    BY <1>1 DEF TypeOK, Rows, Exists, KnownOrder
  <2>2. orders'[o].status = "deleted"
    BY <1>1, <2>1, DeletedStep
  <2> QED BY <2>2, ConstantsAssumption DEF Exists
<1>3. CASE Commit(r)
  <2>1. /\ \A o \in Orders : KnownOrder(o) => KnownOrder(o)'
        /\ \A m \in DOMAIN outbox : m \in DOMAIN outbox' /\ outbox'[m] = outbox[m]
    BY <1>1, <1>3, CommitEffect, ConstantsAssumption DEF KnownOrder
  <2>2. \A q \in Requests \ {r} : pc'[q] = pc[q] /\ job'[q] = job[q]
    BY <1>1, <1>3, EndEffect DEF Commit
  <2> QED BY <1>2, <2>1, <2>2
<1>4. CASE \E o \in Orders : DeleteOrder(r, o)
  <2>1. PICK o \in Orders : DeleteOrder(r, o)
    BY <1>4
  <2> QED BY <1>1, <1>2, <2>1 DEF DeleteOrder, TypeOK, KnownOrder, Rows
<1>5. CASE ~Commit(r) /\ ~\E o \in Orders : DeleteOrder(r, o)
  <2>1. UNCHANGED <<orders, outbox>>
    BY <1>5 DEF Request, CreateOrder, UpdateOrder, UpdateOrderStatus, NewEvent, Transaction,
       UpdateInTx, InsertMessage, Fail
  <2>2. \A q \in Requests \ {r} : pc'[q] = pc[q] /\ job'[q] = job[q]
    BY <1>1, <1>5 DEF Request, CreateOrder, UpdateOrder, UpdateOrderStatus, NewEvent, Transaction,
       UpdateInTx, InsertMessage, Fail, Carry, End, TypeOK
  <2> QED BY <1>2, <2>1, <2>2 DEF KnownOrder
<1> QED BY <1>3, <1>4, <1>5

(* The requests to the order endpoints do not disturb the shipments.       *)
LEMMA OrderStepSInv ==
  ASSUME SInv, NEW r \in Requests, OrderStep(r)
  PROVE  SInv'
<1>1. /\ task[r] = NoTask /\ UNCHANGED <<warehouse, shipments, task, untold>>
      /\ Request(r) \/ NewEvent(r) \/ Transaction(r)
  BY DEF OrderStep, shipmentVars
<1>2. IInv'
  BY <1>1, RequestIInv, NewEventIInv, TransactionIInv DEF SInv, Control, OthersBuiltFirst
<1>3. Tasks' /\ Tables' /\ RecordsMatch' /\ OwnReference'
  BY <1>1 DEF SInv, Control, Data, Tasks, Tables, RecordsMatch, OwnReference, Referring, Creates
<1>4. /\ \A o \in Orders : KnownOrder(o) => KnownOrder(o)'
      /\ \A o \in Orders : KnownOrder(o) /\ ~Exists(o) => ~Exists(o)'
      /\ \A m \in DOMAIN outbox : m \in DOMAIN outbox' /\ outbox'[m] = outbox[m]
      /\ \A q \in Requests \ {r} : pc'[q] = pc[q] /\ job'[q] = job[q]
  BY <1>1, OrderFacts
<1>5. Handed'
  BY <1>1, <1>4 DEF SInv, Control, Handed, Working
<1>6. OthersBuiltFirst'
  BY <1>1, BuiltFirstStep DEF SInv, Control, IInv, OthersBuiltFirst
<1>7. /\ \A i \in DOMAIN shipments : shipments[i].order \in Orders
      /\ \A q \in Requests : Creates(q) => task[q].order \in Orders
  BY RowTypes, TaskTypes DEF SInv, Control, Data, CreateTasks
<1>8. Known'
  BY <1>1, <1>4, <1>7 DEF SInv, Data, Known, Creates
<1>9. Delivering'
  BY <1>1, <1>4 DEF SInv, Data, Delivering, Syncs
<1>10. DeliveredIsTold'
  BY <1>1, <1>4, <1>7 DEF SInv, Data, Known, DeliveredIsTold, At
<1> QED BY <1>2, <1>3, <1>5, <1>6, <1>8, <1>9, <1>10 DEF SInv, Control, Data

(* The event is built while the order is locked.                           *)
LEMMA NewEventInTxSInv ==
  ASSUME SInv, NEW r \in Requests, NewEventInTx(r)
  PROVE  SInv'
<1>1. /\ task[r] # NoTask /\ pc[r] = "insert" /\ clock' = clock + 1
      /\ job' = [job EXCEPT ![r].created = clock + 1]
      /\ UNCHANGED <<orders, outbox, pc, warehouse, shipments, task, untold>>
  BY DEF NewEventInTx, shipmentVars
<1>2. /\ job[r] \in Jobs /\ Working(r) /\ clock \in Nat
      /\ job \in [Requests -> Jobs \cup {NoJob}] /\ pc \in [Requests -> Steps]
  BY <1>1 DEF SInv, Control, IInv, TypeOK, Working
<1>3. IInv'
  <2>1. pc' = [pc EXCEPT ![r] = "insert"] /\ pc[r] \in Writing
    BY <1>1, <1>2 DEF Writing
  <2> QED BY <1>1, <1>2, <2>1, BuiltIInv DEF SInv, Control
<1> DEFINE j == [job[r] EXCEPT !.created = clock + 1]
<1>4. /\ j \in Jobs /\ j # NoJob /\ j.type = job[r].type
      /\ j.order = job[r].order /\ j.row = job[r].row /\ j.created # 0
  BY <1>2, JobIsNoNoJob DEF Jobs
<1>5. job' = [job EXCEPT ![r] = j]
  BY <1>1
<1> HIDE DEF j
<1>6. job'[r] = j /\ \A q \in Requests \ {r} : job'[q] = job[q]
  BY <1>2, <1>5
<1>7. Tasks' /\ Handed' /\ OthersBuiltFirst'
  BY <1>1, <1>4, <1>6 DEF SInv, Control, Tasks, Handed, OthersBuiltFirst, Working
<1>8. Tables' /\ Known' /\ RecordsMatch' /\ OwnReference'
  BY <1>1 DEF SInv, Data, Tables, Known, KnownOrder, RecordsMatch, OwnReference, Referring, Creates
<1>9. Delivering'
  BY <1>1, <1>4, <1>6 DEF SInv, Data, Delivering, Syncs
<1>10. DeliveredIsTold'
  BY <1>1 DEF SInv, Data, DeliveredIsTold, Exists, At
<1> QED BY <1>3, <1>7, <1>8, <1>9, <1>10 DEF SInv, Control, Data

(* The transaction goes on, or the request ends with it: if it was to tell *)
(* of a delivery it has, or it has failed, or the order is deleted.        *)
LEMMA OrderTransactionSInv ==
  ASSUME SInv, NEW r \in Requests, OrderTransaction(r)
  PROVE  SInv'
<1>1. /\ task[r] # NoTask
      /\ task' = IF pc'[r] = "done" THEN [task EXCEPT ![r] = NoTask] ELSE task
      /\ UNCHANGED <<warehouse, shipments>>
      /\ \/ UpdateInTx(r) /\ untold' = untold
         \/ InsertMessage(r) /\ job[r].created # 0 /\ untold' = untold
         \/ Commit(r) /\ untold' = untold
         \/ Fail(r) /\ untold' = NotTold(r)
  BY DEF OrderTransaction
<1>2. Transaction(r) /\ pc[r] \in {"write", "insert", "commit"}
  BY <1>1 DEF Transaction, UpdateInTx, InsertMessage, Commit, Fail
<1>3. IInv'
  BY <1>1, UpdateInTxIInv, InsertMessageIInv, CommitIInv, FailIInv DEF SInv, Control
<1>4. /\ \A o \in Orders : KnownOrder(o) => KnownOrder(o)'
      /\ \A o \in Orders : KnownOrder(o) /\ ~Exists(o) => ~Exists(o)'
      /\ \A m \in DOMAIN outbox : m \in DOMAIN outbox' /\ outbox'[m] = outbox[m]
      /\ \A q \in Requests \ {r} : pc'[q] = pc[q] /\ job'[q] = job[q]
  BY <1>2, OrderFacts
<1>5. \/ pc'[r] = "done" /\ End(r)
      \/ pc'[r] \in {"insert", "commit"} /\ job' = job
  <2>1. pc \in [Requests -> Steps]
    BY DEF SInv, Control, IInv, TypeOK
  <2> QED BY <1>1, <2>1 DEF UpdateInTx, Commit, Fail, InsertMessage, End
<1>6. /\ \A q \in Requests \ {r} : task'[q] = task[q]
      /\ IF pc'[r] = "done" THEN task'[r] = NoTask ELSE task'[r] = task[r]
      /\ Tasks'
  BY <1>1 DEF SInv, Control, Tasks
<1>7. Handed' /\ OthersBuiltFirst'
  <2>1. /\ task[r].step = "order" /\ Working(r) /\ job[r].type = "statusChanged"
    BY <1>1, <1>2 DEF SInv, Control, Handed
  <2> QED BY <1>1, <1>4, <1>5, <1>6, <2>1 DEF SInv, Control, Handed, OthersBuiltFirst, Working
<1>8. /\ \A i \in DOMAIN shipments : shipments[i].order \in Orders
      /\ \A q \in Requests : Creates(q) => task[q].order \in Orders
      /\ \A q \in Requests : Creates(q)' => Creates(q) /\ task'[q] = task[q]
  BY <1>6, RowTypes, TaskTypes DEF SInv, Control, Data, CreateTasks, Creates
<1>9. untold \subseteq untold' /\ untold' \subseteq DOMAIN shipments
  BY <1>1 DEF NotTold, SInv, Data, Tables, Delivering, Syncs
<1>10. Tables' /\ Known' /\ RecordsMatch'
  BY <1>1, <1>4, <1>8, <1>9 DEF SInv, Data, Tables, Known, RecordsMatch
<1>11. OwnReference'
  BY <1>1, <1>8 DEF SInv, Data, OwnReference, Referring
<1>12. Delivering'
  BY <1>1, <1>4, <1>5, <1>6 DEF SInv, Data, Delivering, Syncs
<1>13. DeliveredIsTold'
  <2> SUFFICES ASSUME NEW i \in DOMAIN shipments, shipments[i].status = "delivered"
               PROVE  \/ i \in untold'
                      \/ ~Exists(shipments[i].order)'
                      \/ \E m \in DOMAIN outbox' :
                           outbox'[m].order = shipments[i].order /\ outbox'[m].status = "delivered"
                      \/ \E q \in Requests :
                           /\ At(q, "read")' \/ At(q, "order")'
                           /\ task'[q].kind = "sync" /\ task'[q].shipment = i
    BY <1>1 DEF DeliveredIsTold, Exists
  <2>1. CASE i \in untold
    BY <1>9, <2>1
  <2>2. ~Exists(shipments[i].order) => ~Exists(shipments[i].order)'
    <3>1. shipments[i].order \in Orders /\ KnownOrder(shipments[i].order) /\ shipments' = shipments
      BY <1>1, <1>8 DEF SInv, Data, Known
    <3>2. \A o \in Orders : KnownOrder(o) /\ ~Exists(o) => ~(orders'[o].status \in Statuses)
      BY <1>4 DEF Exists
    <3>3. ~Exists(shipments[i].order) => ~(orders'[shipments[i].order].status \in Statuses)
      BY <3>1, <3>2
    <3> QED BY <3>1, <3>3 DEF Exists
  <2>3. CASE \E m \in DOMAIN outbox :
               outbox[m].order = shipments[i].order /\ outbox[m].status = "delivered"
    BY <1>4, <2>3
  <2>4. ASSUME NEW q \in Requests, At(q, "read") \/ At(q, "order"),
               task[q].kind = "sync", task[q].shipment = i
        PROVE  \/ i \in untold'
               \/ ~Exists(shipments[i].order)'
               \/ \E m \in DOMAIN outbox' :
                    outbox'[m].order = shipments[i].order /\ outbox'[m].status = "delivered"
               \/ /\ At(q, "read")' \/ At(q, "order")'
                  /\ task'[q].kind = "sync" /\ task'[q].shipment = i
    <3>1. CASE q # r \/ pc'[r] # "done"
      <4>1. task'[q] = task[q]
        BY <1>6, <3>1
      <4> QED BY <2>4, <4>1 DEF At
    <3>2. CASE q = r /\ pc'[r] = "done"
      <4>1. /\ Syncs(r) /\ job[r].order = shipments[i].order /\ job[r].row.status = "delivered"
        <5>1. Syncs(r) /\ task[r].step = "order"
          BY <1>1, <1>2, <2>4, <3>2 DEF SInv, Control, Handed, Syncs
        <5> QED BY <2>4, <3>2, <5>1 DEF SInv, Data, Delivering
      <4>2. CASE Commit(r)
        BY <4>1, <4>2, CommitEffect DEF SInv, Control
      <4>3. CASE untold' = NotTold(r)
        BY <2>4, <3>2, <4>1, <4>3 DEF NotTold
      <4>4. CASE UpdateInTx(r)
        <5>1. ~Exists(shipments[i].order)
          <6>1. pc \in [Requests -> Steps]
            BY DEF SInv, Control, IInv, TypeOK
          <6>2. ~(job[r].type = "created" \/ Exists(job[r].order))
            BY <3>2, <4>4, <6>1 DEF UpdateInTx
          <6> QED BY <4>1, <6>2 DEF Exists
        <5> QED BY <2>2, <5>1
      <4>5. CASE InsertMessage(r)
        <5>1. pc \in [Requests -> Steps]
          BY DEF SInv, Control, IInv, TypeOK
        <5> QED BY <3>2, <4>5, <5>1 DEF InsertMessage
      <4> QED BY <1>1, <4>2, <4>3, <4>4, <4>5
    <3> QED BY <3>1, <3>2
  <2> QED BY <2>1, <2>2, <2>3, <2>4 DEF SInv, Data, DeliveredIsTold
<1> QED BY <1>3, <1>6, <1>7, <1>10, <1>11, <1>12, <1>13 DEF SInv, Control, Data

-----------------------------------------------------------------------------
(* Steps that change nothing keep the invariant.                           *)
LEMMA ShipmentStutter == SInv /\ UNCHANGED allVars => SInv'
<1> SUFFICES ASSUME SInv, UNCHANGED allVars PROVE SInv'
  OBVIOUS
<1>1. UNCHANGED <<orders, outbox, clock, pc, job, warehouse, shipments, task, untold>>
  BY DEF allVars, vars, shipmentVars
<1>2. Control'
  BY <1>1, StutterIInv
     DEF SInv, Control, Tasks, Handed, OthersBuiltFirst, Working, vars
<1>3. Data'
  BY <1>1 DEF SInv, Data, Tables, Known, KnownOrder, OwnReference, RecordsMatch, Delivering,
              DeliveredIsTold, Creates, Syncs, Referring, Exists, At
<1> QED BY <1>2, <1>3 DEF SInv

(* Every step of a request keeps the invariant.                            *)
LEMMA ShipmentNextSInv == SInv /\ [ShipmentNext]_allVars => SInv'
<1> SUFFICES ASSUME SInv, ShipmentNext PROVE SInv'
  BY ShipmentStutter
<1> PICK r \in Requests :
      \/ OrderStep(r) \/ CreateShipmentForOrder(r) \/ UpdateShipmentStatus(r)
      \/ NewEventInTx(r) \/ OrderTransaction(r) \/ Abandon(r)
  BY DEF ShipmentNext
<1>1. CASE CreateShipmentForOrder(r)
  BY <1>1, CreateShipmentSInv, PostSInv, RecordSInv DEF CreateShipmentForOrder
<1>2. CASE UpdateShipmentStatus(r)
  BY <1>2, SyncShipmentSInv, GetStatusSInv, UpdateStatusSInv, ReadOrderSInv
     DEF UpdateShipmentStatus
<1> QED BY <1>1, <1>2, OrderStepSInv, NewEventInTxSInv, OrderTransactionSInv, AbandonSInv

(* The invariant holds in every reachable state.                           *)
THEOREM ShipmentInvariance == ShipmentSpec => []SInv
<1> QED BY ShipmentInitSInv, ShipmentNextSInv, PTL DEF ShipmentSpec

(* Every variable keeps its type; a task is handed to OrderService as a job. *)
THEOREM ShipmentTypeCorrect == ShipmentSpec => []ShipmentTypeOK
<1> QED BY ShipmentInvariance, ShipmentTypes, PTL

(* With shipment requests beside the others, the event committed last for  *)
(* an order still tells the order's status.                                *)
THEOREM StatusToldWithShipments == ShipmentSpec => []StatusTold
<1>1. SInv => StatusTold
  BY DEF SInv, Control, IInv
<1> QED BY <1>1, ShipmentInvariance, PTL

(* The event of an order's creation is older than its other events, those  *)
(* built inside of a shipment's transaction included.                      *)
THEOREM CreatedComesFirstWithShipments == ShipmentSpec => []CreatedComesFirst
<1>1. SInv => CreatedComesFirst
  BY DEF SInv, Control, IInv
<1> QED BY <1>1, ShipmentInvariance, PTL

(* A record is of a shipment that the warehouse has created for the order, *)
(* however often the POST was retried; no two records are of the same one. *)
THEOREM RecordsMatchHolds == ShipmentSpec => []RecordsMatch
<1>1. SInv => RecordsMatch
  BY DEF SInv, Data
<1> QED BY <1>1, ShipmentInvariance, PTL

(* The news of a delivered shipment is in the outbox, or on its way, unless *)
(* the request that saved it failed between its two writes.                *)
THEOREM DeliveredIsToldHolds == ShipmentSpec => []DeliveredIsTold
<1>1. SInv => DeliveredIsTold
  BY DEF SInv, Data
<1> QED BY <1>1, ShipmentInvariance, PTL

(* A request that marks an order as shipped has recorded its shipment.     *)
THEOREM ShippedIsRecordedHolds == ShipmentSpec => ShippedIsRecorded
<1>1. SInv
        => [\A r \in Requests :
              outbox' # outbox /\ At(r, "order") /\ task[r].kind = "create" /\ pc'[r] # pc[r] =>
                \E i \in DOMAIN shipments : shipments[i].ref = task[r].ref]_allVars
  BY DEF SInv, Data, OwnReference, Referring, Creates, At
<1> QED BY <1>1, ShipmentInvariance, PTL DEF ShippedIsRecorded

(* One step of any request, for a shipment or not, neither revives a       *)
(* deleted order nor tells of it.                                          *)
LEMMA ShipmentDeletedStep ==
  ASSUME SInv, ShipmentNext, NEW k \in Orders, orders[k].status = "deleted"
  PROVE  /\ orders'[k].status = "deleted"
         /\ \A i \in DOMAIN outbox' \ DOMAIN outbox : outbox'[i].order # k
<1> PICK r \in Requests :
      \/ OrderStep(r) \/ CreateShipmentForOrder(r) \/ UpdateShipmentStatus(r)
      \/ NewEventInTx(r) \/ OrderTransaction(r) \/ Abandon(r)
  BY DEF ShipmentNext
<1>1. CASE OrderStep(r) \/ OrderTransaction(r)
  <2>1. IInv /\ (Request(r) \/ NewEvent(r) \/ Transaction(r))
    BY <1>1 DEF SInv, Control, OrderStep, OrderTransaction, Transaction
  <2> QED BY <2>1, DeletedStep
<1>2. CASE CreateShipmentForOrder(r)
  <2>1. UNCHANGED <<orders, outbox>>
    BY <1>2 DEF CreateShipmentForOrder, CreateShipment, Post, Record, vars
  <2> QED BY <2>1
<1>3. CASE UpdateShipmentStatus(r)
  <2>1. UNCHANGED <<orders, outbox>>
    BY <1>3 DEF UpdateShipmentStatus, SyncShipment, GetStatus, UpdateStatus, ReadOrder, vars
  <2> QED BY <2>1
<1>4. CASE NewEventInTx(r) \/ Abandon(r)
  <2>1. UNCHANGED <<orders, outbox>>
    BY <1>4 DEF NewEventInTx, Abandon
  <2> QED BY <2>1
<1> QED BY <1>1, <1>2, <1>3, <1>4

(* No request brings a deleted order, or news of it, back: not even one    *)
(* that goes by the copy it took before its calls to the warehouse.        *)
THEOREM NothingAfterDeleteWithShipments == ShipmentSpec => NothingAfterDelete
<1>1. SInv /\ [ShipmentNext]_allVars
        => [\A o \in Orders : orders[o].status = "deleted" =>
              /\ orders'[o].status = "deleted"
              /\ \A i \in DOMAIN outbox' \ DOMAIN outbox : outbox'[i].order # o]_vars
  <2> SUFFICES ASSUME SInv, ShipmentNext, NEW k \in Orders, orders[k].status = "deleted"
               PROVE  /\ orders'[k].status = "deleted"
                      /\ \A i \in DOMAIN outbox' \ DOMAIN outbox : outbox'[i].order # k
    BY DEF allVars
  <2> QED BY ShipmentDeletedStep
<1> QED BY <1>1, ShipmentInvariance, PTL DEF ShipmentSpec, NothingAfterDelete

-----------------------------------------------------------------------------
(* Refinement.  Only a transaction or a deletion touches what OrderLog is  *)
(* about; a shipment request never creates an order.                       *)
LEMMA ShipmentLogStep ==
  ASSUME SInv, NewIsPending, [ShipmentNext]_allVars
  PROVE  NewIsPending' /\ [Log!Next]_(Log!vars)
<1>1. CASE UNCHANGED <<orders, outbox, job>>
  BY <1>1 DEF NewIsPending, Working, Log!vars
<1>2. ASSUME NEW r \in Requests, OrderStep(r) \/ OrderTransaction(r)
      PROVE  NewIsPending' /\ [Log!Next]_(Log!vars)
  <2>1. IInv /\ TypeOK /\ (Request(r) \/ NewEvent(r) \/ Transaction(r))
    BY <1>2 DEF SInv, Control, IInv, OrderStep, OrderTransaction, Transaction
  <2> QED BY <2>1, NewIsPendingStep, LogStep
<1>3. ASSUME NEW r \in Requests, NEW o, NEW status, NEW details,
             WriteOrder(r, o, status, details), UNCHANGED <<orders, outbox>>
      PROVE  NewIsPending' /\ [Log!Next]_(Log!vars)
  <2> DEFINE j == [type |-> "statusChanged", order |-> o,
                   row |-> [status |-> status, details |-> details], created |-> 0]
  <2>1. job' = [job EXCEPT ![r] = j] /\ j.type = "statusChanged"
    BY <1>3 DEF WriteOrder
  <2> HIDE DEF j
  <2>2. job'[r] = j /\ \A q \in Requests \ {r} : job'[q] = job[q]
    BY <2>1 DEF SInv, Control, IInv, TypeOK
  <2>3. NewIsPending'
    BY <2>1, <2>2 DEF NewIsPending, Working
  <2> QED BY <1>3, <2>3 DEF Log!vars
<1>4. ASSUME NEW r \in Requests, NewEventInTx(r)
      PROVE  NewIsPending' /\ [Log!Next]_(Log!vars)
  <2> DEFINE j == [job[r] EXCEPT !.created = clock + 1]
  <2>1. job[r] \in Jobs /\ Working(r)
    BY <1>4 DEF NewEventInTx, SInv, Control, IInv, TypeOK, Working
  <2>2. job' = [job EXCEPT ![r] = j] /\ j.type = job[r].type /\ j.row = job[r].row
    BY <1>4, <2>1 DEF NewEventInTx, Jobs
  <2> HIDE DEF j
  <2>3. job'[r] = j /\ \A q \in Requests \ {r} : job'[q] = job[q]
    BY <2>2 DEF SInv, Control, IInv, TypeOK
  <2>4. NewIsPending'
    BY <2>1, <2>2, <2>3 DEF NewIsPending, Working
  <2> QED BY <1>4, <2>4 DEF NewEventInTx, Log!vars
<1>5. ASSUME NEW r \in Requests, CreateShipmentForOrder(r)
      PROVE  NewIsPending' /\ [Log!Next]_(Log!vars)
  <2>1. CASE (\E o \in Orders : CreateShipment(r, o)) \/ Post(r)
    BY <1>1, <2>1 DEF CreateShipment, Post, Leave, vars
  <2>2. CASE Record(r)
    BY <1>1, <1>3, <2>2 DEF Record, ShipOrder, Leave
  <2> QED BY <1>5, <2>1, <2>2 DEF CreateShipmentForOrder
<1>6. ASSUME NEW r \in Requests, UpdateShipmentStatus(r)
      PROVE  NewIsPending' /\ [Log!Next]_(Log!vars)
  <2>1. CASE (\E i \in DOMAIN shipments : SyncShipment(r, i)) \/ GetStatus(r) \/ UpdateStatus(r)
    BY <1>1, <2>1 DEF SyncShipment, GetStatus, UpdateStatus, Leave, vars
  <2>2. CASE ReadOrder(r)
    BY <1>1, <1>3, <2>2 DEF ReadOrder, Leave
  <2> QED BY <1>6, <2>1, <2>2 DEF UpdateShipmentStatus
<1>7. ASSUME NEW r \in Requests, Abandon(r)
      PROVE  NewIsPending' /\ [Log!Next]_(Log!vars)
  BY <1>1, <1>7 DEF Abandon, Leave
<1> QED BY <1>1, <1>2, <1>4, <1>5, <1>6, <1>7 DEF ShipmentNext, allVars, vars

(***************************************************************************)
(* With shipment requests among the others, each change of an order is     *)
(* still committed with its event, and the events tell the changes in the  *)
(* order in which they were made.                                          *)
(***************************************************************************)
THEOREM LogRefinementWithShipments == ShipmentSpec => LogSpec
<1>1. ShipmentInit => Log!Init /\ NewIsPending
  BY LogInit DEF ShipmentInit
<1>2. SInv /\ NewIsPending /\ [ShipmentNext]_allVars => NewIsPending' /\ [Log!Next]_(Log!vars)
  BY ShipmentLogStep
<1> QED BY <1>1, <1>2, ShipmentInvariance, PTL DEF ShipmentSpec, LogSpec, Log!Spec

-----------------------------------------------------------------------------
(* What each request has made the warehouse create is bounded by the       *)
(* attempts that it has begun before the present one, and it has made      *)
(* nothing before it begins.                                               *)
Made(r) == {i \in DOMAIN warehouse : warehouse[i].by = r}

Tried ==
  \A r \in Requests :
    /\ Cardinality(Made(r)) <= MaxAttempts
    /\ task[r] = NoTask /\ pc[r] = "new" => Cardinality(Made(r)) = 0
    /\ At(r, "post") => Cardinality(Made(r)) < task[r].attempt

(* One attempt makes at most one, and it is the request's own.             *)
LEMMA MadeGrows ==
  ASSUME SInv, NEW r \in Requests, NEW created, Create(r, created)
  PROVE  /\ \A q \in Requests : Cardinality(Made(q)) \in Nat
         /\ \A q \in Requests \ {r} : Made(q)' = Made(q)
         /\ Cardinality(Made(r)') \in Nat
         /\ Cardinality(Made(r)') <= Cardinality(Made(r)) + 1
<1>1. warehouse \in Seq(Creations) /\ DOMAIN warehouse = 1 .. Len(warehouse) /\ Len(warehouse) \in Nat
  BY RowTypes DEF SInv, Data, Tables
<1>2. \A q \in Requests : IsFiniteSet(Made(q)) /\ Cardinality(Made(q)) \in Nat
  <2> SUFFICES ASSUME NEW q \in Requests
               PROVE  IsFiniteSet(Made(q)) /\ Cardinality(Made(q)) \in Nat
    OBVIOUS
  <2>1. IsFiniteSet(1 .. Len(warehouse))
    BY <1>1, FS_Interval
  <2>2. Made(q) \subseteq 1 .. Len(warehouse)
    BY <1>1 DEF Made
  <2>3. IsFiniteSet(Made(q))
    BY <2>1, <2>2, FS_Subset
  <2> QED BY <2>3, FS_CardinalityType
<1> DEFINE c == [order |-> task[r].order, by |-> r]
           n == Len(warehouse) + 1
<1>3. warehouse' = IF created THEN Append(warehouse, c) ELSE warehouse
  BY DEF Create
<1>4. c.by = r
  OBVIOUS
<1> HIDE DEF c
<1>5. CASE created
  <2>1. /\ DOMAIN warehouse' = DOMAIN warehouse \cup {n} /\ n \notin DOMAIN warehouse
        /\ \A i \in DOMAIN warehouse : warehouse'[i] = warehouse[i]
        /\ warehouse'[n].by = r
    BY <1>1, <1>3, <1>4, <1>5
  <2> HIDE DEF n
  <2>2. /\ Made(r)' = Made(r) \cup {n} /\ n \notin Made(r)
        /\ \A q \in Requests \ {r} : Made(q)' = Made(q)
    BY <2>1 DEF Made
  <2>3. Cardinality(Made(r) \cup {n}) = Cardinality(Made(r)) + 1
    BY <1>2, <2>2, FS_AddElement
  <2> QED BY <1>2, <2>2, <2>3
<1>6. CASE ~created
  <2>1. \A q \in Requests : Made(q)' = Made(q)
    BY <1>3, <1>6 DEF Made
  <2> QED BY <1>2, <2>1
<1> QED BY <1>5, <1>6

(* The arithmetic of an attempt: made before it, made after it, the        *)
(* attempt and the attempts a request has.                                 *)
LEMMA OneAttempt ==
  ASSUME NEW before \in Nat, NEW after \in Nat, NEW attempt \in Nat, NEW most \in Nat,
         after <= before + 1, before < attempt, attempt <= most
  PROVE  /\ after <= most
         /\ after < attempt + 1
OBVIOUS

(* One attempt keeps the count, whatever becomes of it.                    *)
LEMMA PostTried ==
  ASSUME SInv, Tried, NEW r \in Requests, Post(r)
  PROVE  Tried'
<1>1. /\ At(r, "post") /\ task[r] # NoTask /\ task[r].step = "post"
      /\ pc[r] = "new" /\ pc \in [Requests -> Steps]
  BY DEF Post, At, SInv, Control, Handed, IInv, TypeOK
<1>2. /\ task[r] \in CreateTasks
      /\ task[r].attempt \in 1 .. MaxAttempts
      /\ task \in [Requests -> CreateTasks \cup SyncTasks \cup {NoTask}]
  BY <1>1, TaskTypes DEF SInv, Control, Tasks, CreateTasks, SyncTasks
<1>3. PICK a \in Answers :
        /\ Create(r, a.created)
        /\ \/ /\ task' = [task EXCEPT ![r].step = "record", ![r].ref = Len(warehouse')]
              /\ UNCHANGED <<pc, job>>
           \/ /\ task' = [task EXCEPT ![r].attempt = @ + 1]
              /\ UNCHANGED <<pc, job>>
           \/ Leave(r)
  BY DEF Post
<1>4. /\ \A q \in Requests : Cardinality(Made(q)) \in Nat
      /\ \A q \in Requests \ {r} : Made(q)' = Made(q)
      /\ Cardinality(Made(r)') \in Nat
      /\ Cardinality(Made(r)') <= Cardinality(Made(r)) + 1
  BY <1>3, MadeGrows
<1>5. /\ Cardinality(Made(r)') <= MaxAttempts
      /\ Cardinality(Made(r)') < task[r].attempt + 1
  <2>1. Cardinality(Made(r)) < task[r].attempt
    BY <1>1 DEF Tried
  <2>2. task[r].attempt \in Nat /\ task[r].attempt <= MaxAttempts /\ MaxAttempts \in Nat
    BY <1>2, ShipmentAssumption
  <2> QED BY <1>4, <2>1, <2>2, OneAttempt
<1>6. \A q \in Requests \ {r} : task'[q] = task[q] /\ pc'[q] = pc[q]
  BY <1>1, <1>2, <1>3 DEF Leave
<1>7. /\ ~(task'[r] = NoTask /\ pc'[r] = "new")
      /\ At(r, "post")' => task'[r].attempt = task[r].attempt + 1
  <2>1. CASE task' = [task EXCEPT ![r].step = "record", ![r].ref = Len(warehouse')]
    <3> DEFINE n == Len(warehouse')
               t == [task[r] EXCEPT !.step = "record", !.ref = n]
    <3>1. task'[r] = t
      BY <1>2, <2>1
    <3> HIDE DEF n
    <3>2. t.step = "record" /\ t.kind = "create"
      BY <1>2 DEF CreateTasks
    <3>3. t # NoTask
      <4> HIDE DEF t
      <4> QED BY <3>2 DEF NoTask, CreateTasks, t
    <3> QED BY <3>1, <3>2, <3>3 DEF At
  <2>2. CASE task' = [task EXCEPT ![r].attempt = @ + 1]
    <3> DEFINE t == [task[r] EXCEPT !.attempt = task[r].attempt + 1]
    <3>1. task'[r] = t
      BY <1>2, <2>2
    <3>2. t.attempt = task[r].attempt + 1 /\ t.kind = "create"
      BY <1>2 DEF CreateTasks
    <3> HIDE DEF t
    <3> QED BY <3>1, <3>2 DEF NoTask
  <2>3. CASE Leave(r)
    BY <1>1, <1>2, <2>3 DEF Leave, At
  <2> QED BY <1>3, <2>1, <2>2, <2>3
<1> QED BY <1>4, <1>5, <1>6, <1>7 DEF Tried, At

(* Whoever does not ask the warehouse, and does not begin anew, leaves the *)
(* count as it is.                                                         *)
LEMMA UnaskedTried ==
  ASSUME Tried, warehouse' = warehouse,
         \A q \in Requests :
           /\ task'[q] = NoTask /\ pc'[q] = "new" => task[q] = NoTask /\ pc[q] = "new"
           /\ At(q, "post")' =>
                \/ At(q, "post") /\ task'[q].attempt = task[q].attempt
                \/ task[q] = NoTask /\ pc[q] = "new" /\ task'[q].attempt = 1
  PROVE  Tried'
<1>1. \A q \in Requests : Made(q)' = Made(q)
  BY DEF Made
<1>2. ASSUME NEW q \in Requests, At(q, "post")'
      PROVE  Cardinality(Made(q)) < task'[q].attempt
  BY <1>2 DEF Tried
<1> QED BY <1>1, <1>2 DEF Tried

(* Every step keeps the count.                                             *)
LEMMA NextTried ==
  ASSUME SInv, Tried, [ShipmentNext]_allVars
  PROVE  Tried'
<1>1. CASE UNCHANGED allVars
  BY <1>1, UnaskedTried DEF allVars, vars, shipmentVars, At
<1>2. ASSUME NEW r \in Requests,
             \/ OrderStep(r) \/ CreateShipmentForOrder(r) \/ UpdateShipmentStatus(r)
             \/ NewEventInTx(r) \/ OrderTransaction(r) \/ Abandon(r)
      PROVE  Tried'
  <2>1. /\ pc \in [Requests -> Steps]
        /\ task \in [Requests -> CreateTasks \cup SyncTasks \cup {NoTask}]
    BY DEF SInv, Control, Tasks, IInv, TypeOK
  <2>2. CASE OrderStep(r)
    <3>1. /\ UNCHANGED <<warehouse, task>> /\ task[r] = NoTask
          /\ Request(r) \/ NewEvent(r) \/ Transaction(r)
      BY <2>2 DEF OrderStep, shipmentVars
    <3>2. \A q \in Requests \ {r} : pc'[q] = pc[q]
      BY <3>1, OrderFacts
    <3>3. pc'[r] # "new"
      BY <2>1, <3>1 DEF Request, CreateOrder, UpdateOrder, UpdateOrderStatus, DeleteOrder, NewEvent,
         Transaction, UpdateInTx, InsertMessage, Commit, Fail, Carry, End
    <3> QED BY <3>1, <3>2, <3>3, UnaskedTried DEF At
  <2>3. CASE \E o \in Orders : CreateShipment(r, o)
    <3>1. PICK o \in Orders : CreateShipment(r, o)
      BY <2>3
    <3> DEFINE t == [kind |-> "create", step |-> "post", order |-> o, status |-> orders[o].status,
                     details |-> orders[o].details, attempt |-> 1, ref |-> 0]
    <3>2. /\ pc[r] = "new" /\ task[r] = NoTask
          /\ task' = [task EXCEPT ![r] = t] /\ UNCHANGED <<pc, warehouse>>
      BY <3>1 DEF CreateShipment, vars
    <3>3. t.attempt = 1 /\ t.kind = "create"
      OBVIOUS
    <3> HIDE DEF t
    <3>4. /\ task'[r] = t /\ t # NoTask
          /\ \A q \in Requests \ {r} : task'[q] = task[q]
      BY <2>1, <3>2, <3>3 DEF NoTask
    <3> QED BY <3>2, <3>3, <3>4, UnaskedTried DEF At
  <2>4. CASE Post(r)
    BY <2>4, PostTried
  <2>5. CASE Leave(r) /\ warehouse' = warehouse
    <3>1. /\ task'[r] = NoTask /\ pc'[r] = "done"
          /\ \A q \in Requests \ {r} : task'[q] = task[q] /\ pc'[q] = pc[q]
      BY <2>1, <2>5 DEF Leave
    <3> QED BY <2>5, <3>1, UnaskedTried DEF At
  <2>6. ASSUME NEW o, NEW status, NEW details, WriteOrder(r, o, status, details),
               At(r, "record") \/ At(r, "read"), warehouse' = warehouse
        PROVE  Tried'
    <3>1. /\ task'[r].step = "order" /\ pc'[r] = "write"
          /\ \A q \in Requests \ {r} : task'[q] = task[q] /\ pc'[q] = pc[q]
      <4>1. task[r] \in CreateTasks \/ task[r] \in SyncTasks
        BY <2>1, <2>6 DEF At
      <4>2. [task[r] EXCEPT !.step = "order"].step = "order"
        BY <4>1 DEF CreateTasks, SyncTasks
      <4> QED BY <2>1, <2>6, <4>2 DEF WriteOrder, Goto
    <3> QED BY <2>6, <3>1, UnaskedTried DEF At
  <2>7. CASE Record(r)
    BY <2>5, <2>6, <2>7 DEF Record, ShipOrder
  <2>8. CASE \E i \in DOMAIN shipments : SyncShipment(r, i)
    <3>1. PICK i \in DOMAIN shipments : SyncShipment(r, i)
      BY <2>8
    <3> DEFINE t == [kind |-> "sync", step |-> "ask", shipment |-> i,
                     status |-> shipments[i].status]
    <3>2. task' = [task EXCEPT ![r] = t] /\ UNCHANGED <<pc, warehouse>>
      BY <3>1 DEF SyncShipment, vars
    <3>3. t.step = "ask" /\ t.kind = "sync"
      OBVIOUS
    <3> HIDE DEF t
    <3>4. /\ task'[r] = t /\ t # NoTask
          /\ \A q \in Requests \ {r} : task'[q] = task[q]
      BY <2>1, <3>2, <3>3 DEF NoTask
    <3> QED BY <3>2, <3>3, <3>4, UnaskedTried DEF At
  <2>9. CASE (GetStatus(r) \/ UpdateStatus(r)) /\ ~Leave(r)
    <3> DEFINE step == task'[r].step
    <3>1. task[r] # NoTask /\ UNCHANGED <<pc, warehouse>> /\ pc[r] = "new"
      BY <2>9 DEF GetStatus, UpdateStatus, At, SInv, Control, Handed
    <3>2. task[r] \in SyncTasks
      BY <2>9, TaskTypes DEF GetStatus, UpdateStatus, At, SInv, Control, CreateTasks
    <3>3. /\ step \in {"save", "read"} /\ task'[r].kind = "sync"
          /\ \A q \in Requests \ {r} : task'[q] = task[q]
      <4>1. CASE GetStatus(r)
        <5>1. PICK s \in WarehouseStatuses :
                task' = [task EXCEPT ![r].step = "save", ![r].status = OurStatus(s)]
          BY <2>9, <4>1 DEF GetStatus
        <5> DEFINE told == OurStatus(s)
                   t == [task[r] EXCEPT !.step = "save", !.status = told]
        <5>2. task'[r] = t /\ \A q \in Requests \ {r} : task'[q] = task[q]
          BY <2>1, <5>1
        <5> HIDE DEF told
        <5>3. t.step = "save" /\ t.kind = "sync"
          BY <3>2 DEF SyncTasks
        <5> QED BY <5>2, <5>3
      <4>2. CASE UpdateStatus(r)
        <5>1. task' = [task EXCEPT ![r].step = "read"]
          BY <2>9, <4>2 DEF UpdateStatus, Goto
        <5> DEFINE t == [task[r] EXCEPT !.step = "read"]
        <5>2. task'[r] = t /\ \A q \in Requests \ {r} : task'[q] = task[q]
          BY <2>1, <5>1
        <5>3. t.step = "read" /\ t.kind = "sync"
          BY <3>2 DEF SyncTasks
        <5> QED BY <5>2, <5>3
      <4> QED BY <2>9, <4>1, <4>2
    <3>4. task'[r] # NoTask
      BY <3>3 DEF NoTask
    <3> QED BY <3>1, <3>3, <3>4, UnaskedTried DEF At
  <2>10. CASE ReadOrder(r)
    BY <2>5, <2>6, <2>10 DEF ReadOrder
  <2>11. CASE NewEventInTx(r)
    BY <2>11, UnaskedTried DEF NewEventInTx, shipmentVars, At
  <2>12. CASE OrderTransaction(r)
    <3>1. /\ Transaction(r) /\ warehouse' = warehouse
          /\ task' = IF pc'[r] = "done" THEN [task EXCEPT ![r] = NoTask] ELSE task
      BY <2>12 DEF OrderTransaction, Transaction
    <3>2. \A q \in Requests \ {r} : pc'[q] = pc[q] /\ task'[q] = task[q]
      BY <2>1, <3>1, OrderFacts
    <3>3. pc'[r] # "new" /\ (task'[r] = NoTask \/ task'[r] = task[r])
      BY <2>1, <3>1 DEF Transaction, UpdateInTx, InsertMessage, Commit, Fail, End
    <3> QED BY <3>1, <3>2, <3>3, UnaskedTried DEF At
  <2>13. CASE Abandon(r)
    BY <2>5, <2>13 DEF Abandon
  <2>14. /\ Record(r) \/ GetStatus(r) \/ UpdateStatus(r) => warehouse' = warehouse
    BY DEF Record, GetStatus, UpdateStatus
  <2> QED BY <1>2, <2>2, <2>3, <2>4, <2>5, <2>7, <2>8, <2>9, <2>10, <2>11, <2>12, <2>13, <2>14
          DEF CreateShipmentForOrder, UpdateShipmentStatus
<1> QED BY <1>1, <1>2 DEF ShipmentNext

(* However the warehouse answers, and though the POST is not idempotent,   *)
(* one request leaves no more shipments there than it has attempts.        *)
THEOREM BoundedShipmentsHolds == ShipmentSpec => []BoundedShipments
<1>1. ShipmentInit => Tried
  <2> SUFFICES ASSUME ShipmentInit, NEW r \in Requests
               PROVE  /\ Cardinality(Made(r)) = 0 /\ 0 <= MaxAttempts
                      /\ task[r] = NoTask
    BY DEF Tried, At
  <2>1. warehouse = << >> /\ task[r] = NoTask
    BY DEF ShipmentInit
  <2>2. Made(r) = {}
    BY <2>1 DEF Made
  <2> QED BY <2>1, <2>2, FS_EmptySet, ShipmentAssumption
<1>2. SInv /\ Tried /\ [ShipmentNext]_allVars => Tried'
  BY NextTried
<1>3. Tried => BoundedShipments
  BY DEF Tried, Made, BoundedShipments
<1> QED BY <1>1, <1>2, <1>3, ShipmentInvariance, PTL DEF ShipmentSpec
=============================================================================
