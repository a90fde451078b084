---------------------------- MODULE ShipmentService ----------------------------
(***************************************************************************)
(* Shipments of orders.  A request to create one reads the order, asks the *)
(* warehouse, records the answer, and marks an approved order as shipped;  *)
(* a request to sync one asks the warehouse, saves the status, and marks   *)
(* the order of a delivered shipment as delivered.  Both end with the      *)
(* transaction of OrderService, beside the requests that are made there.   *)
(*                                                                         *)
(* The warehouse is external.  It creates a shipment whenever it is asked  *)
(* to, and may answer anything when it is asked about one.                 *)
(***************************************************************************)
EXTENDS OrderService, FiniteSets

CONSTANTS
  MaxAttempts,        \* RetryConfig.MaxAttempts of the warehouse client
  WarehouseStatuses   \* what the warehouse may say of a shipment

ASSUME ShipmentAssumption ==
  /\ MaxAttempts \in Nat \ {0}
  /\ {"approved", "shipped", "delivered"} \subseteq Statuses

VARIABLES
  warehouse,   \* the shipments that the warehouse has created
  shipments,   \* the shipments table
  task,        \* what each shipment request carries, until it ends
  untold       \* history: shipments whose request failed after it had saved
               \* "delivered", or may have

shipmentVars == <<warehouse, shipments, task, untold>>
allVars      == <<vars, shipmentVars>>

ShipmentStatuses == {"pending", "shipped", "delivered"}

(* NoTask also stands for a request to the order endpoints.                *)
NoTask == [kind |-> "none"]

CreateTasks == [kind : {"create"}, step : {"post", "record", "order"}, order : Orders,
                status : Statuses, details : Details, attempt : 1 .. MaxAttempts, ref : Nat]

SyncTasks == [kind : {"sync"}, step : {"ask", "save", "read", "order"}, shipment : Nat,
              status : ShipmentStatuses]

ShipmentTypeOK ==
  /\ TypeOK
  /\ warehouse \in Seq([order : Orders, by : Requests])
  /\ shipments \in Seq([order : Orders, ref : Nat, status : ShipmentStatuses])
  /\ task \in [Requests -> CreateTasks \cup SyncTasks \cup {NoTask}]
  /\ untold \subseteq DOMAIN shipments
  /\ \A r \in Requests : task[r] # NoTask => (job[r] # NoJob <=> task[r].step = "order")

ShipmentInit ==
  /\ Init
  /\ warehouse = << >>
  /\ shipments = << >>
  /\ task = [r \in Requests |-> NoTask]
  /\ untold = {}

-----------------------------------------------------------------------------
At(r, step) == task[r] # NoTask /\ task[r].step = step

Goto(r, step) == task' = [task EXCEPT ![r].step = step]

(* A request ends without a transaction.                                   *)
Leave(r) ==
  /\ pc' = [pc EXCEPT ![r] = "done"]
  /\ task' = [task EXCEPT ![r] = NoTask]
  /\ UNCHANGED job

(* The copy, with its new status, is what the transaction will write.      *)
WriteOrder(r, o, status, details) ==
  /\ pc' = [pc EXCEPT ![r] = "write"]
  /\ job' = [job EXCEPT ![r] =
       [type |-> "statusChanged", order |-> o,
        row |-> [status |-> status, details |-> details], created |-> 0]]
  /\ Goto(r, "order")

(***************************************************************************)
(* What a statement outside of a transaction may do.                       *)
(***************************************************************************)
Outcomes == {"ok"} \cup IF "db" \in Disruptions THEN {"lost", "unacked"} ELSE {}

Applied(outcome) == outcome # "lost"

-----------------------------------------------------------------------------
(* GetByID: the copy that CreateShipmentForOrder goes by until its end.    *)
CreateShipment(r, o) ==
  /\ pc[r] = "new" /\ task[r] = NoTask
  /\ Exists(o)
  /\ task' = [task EXCEPT ![r] =
       [kind |-> "create", step |-> "post", order |-> o, status |-> orders[o].status,
        details |-> orders[o].details, attempt |-> 1, ref |-> 0]]
  /\ UNCHANGED <<vars, warehouse, shipments, untold>>

(* Mutant: off by one.                                                     *)
LastAttemptLate(t) == t.attempt > MaxAttempts

LastAttempt(t) == t.attempt = MaxAttempts

(***************************************************************************)
(* One POST.  The answer may be lost or unreadable after the warehouse has *)
(* created the shipment.  A timeout, a transport error and the statuses    *)
(* 408, 500, 503 and 504 are retryable; a body that cannot be read or      *)
(* parsed and the other errors are final.                                  *)
(***************************************************************************)
Answers ==
  {[created |-> TRUE, error |-> "none"]}
    \cup [created : BOOLEAN, error : {"retryable", "final"}]

Create(r, created) ==
  warehouse' = IF created THEN Append(warehouse, [order |-> task[r].order, by |-> r])
                          ELSE warehouse

(* Mutant: the service does not look at the client's error.                *)
ErrorIgnored(r) ==
  /\ At(r, "post")
  /\ \E a \in Answers :
       /\ Create(r, a.created)
       /\ IF a.error = "retryable" /\ ~LastAttempt(task[r])
          THEN task' = [task EXCEPT ![r].attempt = @ + 1]
          ELSE task' = [task EXCEPT ![r].step = "record",
                                    ![r].ref = IF a.error = "none" THEN Len(warehouse') ELSE 0]
  /\ UNCHANGED <<vars, shipments, untold>>

Post(r) ==
  /\ At(r, "post")
  /\ \E a \in Answers :
       /\ Create(r, a.created)
       /\ \/ /\ a.error = "none"
             /\ task' = [task EXCEPT ![r].step = "record", ![r].ref = Len(warehouse')]
             /\ UNCHANGED <<pc, job>>
          \/ /\ a.error = "retryable" /\ ~LastAttempt(task[r])
             /\ task' = [task EXCEPT ![r].attempt = @ + 1]
             /\ UNCHANGED <<pc, job>>
          \/ /\ a.error = "final" \/ (a.error = "retryable" /\ LastAttempt(task[r]))
             /\ Leave(r)
  /\ UNCHANGED <<orders, outbox, clock, shipments, untold>>

NewShipment(t) == [order |-> t.order, ref |-> t.ref, status |-> "pending"]

Save(t, outcome) ==
  shipments' = IF Applied(outcome) THEN Append(shipments, NewShipment(t)) ELSE shipments

(* Approved, by the copy: the order is now shipped.                        *)
ShipOrder(r) ==
  IF task[r].status = "approved"
  THEN WriteOrder(r, task[r].order, "shipped", task[r].details)
  ELSE Leave(r)

(* Mutant: the error of the repository is only logged.                     *)
RecordErrorIgnored(r) ==
  /\ At(r, "record")
  /\ \E outcome \in Outcomes : Save(task[r], outcome)
  /\ ShipOrder(r)
  /\ UNCHANGED <<orders, outbox, clock, warehouse, untold>>

(* shipmentRepo.Create, and the order's status if needed.                  *)
Record(r) ==
  /\ At(r, "record")
  /\ \E outcome \in Outcomes :
       /\ Save(task[r], outcome)
       /\ IF outcome = "ok" THEN ShipOrder(r) ELSE Leave(r)
  /\ UNCHANGED <<orders, outbox, clock, warehouse, untold>>

-----------------------------------------------------------------------------
(* GetByID: the copy whose status is compared with the warehouse's.        *)
SyncShipment(r, i) ==
  /\ pc[r] = "new" /\ task[r] = NoTask
  /\ i \in DOMAIN shipments
  /\ task' = [task EXCEPT ![r] =
       [kind |-> "sync", step |-> "ask", shipment |-> i, status |-> shipments[i].status]]
  /\ UNCHANGED <<vars, warehouse, shipments, untold>>

(* Mutant: an unknown status is passed through.                            *)
StatusAsTold(s) ==
  CASE s = "PENDING"   -> "pending"
    [] s = "SHIPPED"   -> "shipped"
    [] s = "DELIVERED" -> "delivered"
    [] OTHER           -> s

OurStatus(s) ==
  CASE s = "SHIPPED"   -> "shipped"
    [] s = "DELIVERED" -> "delivered"
    [] OTHER           -> "pending"

(***************************************************************************)
(* GetShipmentStatus, whose attempts have no effect and count as one: an   *)
(* error, the status that was known, or a new one.                         *)
(***************************************************************************)
GetStatus(r) ==
  /\ At(r, "ask")
  /\ \/ Leave(r)
     \/ \E s \in WarehouseStatuses :
          /\ OurStatus(s) # task[r].status
          /\ task' = [task EXCEPT ![r].step = "save", ![r].status = OurStatus(s)]
          /\ UNCHANGED <<pc, job>>
  /\ UNCHANGED <<orders, outbox, clock, warehouse, shipments, untold>>

(* UpdateStatus: by the ID, whatever the row says by now.                  *)
UpdateStatus(r) ==
  LET t == task[r] IN
    /\ At(r, "save")
    /\ \E outcome \in Outcomes :
         /\ shipments' = IF Applied(outcome)
                         THEN [shipments EXCEPT ![t.shipment].status = t.status]
                         ELSE shipments
         /\ IF outcome = "ok" /\ t.status = "delivered"
            THEN Goto(r, "read") /\ UNCHANGED <<pc, job, untold>>
            ELSE /\ Leave(r)
                 /\ untold' = IF outcome = "unacked" /\ t.status = "delivered"
                              THEN untold \cup {t.shipment} ELSE untold
    /\ UNCHANGED <<orders, outbox, clock, warehouse>>

(* Mutant: only a shipped order can be delivered.                          *)
ToDeliver(o) == Exists(o) /\ orders[o].status = "shipped"

Undelivered(o) == Exists(o) /\ orders[o].status # "delivered"

(***************************************************************************)
(* GetByID of a delivered shipment's order.  An order that is not found,   *)
(* or is delivered, is left alone.                                         *)
(***************************************************************************)
ReadOrder(r) ==
  LET o == shipments[task[r].shipment].order IN
    /\ At(r, "read")
    /\ IF Undelivered(o)
       THEN WriteOrder(r, o, "delivered", orders[o].details)
       ELSE Leave(r)
    /\ UNCHANGED <<orders, outbox, clock, warehouse, shipments, untold>>

-----------------------------------------------------------------------------
(* NewOrderStatusChangedEvent: here inside the transaction.                *)
NewEventInTx(r) ==
  /\ task[r] # NoTask
  /\ pc[r] = "insert" /\ job[r].created = 0
  /\ clock' = clock + 1
  /\ job' = [job EXCEPT ![r].created = clock + 1]
  /\ UNCHANGED <<orders, outbox, pc, shipmentVars>>

(* What a request leaves behind that ends while the order is not written.  *)
NotTold(r) ==
  IF task[r].kind = "sync" THEN untold \cup {task[r].shipment} ELSE untold

(* BeginTx, UpdateInTx, CreateInTx, Commit, and the rollback.              *)
OrderTransaction(r) ==
  /\ task[r] # NoTask
  /\ \/ UpdateInTx(r) /\ UNCHANGED untold
     \/ InsertMessage(r) /\ job[r].created # 0 /\ UNCHANGED untold
     \/ Commit(r) /\ UNCHANGED untold
     \/ Fail(r) /\ untold' = NotTold(r)
  /\ task' = IF pc'[r] = "done" THEN [task EXCEPT ![r] = NoTask] ELSE task
  /\ UNCHANGED <<warehouse, shipments>>

(***************************************************************************)
(* The client goes away between two attempts, a query fails, or the        *)
(* process crashes: the request ends where it is.                          *)
(***************************************************************************)
Abandon(r) ==
  /\ "db" \in Disruptions
  /\ At(r, "post") \/ At(r, "record") \/ At(r, "read")
  /\ Leave(r)
  /\ untold' = NotTold(r)
  /\ UNCHANGED <<orders, outbox, clock, warehouse, shipments>>

CreateShipmentForOrder(r) ==
  (\E o \in Orders : CreateShipment(r, o)) \/ Post(r) \/ Record(r)

UpdateShipmentStatus(r) ==
  \/ \E i \in DOMAIN shipments : SyncShipment(r, i)
  \/ GetStatus(r)
  \/ UpdateStatus(r)
  \/ ReadOrder(r)

(* The requests to the order endpoints.                                    *)
OrderStep(r) ==
  /\ task[r] = NoTask
  /\ Request(r) \/ NewEvent(r) \/ Transaction(r)
  /\ UNCHANGED shipmentVars

ShipmentNext ==
  \E r \in Requests :
    \/ OrderStep(r)
    \/ CreateShipmentForOrder(r)
    \/ UpdateShipmentStatus(r)
    \/ NewEventInTx(r)
    \/ OrderTransaction(r)
    \/ Abandon(r)

ShipmentSpec == ShipmentInit /\ [][ShipmentNext]_allVars

-----------------------------------------------------------------------------
(***************************************************************************)
(* The POST is not idempotent and is retried: one request may leave        *)
(* several shipments in the warehouse, but no more than it may try.        *)
(***************************************************************************)
BoundedShipments ==
  \A r \in Requests :
    Cardinality({i \in DOMAIN warehouse : warehouse[i].by = r}) <= MaxAttempts

(***************************************************************************)
(* However many attempts it took, and whichever requests race, a record is *)
(* of a shipment that the warehouse has created for this order, and no two *)
(* records are of the same one.                                            *)
(***************************************************************************)
RecordsMatch ==
  \A i \in DOMAIN shipments :
    /\ shipments[i].ref \in DOMAIN warehouse
    /\ warehouse[shipments[i].ref].order = shipments[i].order
    /\ \A j \in DOMAIN shipments : shipments[j].ref = shipments[i].ref => i = j

(***************************************************************************)
(* A request that marks an order as shipped has recorded its shipment; if  *)
(* the record could not be saved, the order is left alone.                 *)
(***************************************************************************)
ShippedIsRecorded ==
  [][\A r \in Requests :
       outbox' # outbox /\ At(r, "order") /\ task[r].kind = "create" /\ pc'[r] # pc[r] =>
         \E i \in DOMAIN shipments : shipments[i].ref = task[r].ref]_allVars

(***************************************************************************)
(* "If shipment is delivered, update order status": the news of a          *)
(* delivered shipment is in the outbox, or the request that saved it is    *)
(* still at work, unless that very request failed between its two writes.  *)
(* No other request can get in the way.                                    *)
(***************************************************************************)
DeliveredIsTold ==
  \A i \in DOMAIN shipments : shipments[i].status = "delivered" =>
    \/ i \in untold
    \/ ~Exists(shipments[i].order)
    \/ \E k \in DOMAIN outbox :
         outbox[k].order = shipments[i].order /\ outbox[k].status = "delivered"
    \/ \E r \in Requests :
         /\ At(r, "read") \/ At(r, "order")
         /\ task[r].kind = "sync" /\ task[r].shipment = i
=============================================================================
