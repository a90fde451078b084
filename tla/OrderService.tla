----------------------------- MODULE OrderService -----------------------------
(***************************************************************************)
(* Orders, and the outbox rows that tell of their changes.  Each request   *)
(* is a goroutine of the HTTP server.  It reads the order outside of any   *)
(* transaction, changes its copy, builds an event, and then writes every   *)
(* column of the copy and the event in one transaction, which holds the    *)
(* lock of the row from the UPDATE to its end.                             *)
(*                                                                         *)
(* A request that ends, for whatever reason, is not made again; a request  *)
(* that finds no order, or nothing to change, leaves no trace.             *)
(***************************************************************************)
EXTENDS Integers, Sequences

CONSTANTS
  Orders,        \* order IDs
  Requests,      \* requests to the order endpoints
  Statuses,      \* the values of OrderStatus
  Details,       \* values of the other columns: customer, amount, description
  Disruptions    \* what the environment may do: "db"

ASSUME ConstantsAssumption ==
  /\ "pending" \in Statuses
  /\ {"absent", "deleted", "invalid"} \cap Statuses = {}
  /\ Disruptions \subseteq {"db"}

VARIABLES
  orders,    \* the orders table, as committed
  outbox,    \* committed outbox rows, in the order of their commits
  clock,     \* how many events have been built: the rank of a created_at
  pc,        \* where each request is
  job        \* what each request carries

vars == <<orders, outbox, clock, pc, job>>

(* A row of orders: one that was never inserted is "absent"; an ID is not  *)
(* given to another order after the first was "deleted".                   *)
Rows == [status : Statuses \cup {"absent", "deleted"}, details : Details]

Exists(o) == orders[o].status \in Statuses

Types == {"created", "updated", "statusChanged"}

(* An event: its type, its aggregate_id, the status it tells.              *)
Events == [type : Types, order : Orders, status : Statuses, created : Nat]

(* The copy of the order that will be written, and the event's created_at. *)
Jobs == [type : Types, order : Orders,
         row : [status : Statuses, details : Details], created : Nat]

NoJob == [type |-> "none"]

Steps == {"new", "build", "write", "insert", "commit", "done"}

TypeOK ==
  /\ orders \in [Orders -> Rows]
  /\ outbox \in Seq(Events)
  /\ clock \in Nat
  /\ pc \in [Requests -> Steps]
  /\ job \in [Requests -> Jobs \cup {NoJob}]
  /\ \A r \in Requests : job[r] = NoJob <=> pc[r] \in {"new", "done"}

Init ==
  /\ orders \in [Orders -> [status : {"absent"}, details : Details]]
  /\ outbox = << >>
  /\ clock = 0
  /\ pc = [r \in Requests |-> "new"]
  /\ job = [r \in Requests |-> NoJob]

-----------------------------------------------------------------------------
InFlight(o) == {r \in Requests : job[r] # NoJob /\ job[r].order = o}

(* The transaction of a request has written the order and is not over.     *)
Locked(o) == \E r \in InFlight(o) : pc[r] \in {"insert", "commit"}

Carry(r, type, o, row) ==
  /\ pc[r] = "new"
  /\ pc' = [pc EXCEPT ![r] = "build"]
  /\ job' = [job EXCEPT ![r] = [type |-> type, order |-> o, row |-> row, created |-> 0]]

End(r) ==
  /\ pc' = [pc EXCEPT ![r] = "done"]
  /\ job' = [job EXCEPT ![r] = NoJob]

(* A new order is pending.                                                 *)
NewOrder(d) == [status |-> "pending", details |-> d]

(* Mutant: the order is saved before its event is built.                   *)
SavedFirst(r, o, d) ==
  /\ orders[o].status = "absent" /\ InFlight(o) = {}
  /\ Carry(r, "created", o, NewOrder(d))
  /\ orders' = [orders EXCEPT ![o] = NewOrder(d)]
  /\ UNCHANGED <<outbox, clock>>

(* A new order, under an ID of its own.                                    *)
CreateOrder(r, o, d) ==
  /\ orders[o].status = "absent" /\ InFlight(o) = {}
  /\ Carry(r, "created", o, NewOrder(d))
  /\ UNCHANGED <<orders, outbox, clock>>

(* GetByID, and the fields the request provides.                           *)
UpdateOrder(r, o, d) ==
  /\ Exists(o)
  /\ Carry(r, "updated", o, [orders[o] EXCEPT !.details = d])
  /\ UNCHANGED <<orders, outbox, clock>>

(* The handler's validation, GetByID, and the new status.                  *)
UpdateOrderStatus(r, o, s) ==
  /\ s \in Statuses
  /\ Exists(o) /\ s # orders[o].status
  /\ Carry(r, "statusChanged", o, [orders[o] EXCEPT !.status = s])
  /\ UNCHANGED <<orders, outbox, clock>>

(* The event is built, with its created_at, before the transaction begins. *)
NewEvent(r) ==
  /\ pc[r] = "build"
  /\ clock' = clock + 1
  /\ pc' = [pc EXCEPT ![r] = "write"]
  /\ job' = [job EXCEPT ![r].created = clock + 1]
  /\ UNCHANGED <<orders, outbox>>

(***************************************************************************)
(* Mutants: the repository writes through the pool and not through the     *)
(* transaction; the number of rows affected is not looked at.              *)
(***************************************************************************)
UpdateOutsideTx(r) ==
  /\ pc[r] = "write" /\ ~Locked(job[r].order)
  /\ job[r].type = "created" \/ Exists(job[r].order)
  /\ orders' = [orders EXCEPT ![job[r].order] = job[r].row]
  /\ pc' = [pc EXCEPT ![r] = "insert"]
  /\ UNCHANGED <<outbox, clock, job>>

UpdateIgnoresMissing(r) ==
  /\ pc[r] = "write" /\ ~Locked(job[r].order)
  /\ pc' = [pc EXCEPT ![r] = "insert"]
  /\ UNCHANGED <<orders, outbox, clock, job>>

(***************************************************************************)
(* BeginTx and the INSERT or UPDATE of the order, which waits for the lock *)
(* of the row and affects none if the order was deleted: ErrNotFound, and  *)
(* the transaction is rolled back.                                         *)
(***************************************************************************)
UpdateInTx(r) ==
  /\ pc[r] = "write" /\ ~Locked(job[r].order)
  /\ IF job[r].type = "created" \/ Exists(job[r].order)
     THEN pc' = [pc EXCEPT ![r] = "insert"] /\ UNCHANGED job
     ELSE End(r)
  /\ UNCHANGED <<orders, outbox, clock>>

InsertMessage(r) ==
  /\ pc[r] = "insert"
  /\ pc' = [pc EXCEPT ![r] = "commit"]
  /\ UNCHANGED <<orders, outbox, clock, job>>

Event(j) == [type |-> j.type, order |-> j.order, status |-> j.row.status, created |-> j.created]

(* The commit, acknowledged or not.                                        *)
Commit(r) ==
  /\ pc[r] = "commit"
  /\ orders' = [orders EXCEPT ![job[r].order] = job[r].row]
  /\ outbox' = Append(outbox, Event(job[r]))
  /\ End(r)
  /\ UNCHANGED clock

(***************************************************************************)
(* BeginTx, a statement or the commit fails, or the client goes away and   *)
(* its context with it: the transaction is rolled back.  A crash is a      *)
(* failure of every request.                                               *)
(***************************************************************************)
Fail(r) ==
  /\ "db" \in Disruptions
  /\ pc[r] \in {"write", "insert", "commit"}
  /\ End(r)
  /\ UNCHANGED <<orders, outbox, clock>>

(* One statement, which waits for the lock of the row; no event.           *)
DeleteOrder(r, o) ==
  /\ pc[r] = "new"
  /\ Exists(o) /\ ~Locked(o)
  /\ orders' = [orders EXCEPT ![o].status = "deleted"]
  /\ pc' = [pc EXCEPT ![r] = "done"]
  /\ UNCHANGED <<outbox, clock, job>>

(* What a client may ask for.                                              *)
Request(r) ==
  \/ \E o \in Orders, d \in Details : CreateOrder(r, o, d) \/ UpdateOrder(r, o, d)
  \/ \E o \in Orders, s \in Statuses \cup {"invalid"} : UpdateOrderStatus(r, o, s)
  \/ \E o \in Orders : DeleteOrder(r, o)

(* What CreateOrder, UpdateOrder and UpdateOrderStatus then have in common. *)
Transaction(r) == UpdateInTx(r) \/ InsertMessage(r) \/ Commit(r) \/ Fail(r)

Next == \E r \in Requests : Request(r) \/ NewEvent(r) \/ Transaction(r)

Spec == Init /\ [][Next]_vars

-----------------------------------------------------------------------------
Latest(o, i) ==
  /\ i \in DOMAIN outbox /\ outbox[i].order = o
  /\ \A j \in DOMAIN outbox : outbox[j].order = o => j <= i

(***************************************************************************)
(* Whatever requests overwrite each other's copies, and whichever of them  *)
(* fail half way, the event committed last for an order tells the status   *)
(* that the order has.                                                     *)
(***************************************************************************)
StatusTold ==
  \A o \in Orders : Exists(o) =>
    \E i \in DOMAIN outbox : Latest(o, i) /\ outbox[i].status = orders[o].status

(***************************************************************************)
(* The outbox processor goes by created_at, which is not the order of the  *)
(* commits.  Even so, the event of an order's creation is older than every *)
(* other event of the order, and there is only one.                        *)
(***************************************************************************)
CreatedComesFirst ==
  \A i, j \in DOMAIN outbox :
    outbox[i].order = outbox[j].order /\ outbox[i].type = "created" /\ i # j
      => outbox[j].type # "created" /\ outbox[i].created < outbox[j].created

(***************************************************************************)
(* No event tells of an order that is deleted: a request that has read it  *)
(* before does not bring it, or news of it, back.                          *)
(***************************************************************************)
NothingAfterDelete ==
  [][\A o \in Orders : orders[o].status = "deleted" =>
       /\ orders'[o].status = "deleted"
       /\ \A i \in DOMAIN outbox' \ DOMAIN outbox : outbox'[i].order # o]_vars

(***************************************************************************)
(* What an observer of the orders and of the outbox sees, who does not     *)
(* look at the times: the requests implement OrderLog.                     *)
(***************************************************************************)
Told(e) == [type |-> e.type, order |-> e.order, status |-> e.status]

Log == INSTANCE OrderLog WITH log <- [i \in DOMAIN outbox |-> Told(outbox[i])]

LogSpec == Log!Spec
=============================================================================
