------------------------------- MODULE OrderLog -------------------------------
(***************************************************************************)
(* What the transactional outbox promises to whoever reads the events of   *)
(* the orders, without requests, copies, transactions and locks: every     *)
(* change of an order and its event are one step, and the event tells the  *)
(* status that the order has from then on.  An order is created once, is   *)
(* pending then, and changes only as long as it is there.  Its deletion is *)
(* not told.  Nothing is promised about what a change keeps of the order:  *)
(* it may be a copy that was taken long before.                            *)
(***************************************************************************)
EXTENDS Sequences

CONSTANTS
  Orders,
  Statuses,    \* of an order that exists
  Details      \* its other columns

VARIABLES
  orders,      \* the orders
  log          \* what has been told of them, in this order

vars == <<orders, log>>

Init ==
  /\ orders \in [Orders -> [status : {"absent"}, details : Details]]
  /\ log = << >>

Exists(o) == orders[o].status \in Statuses

Write(o, row, type) ==
  /\ orders' = [orders EXCEPT ![o] = row]
  /\ log' = Append(log, [type |-> type, order |-> o, status |-> row.status])

Create(o, details) ==
  /\ orders[o].status = "absent"
  /\ Write(o, [status |-> "pending", details |-> details], "created")

Change(o, row, type) == Exists(o) /\ Write(o, row, type)

Delete(o) ==
  /\ Exists(o)
  /\ orders' = [orders EXCEPT ![o].status = "deleted"]
  /\ UNCHANGED log

Next ==
  \E o \in Orders :
    \/ \E d \in Details : Create(o, d)
    \/ \E row \in [status : Statuses, details : Details], type \in {"updated", "statusChanged"} :
         Change(o, row, type)
    \/ Delete(o)

Spec == Init /\ [][Next]_vars
=============================================================================
