-------------------------- MODULE MessageLifecycle --------------------------
(***************************************************************************)
(* What the outbox promises about each message, without the processor: a   *)
(* message is committed, claimed once, published at most Limit times while *)
(* it is claimed, and then completed, if it was published, or failed; it   *)
(* may be parked in the dead letter queue, once, instead of completed.     *)
(* Nothing is promised about a claimed message that is left alone.         *)
(***************************************************************************)
EXTENDS Naturals

CONSTANTS
  Messages,
  Limit      \* how often one message may be published

VARIABLES
  state,     \* the status of the outbox row
  sent,      \* how often the message was published
  parked     \* the message is in the dead letter queue

vars == <<state, sent, parked>>

Init ==
  /\ state = [m \in Messages |-> "absent"]
  /\ sent = [m \in Messages |-> 0]
  /\ parked = [m \in Messages |-> FALSE]

Move(m, from, to) == state[m] = from /\ state' = [state EXCEPT ![m] = to]

Commit(m) == Move(m, "absent", "pending") /\ UNCHANGED <<sent, parked>>

Claim(m) == Move(m, "pending", "processing") /\ UNCHANGED <<sent, parked>>

Publish(m) ==
  /\ state[m] = "processing" /\ ~parked[m]
  /\ sent[m] < Limit
  /\ sent' = [sent EXCEPT ![m] = @ + 1]
  /\ UNCHANGED <<state, parked>>

Complete(m) ==
  /\ sent[m] > 0 /\ ~parked[m]
  /\ Move(m, "processing", "completed")
  /\ UNCHANGED <<sent, parked>>

Fail(m) == Move(m, "processing", "failed") /\ UNCHANGED <<sent, parked>>

(* Also when the UPDATE that says "failed" did not go through.             *)
Park(m) ==
  /\ state[m] \in {"processing", "failed"} /\ ~parked[m]
  /\ parked' = [parked EXCEPT ![m] = TRUE]
  /\ UNCHANGED <<state, sent>>

Next ==
  \E m \in Messages :
    Commit(m) \/ Claim(m) \/ Publish(m) \/ Complete(m) \/ Fail(m) \/ Park(m)

Spec == Init /\ [][Next]_vars
=============================================================================
