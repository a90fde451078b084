----------------------------- MODULE KafkaHandler -----------------------------
(***************************************************************************)
(* What one call of KafkaHandler.HandleMessage may do, as both processors  *)
(* see it: it fails before it sends (as it does on purpose in one call of  *)
(* five, or because the broker refuses), the broker writes the message and *)
(* acknowledges it, or the broker writes it and the acknowledgement is     *)
(* lost.                                                                   *)
(***************************************************************************)

(* Mutant: the error of SendMessage is logged and not returned.            *)
PublishErrorsIgnored == {[written |-> w, acked |-> TRUE] : w \in BOOLEAN}

PublishOutcomes == {[written |-> FALSE, acked |-> FALSE],
                    [written |-> TRUE,  acked |-> TRUE],
                    [written |-> TRUE,  acked |-> FALSE]}
=============================================================================
