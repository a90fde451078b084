-------------------------- MODULE MCOutboxProcessor --------------------------
(***************************************************************************)
(* Instances of OutboxProcessor for TLC.  Three messages and batches of    *)
(* two make a second batch, rows committed while a batch is worked on, and *)
(* claims in an order that is not the order of commits; two attempts make  *)
(* a retry, and a last attempt.                                            *)
(***************************************************************************)
EXTENDS OutboxProcessor

ThreeMessages == 1 .. 3
TwoMessages   == 1 .. 2
AllButLast    == {m \in Messages : \E k \in Messages : m < k}

AllDisruptions == {"db", "ctx", "stop", "crash"}
TimeoutOnly    == {"ctx"}
=============================================================================
