------------------------------- MODULE MCConsumer -------------------------------
(***************************************************************************)
(* An instance of Consumer for TLC: a partition of the topic that has a    *)
(* handler, and one of a topic that has none.                              *)
(***************************************************************************)
EXTENDS Consumer

TwoPartitions == {"p1", "p2"}
OneHandled    == {"p1"}
=============================================================================
