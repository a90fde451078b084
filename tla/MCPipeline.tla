------------------------------ MODULE MCPipeline ------------------------------
(***************************************************************************)
(* Instances of Pipeline for TLC.  Two messages keep both processors busy  *)
(* with different rows, or one after the other with the same; three, in    *)
(* batches of two, when there are no disruptions.                          *)
(***************************************************************************)
EXTENDS Pipeline

TwoMessages   == 1 .. 2
ThreeMessages == 1 .. 3
AllButLast    == {m \in Messages : \E k \in Messages : m < k}

OneAdmin == {"a"}
NoAdmin  == {}

DefaultReason == {18}

NoDisruption   == {}
AllDisruptions == {"db", "ctx", "stop", "crash"}
=============================================================================
