--------------------------- MODULE MCCircuitBreaker ---------------------------
(***************************************************************************)
(* Instances of CircuitBreaker for TLC.  One goroutine is the sequential   *)
(* program; two race each other for every swap, and one can be delayed     *)
(* between a load and its swap while the other moves the state on.         *)
(***************************************************************************)
EXTENDS CircuitBreaker

OneThread  == {"t1"}
TwoThreads == {"t1", "t2"}
=============================================================================
