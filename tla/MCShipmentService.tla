--------------------------- MODULE MCShipmentService ---------------------------
(***************************************************************************)
(* Instances of ShipmentService for TLC.                                   *)
(***************************************************************************)
EXTENDS ShipmentService, TLC

CONSTANTS r1, r2, r3, r4, r5

OneOrder == {"o1"}

FiveRequests == {r1, r2, r3, r4, r5}

(* The requests do not differ before they are made.                        *)
Symmetry == Permutations(FiveRequests)

FourStatuses == {"pending", "approved", "shipped", "delivered"}
OneDetail    == {"d1"}

(* One that the client knows to mean delivered, one it does not know.      *)
TwoAnswers == {"DELIVERED", "CANCELLED"}

AllDisruptions == {"db"}
=============================================================================
