------------------------------ MODULE MCRateLimiter ------------------------------
(***************************************************************************)
(* An instance of RateLimiter for TLC: two requests of a client race for   *)
(* an endpoint, and an admin sets its limit.                               *)
(***************************************************************************)
EXTENDS RateLimiter

TwoRequests == {"r1", "r2"}
OneIP       == {"i1"}
OneEndpoint == {"e1"}

OneLimit == {[tokens |-> 2, rate |-> 1]}

(* Below, at and above the threshold of 7, full, and more than full.       *)
FewLoads == {3, 7, 8, 12}
=============================================================================
