------------------------ MODULE MCDeadLetterProcessor ------------------------
(***************************************************************************)
(* Instances of DeadLetterProcessor for TLC.  Two rows and batches of two  *)
(* let an admin write to a row that a batch has read and not reached; the  *)
(* reasons are the one an admin gives by default (18 characters) and one   *)
(* that no row can be extended by.                                         *)
(***************************************************************************)
EXTENDS DeadLetterProcessor

OneMessage  == 1 .. 1
TwoMessages == 1 .. 2
FirstOnly   == {1}

OneAdmin == {"a"}
NoAdmin  == {}

DefaultReason == {18}
ShortAndLong  == {18, 70}

NoDisruption   == {}
AllDisruptions == {"db", "ctx", "stop", "crash"}
=============================================================================
