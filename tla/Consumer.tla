-------------------------------- MODULE Consumer --------------------------------
(***************************************************************************)
(* The consumer of a Kafka topic: one member of a consumer group, with a   *)
(* goroutine per partition.  A session starts from what the broker has     *)
(* committed; a handled message is marked, and marks are committed in the  *)
(* background, at the end of the session, or never.                        *)
(*                                                                         *)
(* Sarama and the broker are external: they deliver a partition in order,  *)
(* and commit a mark, which passes every earlier message.                  *)
(***************************************************************************)
EXTENDS Integers, Sequences

CONSTANTS
  Partitions,
  Handled,           \* partitions of topics that have a handler
  MaxMessages,       \* bound: messages of a partition
  MaxDisturbances    \* bound: sessions that end, stops and crashes

ASSUME ConstantsAssumption ==
  /\ Handled \subseteq Partitions
  /\ MaxMessages \in Nat /\ MaxDisturbances \in Nat

VARIABLES
  log,            \* the messages of each partition
  committed,      \* how many of them the broker will not deliver again
  life,           \* the consumer
  pc,             \* the goroutine of each partition: ConsumeClaim
  position,       \* how many messages it has received
  marked,         \* how many of them are passed by a mark of this session
  times,          \* history: how often each message was given to the handler
  disturbances    \* so far

claims == <<pc, position, marked>>
vars   == <<log, committed, life, claims, times, disturbances>>

(* HandleMessage returns an error for what it cannot parse, each time.     *)
Contents == {"good", "malformed"}

Lives == {"joining", "session", "ending", "stopping", "down"}

TypeOK ==
  /\ log \in [Partitions -> Seq(Contents)]
  /\ life \in Lives
  /\ pc \in [Partitions -> {"idle", "handling", "returned"}]
  /\ committed \in [Partitions -> Nat] /\ marked \in [Partitions -> Nat]
  /\ position \in [Partitions -> Nat]
  /\ times \in [Partitions -> [1 .. MaxMessages -> Nat]]
  /\ disturbances \in 0 .. MaxDisturbances
  /\ \A p \in Partitions :
       committed[p] <= Len(log[p]) /\ marked[p] <= position[p] /\ position[p] <= Len(log[p])

Init ==
  /\ log = [p \in Partitions |-> << >>]
  /\ committed = [p \in Partitions |-> 0]
  /\ life = "joining"
  /\ pc = [p \in Partitions |-> "returned"]
  /\ position = committed /\ marked = committed
  /\ times = [p \in Partitions |-> [i \in 1 .. MaxMessages |-> 0]]
  /\ disturbances = 0

-----------------------------------------------------------------------------
Produce(p, content) ==
  /\ Len(log[p]) < MaxMessages
  /\ log' = [log EXCEPT ![p] = Append(@, content)]
  /\ UNCHANGED <<committed, life, claims, times, disturbances>>

(* Mutant: OffsetNewest.                                                   *)
FromNewest(p) == IF committed[p] = 0 THEN Len(log[p]) ELSE committed[p]

(* What was committed, or, if nothing was, OffsetOldest.                   *)
InitialOffset(p) == committed[p]

(* Consume is called until it joins the group; each claim gets a goroutine. *)
Join ==
  /\ life = "joining"
  /\ life' = "session"
  /\ pc' = [p \in Partitions |-> "idle"]
  /\ position' = [p \in Partitions |-> InitialOffset(p)]
  /\ marked' = position'
  /\ UNCHANGED <<log, committed, times, disturbances>>

(* Mutant: the offset after the next is marked.                            *)
MarkTooFar(p) == marked' = [marked EXCEPT ![p] = position'[p] + 1]

(* MarkMessage: the mark only advances.                                    *)
Mark(p) == marked' = [marked EXCEPT ![p] = position'[p]]

InSession == life \in {"session", "ending", "stopping"}

(***************************************************************************)
(* The select takes the next message, also when the session is over, as it *)
(* chooses freely among what is ready.  A message that no handler is       *)
(* registered for is marked.                                               *)
(***************************************************************************)
Receive(p) ==
  /\ InSession /\ pc[p] = "idle" /\ position[p] < Len(log[p])
  /\ position' = [position EXCEPT ![p] = @ + 1]
  /\ IF p \in Handled
     THEN pc' = [pc EXCEPT ![p] = "handling"] /\ UNCHANGED marked
     ELSE Mark(p) /\ UNCHANGED pc
  /\ UNCHANGED <<log, committed, life, times, disturbances>>

Attempt(p) ==
  /\ pc[p] = "handling"
  /\ pc' = [pc EXCEPT ![p] = "idle"]
  /\ times' = [times EXCEPT ![p][position[p]] = @ + 1]
  /\ UNCHANGED <<log, committed, life, position, disturbances>>

(* Mutant: a message is marked whatever the handler returns.               *)
MarkAlways(p) == Attempt(p) /\ Mark(p)

(* Mutant: a message that failed is tried again at once.                   *)
RetryInPlace(p) ==
  /\ pc[p] = "handling"
  /\ times' = [times EXCEPT ![p][position[p]] = @ + 1]
  /\ IF log[p][position[p]] = "good"
     THEN pc' = [pc EXCEPT ![p] = "idle"] /\ marked' = [marked EXCEPT ![p] = position[p]]
     ELSE UNCHANGED <<pc, marked>>
  /\ UNCHANGED <<log, committed, life, position, disturbances>>

(* HandleMessage, and the mark if it returns no error.                     *)
Handle(p) ==
  /\ Attempt(p)
  /\ IF log[p][position[p]] = "good" THEN Mark(p) ELSE UNCHANGED marked

(* Sarama commits the marks in the background.                             *)
AutoCommit(p) ==
  /\ InSession
  /\ committed' = [committed EXCEPT ![p] = marked[p]]
  /\ UNCHANGED <<log, life, claims, times, disturbances>>

-----------------------------------------------------------------------------
Disturb ==
  /\ disturbances < MaxDisturbances
  /\ disturbances' = disturbances + 1

(* A rebalance, or a broker that is not reached: the session is cancelled. *)
EndSession ==
  /\ life = "session"
  /\ Disturb
  /\ life' = "ending"
  /\ UNCHANGED <<log, committed, claims, times>>

(* Stop: cancel, and then wait for the goroutine of Start.                 *)
Stop ==
  /\ life \in {"joining", "session", "ending"}
  /\ Disturb
  /\ life' = "stopping"
  /\ UNCHANGED <<log, committed, claims, times>>

(* ConsumeClaim returns when it looks at the contexts between messages.    *)
ClaimReturns(p) ==
  /\ life \in {"ending", "stopping"}
  /\ pc[p] = "idle"
  /\ pc' = [pc EXCEPT ![p] = "returned"]
  /\ UNCHANGED <<log, committed, life, position, marked, times, disturbances>>

(* The last commit of a session, which may fail for any partition.         *)
LastCommit ==
  \E flushed \in SUBSET Partitions :
    committed' = [p \in Partitions |-> IF p \in flushed THEN marked[p] ELSE committed[p]]

(* Mutant: the loop of Start ends with the first session, the process does *)
(* not: nobody claims the partitions again.                                *)
LeaveForGood ==
  /\ life \in {"ending", "stopping"}
  /\ \A p \in Partitions : pc[p] = "returned"
  /\ LastCommit
  /\ life' = IF life = "ending" THEN "session" ELSE "down"
  /\ UNCHANGED <<log, claims, times, disturbances>>

(* Every claim has returned, and Consume returns to the loop of Start.     *)
Leave ==
  /\ life \in {"ending", "stopping"}
  /\ \A p \in Partitions : pc[p] = "returned"
  /\ LastCommit
  /\ life' = IF life = "ending" THEN "joining" ELSE "down"
  /\ UNCHANGED <<log, claims, times, disturbances>>

Crash ==
  /\ life # "down"
  /\ Disturb
  /\ life' = "down"
  /\ pc' = [p \in Partitions |-> "returned"]
  /\ position' = committed /\ marked' = committed
  /\ UNCHANGED <<log, committed, times>>

(* The next process.                                                       *)
Start ==
  /\ life = "down"
  /\ life' = "joining"
  /\ UNCHANGED <<log, committed, claims, times, disturbances>>

Next ==
  \/ \E p \in Partitions :
       \/ \E content \in Contents : Produce(p, content)
       \/ Receive(p)
       \/ Handle(p)
       \/ AutoCommit(p)
       \/ ClaimReturns(p)
  \/ Join
  \/ EndSession
  \/ Stop
  \/ Leave
  \/ Crash
  \/ Start

Spec == Init /\ [][Next]_vars

(* Goroutines run, joining and committing succeed in the end, and the      *)
(* supervisor restarts the process.                                        *)
Fairness ==
  /\ \A p \in Partitions : WF_vars(Receive(p)) /\ WF_vars(Handle(p))
                          /\ WF_vars(AutoCommit(p)) /\ WF_vars(ClaimReturns(p))
  /\ WF_vars(Join) /\ WF_vars(Leave) /\ WF_vars(Start)

FairSpec == Spec /\ Fairness

-----------------------------------------------------------------------------
Tried(p, i) == times[p][i] > 0

(***************************************************************************)
(* Whatever is lost between a mark and its commit, the broker never passes *)
(* a message that was not given to the handler.                            *)
(***************************************************************************)
PassedWereTried ==
  \A p \in Handled : \A i \in 1 .. committed[p] : Tried(p, i)

(***************************************************************************)
(* "Don't mark the message": a message that failed is passed only because  *)
(* a later one was handled; the last message passed never failed.          *)
(***************************************************************************)
PassedBySuccess ==
  \A p \in Handled : committed[p] > 0 => log[p][committed[p]] = "good"

(***************************************************************************)
(* A message is handled again only because a session came to its end.      *)
(***************************************************************************)
BoundedRedelivery ==
  \A p \in Partitions : \A i \in 1 .. MaxMessages : times[p][i] <= 1 + disturbances

(***************************************************************************)
(* Every message is given to the handler in the end, also one that was     *)
(* produced while the consumer was down, or received by a session that     *)
(* ended before it was handled; and what could be handled, or is nobody's, *)
(* is passed: the lag ends at malformed messages at the end of the log.    *)
(***************************************************************************)
CaughtUp ==
  \A p \in Partitions : \A i \in 1 .. MaxMessages :
    i <= Len(log[p]) ~>
      /\ p \in Handled => Tried(p, i)
      /\ committed[p] >= i \/ (p \in Handled /\ log[p][i] = "malformed")
=============================================================================
