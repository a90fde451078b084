----------------------------- MODULE ConsumerProofs -----------------------------
(***************************************************************************)
(* The theorems about Consumer, for any partitions, any number of messages *)
(* and any number of sessions that end: what a committed offset says.      *)
(***************************************************************************)
EXTENDS Consumer, TLAPS

(* Where the offsets of a partition are, and when its goroutine runs.      *)
Placed ==
  \A p \in Partitions :
    /\ committed[p] <= marked[p]
    /\ Len(log[p]) <= MaxMessages
    /\ pc[p] # "returned" => InSession
    /\ pc[p] = "handling" => p \in Handled /\ position[p] > 0

(* The messages that this session is done with.                            *)
Done(p) == IF pc[p] = "handling" THEN position[p] - 1 ELSE position[p]

(* What a session has received or marked, it has given to the handler.     *)
Given ==
  \A p \in Handled : \A i \in 1 .. MaxMessages :
    i <= marked[p] \/ i <= Done(p) => Tried(p, i)

(* A mark is set after a success only.                                     *)
MarkedBySuccess ==
  \A p \in Handled : marked[p] > 0 => log[p][marked[p]] = "good"

(* The sessions that have ended; the one that is ending is counted, too.   *)
Ended == IF life \in {"ending", "stopping"} THEN disturbances - 1 ELSE disturbances

(* How often a message was handled: once in each session, at most.         *)
Budget ==
  \A p \in Partitions : \A i \in 1 .. MaxMessages :
    times[p][i] <= IF InSession /\ i <= Done(p) THEN Ended + 1 ELSE Ended

Counting == life \in {"ending", "stopping"} => disturbances > 0

IInv ==
  /\ TypeOK /\ Placed /\ Counting
  /\ Given
  /\ MarkedBySuccess /\ PassedBySuccess
  /\ Budget

-----------------------------------------------------------------------------
(* The initial states satisfy the invariant.                               *)
LEMMA InitIInv == Init => IInv
<1> SUFFICES ASSUME Init PROVE IInv
  OBVIOUS
<1>1. TypeOK
  BY ConstantsAssumption DEF Init, TypeOK, Lives, Contents
<1>2. Placed /\ Counting
  BY ConstantsAssumption DEF Init, Placed, Counting
<1>3. Given /\ MarkedBySuccess /\ PassedBySuccess
  BY ConstantsAssumption DEF Init, Given, Done, MarkedBySuccess, PassedBySuccess
<1>4. Budget
  BY ConstantsAssumption DEF Init, Budget, Ended, InSession
<1> QED BY <1>1, <1>2, <1>3, <1>4 DEF IInv

(* The offsets of a partition are in order, and within its log.            *)
LEMMA Bounds ==
  ASSUME IInv, NEW p \in Partitions
  PROVE  /\ log[p] \in Seq(Contents) /\ Len(log[p]) \in Nat
         /\ committed[p] \in Nat /\ marked[p] \in Nat /\ position[p] \in Nat
         /\ committed[p] <= marked[p] /\ marked[p] <= position[p]
         /\ position[p] <= Len(log[p]) /\ Len(log[p]) <= MaxMessages
<1>1. log[p] \in Seq(Contents)
  BY DEF IInv, TypeOK
<1>2. Len(log[p]) \in Nat
  BY <1>1
<1> QED BY <1>1, <1>2 DEF IInv, TypeOK, Placed

(* A message is appended: the ones before it stay where they are.          *)
LEMMA ProduceIInv ==
  ASSUME IInv, NEW p \in Partitions, NEW content \in Contents, Produce(p, content)
  PROVE  IInv'
<1>1. /\ log' \in [Partitions -> Seq(Contents)]
      /\ Len(log'[p]) = Len(log[p]) + 1 /\ Len(log'[p]) <= MaxMessages
      /\ \A q \in Partitions : \A i \in 1 .. Len(log[q]) : log'[q][i] = log[q][i]
      /\ \A q \in Partitions \ {p} : log'[q] = log[q]
  <2>1. log[p] \in Seq(Contents)
    BY DEF IInv, TypeOK
  <2>2. /\ Append(log[p], content) \in Seq(Contents)
        /\ Len(Append(log[p], content)) = Len(log[p]) + 1
        /\ \A i \in 1 .. Len(log[p]) : Append(log[p], content)[i] = log[p][i]
    BY <2>1
  <2>3. Len(log[p]) + 1 <= MaxMessages
    BY <2>1, ConstantsAssumption DEF Produce
  <2> QED BY <2>1, <2>2, <2>3 DEF Produce, IInv, TypeOK
<1>2. TypeOK'
  <2>1. \A q \in Partitions : Len(log[q]) \in Nat /\ Len(log[q]) <= Len(log'[q])
    <3> TAKE q \in Partitions
    <3>1. Len(log[q]) \in Nat
      BY Bounds
    <3> QED BY <1>1, <3>1
  <2> QED BY <1>1, <2>1 DEF IInv, TypeOK, Produce, claims
<1>3. Placed' /\ Counting'
  BY <1>1 DEF IInv, Placed, Counting, Produce, claims, InSession
<1>4. Given' /\ Budget'
  BY DEF IInv, Given, Budget, Produce, claims, InSession, Done, Ended, Tried
<1>5. MarkedBySuccess' /\ PassedBySuccess'
  <2> SUFFICES ASSUME NEW q \in Handled
               PROVE  /\ marked'[q] > 0 => log'[q][marked'[q]] = "good"
                      /\ committed'[q] > 0 => log'[q][committed'[q]] = "good"
    BY DEF MarkedBySuccess, PassedBySuccess
  <2>1. q \in Partitions
    BY ConstantsAssumption
  <2>2. /\ marked'[q] = marked[q] /\ committed'[q] = committed[q]
        /\ \A i \in 1 .. Len(log[q]) : log'[q][i] = log[q][i]
    BY <1>1, <2>1 DEF Produce, claims
  <2> QED BY <2>1, <2>2, Bounds DEF IInv, MarkedBySuccess, PassedBySuccess
<1> QED BY <1>2, <1>3, <1>4, <1>5 DEF IInv

(* A message is received: the handler has it, or nobody wants it.          *)
LEMMA ReceiveIInv ==
  ASSUME IInv, NEW p \in Partitions, Receive(p)
  PROVE  IInv'
<1>1. /\ position' \in [Partitions -> Nat]
      /\ position'[p] = position[p] + 1 /\ position'[p] <= Len(log[p])
      /\ \A q \in Partitions \ {p} : position'[q] = position[q]
      /\ pc[p] = "idle" /\ InSession
  BY DEF IInv, TypeOK, Receive
<1>2. CASE p \in Handled
  <2>1. pc' = [pc EXCEPT ![p] = "handling"] /\ marked' = marked
    BY <1>2 DEF Receive
  <2>2. TypeOK'
    BY <1>1, <2>1 DEF IInv, TypeOK, Receive
  <2>3. Placed' /\ Counting'
    BY <1>1, <1>2, <2>1 DEF IInv, TypeOK, Placed, Counting, Receive, InSession
  <2>4. \A q \in Partitions : Done(q)' = Done(q)
    BY <1>1, <2>1 DEF IInv, TypeOK, Done
  <2>5. Given' /\ Budget'
    BY <2>1, <2>4, ConstantsAssumption
       DEF IInv, Given, Budget, Receive, InSession, Ended, Tried
  <2>6. MarkedBySuccess' /\ PassedBySuccess'
    BY <2>1 DEF IInv, MarkedBySuccess, PassedBySuccess, Receive
  <2> QED BY <2>2, <2>3, <2>5, <2>6 DEF IInv
<1>3. CASE p \notin Handled
  <2>1. pc' = pc /\ marked' = [marked EXCEPT ![p] = position'[p]]
    BY <1>3 DEF Receive, Mark
  <2>2. TypeOK'
    BY <1>1, <2>1 DEF IInv, TypeOK, Receive
  <2>3. Placed' /\ Counting'
    BY <1>1, <1>3, <2>1 DEF IInv, TypeOK, Placed, Counting, Receive, InSession
  <2>4. \A q \in Partitions : Done(q) <= Done(q)' /\ (q # p => Done(q)' = Done(q))
    BY <1>1, <2>1 DEF IInv, TypeOK, Done
  <2>5. Given'
    BY <1>3, <2>1, <2>4, ConstantsAssumption DEF IInv, TypeOK, Given, Receive, Tried
  <2>6. Budget'
    <3> SUFFICES ASSUME NEW q \in Partitions, NEW i \in 1 .. MaxMessages
                 PROVE  (times[q][i] <= IF InSession /\ i <= Done(q) THEN Ended + 1 ELSE Ended)'
      BY DEF Budget
    <3>1. times'[q][i] = times[q][i] /\ Ended' = Ended /\ InSession' = InSession
      BY DEF Receive, Ended, InSession
    <3>2. times[q][i] \in Nat /\ Ended \in Int
      BY ConstantsAssumption DEF IInv, TypeOK, Ended
    <3>3. Done(q) \in Int /\ Done(q)' \in Int /\ Done(q) <= Done(q)'
      BY <1>1, <2>1, <2>4 DEF IInv, TypeOK, Done
    <3>4. times[q][i] <= IF InSession /\ i <= Done(q) THEN Ended + 1 ELSE Ended
      BY DEF IInv, Budget
    <3> QED BY <3>1, <3>2, <3>3, <3>4
  <2>7. MarkedBySuccess' /\ PassedBySuccess'
    BY <1>3, <2>1, ConstantsAssumption
       DEF IInv, TypeOK, MarkedBySuccess, PassedBySuccess, Receive
  <2> QED BY <2>2, <2>3, <2>5, <2>6, <2>7 DEF IInv
<1> QED BY <1>2, <1>3

(* To count one message changes its count, and no other.                   *)
LEMMA Counted ==
  ASSUME NEW f \in [1 .. MaxMessages -> Nat], NEW k \in 1 .. MaxMessages
  PROVE  /\ [f EXCEPT ![k] = @ + 1] \in [1 .. MaxMessages -> Nat]
         /\ [f EXCEPT ![k] = @ + 1][k] = f[k] + 1
         /\ \A i \in 1 .. MaxMessages : i # k => [f EXCEPT ![k] = @ + 1][i] = f[i]
<1>1. f[k] + 1 \in Nat
  OBVIOUS
<1> QED BY <1>1

(* A message was handled, and is marked if that was a success.             *)
LEMMA HandleIInv ==
  ASSUME IInv, NEW p \in Partitions, Handle(p)
  PROVE  IInv'
<1> DEFINE k == position[p]
<1>1. /\ pc[p] = "handling" /\ p \in Handled /\ InSession
      /\ k \in 1 .. MaxMessages /\ k <= Len(log[p])
  BY ConstantsAssumption DEF IInv, TypeOK, Placed, Handle, Attempt
<1>2. /\ times' = [times EXCEPT ![p][k] = @ + 1]
      /\ pc' = [pc EXCEPT ![p] = "idle"]
      /\ UNCHANGED <<log, committed, life, position, disturbances>>
  BY DEF Handle, Attempt
<1>3. /\ times' \in [Partitions -> [1 .. MaxMessages -> Nat]]
      /\ times'[p][k] = times[p][k] + 1
      /\ \A q \in Partitions : \A i \in 1 .. MaxMessages :
           <<q, i>> # <<p, k>> => times'[q][i] = times[q][i]
  <2> DEFINE row == [times[p] EXCEPT ![k] = @ + 1]
  <2>1. times[p] \in [1 .. MaxMessages -> Nat]
    BY DEF IInv, TypeOK
  <2>2. /\ row \in [1 .. MaxMessages -> Nat] /\ row[k] = times[p][k] + 1
        /\ \A i \in 1 .. MaxMessages : i # k => row[i] = times[p][i]
    <3> HIDE DEF k
    <3> QED BY <1>1, <2>1, Counted
  <2>3. times' = [times EXCEPT ![p] = row]
    BY <1>2
  <2> HIDE DEF row
  <2> QED BY <2>2, <2>3 DEF IInv, TypeOK
<1>4. /\ marked' \in [Partitions -> Nat]
      /\ marked'[p] = IF log[p][k] = "good" THEN k ELSE marked[p]
      /\ \A q \in Partitions \ {p} : marked'[q] = marked[q]
  BY <1>2 DEF IInv, TypeOK, Handle, Mark
<1>5. /\ Done(p) = k - 1 /\ Done(p)' = k
      /\ \A q \in Partitions \ {p} : Done(q)' = Done(q)
  BY <1>1, <1>2 DEF IInv, TypeOK, Done
<1>6. TypeOK'
  BY <1>2, <1>3, <1>4 DEF IInv, TypeOK
<1>7. Placed' /\ Counting'
  BY <1>1, <1>2, <1>4 DEF IInv, TypeOK, Placed, Counting, InSession
<1>8. Given'
  <2> SUFFICES ASSUME NEW q \in Handled, NEW i \in 1 .. MaxMessages,
                      (i <= marked[q] \/ i <= Done(q))'
               PROVE  Tried(q, i)'
    BY DEF Given
  <2>1. CASE q = p /\ i = k
    <3>1. times[p][k] \in Nat
      BY <1>1 DEF IInv, TypeOK
    <3> QED BY <1>3, <2>1, <3>1 DEF Tried
  <2>2. CASE q # p \/ i # k
    <3>1. q \in Partitions /\ times'[q][i] = times[q][i]
      BY <1>3, <2>2, ConstantsAssumption
    <3>2. i <= marked[q] \/ i <= Done(q)
      <4>1. CASE q = p
        <5>1. k \in Nat /\ Done(p) = k - 1 /\ i # k
          BY <1>1, <1>5, <2>2, <4>1
        <5>2. i <= marked[p] \/ i <= k
          BY <1>4, <1>5, <4>1
        <5> HIDE DEF k
        <5> QED BY <4>1, <5>1, <5>2
      <4>2. CASE q # p
        BY <1>4, <1>5, <3>1, <4>2
      <4> QED BY <4>1, <4>2
    <3> QED BY <3>1, <3>2 DEF IInv, Given, Tried
  <2> QED BY <2>1, <2>2
<1>9. MarkedBySuccess' /\ PassedBySuccess'
  <2> SUFFICES ASSUME NEW q \in Handled
               PROVE  /\ marked'[q] > 0 => log'[q][marked'[q]] = "good"
                      /\ committed'[q] > 0 => log'[q][committed'[q]] = "good"
    BY DEF MarkedBySuccess, PassedBySuccess
  <2>1. log' = log /\ committed' = committed
    BY <1>2
  <2>2. q # p => marked'[q] = marked[q]
    BY <1>4, ConstantsAssumption
  <2> QED BY <1>4, <2>1, <2>2 DEF IInv, MarkedBySuccess, PassedBySuccess
<1>10. Budget'
  <2> SUFFICES ASSUME NEW q \in Partitions, NEW i \in 1 .. MaxMessages
               PROVE  (times[q][i] <= IF InSession /\ i <= Done(q) THEN Ended + 1 ELSE Ended)'
    BY DEF Budget
  <2>1. Ended' = Ended /\ InSession' /\ Ended \in Int
    BY <1>1, <1>2, ConstantsAssumption DEF IInv, TypeOK, Ended, InSession
  <2>2. times[q][i] <= IF i <= Done(q) THEN Ended + 1 ELSE Ended
    BY <1>1 DEF IInv, Budget
  <2>3. times[q][i] \in Nat
    BY DEF IInv, TypeOK
  <2>4. CASE q = p /\ i = k
    BY <1>1, <1>3, <1>5, <2>1, <2>2, <2>3, <2>4
  <2>5. CASE q = p /\ i # k
    BY <1>1, <1>3, <1>5, <2>1, <2>2, <2>3, <2>5
  <2>6. CASE q # p
    BY <1>3, <1>5, <2>1, <2>2, <2>6
  <2> QED BY <2>4, <2>5, <2>6
<1> QED BY <1>6, <1>7, <1>8, <1>9, <1>10 DEF IInv

(* What becomes of offsets and times when only commits and lives change.   *)
LEMMA CommitIInv ==
  ASSUME IInv, UNCHANGED <<log, claims, times>>,
         committed' \in [Partitions -> Nat],
         \A p \in Partitions : committed'[p] \in {committed[p], marked[p]},
         life' \in Lives, disturbances' \in 0 .. MaxDisturbances,
         \A p \in Partitions : pc[p] # "returned" => InSession',
         Counting', Budget'
  PROVE  IInv'
<1>1. UNCHANGED <<log, pc, position, marked, times>>
  BY DEF claims
<1>2. \A p \in Partitions :
        committed'[p] <= marked[p] /\ committed'[p] <= Len(log[p])
  BY Bounds
<1>3. TypeOK'
  BY <1>1, <1>2 DEF IInv, TypeOK
<1>4. Placed'
  BY <1>1, <1>2 DEF IInv, Placed
<1>5. Given' /\ MarkedBySuccess'
  BY <1>1 DEF IInv, Given, Done, Tried, MarkedBySuccess
<1>6. PassedBySuccess'
  BY <1>1, ConstantsAssumption DEF IInv, MarkedBySuccess, PassedBySuccess
<1> QED BY <1>3, <1>4, <1>5, <1>6 DEF IInv

(* A session is joined, or the process dies: everything starts again from  *)
(* what is committed.                                                      *)
LEMMA RestartIInv ==
  ASSUME IInv, UNCHANGED <<log, committed, times>>,
         position' = committed, marked' = committed,
         \/ pc' = [p \in Partitions |-> "idle"] /\ InSession'
         \/ pc' = [p \in Partitions |-> "returned"],
         life' \in Lives, disturbances' \in 0 .. MaxDisturbances,
         Counting', Budget'
  PROVE  IInv'
<1>1. \A p \in Partitions : committed[p] <= Len(log[p])
  BY Bounds
<1>2. TypeOK'
  BY <1>1 DEF IInv, TypeOK
<1>3. Placed'
  BY DEF IInv, TypeOK, Placed
<1>4. Given'
  <2> SUFFICES ASSUME NEW p \in Handled, NEW i \in 1 .. MaxMessages,
                      (i <= marked[p] \/ i <= Done(p))'
               PROVE  Tried(p, i)'
    BY DEF Given
  <2>1. p \in Partitions
    BY ConstantsAssumption
  <2>2. i <= committed[p]
    BY <2>1 DEF Done
  <2>3. i <= marked[p]
    BY <2>1, <2>2, Bounds
  <2> QED BY <2>3 DEF IInv, Given, Tried
<1>5. MarkedBySuccess' /\ PassedBySuccess'
  BY DEF IInv, MarkedBySuccess, PassedBySuccess
<1> QED BY <1>2, <1>3, <1>4, <1>5 DEF IInv

(* Between sessions a message may have been handled once in each of them.  *)
LEMMA Spent ==
  ASSUME IInv, NEW p \in Partitions, NEW i \in 1 .. MaxMessages
  PROVE  /\ times[p][i] \in Nat /\ disturbances \in Nat
         /\ times[p][i] <= disturbances + 1
         /\ life # "session" => times[p][i] <= disturbances
<1>1. times[p][i] \in Nat /\ disturbances \in Nat /\ life \in Lives
  BY ConstantsAssumption DEF IInv, TypeOK
<1>2. times[p][i] <= IF InSession /\ i <= Done(p) THEN Ended + 1 ELSE Ended
  BY DEF IInv, Budget
<1> QED BY <1>1, <1>2 DEF InSession, Ended, Lives

-----------------------------------------------------------------------------
(* The marks of a partition are committed.                                 *)
LEMMA AutoCommitIInv ==
  ASSUME IInv, NEW p \in Partitions, AutoCommit(p)
  PROVE  IInv'
<1>1. committed' \in [Partitions -> Nat]
  BY DEF IInv, TypeOK, AutoCommit
<1>2. \A q \in Partitions : committed'[q] \in {committed[q], marked[q]}
  BY DEF IInv, TypeOK, AutoCommit
<1>3. life' \in Lives /\ disturbances' \in 0 .. MaxDisturbances /\ InSession'
  BY DEF IInv, TypeOK, AutoCommit, InSession
<1>4. Counting' /\ Budget'
  BY DEF IInv, Counting, Budget, AutoCommit, claims, InSession, Done, Ended
<1> QED BY <1>1, <1>2, <1>3, <1>4, CommitIInv DEF AutoCommit

(* A goroutine returns.                                                    *)
LEMMA ClaimReturnsIInv ==
  ASSUME IInv, NEW p \in Partitions, ClaimReturns(p)
  PROVE  IInv'
<1>1. /\ pc[p] = "idle" /\ pc' = [pc EXCEPT ![p] = "returned"]
      /\ UNCHANGED <<log, committed, life, position, marked, times, disturbances>>
  BY DEF ClaimReturns
<1>2. \A q \in Partitions : Done(q)' = Done(q)
  BY <1>1 DEF IInv, TypeOK, Done
<1>3. TypeOK'
  BY <1>1 DEF IInv, TypeOK
<1>4. Placed' /\ Counting'
  BY <1>1 DEF IInv, TypeOK, Placed, Counting, InSession
<1>5. Given' /\ Budget'
  BY <1>1, <1>2, ConstantsAssumption DEF IInv, Given, Budget, Tried, InSession, Ended
<1>6. MarkedBySuccess' /\ PassedBySuccess'
  BY <1>1 DEF IInv, MarkedBySuccess, PassedBySuccess
<1> QED BY <1>3, <1>4, <1>5, <1>6 DEF IInv

(* The next session.                                                       *)
LEMMA JoinIInv ==
  ASSUME IInv, Join
  PROVE  IInv'
<1>1. position' = committed /\ marked' = committed
  BY DEF IInv, TypeOK, Join, InitialOffset
<1>2. life' \in Lives /\ disturbances' \in 0 .. MaxDisturbances /\ InSession' /\ Counting'
  BY DEF IInv, TypeOK, Join, Lives, InSession, Counting
<1>3. Budget'
  <2> SUFFICES ASSUME NEW p \in Partitions, NEW i \in 1 .. MaxMessages
               PROVE  times'[p][i] <= disturbances'
    BY Spent DEF Budget, Join, Ended
  <2> QED BY Spent DEF Join
<1> QED BY <1>1, <1>2, <1>3, RestartIInv DEF Join

(* A session is about to end.                                              *)
LEMMA CancelIInv ==
  ASSUME IInv, EndSession \/ Stop
  PROVE  IInv'
<1>1. /\ UNCHANGED <<log, committed, claims, times>>
      /\ disturbances' = disturbances + 1 /\ disturbances' \in 0 .. MaxDisturbances
      /\ life' \in {"ending", "stopping"} /\ life \in {"joining", "session", "ending"}
  BY ConstantsAssumption DEF IInv, TypeOK, EndSession, Stop, Disturb
<1>2. Counting' /\ InSession'
  BY <1>1, ConstantsAssumption DEF IInv, TypeOK, Counting, InSession
<1>3. Budget'
  <2> SUFFICES ASSUME NEW p \in Partitions, NEW i \in 1 .. MaxMessages
               PROVE  times[p][i] <= IF i <= Done(p) THEN disturbances + 1 ELSE disturbances
    BY <1>1, <1>2, ConstantsAssumption DEF IInv, TypeOK, Budget, Ended, Done, claims
  <2>1. times[p][i] <= IF InSession /\ i <= Done(p) THEN Ended + 1 ELSE Ended
    BY DEF IInv, Budget
  <2> QED BY <1>1, <2>1, Spent DEF InSession, Ended
<1>4. committed' \in [Partitions -> Nat] /\ life' \in Lives
  BY <1>1 DEF IInv, TypeOK, Lives
<1>5. \A p \in Partitions : committed'[p] \in {committed[p], marked[p]}
  BY <1>1
<1> QED BY <1>1, <1>2, <1>3, <1>4, <1>5, CommitIInv

(* The session is over.                                                    *)
LEMMA LeaveIInv ==
  ASSUME IInv, Leave
  PROVE  IInv'
<1>1. \A p \in Partitions : pc[p] = "returned"
  BY DEF Leave
<1>2. /\ committed' \in [Partitions -> Nat]
      /\ \A p \in Partitions : committed'[p] \in {committed[p], marked[p]}
  BY DEF IInv, TypeOK, Leave, LastCommit
<1>3. /\ life' \in {"joining", "down"} /\ life' \in Lives /\ life # "session"
      /\ disturbances' = disturbances /\ disturbances' \in 0 .. MaxDisturbances
  BY DEF IInv, TypeOK, Leave, Lives
<1>4. Counting'
  BY <1>3 DEF Counting
<1>5. Budget'
  BY <1>3, Spent DEF Budget, InSession, Ended, Leave
<1> QED BY <1>1, <1>2, <1>3, <1>4, <1>5, CommitIInv DEF Leave

(* The process dies.                                                       *)
LEMMA CrashIInv ==
  ASSUME IInv, Crash
  PROVE  IInv'
<1>1. /\ life' = "down" /\ life' \in Lives /\ Counting'
      /\ disturbances' = disturbances + 1 /\ disturbances' \in 0 .. MaxDisturbances
  BY ConstantsAssumption DEF IInv, TypeOK, Crash, Disturb, Lives, Counting
<1>2. Budget'
  BY <1>1, Spent DEF Budget, InSession, Ended, Crash
<1> QED BY <1>1, <1>2, RestartIInv DEF Crash

(* The next process.                                                       *)
LEMMA StartIInv ==
  ASSUME IInv, Start
  PROVE  IInv'
<1>1. /\ life = "down" /\ life' = "joining" /\ life' \in Lives /\ Counting'
      /\ disturbances' = disturbances /\ disturbances' \in 0 .. MaxDisturbances
  BY DEF IInv, TypeOK, Start, Lives, Counting
<1>2. \A p \in Partitions : pc[p] = "returned"
  BY <1>1 DEF IInv, Placed, InSession
<1>3. Budget'
  BY <1>1, Spent DEF Budget, InSession, Ended, Start
<1>4. /\ committed' \in [Partitions -> Nat]
      /\ \A p \in Partitions : committed'[p] \in {committed[p], marked[p]}
  BY DEF IInv, TypeOK, Start
<1> QED BY <1>1, <1>2, <1>3, <1>4, CommitIInv DEF Start

-----------------------------------------------------------------------------
(* Every step preserves the invariant.                                     *)
LEMMA NextIInv == IInv /\ [Next]_vars => IInv'
<1> SUFFICES ASSUME IInv, [Next]_vars PROVE IInv'
  OBVIOUS
<1>1. CASE \E p \in Partitions, content \in Contents : Produce(p, content)
  BY <1>1, ProduceIInv
<1>2. CASE \E p \in Partitions : Receive(p)
  BY <1>2, ReceiveIInv
<1>3. CASE \E p \in Partitions : Handle(p)
  BY <1>3, HandleIInv
<1>4. CASE \E p \in Partitions : AutoCommit(p)
  BY <1>4, AutoCommitIInv
<1>5. CASE \E p \in Partitions : ClaimReturns(p)
  BY <1>5, ClaimReturnsIInv
<1>6. CASE Join
  BY <1>6, JoinIInv
<1>7. CASE EndSession \/ Stop
  BY <1>7, CancelIInv
<1>8. CASE Leave
  BY <1>8, LeaveIInv
<1>9. CASE Crash
  BY <1>9, CrashIInv
<1>10. CASE Start
  BY <1>10, StartIInv
<1>11. CASE UNCHANGED vars
  BY <1>11 DEF vars, claims, IInv, TypeOK, Placed, Counting, Given, MarkedBySuccess,
               PassedBySuccess, Budget, InSession, Ended, Done, Tried
<1> QED BY <1>1, <1>2, <1>3, <1>4, <1>5, <1>6, <1>7, <1>8, <1>9, <1>10, <1>11 DEF Next

(* The invariant always holds.                                             *)
THEOREM Invariance == Spec => []IInv
<1>1. IInv /\ [Next]_vars => IInv'
  BY NextIInv
<1> QED BY InitIInv, <1>1, PTL DEF Spec

(* Every variable keeps its type; the offsets stay within the log.         *)
THEOREM TypeCorrect == Spec => []TypeOK
<1>1. IInv => TypeOK
  BY DEF IInv
<1> QED BY <1>1, Invariance, PTL

(* Whatever is lost between a mark and its commit, the broker never passes *)
(* a message that ConsumeClaim did not give to the handler.                *)
THEOREM PassedWereTriedHolds == Spec => []PassedWereTried
<1>1. ASSUME IInv PROVE PassedWereTried
  <2> SUFFICES ASSUME NEW p \in Handled, NEW i \in 1 .. committed[p] PROVE Tried(p, i)
    BY DEF PassedWereTried
  <2>1. p \in Partitions
    BY ConstantsAssumption
  <2>2. i \in 1 .. MaxMessages /\ i <= marked[p]
    BY <1>1, <2>1, Bounds, ConstantsAssumption
  <2> QED BY <1>1, <2>2 DEF IInv, Given
<1> QED BY <1>1, Invariance, PTL

(* The last message that the broker passes was handled without an error.   *)
THEOREM PassedBySuccessHolds == Spec => []PassedBySuccess
<1>1. IInv => PassedBySuccess
  BY DEF IInv
<1> QED BY <1>1, Invariance, PTL

(* A message is handled once in each session that ends, and once more.     *)
THEOREM BoundedRedeliveryHolds == Spec => []BoundedRedelivery
<1>1. ASSUME IInv PROVE BoundedRedelivery
  BY <1>1, Spent DEF BoundedRedelivery
<1> QED BY <1>1, Invariance, PTL
=============================================================================
