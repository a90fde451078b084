------------------------ MODULE CircuitBreakerProofs ------------------------
(***************************************************************************)
(* The theorems about CircuitBreaker, for any number of goroutines and any *)
(* configuration.  NoMissedTrip is inductive once the types are known: an  *)
(* action that closes the circuit, or that brings the count to the         *)
(* threshold, leaves its goroutine at a place where it is about to open    *)
(* the circuit or to clear the count, and only doing so moves it on.       *)
(***************************************************************************)
EXTENDS CircuitBreaker, FiniteSetTheorems, TLAPS

(* The inductive invariant.                                                *)
IInv == TypeOK /\ NoMissedTrip

(* The goroutines that will open the circuit or clear the count.           *)
Mending == {"trip", "closed", "resetCount"}

(* The range of halfOpenCalls is not empty.                                *)
LEMMA CapType == CallsCap \in Nat /\ 0 \in 0 .. CallsCap /\ CallsCap \in 0 .. CallsCap
  BY ConstantsAssumption DEF CallsCap

(* What Go says of pc.                                                     *)
LEMMA StepTypes ==
  ASSUME TypeOK, NEW t \in Threads, NEW from, NEW to \in Steps, Go(t, from, to)
  PROVE  /\ pc' \in [Threads -> Steps]
         /\ pc[t] = from
         /\ pc'[t] = to
         /\ \A u \in Threads \ {t} : pc'[u] = pc[u]
  BY DEF TypeOK, Go

(***************************************************************************)
(* An action that touches neither state nor failureCount keeps             *)
(* NoMissedTrip unless it takes its goroutine out of Mending.              *)
(***************************************************************************)
LEMMA StillMending ==
  ASSUME TypeOK, NoMissedTrip,
         NEW t \in Threads, NEW from, NEW to \in Steps, Go(t, from, to),
         from \notin Mending \/ to \in Mending,
         state' = state, failureCount' = failureCount
  PROVE  NoMissedTrip'
<1> SUFFICES ASSUME state = "closed", failureCount >= FailureThreshold
             PROVE  \E u \in Threads : pc'[u] \in Mending
  BY DEF NoMissedTrip, Mending
<1>1. PICK u \in Threads : pc[u] \in Mending
  BY DEF NoMissedTrip, Mending
<1>2. CASE u = t
  BY <1>1, <1>2, StepTypes
<1>3. CASE u # t
  BY <1>1, <1>3, StepTypes
<1> QED BY <1>2, <1>3

(* Nothing is missed while some goroutine is in Mending.                   *)
LEMMA NowMending ==
  ASSUME TypeOK, NEW t \in Threads, NEW from, NEW to \in Steps, Go(t, from, to), to \in Mending
  PROVE  NoMissedTrip'
<1>1. pc'[t] \in Mending
  BY StepTypes
<1> QED BY <1>1 DEF NoMissedTrip, Mending

-----------------------------------------------------------------------------
(* The new breaker satisfies the invariant.                                *)
LEMMA InitIInv == Init => IInv
  BY ConstantsAssumption, CapType
     DEF Init, IInv, TypeOK, NoMissedTrip, Steps

(* The steps that only move a goroutine.                                   *)
LEMMA IdleSteps ==
  ASSUME IInv, NEW t \in Threads, Request(t) \/ Reset(t) \/ CheckElapsed(t) \/ Serve(t)
  PROVE  IInv'
<1>1. PICK from \in Steps \ Mending, to \in Steps :
        Go(t, from, to) /\ UNCHANGED <<breaker, probes>>
  BY DEF Request, Reset, CheckElapsed, Serve, Go, Steps, Mending
<1>2. TypeOK'
  BY <1>1, StepTypes DEF IInv, TypeOK, breaker
<1>3. NoMissedTrip'
  BY <1>1, StillMending DEF IInv, breaker
<1> QED BY <1>2, <1>3 DEF IInv

(* The steps that branch on the state they load.                           *)
LEMMA LoadSteps ==
  ASSUME IInv, NEW t \in Threads, AllowLoad(t) \/ SuccessLoad(t) \/ FailureLoad(t)
  PROVE  IInv'
<1>1. PICK from \in Steps \ Mending, to \in Steps :
        Go(t, from, to) /\ UNCHANGED <<breaker, probes>>
  BY DEF AllowLoad, SuccessLoad, FailureLoad, Load, IInv, TypeOK, Go, Steps, Mending
<1>2. TypeOK'
  BY <1>1, StepTypes DEF IInv, TypeOK, breaker
<1>3. NoMissedTrip'
  BY <1>1, StillMending DEF IInv, breaker
<1> QED BY <1>2, <1>3 DEF IInv

(* A swap keeps the types.                                                 *)
LEMMA SwapTypes ==
  ASSUME TypeOK, NEW t \in Threads, NEW from, NEW old,
         NEW new \in {"closed", "halfOpen", "open"},
         NEW then \in Steps, NEW else \in Steps, Swap(t, from, old, new, then, else)
  PROVE  TypeOK'
<1>1. Go(t, from, IF state = old THEN then ELSE else)
  BY DEF Swap
<1>2. pc' \in [Threads -> Steps]
  BY <1>1, StepTypes
<1>3. state' \in {"closed", "halfOpen", "open"}
  BY DEF Swap, TypeOK
<1>4. probes' \in Nat
  BY ConstantsAssumption DEF Swap, TypeOK
<1> QED BY <1>2, <1>3, <1>4 DEF Swap, TypeOK

(* The four swaps: the one that closes the circuit goes on to clear the    *)
(* count.                                                                  *)
LEMMA SwapSteps ==
  ASSUME IInv, NEW t \in Threads, TryHalfOpen(t) \/ TryClose(t) \/ Trip(t) \/ Reopen(t)
  PROVE  IInv'
<1>1. TypeOK'
  BY SwapTypes DEF IInv, TryHalfOpen, TryClose, Trip, Reopen, Steps
<1>2. CASE TryHalfOpen(t) \/ Reopen(t)
  <2>1. PICK from \in Steps \ Mending, to \in Steps : Go(t, from, to)
    BY <1>2 DEF TryHalfOpen, Reopen, Swap, Go, Steps, Mending
  <2>2. state' = state \/ state' # "closed"
    BY <1>2 DEF TryHalfOpen, Reopen, Swap
  <2>3. failureCount' = failureCount
    BY <1>2 DEF TryHalfOpen, Reopen, Swap
  <2>4. state' = state => NoMissedTrip'
    BY <2>1, <2>3, StillMending DEF IInv
  <2>5. state' # "closed" => NoMissedTrip'
    BY DEF NoMissedTrip
  <2> QED BY <1>1, <2>2, <2>4, <2>5 DEF IInv
<1>3. CASE TryClose(t) /\ state = "halfOpen"
  <2>1. Go(t, "tryClose", "closed")
    BY <1>3 DEF TryClose, Swap
  <2>2. NoMissedTrip'
    BY <2>1, NowMending DEF IInv, Steps, Mending
  <2> QED BY <1>1, <2>2 DEF IInv
<1>4. CASE TryClose(t) /\ state # "halfOpen"
  <2>1. Go(t, "tryClose", "idle") /\ state' = state /\ failureCount' = failureCount
    BY <1>4 DEF TryClose, Swap
  <2>2. NoMissedTrip'
    BY <2>1, StillMending DEF IInv, Steps, Mending
  <2> QED BY <1>1, <2>2 DEF IInv
<1>5. CASE Trip(t)
  <2>1. state' # "closed"
    BY <1>5 DEF Trip, Swap
  <2>2. NoMissedTrip'
    BY <2>1 DEF NoMissedTrip
  <2> QED BY <1>1, <2>2 DEF IInv
<1> QED BY <1>2, <1>3, <1>4, <1>5

(* A probe only counts.                                                    *)
LEMMA ProbeSteps ==
  ASSUME IInv, NEW t \in Threads, Probe(t)
  PROVE  IInv'
<1>1. PICK to \in Steps : Go(t, "probe", to)
  BY DEF Probe, Go, Steps
<1>2. halfOpenCalls' \in 0 .. CallsCap
  BY ConstantsAssumption, CapType DEF Probe, CallsCap, IInv, TypeOK
<1>3. probes' \in Nat
  BY DEF Probe, IInv, TypeOK
<1>4. TypeOK'
  BY <1>1, <1>2, <1>3, StepTypes DEF Probe, IInv, TypeOK
<1>5. NoMissedTrip'
  BY <1>1, StillMending DEF Probe, IInv, Mending
<1> QED BY <1>4, <1>5 DEF IInv

(* The stores that set the time or halfOpenCalls.                          *)
LEMMA TimeSteps ==
  ASSUME IInv, NEW t \in Threads,
         HalfOpened(t) \/ Opened(t) \/ ResetCalls(t) \/ ResetTime(t)
  PROVE  IInv'
<1>1. PICK from \in Steps \ Mending, to \in Steps : Go(t, from, to)
  BY DEF HalfOpened, Opened, ResetCalls, ResetTime, Go, Steps, Mending
<1>2. /\ state' = state /\ failureCount' = failureCount
      /\ probes' = probes
      /\ halfOpenCalls' \in {halfOpenCalls, 0} /\ elapsed' \in {elapsed, 0}
  BY DEF HalfOpened, Opened, ResetCalls, ResetTime
<1>3. TypeOK'
  BY <1>1, <1>2, StepTypes, CapType, ConstantsAssumption DEF IInv, TypeOK
<1>4. NoMissedTrip'
  BY <1>1, <1>2, StillMending DEF IInv
<1> QED BY <1>3, <1>4 DEF IInv

(* The stores that clear the count.                                        *)
LEMMA ClearSteps ==
  ASSUME IInv, NEW t \in Threads, ClosedCircuit(t) \/ ResetCount(t)
  PROVE  IInv'
<1>1. PICK from \in Steps, to \in Steps : Go(t, from, to)
  BY DEF ClosedCircuit, ResetCount, Go, Steps
<1>2. /\ failureCount' = 0 /\ state' = state /\ halfOpenCalls' = halfOpenCalls
      /\ probes' = probes /\ elapsed' \in {elapsed, 0}
  BY DEF ClosedCircuit, ResetCount
<1>3. TypeOK'
  BY <1>1, <1>2, StepTypes, ConstantsAssumption DEF IInv, TypeOK
<1>4. NoMissedTrip'
  BY <1>2, ConstantsAssumption DEF NoMissedTrip
<1> QED BY <1>3, <1>4 DEF IInv

(* A reset that closes the circuit goes on to clear the count.             *)
LEMMA ResetStateStep ==
  ASSUME IInv, NEW t \in Threads, ResetState(t)
  PROVE  IInv'
<1>1. Go(t, "reset", "resetCount")
  BY DEF ResetState
<1>2. TypeOK'
  BY <1>1, StepTypes DEF ResetState, IInv, TypeOK, Steps
<1>3. NoMissedTrip'
  BY <1>1, NowMending DEF IInv, Steps, Mending
<1> QED BY <1>2, <1>3 DEF IInv

(***************************************************************************)
(* The step that can reach the threshold: it goes on to "trip" if it does. *)
(***************************************************************************)
LEMMA CountStep ==
  ASSUME IInv, NEW t \in Threads, Count(t)
  PROVE  IInv'
<1>1. failureCount \in Nat /\ failureCount' = failureCount + 1
  BY DEF Count, IInv, TypeOK
<1>2. PICK to \in Steps : Go(t, "count", to)
  BY DEF Count, Go, Steps
<1>3. TypeOK'
  BY <1>1, <1>2, StepTypes DEF Count, IInv, TypeOK
<1>4. NoMissedTrip'
  <2>1. CASE failureCount + 1 >= FailureThreshold
    <3>1. Go(t, "count", "trip")
      BY <2>1 DEF Count
    <3> QED BY <3>1, NowMending DEF IInv, Steps, Mending
  <2>2. CASE ~(failureCount + 1 >= FailureThreshold)
    BY <1>1, <2>2 DEF NoMissedTrip
  <2> QED BY <2>1, <2>2
<1> QED BY <1>3, <1>4 DEF IInv

(* Time only moves the clocks.                                             *)
LEMMA TickStep ==
  ASSUME IInv, Tick
  PROVE  IInv'
<1>1. TypeOK'
  BY ConstantsAssumption DEF Tick, IInv, TypeOK
<1>2. NoMissedTrip'
  BY DEF Tick, IInv, NoMissedTrip
<1> QED BY <1>1, <1>2 DEF IInv

-----------------------------------------------------------------------------
(* Every step keeps the invariant.                                         *)
LEMMA NextIInv == IInv /\ [Next]_vars => IInv'
<1> SUFFICES ASSUME IInv, [Next]_vars PROVE IInv'
  OBVIOUS
<1>1. CASE UNCHANGED vars
  BY <1>1 DEF IInv, TypeOK, NoMissedTrip, vars
<1>2. CASE Tick
  BY <1>2, TickStep
<1>3. ASSUME NEW t \in Threads, Request(t) \/ Reset(t) \/ Middleware(t)
      PROVE  IInv'
  <2>1. CASE Request(t) \/ Reset(t) \/ CheckElapsed(t) \/ Serve(t)
    BY <2>1, IdleSteps
  <2>2. CASE AllowLoad(t) \/ SuccessLoad(t) \/ FailureLoad(t)
    BY <2>2, LoadSteps
  <2>3. CASE TryHalfOpen(t) \/ TryClose(t) \/ Trip(t) \/ Reopen(t)
    BY <2>3, SwapSteps
  <2>4. CASE Probe(t)
    BY <2>4, ProbeSteps
  <2>5. CASE HalfOpened(t) \/ Opened(t) \/ ResetCalls(t) \/ ResetTime(t)
    BY <2>5, TimeSteps
  <2>6. CASE ClosedCircuit(t) \/ ResetCount(t)
    BY <2>6, ClearSteps
  <2>7. CASE ResetState(t)
    BY <2>7, ResetStateStep
  <2>8. CASE Count(t)
    BY <2>8, CountStep
  <2> QED BY <1>3, <2>1, <2>2, <2>3, <2>4, <2>5, <2>6, <2>7, <2>8
          DEF Middleware, Allow, Success, Failure, Resetting
<1> QED BY <1>1, <1>2, <1>3 DEF Next

(* The inductive invariant holds of every behaviour.                       *)
THEOREM SpecIInv == Spec => []IInv
<1> QED BY InitIInv, NextIInv, PTL DEF Spec

(* The types, whatever the goroutines' interleaving.                       *)
THEOREM TypeCorrect == Spec => []TypeOK
<1>1. IInv => TypeOK
  BY DEF IInv
<1> QED BY <1>1, SpecIInv, PTL

(***************************************************************************)
(* No interleaving of any number of goroutines leaves the circuit closed   *)
(* with its failures at the threshold and nobody about to act on it.       *)
(***************************************************************************)
THEOREM NoMissedTripHolds == Spec => []NoMissedTrip
<1>1. IInv => NoMissedTrip
  BY DEF IInv
<1> QED BY <1>1, SpecIInv, PTL

(* The circuit's state moves only along the edges of its diagram.          *)
THEOREM StateMovesHolds == Spec => StateMoves
<1> DEFINE Moves ==
      state' # state =>
        \/ <<state, state'>> \in {<<"closed", "open">>, <<"open", "halfOpen">>,
                                  <<"halfOpen", "open">>, <<"halfOpen", "closed">>}
        \/ state' = "closed" /\ \E t \in Threads : pc[t] = "reset"
<1>1. [Next]_vars => [Moves]_vars
  <2> SUFFICES ASSUME [Next]_vars, state' # state PROVE Moves
    BY DEF vars
  <2>1. PICK t \in Threads :
          \/ TryHalfOpen(t) \/ TryClose(t) \/ Trip(t) \/ Reopen(t)
          \/ ResetState(t)
    BY DEF vars, Next, Request, Reset, Tick, Middleware, Allow, Success, Failure, Resetting,
           AllowLoad, SuccessLoad, FailureLoad, Load, breaker, CheckElapsed, HalfOpened, Probe,
           Serve, ClosedCircuit, Count, Opened, ResetCount, ResetCalls, ResetTime
  <2>2. CASE TryHalfOpen(t) \/ TryClose(t) \/ Trip(t) \/ Reopen(t)
    BY <2>2 DEF TryHalfOpen, TryClose, Trip, Reopen, Swap
  <2>3. CASE ResetState(t)
    BY <2>3 DEF ResetState, Go
  <2> QED BY <2>1, <2>2, <2>3
<1> QED BY <1>1, PTL DEF Spec, StateMoves

-----------------------------------------------------------------------------
(***************************************************************************)
(* ProbesBounded.  A goroutine that may still clear halfOpenCalls in this  *)
(* half-open period entered the places where it does so before the period, *)
(* or began the period itself; having cleared it, it cannot get there      *)
(* again without ending the period.  Each of them makes room for           *)
(* HalfOpenMaxCalls requests.  The room that was left at the beginning is  *)
(* of no use if all goroutines are about to clear it.                      *)
(***************************************************************************)
Clearing == {"halfOpened", "resetCount", "resetCalls"}

Clearers == {t \in Threads : pc[t] \in Clearing}

Room == IF halfOpenCalls < HalfOpenMaxCalls THEN HalfOpenMaxCalls - halfOpenCalls ELSE 0

UsableRoom == IF Clearers = Threads THEN 0 ELSE Room

Budget ==
  state = "halfOpen" =>
    probes + UsableRoom + Cardinality(Clearers) * HalfOpenMaxCalls
      <= Cardinality(Threads) * HalfOpenMaxCalls

(* How many clearers there are, compared with all goroutines.              *)
LEMMA ClearersCount ==
  /\ Cardinality(Threads) \in Nat
  /\ IsFiniteSet(Clearers) /\ Cardinality(Clearers) \in Nat
  /\ Cardinality(Clearers) <= Cardinality(Threads)
  /\ Clearers # Threads => Cardinality(Clearers) + 1 <= Cardinality(Threads)
<1>1. Clearers \in SUBSET Threads
  BY DEF Clearers
<1> QED BY <1>1, ThreadsAssumption, FS_Subset, FS_CardinalityType

(* The same in the next state.                                             *)
LEMMA ClearersCountNext ==
  /\ IsFiniteSet(Clearers') /\ Cardinality(Clearers') \in Nat
  /\ Cardinality(Clearers') <= Cardinality(Threads)
  /\ Clearers' # Threads => Cardinality(Clearers') + 1 <= Cardinality(Threads)
<1>1. Clearers' \in SUBSET Threads
  BY DEF Clearers
<1> QED BY <1>1, ThreadsAssumption, FS_Subset, FS_CardinalityType

(* A product with a number that is larger by one, or not larger.           *)
LEMMA Shares ==
  ASSUME NEW m \in Nat, NEW n \in Nat, NEW h \in Nat
  PROVE  /\ n * h \in Nat /\ (n + 1) * h = n * h + h
         /\ n <= m => n * h <= m * h
<1>1. n * h \in Nat /\ (n + 1) * h = n * h + h
  OBVIOUS
<1>2. ASSUME n <= m PROVE n * h <= m * h
  <2>1. (m - n) * h \in Nat
    BY <1>2
  <2>2. (m - n) * h = m * h - n * h
    BY <1>2
  <2>3. n * h \in Nat /\ m * h \in Nat
    OBVIOUS
  <2> QED BY <2>1, <2>2, <2>3
<1> QED BY <1>1, <1>2

(* One share less than all leaves room for one share.                      *)
LEMMA OneShareLeft ==
  ASSUME NEW m \in Nat, NEW n \in Nat, NEW h \in Nat, NEW u \in Nat, n + 1 <= m, u <= h
  PROVE  u + n * h <= m * h
<1>1. (n + 1) * h = n * h + h /\ n * h \in Nat /\ m * h \in Nat
  BY Shares
<1>2. (n + 1) * h <= m * h
  BY Shares
<1> QED BY <1>1, <1>2

(* The room is at most HalfOpenMaxCalls.                                   *)
LEMMA RoomType ==
  ASSUME TypeOK
  PROVE  /\ Room \in Nat /\ Room <= HalfOpenMaxCalls
         /\ UsableRoom \in Nat /\ UsableRoom <= HalfOpenMaxCalls
<1>1. halfOpenCalls \in Nat /\ HalfOpenMaxCalls \in Nat
  BY ConstantsAssumption, CapType DEF TypeOK
<1>2. Room \in Nat /\ Room <= HalfOpenMaxCalls
  BY <1>1 DEF Room
<1> QED BY <1>1, <1>2 DEF UsableRoom

(* What is left of HalfOpenMaxCalls after some number of calls.            *)
LEMMA RoomBound ==
  ASSUME NEW c \in Nat, NEW h \in Nat
  PROVE  /\ (IF c < h THEN h - c ELSE 0) \in Nat
         /\ (IF c < h THEN h - c ELSE 0) <= h
OBVIOUS

(* Sums that are compared below.                                           *)
LEMMA Sums ==
  ASSUME NEW p \in Nat, NEW q \in Nat, NEW r \in Nat, NEW u \in Nat,
         NEW part \in Nat, NEW all \in Nat,
         p + r + part <= all, q + u <= p + r
  PROVE  q + u + part <= all /\ q <= all
OBVIOUS

(* The room in the next state.                                             *)
LEMMA RoomTypeNext ==
  ASSUME halfOpenCalls' \in Nat
  PROVE  /\ Room' \in Nat /\ Room' <= HalfOpenMaxCalls
         /\ UsableRoom' \in Nat /\ UsableRoom' <= HalfOpenMaxCalls
<1>1. HalfOpenMaxCalls \in Nat
  BY ConstantsAssumption
<1>2. Room' \in Nat /\ Room' <= HalfOpenMaxCalls
  BY <1>1, RoomBound DEF Room
<1>3. UsableRoom' = 0 \/ UsableRoom' = Room'
  BY DEF UsableRoom
<1> QED BY <1>1, <1>2, <1>3

(* Within its budget, a half-open period is within its bound.              *)
LEMMA WithinBudget ==
  ASSUME TypeOK, Budget, state = "halfOpen"
  PROVE  ProbesBounded
<1> DEFINE all == Cardinality(Threads) * HalfOpenMaxCalls
           part == Cardinality(Clearers) * HalfOpenMaxCalls
<1>1. all \in Nat /\ part \in Nat
  BY ClearersCount, ConstantsAssumption
<1>2. probes \in Nat /\ UsableRoom \in Nat
  BY RoomType DEF TypeOK
<1>3. probes + UsableRoom + part <= all
  BY DEF Budget
<1> HIDE DEF all, part
<1>4. probes <= all
  BY <1>1, <1>2, <1>3
<1> QED BY <1>4 DEF ProbesBounded, all

(* Outside of a half-open period nothing is counted.                       *)
LEMMA OutsideOfPeriod ==
  ASSUME ProbesBounded, probes' = probes, state' # "halfOpen"
  PROVE  ProbesBounded' /\ Budget'
BY DEF ProbesBounded, Budget

(* A goroutine that moves on and neither clears nor counts changes nothing. *)
LEMMA MovesOn ==
  ASSUME TypeOK, ProbesBounded, Budget,
         NEW t \in Threads, NEW from, NEW to \in Steps, Go(t, from, to),
         state' = state, from \in Clearing <=> to \in Clearing,
         halfOpenCalls' = halfOpenCalls, probes' = probes
  PROVE  ProbesBounded' /\ Budget'
<1>1. Clearers' = Clearers
  BY StepTypes DEF Clearers
<1>2. Room' = Room
  BY DEF Room
<1> QED BY <1>1, <1>2 DEF ProbesBounded, Budget, UsableRoom

(* A clearer becomes one of the others, and makes room.                    *)
LEMMA Clears ==
  ASSUME TypeOK, ProbesBounded, Budget,
         NEW t \in Threads, NEW from \in Clearing, NEW to \in Steps \ Clearing, Go(t, from, to),
         state' = state, halfOpenCalls' = 0, probes' = probes
  PROVE  ProbesBounded' /\ Budget'
<1>1. CASE state # "halfOpen"
  BY <1>1, OutsideOfPeriod
<1>2. CASE state = "halfOpen"
  <2> DEFINE n == Cardinality(Clearers')
             h == HalfOpenMaxCalls
             all == Cardinality(Threads) * h
  <2>1. t \in Clearers /\ Clearers' = Clearers \ {t}
    BY StepTypes DEF Clearers
  <2>2. n \in Nat /\ Cardinality(Clearers) = n + 1
    BY <2>1, ClearersCount, ClearersCountNext, FS_RemoveElement
  <2>3. h \in Nat /\ all \in Nat /\ probes \in Nat
    BY ClearersCount, ConstantsAssumption DEF TypeOK
  <2>4. UsableRoom' \in Nat /\ UsableRoom' <= h
    BY ConstantsAssumption DEF UsableRoom, Room
  <2>5. probes + UsableRoom + (n + 1) * h <= all
    BY <1>2, <2>2 DEF Budget
  <2>6. UsableRoom \in Nat
    BY RoomType
  <2> HIDE DEF n, h, all
  <2>7. n * h \in Nat /\ (n + 1) * h = n * h + h
    BY <2>2, <2>3, Shares
  <2>8. probes + UsableRoom' + n * h <= all
    BY <2>3, <2>4, <2>5, <2>6, <2>7
  <2> QED BY <2>8 DEF ProbesBounded, Budget, n, h, all
<1> QED BY <1>1, <1>2

(* A probe is not a clearer, so that the room is usable, and takes of it.  *)
LEMMA Probes ==
  ASSUME TypeOK, ProbesBounded, Budget, NEW t \in Threads, Probe(t)
  PROVE  ProbesBounded' /\ Budget'
<1>1. PICK to \in Steps \ Clearing : Go(t, "probe", to)
  BY DEF Probe, Go, Steps, Clearing
<1>2. Clearers' = Clearers /\ t \notin Clearers
  BY <1>1, StepTypes DEF Clearers, Clearing
<1>3. CASE state # "halfOpen"
  BY <1>3, OutsideOfPeriod DEF Probe
<1>4. CASE state = "halfOpen"
  <2> DEFINE part == Cardinality(Clearers) * HalfOpenMaxCalls
             all == Cardinality(Threads) * HalfOpenMaxCalls
  <2>1. UsableRoom = Room /\ UsableRoom' = Room'
    BY <1>2 DEF UsableRoom
  <2>2. part \in Nat /\ all \in Nat /\ probes \in Nat /\ halfOpenCalls \in Nat
    BY ClearersCount, CapType, ConstantsAssumption DEF TypeOK
  <2>3. probes + Room + part <= all
    BY <1>4, <2>1 DEF Budget
  <2>4. probes' + Room' <= probes + Room
    BY <1>4, <2>2, ConstantsAssumption DEF Probe, Room, CallsCap
  <2>5. probes' \in Nat /\ Room' \in Nat /\ Room \in Nat
    <3>1. halfOpenCalls' \in Nat /\ probes' \in Nat
      BY <2>2, CapType DEF Probe
    <3> QED BY <3>1, RoomType, RoomTypeNext
  <2> HIDE DEF part, all
  <2>6. probes' + Room' + part <= all /\ probes' <= all
    BY <2>2, <2>3, <2>4, <2>5, Sums
  <2>7. state' = state
    BY DEF Probe
  <2> QED BY <1>2, <2>1, <2>6, <2>7 DEF ProbesBounded, Budget, part, all
<1> QED BY <1>3, <1>4

(* A period begins, with one clearer at least.                             *)
LEMMA PeriodBegins ==
  ASSUME TypeOK, NEW t \in Threads, TryHalfOpen(t), state = "open"
  PROVE  ProbesBounded' /\ Budget'
<1> DEFINE n == Cardinality(Clearers')
           m == Cardinality(Threads)
           h == HalfOpenMaxCalls
<1>1. probes' = 0
  BY DEF TryHalfOpen, Swap
<1>2. n \in Nat /\ m \in Nat /\ h \in Nat /\ n <= m
  BY ClearersCount, ClearersCountNext, ConstantsAssumption
<1>3. n * h \in Nat /\ m * h \in Nat /\ n * h <= m * h
  BY <1>2, Shares
<1>4. CASE Clearers' = Threads
  <2>1. UsableRoom' = 0
    BY <1>4 DEF UsableRoom
  <2> HIDE DEF n, m, h
  <2>2. probes' <= m * h /\ probes' + UsableRoom' + n * h <= m * h
    BY <1>1, <1>3, <2>1
  <2> QED BY <2>2 DEF ProbesBounded, Budget, n, m, h
<1>5. CASE Clearers' # Threads
  <2>1. n + 1 <= m
    BY <1>5, ClearersCountNext
  <2>2. UsableRoom' \in Nat /\ UsableRoom' <= h
    <3>1. halfOpenCalls' \in Nat
      BY CapType DEF TryHalfOpen, Swap, TypeOK
    <3> QED BY <3>1, RoomTypeNext
  <2> HIDE DEF n, m, h
  <2>3. UsableRoom' + n * h <= m * h
    BY <1>2, <2>1, <2>2, OneShareLeft
  <2>4. probes' <= m * h /\ probes' + UsableRoom' + n * h <= m * h
    BY <1>1, <1>3, <2>2, <2>3
  <2> QED BY <2>4 DEF ProbesBounded, Budget, n, m, h
<1> QED BY <1>4, <1>5

(* A swap that fails only moves its goroutine on.                          *)
LEMMA SwapFails ==
  ASSUME TypeOK, ProbesBounded, Budget,
         NEW t \in Threads, NEW from \in Steps \ Clearing, NEW old, NEW new,
         NEW then, NEW else \in Steps \ Clearing,
         Swap(t, from, old, new, then, else), state # old
  PROVE  ProbesBounded' /\ Budget'
<1>1. Go(t, from, else) /\ state' = state /\ halfOpenCalls' = halfOpenCalls /\ probes' = probes
  BY DEF Swap
<1> QED BY <1>1, MovesOn

(* The steps of one goroutine keep the bound and the budget.               *)
LEMMA PeriodStep ==
  ASSUME TypeOK, ProbesBounded, Budget, NEW t \in Threads,
         Request(t) \/ Reset(t) \/ Middleware(t)
  PROVE  ProbesBounded' /\ Budget'
<1>1. CASE Request(t) \/ Reset(t) \/ CheckElapsed(t) \/ Serve(t)
  <2>1. PICK from \in Steps \ Clearing, to \in Steps \ Clearing :
          Go(t, from, to) /\ UNCHANGED <<breaker, probes>>
    BY <1>1 DEF Request, Reset, CheckElapsed, Serve, Go, Steps, Clearing
  <2> QED BY <2>1, MovesOn DEF breaker
<1>2. CASE AllowLoad(t) \/ SuccessLoad(t) \/ FailureLoad(t)
  <2>1. PICK from \in Steps \ Clearing, to \in Steps \ Clearing :
          Go(t, from, to) /\ UNCHANGED <<breaker, probes>>
    BY <1>2 DEF AllowLoad, SuccessLoad, FailureLoad, Load, TypeOK, Go, Steps, Clearing
  <2> QED BY <2>1, MovesOn DEF breaker
<1>3. CASE ClosedCircuit(t) \/ Count(t) \/ Opened(t) \/ ResetTime(t)
  <2>1. PICK from \in Steps \ Clearing, to \in Steps \ Clearing :
          Go(t, from, to) /\ state' = state /\ halfOpenCalls' = halfOpenCalls /\ probes' = probes
    BY <1>3 DEF ClosedCircuit, Count, Opened, ResetTime, Go, Steps, Clearing
  <2> QED BY <2>1, MovesOn
<1>4. CASE ResetCount(t)
  <2>1. Go(t, "resetCount", "resetCalls")
    BY <1>4 DEF ResetCount
  <2>2. state' = state /\ halfOpenCalls' = halfOpenCalls /\ probes' = probes
    BY <1>4 DEF ResetCount
  <2>3. "resetCalls" \in Steps /\ "resetCalls" \in Clearing /\ "resetCount" \in Clearing
    BY DEF Steps, Clearing
  <2> QED BY <2>1, <2>2, <2>3, MovesOn
<1>5. CASE HalfOpened(t) \/ ResetCalls(t)
  <2>1. PICK from \in Clearing, to \in Steps \ Clearing :
          Go(t, from, to) /\ state' = state /\ halfOpenCalls' = 0 /\ probes' = probes
    BY <1>5 DEF HalfOpened, ResetCalls, Go, Steps, Clearing
  <2> QED BY <2>1, Clears
<1>6. CASE Probe(t)
  BY <1>6, Probes
<1>7. CASE TryHalfOpen(t)
  <2>1. CASE state = "open"
    BY <1>7, <2>1, PeriodBegins
  <2>2. CASE state # "open"
    <3>1. "tryHalfOpen" \in Steps \ Clearing /\ "allow" \in Steps \ Clearing
      BY DEF Steps, Clearing
    <3>2. Swap(t, "tryHalfOpen", "open", "halfOpen", "halfOpened", "allow")
      BY <1>7 DEF TryHalfOpen
    <3> QED BY <2>2, <3>1, <3>2, SwapFails
  <2> QED BY <2>1, <2>2
<1>8. CASE TryClose(t) \/ Trip(t) \/ Reopen(t)
  <2>1. "idle" \in Steps \ Clearing
    BY DEF Steps, Clearing
  <2>2. ASSUME NEW from \in Steps \ Clearing, NEW old, NEW new \in {"closed", "open"}, NEW then,
               Swap(t, from, old, new, then, "idle")
        PROVE  ProbesBounded' /\ Budget'
    <3>1. CASE state = old
      <4>1. state' # "halfOpen" /\ probes' = probes
        BY <2>2, <3>1 DEF Swap
      <4> QED BY <4>1, OutsideOfPeriod
    <3>2. CASE state # old
      BY <2>1, <2>2, <3>2, SwapFails
    <3> QED BY <3>1, <3>2
  <2>3. {"tryClose", "trip", "reopen"} \subseteq Steps \ Clearing
    BY DEF Steps, Clearing
  <2> QED BY <1>8, <2>2, <2>3 DEF TryClose, Trip, Reopen
<1>9. CASE ResetState(t)
  <2>1. state' # "halfOpen" /\ probes' = probes
    BY <1>9 DEF ResetState
  <2> QED BY <2>1, OutsideOfPeriod
<1> QED BY <1>1, <1>2, <1>3, <1>4, <1>5, <1>6, <1>7, <1>8, <1>9
        DEF Middleware, Allow, Success, Failure, Resetting

(* No step exceeds the budget.                                             *)
LEMMA NextBudget == TypeOK /\ ProbesBounded /\ Budget /\ [Next]_vars => ProbesBounded' /\ Budget'
<1> SUFFICES ASSUME TypeOK, ProbesBounded, Budget, [Next]_vars
             PROVE  ProbesBounded' /\ Budget'
  OBVIOUS
<1>1. CASE \E t \in Threads : Request(t) \/ Reset(t) \/ Middleware(t)
  BY <1>1, PeriodStep
<1>2. CASE Tick \/ UNCHANGED vars
  <2>1. state' = state /\ halfOpenCalls' = halfOpenCalls /\ pc' = pc /\ probes' = probes
    BY <1>2 DEF Tick, vars
  <2>2. Clearers' = Clearers /\ Room' = Room
    BY <2>1 DEF Clearers, Room
  <2> QED BY <2>1, <2>2 DEF ProbesBounded, Budget, UsableRoom
<1> QED BY <1>1, <1>2 DEF Next

(* The new breaker has admitted nothing.                                   *)
LEMMA InitBudget == Init => ProbesBounded /\ Budget
<1>1. Cardinality(Threads) * HalfOpenMaxCalls \in Nat
  BY ClearersCount, ConstantsAssumption
<1> QED BY <1>1 DEF Init, ProbesBounded, Budget

(***************************************************************************)
(* A half-open period admits at most HalfOpenMaxCalls requests for each    *)
(* goroutine, however late the goroutines clear the counter: it is the     *)
(* bound that the swap before the two stores leaves of the limit.          *)
(***************************************************************************)
THEOREM ProbesBoundedHolds == Spec => []ProbesBounded
<1>1. Init => ProbesBounded /\ Budget
  BY InitBudget
<1>2. TypeOK /\ (ProbesBounded /\ Budget) /\ [Next]_vars => (ProbesBounded /\ Budget)'
  BY NextBudget
<1>3. Spec => []TypeOK
  BY TypeCorrect
<1> QED BY <1>1, <1>2, <1>3, PTL DEF Spec
=============================================================================
