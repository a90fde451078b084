---------------------------- MODULE CircuitBreaker ----------------------------
(***************************************************************************)
(* The circuit breaker and the middleware that uses it.  Each request runs *)
(* in a goroutine of its own; one step is one atomic operation on state,   *)
(* failureCount or halfOpenCalls, or one critical section of the mutex.    *)
(*                                                                         *)
(* Time is what matters to the breaker: the time since lastStateChange,    *)
(* counted up to ResetTimeout.  A history variable watches it: how many    *)
(* requests the current half-open period has admitted.                     *)
(***************************************************************************)
EXTENDS Integers, FiniteSets

CONSTANTS
  Threads,            \* goroutines of the HTTP server
  FailureThreshold,   \* CircuitBreakerConfig
  ResetTimeout,
  HalfOpenMaxCalls

ASSUME ConstantsAssumption ==
  /\ FailureThreshold \in Nat \ {0}
  /\ ResetTimeout \in Nat \ {0}
  /\ HalfOpenMaxCalls \in Nat \ {0}

(* There are finitely many goroutines; only counting them needs it.        *)
ASSUME ThreadsAssumption == IsFiniteSet(Threads)

VARIABLES
  state,          \* "closed", "halfOpen" or "open"
  failureCount,
  halfOpenCalls,
  elapsed,        \* time since lastStateChange
  pc,             \* where each goroutine is
  probes          \* history: requests admitted during the last half-open period

breaker == <<state, failureCount, halfOpenCalls, elapsed>>
vars    == <<state, failureCount, halfOpenCalls, elapsed, pc, probes>>

(***************************************************************************)
(* The next operation of a goroutine: of Allow, of the handler it guards,  *)
(* of Success, of Failure, of Reset.                                       *)
(***************************************************************************)
Steps == {"idle",
          "allow", "elapsed", "tryHalfOpen", "halfOpened", "probe",
          "serve",
          "success", "tryClose", "closed",
          "failure", "count", "trip", "reopen", "opened",
          "reset", "resetCount", "resetCalls", "resetTime"}

(* Only the comparison with HalfOpenMaxCalls matters.                      *)
CallsCap == HalfOpenMaxCalls + 1

TypeOK ==
  /\ state \in {"closed", "halfOpen", "open"}
  /\ failureCount \in Nat
  /\ halfOpenCalls \in 0 .. CallsCap
  /\ elapsed \in 0 .. ResetTimeout
  /\ pc \in [Threads -> Steps]
  /\ probes \in Nat

Init ==
  /\ state = "closed" /\ failureCount = 0 /\ halfOpenCalls = 0 /\ elapsed = 0
  /\ pc = [t \in Threads |-> "idle"]
  /\ probes = 0

-----------------------------------------------------------------------------
Go(t, from, to) == pc[t] = from /\ pc' = [pc EXCEPT ![t] = to]

(* atomic.LoadInt32(&cb.state), and where each state leads.                *)
Load(t, from, to) ==
  /\ Go(t, from, to[state])
  /\ UNCHANGED <<breaker, probes>>

(***************************************************************************)
(* A compare-and-swap of state: then is where the goroutine goes when the  *)
(* swap succeeds, else where it goes when it does not.                     *)
(***************************************************************************)
Swap(t, from, old, new, then, else) ==
  /\ Go(t, from, IF state = old THEN then ELSE else)
  /\ state' = IF state = old THEN new ELSE state
  /\ probes' = IF state = old /\ new = "halfOpen" THEN 0 ELSE probes
  /\ UNCHANGED <<failureCount, halfOpenCalls, elapsed>>

-----------------------------------------------------------------------------
(* A request for an endpoint that is not essential.                        *)
Request(t) == Go(t, "idle", "allow") /\ UNCHANGED <<breaker, probes>>

AllowLoad(t) ==
  Load(t, "allow", [closed |-> "serve", open |-> "elapsed", halfOpen |-> "probe"])

(* Mutant: a refused request starts the timeout again.                     *)
CheckElapsedRestarts(t) ==
  /\ Go(t, "elapsed", IF elapsed >= ResetTimeout THEN "tryHalfOpen" ELSE "idle")
  /\ elapsed' = IF elapsed >= ResetTimeout THEN elapsed ELSE 0
  /\ UNCHANGED <<state, failureCount, halfOpenCalls, probes>>

(* The time is read under the mutex, after the state: too early, refuse.   *)
CheckElapsed(t) ==
  /\ Go(t, "elapsed", IF elapsed >= ResetTimeout THEN "tryHalfOpen" ELSE "idle")
  /\ UNCHANGED <<breaker, probes>>

(* Whoever wins or loses the swap starts Allow again.                      *)
TryHalfOpen(t) == Swap(t, "tryHalfOpen", "open", "halfOpen", "halfOpened", "allow")

HalfOpened(t) ==
  /\ Go(t, "halfOpened", "allow")
  /\ elapsed' = 0 /\ halfOpenCalls' = 0
  /\ UNCHANGED <<state, failureCount, probes>>

(* Mutant: the comparison is off by one.                                   *)
ProbeOneMore(t) ==
  /\ Go(t, "probe", IF halfOpenCalls <= HalfOpenMaxCalls THEN "serve" ELSE "idle")
  /\ halfOpenCalls' = IF halfOpenCalls < CallsCap THEN halfOpenCalls + 1 ELSE CallsCap
  /\ probes' = IF state = "halfOpen" /\ halfOpenCalls <= HalfOpenMaxCalls THEN probes + 1 ELSE probes
  /\ UNCHANGED <<state, failureCount, elapsed>>

Probe(t) ==
  /\ Go(t, "probe", IF halfOpenCalls < HalfOpenMaxCalls THEN "serve" ELSE "idle")
  /\ halfOpenCalls' = IF halfOpenCalls < CallsCap THEN halfOpenCalls + 1 ELSE CallsCap
  /\ probes' = IF state = "halfOpen" /\ halfOpenCalls < HalfOpenMaxCalls THEN probes + 1 ELSE probes
  /\ UNCHANGED <<state, failureCount, elapsed>>

(***************************************************************************)
(* The handler answers: a server error is a failure, an answer below 400 a *)
(* success, a client error neither.                                        *)
(***************************************************************************)
Serve(t) ==
  /\ \E report \in {"failure", "success", "idle"} : Go(t, "serve", report)
  /\ UNCHANGED <<breaker, probes>>

-----------------------------------------------------------------------------
(***************************************************************************)
(* Nothing is done in the closed state: the branch that would reset the    *)
(* failure count there is inside the branch of the half-open state.        *)
(***************************************************************************)
SuccessLoad(t) ==
  Load(t, "success", [closed |-> "idle", open |-> "idle", halfOpen |-> "tryClose"])

(* Mutant: the new state is stored, not swapped.                           *)
TryCloseStores(t) ==
  /\ Go(t, "tryClose", "closed")
  /\ state' = "closed"
  /\ UNCHANGED <<failureCount, halfOpenCalls, elapsed, probes>>

TryClose(t) == Swap(t, "tryClose", "halfOpen", "closed", "closed", "idle")

(* Mutant: one failure is forgiven, not all.                               *)
ClosedForgivesOne(t) ==
  /\ Go(t, "closed", "idle")
  /\ elapsed' = 0 /\ failureCount' = failureCount - 1
  /\ UNCHANGED <<state, halfOpenCalls, probes>>

ClosedCircuit(t) ==
  /\ Go(t, "closed", "idle")
  /\ elapsed' = 0 /\ failureCount' = 0
  /\ UNCHANGED <<state, halfOpenCalls, probes>>

FailureLoad(t) ==
  Load(t, "failure", [closed |-> "count", open |-> "idle", halfOpen |-> "reopen"])

(* Mutant: the comparison is off by one.                                   *)
CountAbove(t) ==
  /\ Go(t, "count", IF failureCount + 1 > FailureThreshold THEN "trip" ELSE "idle")
  /\ failureCount' = failureCount + 1
  /\ UNCHANGED <<state, halfOpenCalls, elapsed, probes>>

Count(t) ==
  /\ Go(t, "count", IF failureCount + 1 >= FailureThreshold THEN "trip" ELSE "idle")
  /\ failureCount' = failureCount + 1
  /\ UNCHANGED <<state, halfOpenCalls, elapsed, probes>>

Trip(t) == Swap(t, "trip", "closed", "open", "opened", "idle")

Reopen(t) == Swap(t, "reopen", "halfOpen", "open", "opened", "idle")

Opened(t) ==
  /\ Go(t, "opened", "idle")
  /\ elapsed' = 0
  /\ UNCHANGED <<state, failureCount, halfOpenCalls, probes>>

-----------------------------------------------------------------------------
(* An admin resets the breaker: three stores, then the time.               *)
Reset(t) == Go(t, "idle", "reset") /\ UNCHANGED <<breaker, probes>>

ResetState(t) ==
  /\ Go(t, "reset", "resetCount")
  /\ state' = "closed"
  /\ UNCHANGED <<failureCount, halfOpenCalls, elapsed, probes>>

ResetCount(t) ==
  /\ Go(t, "resetCount", "resetCalls")
  /\ failureCount' = 0
  /\ UNCHANGED <<state, halfOpenCalls, elapsed, probes>>

ResetCalls(t) ==
  /\ Go(t, "resetCalls", "resetTime")
  /\ halfOpenCalls' = 0
  /\ UNCHANGED <<state, failureCount, elapsed, probes>>

ResetTime(t) ==
  /\ Go(t, "resetTime", "idle")
  /\ elapsed' = 0
  /\ UNCHANGED <<state, failureCount, halfOpenCalls, probes>>

-----------------------------------------------------------------------------
Tick ==
  /\ elapsed < ResetTimeout
  /\ elapsed' = elapsed + 1
  /\ UNCHANGED <<state, failureCount, halfOpenCalls, pc, probes>>

Allow(t)   == AllowLoad(t) \/ CheckElapsed(t) \/ TryHalfOpen(t) \/ HalfOpened(t) \/ Probe(t)
Success(t) == SuccessLoad(t) \/ TryClose(t) \/ ClosedCircuit(t)
Failure(t) == FailureLoad(t) \/ Count(t) \/ Trip(t) \/ Reopen(t) \/ Opened(t)
Resetting(t) == ResetState(t) \/ ResetCount(t) \/ ResetCalls(t) \/ ResetTime(t)

Middleware(t) == Allow(t) \/ Serve(t) \/ Success(t) \/ Failure(t) \/ Resetting(t)

Next ==
  \/ \E t \in Threads : Request(t) \/ Reset(t) \/ Middleware(t)
  \/ Tick

Spec == Init /\ [][Next]_vars

(* Time passes, goroutines run, handlers return and requests keep coming.  *)
Fairness ==
  /\ WF_vars(Tick)
  /\ \A t \in Threads : WF_vars(Middleware(t)) /\ WF_vars(Request(t))

FairSpec == Spec /\ Fairness

-----------------------------------------------------------------------------
(***************************************************************************)
(* A closed circuit whose failures have reached the threshold is about to  *)
(* be opened, or its count about to be cleared, by a goroutine that is     *)
(* still in the breaker: no interleaving leaves it closed and at rest.     *)
(***************************************************************************)
NoMissedTrip ==
  state = "closed" /\ failureCount >= FailureThreshold
    => \E t \in Threads : pc[t] \in {"trip", "closed", "resetCount"}

(***************************************************************************)
(* The counter of the half-open state is cleared after the state is        *)
(* swapped, and a goroutine may clear it as late as it likes: a period may *)
(* admit more requests than the limit, but no more than the limit for each *)
(* goroutine.                                                              *)
(***************************************************************************)
ProbesBounded == probes <= Cardinality(Threads) * HalfOpenMaxCalls

(***************************************************************************)
(* State only moves along closed, open, half-open and back to open or      *)
(* closed; only an admin closes an open circuit.                           *)
(***************************************************************************)
StateMoves ==
  [][state' # state =>
       \/ <<state, state'>> \in {<<"closed", "open">>, <<"open", "halfOpen">>,
                                 <<"halfOpen", "open">>, <<"halfOpen", "closed">>}
       \/ state' = "closed" /\ \E t \in Threads : pc[t] = "reset"]_vars

(* An open circuit does not stay open while time passes and requests come. *)
OpenIsLeft == state = "open" ~> state # "open"

(***************************************************************************)
(* "Service is temporarily unavailable. Please try again later.": a        *)
(* half-open circuit, which refuses requests once the limit is used up,    *)
(* is left again.                                                          *)
(***************************************************************************)
HalfOpenIsLeft == state = "halfOpen" ~> state # "halfOpen"
=============================================================================
