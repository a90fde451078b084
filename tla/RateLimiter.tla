------------------------------- MODULE RateLimiter -------------------------------
(***************************************************************************)
(* The rate limiters that a request passes, one after the other: a global  *)
(* bucket whose rate adapts to the load, a bucket for the client's IP, and *)
(* a bucket for the endpoint, which an admin may replace.                  *)
(*                                                                         *)
(* Time, tokens and rates are whole numbers here, and floating point in    *)
(* the code.  A section under a mutex is one step.                         *)
(***************************************************************************)
EXTENDS Integers, Sequences

CONSTANTS
  Requests,              \* goroutines of the HTTP server
  IPs, Endpoints,        \* an endpoint is a method and a path
  GlobalTokens, MinRate, MaxRate,
  IPTokens, IPRate,
  EndpointTokens, EndpointRate,   \* of an endpoint that nobody has set
  Limits,                \* [tokens, rate] that an admin may set
  Threshold, FullLoad,   \* loads, in the same unit; FullLoad is 1.0
  Loads,                 \* loads that the process may be under
  MaxTime, MaxSettings   \* bounds: time, limits set

Positive == Nat \ {0}

ASSUME ConstantsAssumption ==
  /\ {GlobalTokens, IPTokens, IPRate, EndpointTokens, EndpointRate} \subseteq Positive
  /\ MinRate \in Positive /\ MaxRate \in Nat /\ MinRate <= MaxRate
  /\ Limits \subseteq [tokens : Positive, rate : Positive]
  /\ Threshold \in Positive /\ FullLoad \in Nat /\ Threshold < FullLoad
  /\ Loads \subseteq Nat
  /\ IPs \cap Endpoints = {}
  /\ {"global"} \cap (IPs \cup Endpoints) = {} /\ {"server", "admin"} \cap Requests = {}
  /\ MaxTime \in Nat /\ MaxSettings \in Nat

VARIABLES
  now,
  buckets,    \* every bucket made so far; the first is the global one
  limiter,    \* the maps of limiters: the bucket of each IP and endpoint, or 0
  load,       \* the load at the last adaptation
  pc,         \* where each request is
  hold,       \* the IP, the endpoint and the bucket it goes by
  settings    \* limits set so far

vars == <<now, buckets, limiter, load, pc, hold, settings>>

Keys == IPs \cup Endpoints

(* born, by and served are history: when and by whom a bucket was made, and *)
(* how many requests it let pass.                                          *)
Buckets ==
  [key : Keys \cup {"global"}, tokens : Nat, max : Nat, rate : Nat, last : Nat,
   born : Nat, by : Requests \cup {"server", "admin"}, served : Nat]

NewTokenBucket(key, tokens, rate, by) ==
  [key |-> key, tokens |-> tokens, max |-> tokens, rate |-> rate, last |-> now,
   born |-> now, by |-> by, served |-> 0]

Holds == [ip : IPs, endpoint : Endpoints, bucket : Nat]

NoHold == [bucket |-> 0]

TypeOK ==
  /\ now \in 0 .. MaxTime
  /\ buckets \in Seq(Buckets) /\ Len(buckets) >= 1
  /\ buckets[1].rate \in MinRate .. MaxRate
  /\ limiter \in [Keys -> 0 .. Len(buckets)]
  /\ load \in Nat
  /\ pc \in [Requests -> {"global", "ip", "lookup", "create", "allow"}]
  /\ hold \in [Requests -> Holds \cup {NoHold}]
  /\ \A r \in Requests :
       /\ hold[r] = NoHold <=> pc[r] = "global"
       /\ IF pc[r] = "allow" THEN hold[r].bucket \in DOMAIN buckets ELSE hold[r].bucket = 0
  /\ settings \in 0 .. MaxSettings

Init ==
  /\ now = 0
  /\ buckets = << NewTokenBucket("global", GlobalTokens, MaxRate, "server") >>
  /\ limiter = [k \in Keys |-> 0]
  /\ load = 0
  /\ pc = [r \in Requests |-> "global"]
  /\ hold = [r \in Requests |-> NoHold]
  /\ settings = 0

-----------------------------------------------------------------------------
Lesser(a, b) == IF a < b THEN a ELSE b

(* Mutant: the time of the refill is not kept.                             *)
RefillForgets(b) ==
  [b EXCEPT !.tokens = Lesser(b.max, b.tokens + (now - b.last) * b.rate)]

(* The time since the last refill counts at the rate there is now.         *)
Refill(b) ==
  [b EXCEPT !.tokens = Lesser(b.max, b.tokens + (now - b.last) * b.rate), !.last = now]

Take(b) == [Refill(b) EXCEPT !.tokens = @ - 1, !.served = @ + 1]

Allowed(b) == Refill(b).tokens >= 1

(* Allow, of a bucket in a sequence of them.                               *)
Allow(s, i) == [s EXCEPT ![i] = IF Allowed(s[i]) THEN Take(s[i]) ELSE Refill(s[i])]

Goto(r, step) == pc' = [pc EXCEPT ![r] = step]

(* The answer: 429, or that of the next handler.                           *)
Answered(r) ==
  /\ Goto(r, "global")
  /\ hold' = [hold EXCEPT ![r] = NoHold]

-----------------------------------------------------------------------------
(* A request, and the global limit.                                        *)
CheckGlobal(r, ip, e) ==
  /\ pc[r] = "global"
  /\ buckets' = Allow(buckets, 1)
  /\ IF Allowed(buckets[1])
     THEN /\ Goto(r, "ip")
          /\ hold' = [hold EXCEPT ![r] = [ip |-> ip, endpoint |-> e, bucket |-> 0]]
     ELSE UNCHANGED <<pc, hold>>
  /\ UNCHANGED <<now, limiter, load, settings>>

(* The IP's bucket, which is made if there is none.                        *)
WithBucket(s, k, tokens, rate, by) ==
  IF limiter[k] = 0 THEN Append(s, NewTokenBucket(k, tokens, rate, by)) ELSE s

BucketOf(k) == IF limiter[k] = 0 THEN Len(buckets) + 1 ELSE limiter[k]

(***************************************************************************)
(* The limit per IP.  getLimiter looks up and creates in one section, and  *)
(* an IP's bucket is never replaced, so that Allow may follow at once.     *)
(***************************************************************************)
CheckIP(r) ==
  LET k == hold[r].ip
      i == BucketOf(k)
      s == WithBucket(buckets, k, IPTokens, IPRate, "server")
  IN /\ pc[r] = "ip"
     /\ limiter' = [limiter EXCEPT ![k] = i]
     /\ buckets' = Allow(s, i)
     /\ IF Allowed(s[i]) THEN Goto(r, "lookup") /\ UNCHANGED hold ELSE Answered(r)
     /\ UNCHANGED <<now, load, settings>>

(* Mutant: whether a limiter exists is not looked at.                      *)
LookupMissed(r) ==
  /\ pc[r] = "lookup"
  /\ Goto(r, "create")
  /\ UNCHANGED <<now, buckets, limiter, load, hold, settings>>

(* getLimiter of the endpoint, under the read lock.                        *)
Lookup(r) ==
  LET i == limiter[hold[r].endpoint] IN
    /\ pc[r] = "lookup"
    /\ Goto(r, IF i = 0 THEN "create" ELSE "allow")
    /\ hold' = [hold EXCEPT ![r].bucket = i]
    /\ UNCHANGED <<now, buckets, limiter, load, settings>>

(* ... and under the write lock, where it does not look again.             *)
CreateLimiter(r) ==
  /\ pc[r] = "create"
  /\ buckets' = Append(buckets, NewTokenBucket(hold[r].endpoint, EndpointTokens, EndpointRate, r))
  /\ limiter' = [limiter EXCEPT ![hold[r].endpoint] = Len(buckets) + 1]
  /\ hold' = [hold EXCEPT ![r].bucket = Len(buckets) + 1]
  /\ Goto(r, "allow")
  /\ UNCHANGED <<now, load, settings>>

(* The limit per endpoint, by the bucket that was found or made.           *)
CheckEndpoint(r) ==
  /\ pc[r] = "allow"
  /\ buckets' = Allow(buckets, hold[r].bucket)
  /\ Answered(r)
  /\ UNCHANGED <<now, limiter, load, settings>>

(* An admin replaces the bucket of an endpoint; a request may still hold   *)
(* the one that was there.                                                 *)
SetLimit(e, limit) ==
  /\ settings < MaxSettings
  /\ settings' = settings + 1
  /\ buckets' = Append(buckets, NewTokenBucket(e, limit.tokens, limit.rate, "admin"))
  /\ limiter' = [limiter EXCEPT ![e] = Len(buckets) + 1]
  /\ UNCHANGED <<now, load, pc, hold>>

-----------------------------------------------------------------------------
Span == MaxRate - MinRate

(* Mutants: one divisor for both branches; a factor that is not inverted.  *)
OneDivisor(l) ==
  IF l > Threshold
  THEN MaxRate - (Span * (l - Threshold)) \div (FullLoad - Threshold)
  ELSE MinRate + (Span * (FullLoad - Threshold - l)) \div (FullLoad - Threshold)

NotInverted(l) ==
  IF l > Threshold
  THEN MaxRate - (Span * (l - Threshold)) \div (FullLoad - Threshold)
  ELSE MinRate + (Span * l) \div Threshold

(* updateCPULoad: a load above 1.0 counts as 1.0.                          *)
Measured(l) == Lesser(FullLoad, l)

(***************************************************************************)
(* Above the threshold the rate falls from its maximum to its minimum; and *)
(* so it does below.                                                       *)
(***************************************************************************)
NewRate(l) ==
  IF l > Threshold
  THEN MaxRate - (Span * (l - Threshold)) \div (FullLoad - Threshold)
  ELSE MinRate + (Span * (Threshold - l)) \div Threshold

(***************************************************************************)
(* adapt, on a tick.  It writes the bucket's rate beside the bucket's      *)
(* mutex: a request that is inside Allow reads the old rate or the new.    *)
(***************************************************************************)
Adapt(l) ==
  /\ load' = Measured(l)
  /\ buckets' = [buckets EXCEPT ![1].rate = NewRate(Measured(l))]
  /\ UNCHANGED <<now, limiter, pc, hold, settings>>

Tick ==
  /\ now < MaxTime
  /\ now' = now + 1
  /\ UNCHANGED <<buckets, limiter, load, pc, hold, settings>>

Middleware(r) ==
  \/ \E ip \in IPs, e \in Endpoints : CheckGlobal(r, ip, e)
  \/ CheckIP(r)
  \/ Lookup(r)
  \/ CreateLimiter(r)
  \/ CheckEndpoint(r)

Next ==
  \/ \E r \in Requests : Middleware(r)
  \/ \E e \in Endpoints, limit \in Limits : SetLimit(e, limit)
  \/ \E l \in Loads : Adapt(l)
  \/ Tick

Spec == Init /\ [][Next]_vars

-----------------------------------------------------------------------------
(* The highest rate that a bucket may ever have had.                       *)
Peak(b) == IF b.key = "global" THEN MaxRate ELSE b.rate

(***************************************************************************)
(* However the rate is adapted and the requests interleave, a bucket lets  *)
(* no more requests pass than it held at first, and was then refilled with *)
(* at its highest rate; what it has not spent it still holds, and it never *)
(* holds more than its maximum: a burst after a pause is bounded, too.     *)
(***************************************************************************)
Conserved ==
  \A i \in DOMAIN buckets :
    LET b == buckets[i] IN
      /\ b.tokens <= b.max
      /\ b.served + b.tokens <= b.max + Peak(b) * (b.last - b.born)

(***************************************************************************)
(* getLimiter of an endpoint may make several buckets, but each goroutine  *)
(* makes one at most: as many requests at once as there are, so many times *)
(* the limit.  An IP has only one.                                         *)
(***************************************************************************)
OneEach ==
  \A i, j \in DOMAIN buckets :
    /\ buckets[i].key = buckets[j].key
    /\ buckets[i].by = buckets[j].by
    /\ buckets[i].by # "admin"
    => i = j

(***************************************************************************)
(* A limiter of an endpoint is settled when it is in the map and no        *)
(* request that has found none there is on its way to store its own.       *)
(***************************************************************************)
Settled(e) ==
  /\ limiter[e] # 0
  /\ \A r \in Requests : ~(pc[r] = "create" /\ hold[r].endpoint = e)

(***************************************************************************)
(* A limit that an admin sets may be overwritten by the endpoint's first   *)
(* requests, but only by them: once the endpoint is settled, it stays so,  *)
(* and only an admin replaces its limiter.                                 *)
(***************************************************************************)
LimitStands ==
  [][\A e \in Endpoints : Settled(e) =>
       /\ Settled(e)'
       /\ limiter'[e] = limiter[e] \/ buckets'[limiter'[e]].by = "admin"]_vars

(***************************************************************************)
(* More load never means a higher rate, as long as it stays on one side of *)
(* the threshold.                                                          *)
(***************************************************************************)
SameSide(l, m) == l > Threshold <=> m > Threshold

RateFollowsLoad ==
  [][load' > load /\ SameSide(load, load') => buckets'[1].rate <= buckets[1].rate]_vars
=============================================================================
