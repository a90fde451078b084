----------------------------- MODULE RateLimiterProofs -----------------------------
(***************************************************************************)
(* The theorems about RateLimiter, for any requests, clients, endpoints,   *)
(* limits, loads and times: the buckets that there are, and what they let  *)
(* pass.                                                                   *)
(***************************************************************************)
EXTENDS RateLimiter, SequenceTheorems, TLAPS

(* A bucket at a time: its own share of Conserved, and what Refill needs.  *)
Sound(b, t) ==
  /\ b \in Buckets
  /\ b.tokens <= b.max
  /\ b.born <= b.last /\ b.last <= t
  /\ b.rate <= Peak(b)
  /\ b.served + b.tokens <= b.max + Peak(b) * (b.last - b.born)

AllSound(s, t) == \A i \in 1 .. Len(s) : Sound(s[i], t)

(* The rate is the one that adapt computes of the load.                    *)
Rated == load <= FullLoad /\ buckets[1].rate = NewRate(load)

(* Who makes the buckets of which key.                                     *)
Maker(b) ==
  IF b.key \in Endpoints THEN b.by \in Requests \cup {"admin"} ELSE b.by = "server"

(* A key that has a bucket has one in the map.                             *)
Mapped(s, map) ==
  \A i \in 1 .. Len(s) :
    /\ s[i].key = "global" <=> i = 1
    /\ i # 1 => map[s[i].key] # 0
    /\ Maker(s[i])

(* A goroutine that is about to make a bucket has not made one before.     *)
MadeNone(s, r, e) == \A i \in 1 .. Len(s) : ~(s[i].key = e /\ s[i].by = r)

Creating ==
  \A r \in Requests : pc[r] = "create" => MadeNone(buckets, r, hold[r].endpoint)

Unique(s) ==
  \A i, j \in 1 .. Len(s) :
    s[i].key = s[j].key /\ s[i].by = s[j].by /\ s[i].by # "admin" => i = j

IInv ==
  /\ TypeOK
  /\ AllSound(buckets, now)
  /\ Rated
  /\ Mapped(buckets, limiter)
  /\ Creating
  /\ Unique(buckets)

(* The same buckets, with more or less in them.                            *)
Alike(s, t) ==
  /\ Len(t) = Len(s)
  /\ \A i \in 1 .. Len(s) : t[i].key = s[i].key /\ t[i].by = s[i].by

(* The two parts of the types: what is stored, and where the requests are. *)
Stored ==
  /\ now \in 0 .. MaxTime
  /\ buckets \in Seq(Buckets) /\ Len(buckets) >= 1
  /\ buckets[1].rate \in MinRate .. MaxRate
  /\ limiter \in [Keys -> 0 .. Len(buckets)]
  /\ load \in Nat
  /\ settings \in 0 .. MaxSettings

Walking ==
  /\ pc \in [Requests -> {"global", "ip", "lookup", "create", "allow"}]
  /\ hold \in [Requests -> Holds \cup {NoHold}]
  /\ \A r \in Requests :
       /\ hold[r] = NoHold <=> pc[r] = "global"
       /\ IF pc[r] = "allow" THEN hold[r].bucket \in 1 .. Len(buckets) ELSE hold[r].bucket = 0

-----------------------------------------------------------------------------
(* A larger share of a product is larger.                                  *)
LEMMA TimesMonotone ==
  ASSUME NEW a \in Nat, NEW b \in Nat, NEW d \in Nat, a <= b
  PROVE  d * a <= d * b /\ d * a \in Nat /\ d * b \in Nat
<1>1. d * (b - a) \in Nat
  OBVIOUS
<1>2. d * (b - a) = d * b - d * a
  OBVIOUS
<1>3. d * a \in Nat /\ d * b \in Nat
  OBVIOUS
<1> QED BY <1>1, <1>2, <1>3

(* The quotient of a larger number is larger.                              *)
LEMMA DivMonotone ==
  ASSUME NEW a \in Nat, NEW b \in Nat, NEW d \in Nat \ {0}, a <= b
  PROVE  a \div d <= b \div d /\ a \div d \in Nat /\ b \div d \in Nat
OBVIOUS

(* A share of c, as the quotient of a product, is not larger than c.       *)
LEMMA DivShare ==
  ASSUME NEW a \in Nat, NEW c \in Nat, NEW d \in Nat \ {0}, a <= d
  PROVE  (c * a) \div d \in 0 .. c
<1>1. c * a \in Nat /\ c * d \in Nat /\ c * a <= c * d
  BY TimesMonotone
<1>2. (c * a) \div d <= (c * d) \div d /\ (c * a) \div d \in Nat
  BY <1>1, DivMonotone
<1>3. (c * d) \div d = c
  OBVIOUS
<1> QED BY <1>2, <1>3

(* What adapt may compute is between the bounds.                           *)
LEMMA RateBounds ==
  ASSUME NEW l \in Nat, l <= FullLoad
  PROVE  NewRate(l) \in MinRate .. MaxRate
<1>1. Span \in Nat
  BY ConstantsAssumption DEF Span, Positive
<1>2. CASE l > Threshold
  <2>1. /\ l - Threshold \in Nat /\ FullLoad - Threshold \in Nat \ {0}
        /\ l - Threshold <= FullLoad - Threshold
    BY <1>2, ConstantsAssumption DEF Positive
  <2>2. (Span * (l - Threshold)) \div (FullLoad - Threshold) \in 0 .. Span
    BY <1>1, <2>1, DivShare
  <2> QED BY <1>2, <2>2, ConstantsAssumption DEF NewRate, Span, Positive
<1>3. CASE ~(l > Threshold)
  <2>1. /\ Threshold - l \in Nat /\ Threshold \in Nat \ {0} /\ Threshold - l <= Threshold
    BY <1>3, ConstantsAssumption DEF Positive
  <2>2. (Span * (Threshold - l)) \div Threshold \in 0 .. Span
    BY <1>1, <2>1, DivShare
  <2> QED BY <1>3, <2>2, ConstantsAssumption DEF NewRate, Span, Positive
<1> QED BY <1>2, <1>3

(* On one side of the threshold, more load is a lower rate.                *)
LEMMA RateFalls ==
  ASSUME NEW l \in Nat, NEW m \in Nat, l <= m, m <= FullLoad, SameSide(l, m)
  PROVE  NewRate(m) <= NewRate(l)
<1>1. Span \in Nat /\ MinRate \in Nat /\ MaxRate \in Nat
  BY ConstantsAssumption DEF Span, Positive
<1>2. CASE l > Threshold
  <2>1. /\ l - Threshold \in Nat /\ m - Threshold \in Nat
        /\ l - Threshold <= m - Threshold /\ FullLoad - Threshold \in Nat \ {0}
    BY <1>2, ConstantsAssumption DEF Positive
  <2>2. /\ Span * (l - Threshold) \in Nat /\ Span * (m - Threshold) \in Nat
        /\ Span * (l - Threshold) <= Span * (m - Threshold)
    BY <1>1, <2>1, TimesMonotone
  <2> DEFINE x == Span * (l - Threshold)
             y == Span * (m - Threshold)
             d == FullLoad - Threshold
  <2>3. x \div d <= y \div d /\ x \div d \in Nat /\ y \div d \in Nat
    <3> HIDE DEF x, y, d
    <3> QED BY <2>1, <2>2, DivMonotone DEF x, y, d
  <2>4. NewRate(l) = MaxRate - x \div d /\ NewRate(m) = MaxRate - y \div d
    BY <1>2, ConstantsAssumption DEF SameSide, NewRate, Positive
  <2> HIDE DEF x, y, d
  <2> QED BY <1>1, <2>3, <2>4
<1>3. CASE ~(l > Threshold)
  <2>1. /\ Threshold - l \in Nat /\ Threshold - m \in Nat
        /\ Threshold - m <= Threshold - l /\ Threshold \in Nat \ {0}
    BY <1>3, ConstantsAssumption DEF SameSide, Positive
  <2>2. /\ Span * (Threshold - l) \in Nat /\ Span * (Threshold - m) \in Nat
        /\ Span * (Threshold - m) <= Span * (Threshold - l)
    BY <1>1, <2>1, TimesMonotone
  <2> DEFINE x == Span * (Threshold - l)
             y == Span * (Threshold - m)
  <2>3. y \div Threshold <= x \div Threshold
        /\ x \div Threshold \in Nat /\ y \div Threshold \in Nat
    <3> HIDE DEF x, y
    <3> QED BY <2>1, <2>2, DivMonotone DEF x, y
  <2>4. /\ NewRate(l) = MinRate + x \div Threshold
        /\ NewRate(m) = MinRate + y \div Threshold
    BY <1>3 DEF SameSide, NewRate
  <2> HIDE DEF x, y
  <2> QED BY <1>1, <2>3, <2>4
<1> QED BY <1>2, <1>3

(* A request without a limiter to hold is no request under way.            *)
LEMMA NoHoldApart == NoHold \notin Holds
<1>1. DOMAIN NoHold = {"bucket"}
  BY DEF NoHold
<1>2. \A h \in Holds : "ip" \in DOMAIN h
  BY DEF Holds
<1> QED BY <1>1, <1>2

-----------------------------------------------------------------------------
(* A refill keeps a bucket sound: the tokens it adds are what the time     *)
(* since the last one gives at the peak rate, at most.                     *)
LEMMA RefillSound ==
  ASSUME NEW b, Sound(b, now), now \in Nat
  PROVE  /\ Sound(Refill(b), now)
         /\ Refill(b).key = b.key /\ Refill(b).by = b.by /\ Refill(b).rate = b.rate
<1>1. /\ b.tokens \in Nat /\ b.max \in Nat /\ b.rate \in Nat /\ b.last \in Nat
      /\ b.born \in Nat /\ b.served \in Nat /\ b \in Buckets
  BY DEF Sound, Buckets
<1>2. Peak(b) \in Nat
  BY <1>1, ConstantsAssumption DEF Peak
<1> DEFINE d == now - b.last
           a == b.last - b.born
           n == Lesser(b.max, b.tokens + d * b.rate)
<1>3. d \in Nat /\ a \in Nat /\ b.rate <= Peak(b)
  BY <1>1 DEF Sound
<1>4. b.rate * d <= Peak(b) * d /\ b.rate * d \in Nat /\ Peak(b) * d \in Nat
  <2>1. d * b.rate <= d * Peak(b) /\ d * b.rate \in Nat /\ d * Peak(b) \in Nat
    BY <1>1, <1>2, <1>3, TimesMonotone
  <2> HIDE DEF d
  <2> QED BY <2>1, <1>1, <1>2, <1>3
<1>5. Peak(b) * a + Peak(b) * d = Peak(b) * (now - b.born)
  <2>1. now - b.born = a + d
    BY <1>1
  <2>2. Peak(b) * (a + d) = Peak(b) * a + Peak(b) * d
    <3> HIDE DEF a, d
    <3> QED BY <1>2, <1>3
  <2> QED BY <2>1, <2>2
<1>6. n \in Nat /\ n <= b.max /\ n <= b.tokens + Peak(b) * d
  <2>1. d * b.rate = b.rate * d
    <3> HIDE DEF d
    <3> QED BY <1>1, <1>3
  <2> DEFINE e == d * b.rate
             f == Peak(b) * d
  <2>2. e \in Nat /\ f \in Nat /\ e <= f
    BY <1>4, <2>1
  <2> HIDE DEF e, f
  <2> QED BY <1>1, <2>2 DEF Lesser, e, f
<1>7. Refill(b) = [b EXCEPT !.tokens = n, !.last = now]
  BY DEF Refill
<1>8. b.served + n <= b.max + Peak(b) * (now - b.born)
  <2>1. b.served + b.tokens <= b.max + Peak(b) * a
    BY DEF Sound
  <2> DEFINE e == Peak(b) * a
             f == Peak(b) * d
             g == Peak(b) * (now - b.born)
  <2>2. e \in Nat /\ f \in Nat /\ g = e + f
    <3>1. e \in Nat
      <4> HIDE DEF a
      <4> QED BY <1>2, <1>3
    <3> QED BY <3>1, <1>4, <1>5
  <2>3. b.served + b.tokens <= b.max + e /\ n <= b.tokens + f
    BY <2>1, <1>6
  <2> HIDE DEF e, f, g, n
  <2>4. b.served + n <= b.max + g
    BY <1>1, <1>6, <2>2, <2>3
  <2> QED BY <2>4 DEF g
<1> HIDE DEF n, a, d
<1>9. /\ Refill(b) \in Buckets
      /\ Refill(b).key = b.key /\ Refill(b).by = b.by /\ Refill(b).rate = b.rate
      /\ Refill(b).max = b.max /\ Refill(b).served = b.served /\ Refill(b).born = b.born
      /\ Refill(b).tokens = n /\ Refill(b).last = now
  BY <1>1, <1>6, <1>7 DEF Buckets
<1>10. b.born <= now
  BY <1>1 DEF Sound
<1> QED BY <1>1, <1>6, <1>8, <1>9, <1>10 DEF Sound, Peak

(* A request that passes turns a token into a request served.              *)
LEMMA TakeSound ==
  ASSUME NEW b, Sound(b, now), now \in Nat, Allowed(b)
  PROVE  /\ Sound(Take(b), now)
         /\ Take(b).key = b.key /\ Take(b).by = b.by /\ Take(b).rate = b.rate
<1> DEFINE c == Refill(b)
<1>1. Sound(c, now) /\ c.key = b.key /\ c.by = b.by /\ c.rate = b.rate /\ c.tokens >= 1
  BY RefillSound DEF Allowed
<1> DEFINE u == c.tokens - 1
           v == c.served + 1
<1>2. Take(b) = [c EXCEPT !.tokens = u, !.served = v]
  BY DEF Take
<1> HIDE DEF c
<1>3. /\ c \in Buckets /\ c.tokens \in Nat /\ c.served \in Nat /\ c.max \in Nat
      /\ c.born \in Nat /\ c.last \in Nat
  BY <1>1 DEF Sound, Buckets
<1>4. /\ Take(b) \in Buckets
      /\ Take(b).key = c.key /\ Take(b).by = c.by /\ Take(b).rate = c.rate
      /\ Take(b).max = c.max /\ Take(b).born = c.born /\ Take(b).last = c.last
      /\ Take(b).tokens = c.tokens - 1 /\ Take(b).served = c.served + 1
  <2>1. u \in Nat /\ v \in Nat
    BY <1>1, <1>3
  <2> HIDE DEF u, v
  <2>2. /\ Take(b) \in Buckets /\ Take(b).tokens = u /\ Take(b).served = v
        /\ Take(b).key = c.key /\ Take(b).by = c.by /\ Take(b).rate = c.rate
        /\ Take(b).max = c.max /\ Take(b).born = c.born /\ Take(b).last = c.last
    BY <1>2, <1>3, <2>1 DEF Buckets
  <2> QED BY <2>2 DEF u, v
<1>5. Peak(Take(b)) = Peak(c)
  BY <1>4 DEF Peak
<1>6. Take(b).served + Take(b).tokens = c.served + c.tokens
  BY <1>3, <1>4
<1> QED BY <1>1, <1>3, <1>4, <1>5, <1>6 DEF Sound

(* A bucket that nothing has been taken from.                              *)
LEMMA NewSound ==
  ASSUME NEW k \in Keys, NEW tokens \in Nat, NEW rate \in Nat,
         NEW who \in Requests \cup {"server", "admin"}, now \in Nat
  PROVE  Sound(NewTokenBucket(k, tokens, rate, who), now)
<1> DEFINE b == NewTokenBucket(k, tokens, rate, who)
<1>1. b \in Buckets
  BY DEF NewTokenBucket, Buckets
<1>2. k # "global"
  BY ConstantsAssumption DEF Keys
<1>3. Peak(b) = rate
  BY <1>2 DEF NewTokenBucket, Peak
<1>4. /\ b.last = now /\ b.born = now /\ b.served = 0
      /\ b.tokens = tokens /\ b.max = tokens /\ b.rate = rate
  BY DEF NewTokenBucket
<1> HIDE DEF b
<1>5. rate * (now - now) = 0
  OBVIOUS
<1>6. Sound(b, now)
  BY <1>1, <1>3, <1>4, <1>5 DEF Sound
<1> QED BY <1>6 DEF b

(* Allow changes what one bucket holds, and nothing else.                  *)
LEMMA AllowKeeps ==
  ASSUME NEW s \in Seq(Buckets), AllSound(s, now), now \in Nat, NEW i \in 1 .. Len(s)
  PROVE  /\ Allow(s, i) \in Seq(Buckets)
         /\ AllSound(Allow(s, i), now)
         /\ Alike(s, Allow(s, i))
         /\ \A j \in 1 .. Len(s) : Allow(s, i)[j].rate = s[j].rate
<1> DEFINE c == IF Allowed(s[i]) THEN Take(s[i]) ELSE Refill(s[i])
<1>1. Sound(s[i], now)
  BY DEF AllSound
<1>2. Sound(c, now) /\ c.key = s[i].key /\ c.by = s[i].by /\ c.rate = s[i].rate
  BY <1>1, RefillSound, TakeSound
<1>3. Allow(s, i) = [s EXCEPT ![i] = c]
  BY DEF Allow
<1> HIDE DEF c
<1>4. c \in Buckets
  BY <1>2 DEF Sound
<1>5. /\ Allow(s, i) \in Seq(Buckets) /\ Len(Allow(s, i)) = Len(s)
      /\ \A j \in 1 .. Len(s) : Allow(s, i)[j] = IF j = i THEN c ELSE s[j]
  BY <1>3, <1>4, ExceptSeq
<1> QED BY <1>2, <1>5 DEF AllSound, Alike

(* A bucket is added at the end.                                           *)
LEMMA AppendKeeps ==
  ASSUME NEW s \in Seq(Buckets), AllSound(s, now), NEW b, Sound(b, now)
  PROVE  /\ Append(s, b) \in Seq(Buckets)
         /\ AllSound(Append(s, b), now)
         /\ Len(Append(s, b)) = Len(s) + 1 /\ Len(s) \in Nat
         /\ \A i \in 1 .. Len(s) : Append(s, b)[i] = s[i]
         /\ Append(s, b)[Len(s) + 1] = b
<1>1. b \in Buckets /\ Len(s) \in Nat
  BY DEF Sound
<1>2. /\ Append(s, b) \in Seq(Buckets)
      /\ Len(Append(s, b)) = Len(s) + 1
      /\ \A i \in 1 .. Len(s) : Append(s, b)[i] = s[i]
      /\ Append(s, b)[Len(s) + 1] = b
  BY <1>1, AppendProperties
<1> QED BY <1>1, <1>2 DEF AllSound

(* What says who made which bucket does not depend on what is in them.     *)
LEMMA AlikeKeeps ==
  ASSUME NEW s, NEW t, NEW map, Alike(s, t), Len(s) \in Nat
  PROVE  /\ Mapped(s, map) => Mapped(t, map)
         /\ Unique(s) => Unique(t)
         /\ \A r, e : MadeNone(s, r, e) => MadeNone(t, r, e)
BY DEF Alike, Mapped, Maker, Unique, MadeNone

-----------------------------------------------------------------------------
(* The parts make up the types, before a step and after it.                *)
LEMMA TypeParts == (TypeOK <=> Stored /\ Walking) /\ (Stored' /\ Walking' => TypeOK')
<1>1. \A s \in Seq(Buckets) : DOMAIN s = 1 .. Len(s)
  OBVIOUS
<1>2. TypeOK => Stored /\ Walking
  BY <1>1 DEF TypeOK, Stored, Walking
<1>3. Stored /\ Walking => TypeOK
  BY <1>1 DEF TypeOK, Stored, Walking
<1>4. Stored' /\ Walking' => TypeOK'
  BY <1>1 DEF TypeOK, Stored, Walking
<1> QED BY <1>2, <1>3, <1>4

(* The initial states satisfy the invariant.                               *)
LEMMA InitIInv == Init => IInv
<1> SUFFICES ASSUME Init PROVE IInv
  OBVIOUS
<1> DEFINE b == NewTokenBucket("global", GlobalTokens, MaxRate, "server")
<1>1. now = 0 /\ GlobalTokens \in Nat /\ MaxRate \in Nat
  BY ConstantsAssumption DEF Init, Positive
<1>2. b \in Buckets /\ b.key = "global" /\ b.by = "server" /\ b.rate = MaxRate
  BY <1>1 DEF NewTokenBucket, Buckets
<1>3. Sound(b, now)
  <2>1. Peak(b) = MaxRate
    BY <1>2 DEF Peak
  <2>2. /\ b.last = 0 /\ b.born = 0 /\ b.served = 0
        /\ b.tokens = GlobalTokens /\ b.max = GlobalTokens
    BY <1>1 DEF NewTokenBucket
  <2> HIDE DEF b
  <2>3. MaxRate * (0 - 0) = 0
    BY <1>1
  <2> QED BY <1>1, <1>2, <2>1, <2>2, <2>3 DEF Sound
<1>4. buckets = << b >>
  BY DEF Init
<1> HIDE DEF b
<1>5. buckets \in Seq(Buckets) /\ Len(buckets) = 1 /\ buckets[1] = b
  BY <1>2, <1>4
<1>6. AllSound(buckets, now)
  BY <1>3, <1>5 DEF AllSound
<1>7. Rated
  <2>1. NewRate(0) = MinRate + (Span * (Threshold - 0)) \div Threshold
    BY ConstantsAssumption DEF NewRate, Positive
  <2>2. Span \in Nat /\ Threshold \in Nat \ {0}
    BY ConstantsAssumption DEF Span, Positive
  <2>3. (Span * (Threshold - 0)) \div Threshold = Span
    BY <2>2
  <2>4. NewRate(0) = MaxRate
    BY <2>1, <2>3, ConstantsAssumption DEF Span, Positive
  <2> QED BY <1>2, <1>5, <2>4, ConstantsAssumption DEF Rated, Init
<1>8. TypeOK
  <2>1. buckets[1].rate \in MinRate .. MaxRate
    BY <1>2, <1>5, ConstantsAssumption DEF Positive
  <2>2. Stored
    BY <1>5, <2>1, ConstantsAssumption DEF Init, Stored
  <2>3. Walking
    BY DEF Init, Walking, NoHold
  <2> QED BY <2>2, <2>3, TypeParts
<1>9. Mapped(buckets, limiter) /\ Unique(buckets)
  BY <1>2, <1>5, ConstantsAssumption DEF Mapped, Maker, Unique
<1>10. Creating
  BY DEF Init, Creating
<1> QED BY <1>6, <1>7, <1>8, <1>9, <1>10 DEF IInv

(* What the invariant says of the buckets, in the terms of the lemmas.     *)
LEMMA BucketsTyped ==
  ASSUME IInv
  PROVE  /\ buckets \in Seq(Buckets) /\ Len(buckets) \in Nat \ {0}
         /\ DOMAIN buckets = 1 .. Len(buckets) /\ 1 \in 1 .. Len(buckets)
         /\ \A i \in 1 .. Len(buckets) : buckets[i].key \in Keys \cup {"global"}
         /\ now \in Nat
         /\ limiter \in [Keys -> Nat]
         /\ \A k \in Keys : limiter[k] # 0 => limiter[k] \in 1 .. Len(buckets)
<1>1. buckets \in Seq(Buckets) /\ Len(buckets) \in Nat \ {0}
  BY DEF IInv, TypeOK
<1>2. \A i \in 1 .. Len(buckets) : buckets[i] \in Buckets
  BY <1>1
<1>3. \A i \in 1 .. Len(buckets) : buckets[i].key \in Keys \cup {"global"}
  BY <1>2 DEF Buckets
<1> QED BY <1>1, <1>3, ConstantsAssumption DEF IInv, TypeOK

(* A step that only changes what is in the buckets.                        *)
LEMMA AlikeStep ==
  ASSUME IInv, buckets' \in Seq(Buckets), AllSound(buckets', now'),
         Alike(buckets, buckets'), buckets'[1].rate = buckets[1].rate,
         UNCHANGED <<now, limiter, load, settings>>
  PROVE  /\ Len(buckets') = Len(buckets) /\ Stored'
         /\ Rated' /\ Mapped(buckets', limiter') /\ Unique(buckets')
         /\ \A r, e : MadeNone(buckets, r, e) => MadeNone(buckets', r, e)
<1>1. Len(buckets') = Len(buckets) /\ Len(buckets) \in Nat
  BY BucketsTyped DEF Alike
<1>2. Stored'
  BY <1>1 DEF IInv, TypeOK, Stored
<1> QED BY <1>1, <1>2, AlikeKeeps DEF IInv, Rated

(* Such a step is what the limits do.                                      *)
LEMMA AllowStep ==
  ASSUME IInv, NEW i \in 1 .. Len(buckets), buckets' = Allow(buckets, i),
         UNCHANGED <<now, limiter, load, settings>>
  PROVE  /\ Len(buckets') = Len(buckets) /\ Stored' /\ AllSound(buckets', now')
         /\ Rated' /\ Mapped(buckets', limiter') /\ Unique(buckets')
         /\ \A r, e : MadeNone(buckets, r, e) => MadeNone(buckets', r, e)
<1>1. /\ buckets' \in Seq(Buckets) /\ AllSound(buckets', now')
      /\ Alike(buckets, buckets') /\ buckets'[1].rate = buckets[1].rate
  BY BucketsTyped, AllowKeeps DEF IInv
<1> QED BY <1>1, AlikeStep

(* A request, and the global limit.                                        *)
LEMMA CheckGlobalIInv ==
  ASSUME IInv, NEW r \in Requests, NEW ip \in IPs, NEW e \in Endpoints, CheckGlobal(r, ip, e)
  PROVE  IInv'
<1>1. buckets' = Allow(buckets, 1) /\ UNCHANGED <<now, limiter, load, settings>>
  BY DEF CheckGlobal
<1> DEFINE h == [ip |-> ip, endpoint |-> e, bucket |-> 0]
<1>2. h \in Holds /\ h.bucket = 0 /\ h # NoHold
  BY NoHoldApart DEF Holds
<1>3. \/ pc' = pc /\ hold' = hold
      \/ /\ pc[r] = "global"
         /\ pc' = [pc EXCEPT ![r] = "ip"] /\ hold' = [hold EXCEPT ![r] = h]
  BY DEF CheckGlobal, Goto
<1> HIDE DEF h
<1>4. /\ Len(buckets') = Len(buckets) /\ Stored' /\ AllSound(buckets', now')
      /\ Rated' /\ Mapped(buckets', limiter') /\ Unique(buckets')
      /\ \A q, f : MadeNone(buckets, q, f) => MadeNone(buckets', q, f)
  BY <1>1, BucketsTyped, AllowStep
<1>5. Walking /\ Walking'
  <2>1. Walking
    BY TypeParts DEF IInv
  <2> QED BY <1>2, <1>3, <1>4, <2>1 DEF Walking
<1>6. Creating'
  BY <1>3, <1>4, <1>5 DEF IInv, Walking, Creating
<1> QED BY <1>4, <1>5, <1>6, TypeParts DEF IInv

(* The answer leaves nobody at work who was not.                           *)
LEMMA AnsweredKeeps ==
  ASSUME IInv, NEW r \in Requests, Answered(r)
  PROVE  /\ pc' \in [Requests -> {"global", "ip", "lookup", "create", "allow"}]
         /\ hold' \in [Requests -> Holds \cup {NoHold}]
         /\ hold'[r] = NoHold /\ pc'[r] = "global"
         /\ \A q \in Requests \ {r} : hold'[q] = hold[q] /\ pc'[q] = pc[q]
BY DEF IInv, TypeOK, Answered, Goto

(* The limit per endpoint.                                                 *)
LEMMA CheckEndpointIInv ==
  ASSUME IInv, NEW r \in Requests, CheckEndpoint(r)
  PROVE  IInv'
<1>1. hold[r].bucket \in 1 .. Len(buckets) /\ Answered(r)
  BY BucketsTyped DEF IInv, TypeOK, CheckEndpoint
<1>2. /\ Len(buckets') = Len(buckets) /\ Stored' /\ AllSound(buckets', now')
      /\ Rated' /\ Mapped(buckets', limiter') /\ Unique(buckets')
      /\ \A q, e : MadeNone(buckets, q, e) => MadeNone(buckets', q, e)
  BY <1>1, AllowStep DEF CheckEndpoint
<1>3. Walking'
  <2>1. Walking
    BY TypeParts DEF IInv
  <2>2. NoHold.bucket = 0
    BY DEF NoHold
  <2> QED BY <1>1, <1>2, <2>1, <2>2, AnsweredKeeps DEF Walking
<1>4. Creating'
  BY <1>1, <1>2, AnsweredKeeps DEF IInv, Creating
<1> QED BY <1>2, <1>3, <1>4, TypeParts DEF IInv

(* The endpoint's bucket is looked up: if the map has none, nobody has     *)
(* made one yet.                                                           *)
LEMMA LookupIInv ==
  ASSUME IInv, NEW r \in Requests, Lookup(r)
  PROVE  IInv'
<1> DEFINE e == hold[r].endpoint
           i == limiter[e]
           h == [hold[r] EXCEPT !.bucket = i]
<1>1. hold[r] \in Holds /\ pc[r] = "lookup" /\ hold[r].bucket = 0
  BY DEF IInv, TypeOK, Lookup
<1>2. e \in Endpoints /\ e \in Keys /\ i \in 0 .. Len(buckets)
  BY <1>1 DEF Holds, Keys, IInv, TypeOK
<1>3. h \in Holds /\ h.bucket = i /\ h.endpoint = e /\ h # NoHold
  <2>1. i \in Nat
    BY <1>2, BucketsTyped
  <2>2. h \in Holds /\ h.bucket = i /\ h.endpoint = e
    <3> HIDE DEF i
    <3> QED BY <1>1, <2>1 DEF Holds
  <2> QED BY <2>2, NoHoldApart
<1>4. /\ hold' = [hold EXCEPT ![r] = h]
      /\ pc' = [pc EXCEPT ![r] = IF i = 0 THEN "create" ELSE "allow"]
      /\ UNCHANGED <<now, buckets, limiter, load, settings>>
  BY DEF Lookup, Goto
<1>5. i = 0 => MadeNone(buckets, r, e)
  <2>1. e # "global"
    BY <1>2, ConstantsAssumption
  <2> QED BY <1>2, <2>1, BucketsTyped DEF IInv, Mapped, MadeNone
<1> HIDE DEF h, i, e
<1>6. TypeOK'
  <2>1. Stored /\ Walking
    BY TypeParts DEF IInv
  <2>2. Stored'
    BY <1>4, <2>1 DEF Stored
  <2>3. Walking'
    BY <1>1, <1>2, <1>3, <1>4, <2>1, BucketsTyped DEF Walking
  <2> QED BY <2>2, <2>3, TypeParts
<1>7. Creating'
  BY <1>3, <1>4, <1>5 DEF IInv, TypeOK, Creating
<1> QED BY <1>4, <1>6, <1>7 DEF IInv, Rated

(* A new bucket in the map, of which its maker has made none so far.       *)
LEMMA AddedStep ==
  ASSUME IInv, NEW k \in Keys, NEW who, who = "admin" \/ MadeNone(buckets, who, k),
         NEW b, Sound(b, now), b.key = k, b.by = who, Maker(b),
         NEW s, s = Append(buckets, b),
         NEW map, map = [limiter EXCEPT ![k] = Len(buckets) + 1]
  PROVE  /\ s \in Seq(Buckets) /\ Len(s) = Len(buckets) + 1 /\ s[1] = buckets[1]
         /\ map \in [Keys -> 0 .. Len(s)]
         /\ AllSound(s, now) /\ Mapped(s, map) /\ Unique(s)
         /\ \A q, e : MadeNone(buckets, q, e) /\ ~(q = who /\ e = k) => MadeNone(s, q, e)
<1>1. /\ s \in Seq(Buckets) /\ AllSound(s, now)
      /\ Len(s) = Len(buckets) + 1 /\ Len(buckets) \in Nat \ {0}
      /\ \A i \in 1 .. Len(buckets) : s[i] = buckets[i]
      /\ s[Len(buckets) + 1] = b
  BY BucketsTyped, AppendKeeps DEF IInv
<1>2. Mapped(s, map)
  <2> SUFFICES ASSUME NEW j \in 1 .. Len(s)
               PROVE  /\ s[j].key = "global" <=> j = 1
                      /\ j # 1 => map[s[j].key] # 0
                      /\ Maker(s[j])
    BY DEF Mapped
  <2>1. k # "global"
    BY ConstantsAssumption DEF Keys
  <2>2. CASE j = Len(buckets) + 1
    BY <1>1, <2>1, <2>2, BucketsTyped
  <2>3. CASE j \in 1 .. Len(buckets)
    <3>1. /\ s[j] = buckets[j] /\ buckets[j].key \in Keys \cup {"global"}
          /\ buckets[j].key = "global" <=> j = 1
          /\ j # 1 => limiter[buckets[j].key] # 0
          /\ Maker(buckets[j])
      BY <1>1, <2>3, BucketsTyped DEF IInv, Mapped
    <3> QED BY <1>1, <3>1, BucketsTyped
  <2> QED BY <1>1, <2>2, <2>3
<1>3. Unique(s)
  BY <1>1 DEF IInv, Unique, MadeNone
<1>4. map \in [Keys -> 0 .. Len(s)]
  BY <1>1 DEF IInv, TypeOK
<1>5. \A q, e : MadeNone(buckets, q, e) /\ ~(q = who /\ e = k) => MadeNone(s, q, e)
  BY <1>1 DEF MadeNone
<1> QED BY <1>1, <1>2, <1>3, <1>4, <1>5

(* The types after such a step.                                            *)
LEMMA AddedStored ==
  ASSUME IInv, buckets' \in Seq(Buckets), Len(buckets') = Len(buckets) + 1,
         buckets'[1].rate = buckets[1].rate, limiter' \in [Keys -> 0 .. Len(buckets')],
         UNCHANGED <<now, load>>, settings' \in 0 .. MaxSettings
  PROVE  Stored' /\ Rated'
BY BucketsTyped DEF IInv, TypeOK, Stored, Rated

(* The endpoint's bucket is made: by this goroutine, for the first time.   *)
LEMMA CreateLimiterIInv ==
  ASSUME IInv, NEW r \in Requests, CreateLimiter(r)
  PROVE  IInv'
<1> DEFINE e == hold[r].endpoint
           b == NewTokenBucket(e, EndpointTokens, EndpointRate, r)
           n == Len(buckets) + 1
           h == [hold[r] EXCEPT !.bucket = n]
<1>1. hold[r] \in Holds /\ pc[r] = "create" /\ MadeNone(buckets, r, e)
  BY DEF IInv, TypeOK, CreateLimiter, Creating
<1>2. e \in Endpoints /\ e \in Keys /\ n \in Nat \ {0} /\ Len(buckets) \in Nat
  BY <1>1, BucketsTyped DEF Holds, Keys
<1>3. h \in Holds /\ h.bucket = n /\ h.endpoint = e /\ h # NoHold
  <2>1. h \in Holds /\ h.bucket = n /\ h.endpoint = e
    <3> HIDE DEF n
    <3> QED BY <1>1, <1>2 DEF Holds
  <2> QED BY <2>1, NoHoldApart
<1>4. Sound(b, now)
  <2>1. EndpointTokens \in Nat /\ EndpointRate \in Nat
    BY ConstantsAssumption DEF Positive
  <2> QED BY <1>2, <2>1, NewSound, BucketsTyped
<1>5. b.key = e /\ b.by = r /\ Maker(b)
  BY <1>2 DEF NewTokenBucket, Maker
<1>6. /\ hold' = [hold EXCEPT ![r] = h]
      /\ pc' = [pc EXCEPT ![r] = "allow"]
      /\ buckets' = Append(buckets, b)
      /\ limiter' = [limiter EXCEPT ![e] = n]
      /\ UNCHANGED <<now, load, settings>>
  BY DEF CreateLimiter, Goto
<1> HIDE DEF h, b, e
<1>7. /\ buckets' \in Seq(Buckets) /\ Len(buckets') = n /\ buckets'[1] = buckets[1]
      /\ limiter' \in [Keys -> 0 .. Len(buckets')]
      /\ AllSound(buckets', now) /\ Mapped(buckets', limiter') /\ Unique(buckets')
      /\ \A q, f : MadeNone(buckets, q, f) /\ ~(q = r /\ f = e) => MadeNone(buckets', q, f)
  BY <1>1, <1>2, <1>4, <1>5, <1>6, AddedStep
<1>8. Stored' /\ Rated'
  <2>1. settings' \in 0 .. MaxSettings
    BY <1>6 DEF IInv, TypeOK
  <2> QED BY <1>6, <1>7, <2>1, AddedStored
<1>9. Walking'
  <2>1. Walking
    BY TypeParts DEF IInv
  <2>2. n \in 1 .. n /\ 1 .. Len(buckets) \subseteq 1 .. n
    BY <1>2
  <2> HIDE DEF n
  <2> QED BY <1>1, <1>3, <1>6, <1>7, <2>1, <2>2 DEF Walking
<1>10. Creating'
  BY <1>6, <1>7 DEF IInv, TypeOK, Creating
<1> QED BY <1>6, <1>7, <1>8, <1>9, <1>10, TypeParts DEF IInv

(* An admin's bucket.                                                      *)
LEMMA SetLimitIInv ==
  ASSUME IInv, NEW e \in Endpoints, NEW limit \in Limits, SetLimit(e, limit)
  PROVE  IInv'
<1> DEFINE b == NewTokenBucket(e, limit.tokens, limit.rate, "admin")
<1>1. limit.tokens \in Nat /\ limit.rate \in Nat /\ e \in Keys
  BY ConstantsAssumption DEF Positive, Keys
<1>2. Sound(b, now)
  BY <1>1, NewSound, BucketsTyped
<1>3. b.key = e /\ b.by = "admin" /\ Maker(b)
  BY DEF NewTokenBucket, Maker
<1>4. /\ buckets' = Append(buckets, b)
      /\ limiter' = [limiter EXCEPT ![e] = Len(buckets) + 1]
      /\ UNCHANGED <<now, load, pc, hold>>
      /\ settings' \in 0 .. MaxSettings
  BY ConstantsAssumption DEF IInv, TypeOK, SetLimit
<1> HIDE DEF b
<1>5. /\ buckets' \in Seq(Buckets) /\ Len(buckets') = Len(buckets) + 1
      /\ buckets'[1] = buckets[1]
      /\ limiter' \in [Keys -> 0 .. Len(buckets')]
      /\ AllSound(buckets', now) /\ Mapped(buckets', limiter') /\ Unique(buckets')
      /\ \A q, f : MadeNone(buckets, q, f) /\ ~(q = "admin" /\ f = e) => MadeNone(buckets', q, f)
  BY <1>1, <1>2, <1>3, <1>4, AddedStep
<1>6. Stored' /\ Rated'
  BY <1>4, <1>5, AddedStored
<1>7. Walking'
  <2>1. Walking
    BY TypeParts DEF IInv
  <2>2. 1 .. Len(buckets) \subseteq 1 .. Len(buckets')
    BY <1>5, BucketsTyped
  <2> QED BY <1>4, <2>1, <2>2 DEF Walking
<1>8. Creating'
  BY <1>4, <1>5, ConstantsAssumption DEF IInv, Creating
<1> QED BY <1>4, <1>5, <1>6, <1>7, <1>8, TypeParts DEF IInv

(* The limit per IP goes on, or answers.                                   *)
LEMMA CheckIPWalks ==
  ASSUME IInv, NEW r \in Requests, CheckIP(r),
         Len(buckets') \in Nat, Len(buckets) <= Len(buckets')
  PROVE  /\ Walking'
         /\ \A q \in Requests : pc'[q] = "create" => pc[q] = "create" /\ hold'[q] = hold[q]
<1>1. Walking
  BY TypeParts DEF IInv
<1>2. 1 .. Len(buckets) \subseteq 1 .. Len(buckets')
  BY BucketsTyped
<1>3. pc[r] = "ip" /\ NoHold.bucket = 0
  BY DEF CheckIP, NoHold
<1>4. \/ pc' = [pc EXCEPT ![r] = "lookup"] /\ hold' = hold
      \/ pc' = [pc EXCEPT ![r] = "global"] /\ hold' = [hold EXCEPT ![r] = NoHold]
  BY DEF CheckIP, Goto, Answered
<1> QED BY <1>1, <1>2, <1>3, <1>4 DEF Walking

(* An IP's bucket is made once, under the lock it is looked up under.      *)
LEMMA CheckIPIInv ==
  ASSUME IInv, NEW r \in Requests, CheckIP(r)
  PROVE  IInv'
<1> DEFINE k == hold[r].ip
           b == NewTokenBucket(k, IPTokens, IPRate, "server")
           i == BucketOf(k)
           s == WithBucket(buckets, k, IPTokens, IPRate, "server")
<1>1. k \in IPs /\ k \in Keys /\ k \notin Endpoints /\ k # "global"
  BY ConstantsAssumption DEF IInv, TypeOK, CheckIP, Holds, Keys
<1>2. /\ limiter' = [limiter EXCEPT ![k] = i] /\ buckets' = Allow(s, i)
      /\ UNCHANGED <<now, load, settings>>
  BY DEF CheckIP
<1>3. CASE limiter[k] # 0
  <2>1. s = buckets /\ i = limiter[k]
    BY <1>3 DEF WithBucket, BucketOf
  <2> HIDE DEF s, i, k
  <2>2. i \in 1 .. Len(buckets) /\ limiter' = limiter
    BY <1>1, <1>2, <1>3, <2>1, BucketsTyped
  <2>3. /\ Len(buckets') = Len(buckets) /\ Stored' /\ AllSound(buckets', now')
        /\ Rated' /\ Mapped(buckets', limiter') /\ Unique(buckets')
        /\ \A q, e : MadeNone(buckets, q, e) => MadeNone(buckets', q, e)
    BY <1>2, <2>1, <2>2, AllowStep
  <2>4. Walking' /\ Creating'
    <3>1. Len(buckets) \in Nat
      BY BucketsTyped
    <3> QED BY <2>3, <3>1, CheckIPWalks DEF IInv, Creating
  <2> QED BY <2>3, <2>4, TypeParts DEF IInv
<1>4. CASE limiter[k] = 0
  <2>1. s = Append(buckets, b) /\ i = Len(buckets) + 1
    BY <1>4 DEF WithBucket, BucketOf
  <2>2. Sound(b, now)
    <3>1. IPTokens \in Nat /\ IPRate \in Nat
      BY ConstantsAssumption DEF Positive
    <3> QED BY <1>1, <3>1, NewSound, BucketsTyped
  <2>3. b.key = k /\ b.by = "server" /\ Maker(b)
    BY <1>1 DEF NewTokenBucket, Maker
  <2> HIDE DEF s, i, b, k
  <2>4. MadeNone(buckets, "server", k)
    BY <1>1, <1>4, BucketsTyped DEF IInv, Mapped, MadeNone
  <2>5. /\ s \in Seq(Buckets) /\ Len(s) = Len(buckets) + 1 /\ s[1] = buckets[1]
        /\ limiter' \in [Keys -> 0 .. Len(s)]
        /\ AllSound(s, now) /\ Mapped(s, limiter') /\ Unique(s)
        /\ \A q, e : MadeNone(buckets, q, e) /\ ~(q = "server" /\ e = k) => MadeNone(s, q, e)
    BY <1>1, <1>2, <2>1, <2>2, <2>3, <2>4, AddedStep
  <2>6. i \in 1 .. Len(s) /\ 1 \in 1 .. Len(s) /\ Len(s) \in Nat
    BY <2>1, <2>5, BucketsTyped
  <2>7. /\ buckets' \in Seq(Buckets) /\ AllSound(buckets', now) /\ Alike(s, buckets')
        /\ buckets'[1].rate = s[1].rate
    BY <1>2, <2>5, <2>6, BucketsTyped, AllowKeeps
  <2>8. /\ Len(buckets') = Len(s)
        /\ Mapped(buckets', limiter') /\ Unique(buckets')
        /\ \A q, e : MadeNone(s, q, e) => MadeNone(buckets', q, e)
    BY <2>5, <2>6, <2>7, AlikeKeeps DEF Alike
  <2>9. Stored' /\ Rated'
    <3>1. settings' \in 0 .. MaxSettings
      BY <1>2 DEF IInv, TypeOK
    <3> QED BY <1>2, <2>5, <2>7, <2>8, <3>1, AddedStored
  <2>10. Walking' /\ \A q \in Requests : pc'[q] = "create" => pc[q] = "create" /\ hold'[q] = hold[q]
    BY <2>5, <2>8, BucketsTyped, CheckIPWalks
  <2>11. Creating'
    <3> SUFFICES ASSUME NEW q \in Requests, pc'[q] = "create"
                 PROVE  MadeNone(buckets', q, hold'[q].endpoint)
      BY DEF Creating
    <3>1. MadeNone(buckets, q, hold'[q].endpoint)
      BY <2>10 DEF IInv, Creating
    <3>2. q # "server"
      BY ConstantsAssumption
    <3> QED BY <2>5, <2>8, <3>1, <3>2
  <2> QED BY <1>2, <2>7, <2>8, <2>9, <2>10, <2>11, TypeParts DEF IInv
<1> QED BY <1>3, <1>4

(* The rate is adapted, and nothing else.                                  *)
LEMMA AdaptIInv ==
  ASSUME IInv, NEW l \in Loads, Adapt(l)
  PROVE  IInv'
<1> DEFINE c == [buckets[1] EXCEPT !.rate = NewRate(load')]
<1>1. load' \in Nat /\ load' <= FullLoad
  BY ConstantsAssumption DEF Adapt, Measured, Lesser
<1>2. NewRate(load') \in MinRate .. MaxRate /\ NewRate(load') \in Nat
  BY <1>1, RateBounds, ConstantsAssumption DEF Positive
<1>3. buckets[1].key = "global" /\ Sound(buckets[1], now) /\ buckets[1] \in Buckets
  BY BucketsTyped DEF IInv, AllSound, Mapped
<1>4. /\ c \in Buckets /\ c.key = "global" /\ c.rate = NewRate(load')
      /\ c.tokens = buckets[1].tokens /\ c.max = buckets[1].max /\ c.last = buckets[1].last
      /\ c.born = buckets[1].born /\ c.by = buckets[1].by /\ c.served = buckets[1].served
  BY <1>2, <1>3 DEF Buckets
<1>5. buckets' = [buckets EXCEPT ![1] = c] /\ UNCHANGED <<now, limiter, pc, hold, settings>>
  BY DEF Adapt
<1> HIDE DEF c
<1>6. Sound(c, now)
  <2>1. Peak(c) = MaxRate /\ Peak(buckets[1]) = MaxRate /\ c.rate <= MaxRate
    BY <1>2, <1>3, <1>4, ConstantsAssumption DEF Peak, Positive
  <2> QED BY <1>3, <1>4, <2>1 DEF Sound
<1>7. /\ buckets' \in Seq(Buckets) /\ Len(buckets') = Len(buckets)
      /\ \A i \in 1 .. Len(buckets) : buckets'[i] = IF i = 1 THEN c ELSE buckets[i]
  BY <1>4, <1>5, BucketsTyped, ExceptSeq
<1>8. AllSound(buckets', now) /\ Alike(buckets, buckets')
  BY <1>3, <1>4, <1>6, <1>7 DEF IInv, AllSound, Alike
<1>9. buckets'[1].rate = NewRate(load')
  BY <1>4, <1>7, BucketsTyped
<1>10. Stored' /\ Rated'
  BY <1>1, <1>2, <1>5, <1>7, <1>9, BucketsTyped DEF IInv, TypeOK, Stored, Rated
<1>11. /\ Mapped(buckets', limiter) /\ Unique(buckets')
       /\ \A r, e : MadeNone(buckets, r, e) => MadeNone(buckets', r, e)
  BY <1>8, BucketsTyped, AlikeKeeps DEF IInv
<1>12. Walking'
  <2>1. Walking
    BY TypeParts DEF IInv
  <2> QED BY <1>5, <1>7, <2>1 DEF Walking
<1>13. Creating'
  BY <1>5, <1>11 DEF IInv, Creating
<1> QED BY <1>5, <1>8, <1>10, <1>11, <1>12, <1>13, TypeParts DEF IInv

(* Time passes: what is sound stays so.                                    *)
LEMMA TickIInv ==
  ASSUME IInv, Tick
  PROVE  IInv'
<1>1. UNCHANGED <<buckets, limiter, load, pc, hold, settings>>
  BY DEF Tick
<1>2. now \in Nat /\ now' = now + 1 /\ now' \in 0 .. MaxTime
  BY ConstantsAssumption DEF IInv, TypeOK, Tick
<1>3. AllSound(buckets, now')
  <2> SUFFICES ASSUME NEW i \in 1 .. Len(buckets)
               PROVE  Sound(buckets[i], now')
    BY DEF AllSound
  <2>1. Sound(buckets[i], now)
    BY DEF IInv, AllSound
  <2>2. buckets[i].last \in Nat
    BY <2>1 DEF Sound, Buckets
  <2> QED BY <1>2, <2>1, <2>2 DEF Sound
<1>4. Stored' /\ Walking'
  <2>1. Stored /\ Walking
    BY TypeParts DEF IInv
  <2> QED BY <1>1, <1>2, <2>1 DEF Stored, Walking
<1>5. Rated' /\ Creating'
  BY <1>1 DEF IInv, Rated, Creating
<1> QED BY <1>1, <1>3, <1>4, <1>5, TypeParts DEF IInv

(* Every step keeps the invariant.                                         *)
LEMMA NextIInv == IInv /\ [Next]_vars => IInv'
<1> SUFFICES ASSUME IInv, [Next]_vars PROVE IInv'
  OBVIOUS
<1>1. CASE \E r \in Requests : Middleware(r)
  <2> PICK r \in Requests : Middleware(r)
    BY <1>1
  <2>1. CASE \E ip \in IPs, e \in Endpoints : CheckGlobal(r, ip, e)
    BY <2>1, CheckGlobalIInv
  <2>2. CASE CheckIP(r)
    BY <2>2, CheckIPIInv
  <2>3. CASE Lookup(r)
    BY <2>3, LookupIInv
  <2>4. CASE CreateLimiter(r)
    BY <2>4, CreateLimiterIInv
  <2>5. CASE CheckEndpoint(r)
    BY <2>5, CheckEndpointIInv
  <2> QED BY <2>1, <2>2, <2>3, <2>4, <2>5 DEF Middleware
<1>2. CASE \E e \in Endpoints, limit \in Limits : SetLimit(e, limit)
  BY <1>2, SetLimitIInv
<1>3. CASE \E l \in Loads : Adapt(l)
  BY <1>3, AdaptIInv
<1>4. CASE Tick
  BY <1>4, TickIInv
<1>5. CASE UNCHANGED vars
  <2>1. UNCHANGED <<now, buckets, limiter, load, pc, hold, settings>>
    BY <1>5 DEF vars
  <2>2. Stored /\ Walking
    BY TypeParts DEF IInv
  <2>3. Stored' /\ Walking' /\ Rated' /\ Creating'
    BY <2>1, <2>2 DEF IInv, Stored, Walking, Rated, Creating
  <2> QED BY <2>1, <2>3, TypeParts DEF IInv
<1> QED BY <1>1, <1>2, <1>3, <1>4, <1>5 DEF Next

-----------------------------------------------------------------------------
(* The invariant holds in every reachable state.                           *)
THEOREM Invariance == Spec => []IInv
BY InitIInv, NextIInv, PTL DEF Spec

(* Every variable keeps its type, and the global rate its bounds.          *)
THEOREM TypeCorrect == Spec => []TypeOK
<1>1. IInv => TypeOK
  BY DEF IInv
<1> QED BY <1>1, Invariance, PTL

(* No bucket lets more requests pass than it held and was refilled with,   *)
(* whatever adapt does to its rate.                                        *)
THEOREM ConservedHolds == Spec => []Conserved
<1>1. IInv => Conserved
  <2> SUFFICES ASSUME IInv, NEW i \in DOMAIN buckets
               PROVE  /\ buckets[i].tokens <= buckets[i].max
                      /\ buckets[i].served + buckets[i].tokens
                           <= buckets[i].max + Peak(buckets[i]) * (buckets[i].last - buckets[i].born)
    BY DEF Conserved
  <2>1. Sound(buckets[i], now)
    BY BucketsTyped DEF IInv, AllSound
  <2> QED BY <2>1 DEF Sound
<1> QED BY <1>1, Invariance, PTL

(* getLimiter makes one bucket of an endpoint per goroutine at most, and   *)
(* one of an IP, however many requests race.                               *)
THEOREM OneEachHolds == Spec => []OneEach
<1>1. IInv => OneEach
  BY BucketsTyped DEF IInv, Unique, OneEach
<1> QED BY <1>1, Invariance, PTL

(* No step of a request, to this endpoint or another, unsettles it.        *)
LEMMA SettledStep ==
  ASSUME IInv, Next, NEW e \in Endpoints, Settled(e)
  PROVE  /\ Settled(e)'
         /\ limiter'[e] = limiter[e] \/ buckets'[limiter'[e]].by = "admin"
<1>1. /\ e \in Keys /\ e \notin IPs
      /\ pc \in [Requests -> {"global", "ip", "lookup", "create", "allow"}]
      /\ hold \in [Requests -> Holds \cup {NoHold}] /\ limiter \in [Keys -> Nat]
  BY ConstantsAssumption, BucketsTyped DEF IInv, TypeOK, Keys
<1>2. ASSUME NEW r \in Requests, Middleware(r)
      PROVE  Settled(e)' /\ limiter'[e] = limiter[e]
  <2>1. ASSUME NEW ip \in IPs, NEW f \in Endpoints, CheckGlobal(r, ip, f)
        PROVE  Settled(e)' /\ limiter'[e] = limiter[e]
    BY <1>1, <2>1 DEF CheckGlobal, Goto, Settled
  <2>2. CASE CheckIP(r)
    <3>1. hold[r].ip \in IPs
      BY <2>2 DEF CheckIP, IInv, TypeOK, Holds
    <3>2. limiter'[e] = limiter[e]
      BY <1>1, <2>2, <3>1 DEF CheckIP
    <3>3. \A q \in Requests : pc'[q] = "create" => pc[q] = "create" /\ hold'[q] = hold[q]
      BY <1>1, <2>2 DEF CheckIP, Goto, Answered
    <3> QED BY <3>2, <3>3 DEF Settled
  <2>3. CASE Lookup(r)
    <3>1. limiter' = limiter /\ \A q \in Requests \ {r} : pc'[q] = pc[q] /\ hold'[q] = hold[q]
      BY <1>1, <2>3 DEF Lookup, Goto
    <3>2. hold'[r].endpoint = hold[r].endpoint
      BY <1>1, <2>3 DEF Lookup, IInv, TypeOK, Holds
    <3>3. pc'[r] = "create" => hold[r].endpoint # e
      BY <1>1, <2>3 DEF Lookup, Goto, Settled
    <3> QED BY <3>1, <3>2, <3>3 DEF Settled
  <2>4. CASE CreateLimiter(r)
    <3>1. hold[r].endpoint # e
      BY <2>4 DEF CreateLimiter, Settled
    <3>2. limiter'[e] = limiter[e]
      BY <1>1, <2>4, <3>1 DEF CreateLimiter
    <3>3. /\ pc'[r] = "allow"
          /\ \A q \in Requests \ {r} : pc'[q] = pc[q] /\ hold'[q] = hold[q]
      BY <1>1, <2>4 DEF CreateLimiter, Goto
    <3> QED BY <3>2, <3>3 DEF Settled
  <2>5. CASE CheckEndpoint(r)
    BY <1>1, <2>5 DEF CheckEndpoint, Answered, Goto, Settled
  <2> QED BY <1>2, <2>1, <2>2, <2>3, <2>4, <2>5 DEF Middleware
<1>3. ASSUME NEW f \in Endpoints, NEW limit \in Limits, SetLimit(f, limit)
      PROVE  /\ Settled(e)'
             /\ limiter'[e] = limiter[e] \/ buckets'[limiter'[e]].by = "admin"
  <2> DEFINE b == NewTokenBucket(f, limit.tokens, limit.rate, "admin")
             n == Len(buckets) + 1
  <2>1. /\ UNCHANGED <<pc, hold>> /\ limiter' = [limiter EXCEPT ![f] = n]
        /\ buckets' = Append(buckets, b) /\ b.by = "admin"
    BY <1>3 DEF SetLimit, NewTokenBucket
  <2>2. f \in Keys /\ n # 0 /\ buckets \in Seq(Buckets) /\ Len(buckets) \in Nat
    BY BucketsTyped DEF Keys
  <2>3. b \in Buckets
    <3>1. limit.tokens \in Nat /\ limit.rate \in Nat
      BY ConstantsAssumption DEF Positive
    <3> QED BY <2>2, <3>1, NewSound, BucketsTyped DEF Sound
  <2> HIDE DEF b
  <2>4. buckets'[n] = b
    BY <2>1, <2>2, <2>3
  <2>5. Settled(e)'
    BY <1>1, <2>1, <2>2 DEF Settled
  <2>6. CASE f = e
    BY <1>1, <2>1, <2>4, <2>5, <2>6
  <2>7. CASE f # e
    BY <1>1, <2>1, <2>5, <2>7
  <2> QED BY <2>6, <2>7
<1>4. CASE Tick \/ \E l \in Loads : Adapt(l)
  BY <1>4 DEF Tick, Adapt, Settled
<1> QED BY <1>2, <1>3, <1>4 DEF Next

(***************************************************************************)
(* getLimiter does not look again before it stores a limiter.  Even so, an *)
(* admin's limit is overwritten only by requests that have found none      *)
(* before any was there.                                                   *)
(***************************************************************************)
THEOREM LimitStandsHolds == Spec => LimitStands
<1>1. IInv /\ [Next]_vars =>
        [\A e \in Endpoints : Settled(e) =>
           /\ Settled(e)'
           /\ limiter'[e] = limiter[e] \/ buckets'[limiter'[e]].by = "admin"]_vars
  BY SettledStep
<1> QED BY <1>1, Invariance, PTL DEF Spec, LimitStands

(* adapt raises the rate only when the load falls, or crosses the          *)
(* threshold.                                                              *)
THEOREM RateFollowsLoadHolds == Spec => RateFollowsLoad
<1>1. IInv /\ IInv' /\ [Next]_vars =>
        [load' > load /\ SameSide(load, load') => buckets'[1].rate <= buckets[1].rate]_vars
  <2> SUFFICES ASSUME IInv, IInv', load' > load, SameSide(load, load')
               PROVE  buckets'[1].rate <= buckets[1].rate
    OBVIOUS
  <2>1. /\ load \in Nat /\ load' \in Nat /\ load' <= FullLoad
        /\ buckets[1].rate = NewRate(load) /\ buckets'[1].rate = NewRate(load')
    BY DEF IInv, TypeOK, Rated
  <2> QED BY <2>1, RateFalls
<1> QED BY <1>1, Invariance, PTL DEF Spec, RateFollowsLoad
=============================================================================
