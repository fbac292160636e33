-------------------------- MODULE RateLimiterProofs -------------------------
(***************************************************************************)
(* Proofs about RateLimiter, for any rate, burst, idle limit and skew of   *)
(* which the limit leaves an evicted bucket time to fill, and any number   *)
(* of clients, proxies and requests in flight.                             *)
(***************************************************************************)
EXTENDS RateLimiter, TLAPS

-----------------------------------------------------------------------------
(* The inductive invariant.                                                *)

Bucket == {None} \cup [tokens : 0 .. Burst, last : Nat]

Request == [from : Clients \cup {Junk}, key : Addresses \cup {Junk}, read : Nat]

StateInv ==
    /\ now \in 0 .. MaxTime
    /\ buckets \in [Addresses -> Bucket] /\ shadow \in [Addresses -> Bucket]
    /\ flight \in [Handlers -> Request]
    /\ admitted \in [Addresses -> Nat] /\ rewound \in [Addresses -> Nat]

(* A request in flight read the clock at most MaxSkew ago, and is counted  *)
(* under its client.                                                       *)
FlightInv(h) ==
    flight[h] = Idle \/
        /\ flight[h].from \in Clients /\ flight[h].key = flight[h].from
        /\ flight[h].read <= now /\ now <= flight[h].read + MaxSkew

(* Time pays for what a client is granted and for what its bucket still    *)
(* holds; time a late request gives back is paid once more.                *)
Paid(adm, rew, b) ==
    /\ b = None => adm = 0
    /\ b # None => adm + b.tokens <= Burst + Rate * (b.last + rew)

(* A bucket that is gone had been idle for so long that any request still  *)
(* to come finds it full.                                                  *)
BucketInv(k) ==
    /\ buckets[k] # None => buckets[k] = shadow[k]
    /\ shadow[k] # None => shadow[k].last <= now
    /\ buckets[k] = None /\ shadow[k] # None => now - shadow[k].last > IdleLimit
    /\ Paid(admitted[k], rewound[k], shadow[k])

Inv ==
    /\ StateInv
    /\ \A h \in Handlers : FlightInv(h)
    /\ \A k \in Addresses : BucketInv(k)

-----------------------------------------------------------------------------
(* Arithmetic.                                                             *)

LEMMA TimesMonotone ==
    ASSUME NEW r \in Nat, NEW a \in Int, NEW b \in Int, a <= b
    PROVE  r * a <= r * b
<1>1. r * (b - a) >= 0
  OBVIOUS
<1> QED
  BY <1>1

LEMMA TimesSum ==
    ASSUME NEW r \in Int, NEW a \in Int, NEW b \in Int
    PROVE  r * (a + b) = r * a + r * b /\ r * a \in Int
OBVIOUS

LEMMA MinOfTwo ==
    ASSUME NEW a \in Int, NEW b \in Int
    PROVE  Min({a, b}) = IF a <= b THEN a ELSE b
<1> DEFINE S == {a, b}
           m == IF a <= b THEN a ELSE b
<1>1. m \in S /\ \A y \in S : m <= y
  OBVIOUS
<1>2. \A x \in S : (\A y \in S : x <= y) => x = m
  OBVIOUS
<1> HIDE DEF m
<1>3. Min(S) \in S /\ \A y \in S : Min(S) <= y
  BY <1>1 DEF Min
<1> QED
  BY <1>2, <1>3 DEF m

-----------------------------------------------------------------------------
(* clientIP.                                                               *)

LEMMA MaxIs ==
    ASSUME NEW S \in SUBSET Int, NEW x \in S, \A y \in S : y <= x
    PROVE  Max(S) = x
<1>1. \E z \in S : \A y \in S : z >= y
  OBVIOUS
<1>2. Max(S) \in S /\ \A y \in S : Max(S) >= y
  BY <1>1, Zenon DEF Max
<1>3. Max(S) \in Int /\ x \in Int /\ Max(S) >= x /\ Max(S) <= x
  BY <1>2, Zenon
<1> QED
  BY <1>3

(* However long the header a client wrote, and through however many        *)
(* trusted proxies, the walk from the right ends at the client.            *)
LEMMA ClientIsFound ==
    ASSUME NEW c \in Clients, NEW own \in Seq(Addresses \cup {Junk}), NEW via \in Seq(Proxies)
    PROVE  LET hops == <<c>> \o via
           IN  clientIP(Peer(hops), own \o Recorded(hops)) = c
<1> DEFINE hops == <<c>> \o via
           xff == own \o Recorded(hops)
           valid == {i \in DOMAIN xff : xff[i] # Junk /\ ~isTrustedIP(xff[i])}
           n == Len(own)
<1>1. c \notin Proxies /\ c # Junk
  BY LimiterAssumption
<1>2. /\ Len(via) \in Nat /\ n \in Nat
      /\ Len(hops) = Len(via) + 1 /\ hops[1] = c
      /\ \A i \in 2 .. Len(via) + 1 : hops[i] \in Proxies
      /\ hops \in Seq(Clients \cup Proxies)
  OBVIOUS
<1>3. CASE Len(via) = 0
  <2>1. Peer(hops) = c
    BY <1>2, <1>3 DEF Peer
  <2> QED
    BY <1>1, <2>1 DEF clientIP, isTrustedIP
<1>4. CASE Len(via) > 0
  <2>1. Peer(hops) \in Proxies
    BY <1>2, <1>4 DEF Peer
  <2>2. /\ Recorded(hops) \in Seq(Clients \cup Proxies) /\ Len(Recorded(hops)) = Len(via)
        /\ \A i \in 1 .. Len(via) : Recorded(hops)[i] = hops[i]
    <3> HIDE DEF hops
    <3> QED
      BY <1>2, <1>4 DEF Recorded
  <2> HIDE DEF hops
  <2> DEFINE tail == Recorded(hops)
  <2>3. /\ xff = own \o tail
        /\ tail \in Seq(Clients \cup Proxies) /\ Len(tail) = Len(via)
        /\ \A i \in 1 .. Len(via) : tail[i] = hops[i]
    BY <2>2, Zenon
  <2> HIDE DEF tail
  <2>4. tail[1] = c /\ \A i \in 2 .. Len(via) : tail[i] \in Proxies
    <3>1. 1 \in 1 .. Len(via) /\ \A i \in 2 .. Len(via) : i \in 1 .. Len(via) /\ i \in 2 .. Len(via) + 1
      BY <1>2, <1>4
    <3> QED
      BY <1>2, <2>3, <3>1, Zenon
  <2>5. /\ DOMAIN xff = 1 .. n + Len(via)
        /\ \A i \in n + 1 .. n + Len(via) : xff[i] = tail[i - n]
    BY <2>3
  <2> HIDE DEF xff, n
  <2>6. n + 1 \in DOMAIN xff /\ xff[n + 1] = c
    BY <1>2, <1>4, <2>4, <2>5
  <2>7. \A i \in DOMAIN xff : i > n + 1 => xff[i] \in Proxies
    BY <1>2, <1>4, <2>4, <2>5
  <2>8. n + 1 \in valid /\ \A i \in valid : i <= n + 1
    BY <1>1, <1>2, <2>5, <2>6, <2>7 DEF isTrustedIP
  <2>9. valid \in SUBSET Int
    BY <1>2, <2>5
  <2>10. Max(valid) = n + 1
    BY <2>8, <2>9, MaxIs, Zenon
  <2>11. rightmostUntrusted(xff) = c
    BY <2>6, <2>8, <2>10 DEF rightmostUntrusted
  <2> QED
    BY <1>1, <2>1, <2>11 DEF clientIP, isTrustedIP, xff, hops
<1> QED
  BY <1>2, <1>3, <1>4

-----------------------------------------------------------------------------
(* Buckets.                                                                *)

Filled == [tokens : 0 .. Burst, last : Nat]

LEMMA FilledIsNotNone ==
    /\ Bucket = {None} \cup Filled /\ \A b \in Filled : b # None
    /\ \A b \in Bucket : b # None => b \in Filled /\ b.tokens \in Nat /\ b.tokens <= Burst /\ b.last \in Nat
<1>1. Burst \in Nat /\ None.tokens = -1 /\ \A b \in Filled : b.tokens \in 0 .. Burst /\ b.last \in Nat
  BY LimiterAssumption DEF None, Filled
<1>2. Bucket = {None} \cup Filled
  BY Zenon DEF Bucket, Filled
<1> QED
  BY <1>1, <1>2

(* What comes back is worth the time since the last request, capped.       *)
LEMMA RefilledTokens ==
    ASSUME NEW b \in Bucket, NEW t \in Nat
    PROVE  /\ Refilled(b, t) \in Filled /\ Refilled(b, t).last = t
           /\ b = None => Refilled(b, t).tokens = Burst
           /\ b # None =>
                 IF t > b.last
                 THEN Refilled(b, t).tokens = IF Burst <= b.tokens + Rate * (t - b.last)
                                              THEN Burst ELSE b.tokens + Rate * (t - b.last)
                 ELSE Refilled(b, t).tokens = b.tokens
<1>1. Burst \in Nat /\ Rate \in Nat
  BY LimiterAssumption
<1>2. CASE b = None
  <2>1. Refilled(b, t) = [tokens |-> Burst, last |-> t]
    BY <1>2 DEF Refilled
  <2> QED
    BY <1>1, <1>2, <2>1 DEF Filled
<1>3. CASE b # None
  <2>1. b.tokens \in Nat /\ b.tokens <= Burst /\ b.last \in Nat
    BY <1>3, FilledIsNotNone
  <2>2. CASE t > b.last
    <3> DEFINE gain == Rate * (t - b.last)
    <3>1. gain \in Nat
      BY <1>1, <2>1, <2>2
    <3> HIDE DEF gain
    <3>2. Refilled(b, t) = [tokens |-> Min({Burst, b.tokens + gain}), last |-> t]
      BY <1>3, <2>2 DEF Refilled, gain
    <3>3. Min({Burst, b.tokens + gain}) = IF Burst <= b.tokens + gain THEN Burst ELSE b.tokens + gain
      BY <1>1, <2>1, <3>1, MinOfTwo
    <3>4. Min({Burst, b.tokens + gain}) \in 0 .. Burst
      BY <1>1, <2>1, <3>1, <3>3
    <3> QED
      BY <1>3, <2>2, <3>2, <3>3, <3>4 DEF Filled, gain
  <2>3. CASE ~(t > b.last)
    <3>1. Refilled(b, t) = [tokens |-> b.tokens, last |-> t]
      BY <1>3, <2>3 DEF Refilled
    <3> QED
      BY <1>1, <1>3, <2>1, <2>3, <3>1 DEF Filled
  <2> QED
    BY <2>2, <2>3
<1> QED
  BY <1>2, <1>3

(* A bucket idle for the limit less the skew is as full as a new one.      *)
LEMMA EvictedIsFull ==
    ASSUME NEW b \in Bucket, b # None, NEW t \in Nat, t - b.last > IdleLimit - MaxSkew
    PROVE  Refilled(b, t) = Refilled(None, t)
<1>1. /\ Burst \in Nat /\ Rate \in Nat /\ IdleLimit \in Nat /\ MaxSkew \in Nat /\ Rate > 0 /\ Burst > 0
      /\ Rate * (IdleLimit - MaxSkew) >= Burst
  BY LimiterAssumption
<1>2. b.tokens \in Nat /\ b.tokens <= Burst /\ b.last \in Nat
  BY FilledIsNotNone
<1>3. Rate * (IdleLimit - MaxSkew) <= Rate * (t - b.last)
  BY <1>1, <1>2, TimesMonotone
<1>4. IdleLimit - MaxSkew > 0
  <2>1. SUFFICES ASSUME IdleLimit - MaxSkew <= 0
                 PROVE  FALSE
    BY <1>1
  <2>2. Rate * (IdleLimit - MaxSkew) <= Rate * 0
    BY <1>1, <2>1, TimesMonotone
  <2> QED
    BY <1>1, <2>2
<1>5. t > b.last
  BY <1>1, <1>2, <1>4
<1>6. Burst <= b.tokens + Rate * (t - b.last)
  BY <1>1, <1>2, <1>3
<1>7. Refilled(b, t).tokens = Burst /\ Refilled(b, t).last = t /\ Refilled(b, t) \in Filled
  BY <1>5, <1>6, RefilledTokens
<1>8. None \in Bucket
  BY DEF Bucket
<1>9. Refilled(None, t).tokens = Burst /\ Refilled(None, t).last = t /\ Refilled(None, t) \in Filled
  BY <1>8, RefilledTokens
<1> QED
  BY <1>7, <1>9 DEF Filled

(* What a request is granted leaves the bucket.                            *)
LEMMA SpentTokens ==
    ASSUME NEW r \in Filled, NEW old
    PROVE  /\ Spent(r, old) \in Filled /\ Spent(r, old).last = r.last
           /\ Spent(r, old).tokens = IF r.tokens < Cost THEN r.tokens ELSE r.tokens - Cost
<1>1. Cost \in Nat /\ Burst \in Nat
  BY LimiterAssumption
<1>2. CASE r.tokens < Cost
  BY <1>2 DEF Spent
<1>3. CASE ~(r.tokens < Cost)
  <2>1. Spent(r, old) = [r EXCEPT !.tokens = r.tokens - Cost]
    BY <1>3 DEF Spent
  <2>2. r.tokens \in 0 .. Burst /\ r.tokens - Cost \in 0 .. Burst
    BY <1>1, <1>3 DEF Filled
  <2> QED
    BY <1>3, <2>1, <2>2 DEF Filled
<1> QED
  BY <1>2, <1>3

LEMMA AllowIsPaid ==
    ASSUME NEW b \in Bucket, NEW t \in Nat, NEW adm \in Nat, NEW rew \in Nat, Paid(adm, rew, b)
    PROVE  LET r == Refilled(b, t)
           IN  Paid(IF r.tokens < Cost THEN adm ELSE adm + Cost,
                    IF t < b.last THEN rew + (b.last - t) ELSE rew,
                    Spent(r, b))
<1> DEFINE r == Refilled(b, t)
           s == Spent(r, b)
           adm2 == IF r.tokens < Cost THEN adm ELSE adm + Cost
           rew2 == IF t < b.last THEN rew + (b.last - t) ELSE rew
<1>1. Burst \in Nat /\ Rate \in Nat /\ Cost \in Nat
  BY LimiterAssumption
<1>2. /\ r \in Filled /\ r.last = t /\ r.tokens \in Nat
      /\ s \in Filled /\ s # None /\ s.last = t
      /\ s.tokens = IF r.tokens < Cost THEN r.tokens ELSE r.tokens - Cost
  <2>1. r \in Filled /\ r.last = t
    BY RefilledTokens
  <2>2. r.tokens \in Nat
    BY <2>1, FilledIsNotNone
  <2> QED
    BY <2>1, <2>2, SpentTokens, FilledIsNotNone
<1> HIDE DEF r, s
<1>3. adm2 + s.tokens = adm + r.tokens
  BY <1>1, <1>2
<1>4. adm + r.tokens <= Burst + Rate * (t + rew2)
  <2>1. CASE b = None
    <3>1. r.tokens = Burst /\ adm = 0 /\ ~(t < b.last)
      BY <2>1, RefilledTokens DEF r, Paid, None
    <3>2. Rate * (t + rew) \in Nat
      BY <1>1
    <3> QED
      BY <1>1, <3>1, <3>2
  <2>2. CASE b # None
    <3>1. b.tokens \in Nat /\ b.last \in Nat /\ adm + b.tokens <= Burst + Rate * (b.last + rew)
      BY <2>2, FilledIsNotNone DEF Paid
    <3>2. CASE t > b.last
      <4>1. r.tokens <= b.tokens + Rate * (t - b.last)
        <5>1. Rate * (t - b.last) \in Nat
          BY <1>1, <3>1, <3>2
        <5>2. r.tokens = IF Burst <= b.tokens + Rate * (t - b.last)
                         THEN Burst ELSE b.tokens + Rate * (t - b.last)
          BY <2>2, <3>2, RefilledTokens DEF r
        <5> QED
          BY <1>1, <3>1, <5>1, <5>2
      <4>2. Rate * ((b.last + rew) + (t - b.last)) = Rate * (b.last + rew) + Rate * (t - b.last)
        BY <1>1, <3>1, TimesSum
      <4>3. (b.last + rew) + (t - b.last) = t + rew /\ rew2 = rew
        BY <3>1, <3>2
      <4>4. Rate * (b.last + rew) \in Int /\ Rate * (t - b.last) \in Int
        BY <1>1, <3>1, TimesSum
      <4> QED
        BY <1>1, <1>2, <3>1, <4>1, <4>2, <4>3, <4>4
    <3>3. CASE ~(t > b.last)
      <4>1. r.tokens = b.tokens
        BY <2>2, <3>3, RefilledTokens DEF r
      <4>2. t + rew2 = b.last + rew
        BY <3>1, <3>3
      <4> QED
        BY <3>1, <4>1, <4>2
    <3> QED
      BY <3>2, <3>3
  <2> QED
    BY <2>1, <2>2
<1>5. Paid(adm2, rew2, s)
  BY <1>2, <1>3, <1>4 DEF Paid
<1> QED
  BY <1>5 DEF r, s

-----------------------------------------------------------------------------
(* Steps.                                                                  *)

LEMMA UpToIsSeq ==
    ASSUME NEW S, NEW n \in Nat, NEW s \in UpTo(n, S)
    PROVE  s \in Seq(S)
<1>1. PICK m \in 0 .. n : s \in [1 .. m -> S]
  BY Zenon DEF UpTo
<1> QED
  BY <1>1

LEMMA ArriveStep ==
    ASSUME Inv, NEW h \in Handlers, NEW c \in Clients, Arrive(h, c)
    PROVE  Inv'
<1>1. UNCHANGED <<now, buckets, shadow, admitted, rewound>>
  BY DEF Arrive
<1>2. PICK own \in Written, hops \in Hops(c) :
        flight' = [flight EXCEPT ![h] =
            [from |-> c, key |-> clientIP(Peer(hops), own \o Recorded(hops)), read |-> now]]
  BY Zenon DEF Arrive
<1>3. PICK via \in UpTo(2, Proxies) : hops = <<c>> \o via
  BY DEF Hops
<1>4. via \in Seq(Proxies) /\ own \in Seq(Addresses \cup {Junk})
  BY UpToIsSeq DEF Written
<1>5. clientIP(Peer(hops), own \o Recorded(hops)) = c
  BY <1>3, <1>4, ClientIsFound, Zenon
<1>6. /\ now \in 0 .. MaxTime /\ flight \in [Handlers -> Request]
      /\ flight' = [flight EXCEPT ![h] = [from |-> c, key |-> c, read |-> now]]
  BY <1>2, <1>5 DEF Inv, StateInv
<1>7. MaxSkew \in Nat /\ now \in Nat /\ MaxTime \in Nat
  BY <1>6, LimiterAssumption
<1>8. [from |-> c, key |-> c, read |-> now] \in Request
  BY <1>7 DEF Request, Addresses
<1>9. flight' \in [Handlers -> Request]
  BY <1>6, <1>8
<1>10. \A i \in Handlers : FlightInv(i)'
  <2>1. \A i \in Handlers : i # h => flight'[i] = flight[i]
    BY <1>6
  <2>2. flight'[h] = [from |-> c, key |-> c, read |-> now]
    BY <1>6
  <2>3. FlightInv(h)'
    BY <1>1, <1>7, <2>2 DEF FlightInv
  <2> QED
    BY <1>1, <2>1, <2>3 DEF Inv, FlightInv
<1>11. \A k \in Addresses : BucketInv(k)'
  BY <1>1 DEF Inv, BucketInv
<1> QED
  BY <1>1, <1>9, <1>10, <1>11, Zenon DEF Inv, StateInv

LEMMA TickStep ==
    ASSUME Inv, Tick
    PROVE  Inv'
<1>1. /\ UNCHANGED <<buckets, flight, shadow, admitted, rewound>>
      /\ now \in 0 .. MaxTime /\ now < MaxTime /\ now' = now + 1
      /\ MaxTime \in Nat /\ MaxSkew \in Nat /\ IdleLimit \in Nat
  BY LimiterAssumption DEF Inv, StateInv, Tick
<1>2. now' \in 0 .. MaxTime
  BY <1>1
<1>3. ASSUME NEW h \in Handlers
      PROVE  FlightInv(h)'
  <2>1. flight[h].read \in Nat /\ FlightInv(h)
    BY DEF Inv, StateInv, Request
  <2>2. flight[h] # Idle => now < flight[h].read + MaxSkew
    BY DEF Tick
  <2> QED
    BY <1>1, <2>1, <2>2 DEF FlightInv
<1>4. ASSUME NEW k \in Addresses
      PROVE  BucketInv(k)'
  <2>1. BucketInv(k) /\ shadow[k] \in Bucket
    BY DEF Inv, StateInv
  <2>2. shadow[k] # None => shadow[k].last \in Nat
    BY <2>1, FilledIsNotNone
  <2> QED
    BY <1>1, <2>1, <2>2 DEF BucketInv
<1> QED
  BY <1>1, <1>2, <1>3, <1>4, Zenon DEF Inv, StateInv

LEMMA CleanupStep ==
    ASSUME Inv, cleanup
    PROVE  Inv'
<1>1. /\ UNCHANGED <<now, flight, shadow, admitted, rewound>>
      /\ buckets' = [k \in Addresses |-> IF IsIdle(buckets[k]) THEN None ELSE buckets[k]]
      /\ buckets \in [Addresses -> Bucket] /\ None \in Bucket
  BY DEF Inv, StateInv, cleanup, Bucket
<1>2. buckets' \in [Addresses -> Bucket]
  BY <1>1
<1>3. ASSUME NEW k \in Addresses
      PROVE  BucketInv(k)'
  <2>1. BucketInv(k) /\ buckets'[k] = IF IsIdle(buckets[k]) THEN None ELSE buckets[k]
    BY <1>1 DEF Inv
  <2> QED
    BY <1>1, <2>1 DEF BucketInv, IsIdle
<1>4. \A h \in Handlers : FlightInv(h)'
  BY <1>1 DEF Inv, FlightInv
<1> QED
  BY <1>1, <1>2, <1>3, <1>4, Zenon DEF Inv, StateInv

(* The bucket a request meets, evicted or not, refills to what the bucket  *)
(* that never was evicted refills to.                                      *)
LEMMA AllowStep ==
    ASSUME Inv, NEW h \in Handlers, allow(h)
    PROVE  Inv'
<1> DEFINE k == flight[h].key
           t == flight[h].read
           b == Refilled(buckets[k], t)
           r == Refilled(shadow[k], t)
<1>1. /\ flight[h] # Idle /\ now' = now
      /\ buckets' = [buckets EXCEPT ![k] = Spent(b, buckets[k])]
      /\ shadow' = [shadow EXCEPT ![k] = Spent(r, shadow[k])]
      /\ admitted' = [admitted EXCEPT ![k] = IF b.tokens < Cost THEN admitted[k] ELSE admitted[k] + Cost]
      /\ rewound' = [rewound EXCEPT ![k] = IF t < shadow[k].last
                                           THEN rewound[k] + (shadow[k].last - t) ELSE rewound[k]]
      /\ flight' = [flight EXCEPT ![h] = Idle]
  BY DEF allow
<1>2. /\ now \in 0 .. MaxTime
      /\ buckets \in [Addresses -> Bucket] /\ shadow \in [Addresses -> Bucket]
      /\ flight \in [Handlers -> Request]
      /\ admitted \in [Addresses -> Nat] /\ rewound \in [Addresses -> Nat]
  BY DEF Inv, StateInv
<1>3. k \in Addresses /\ t \in Nat /\ t <= now /\ now <= t + MaxSkew
  BY <1>1, <1>2 DEF Inv, FlightInv, Request, Addresses
<1>4. BucketInv(k)
  BY <1>3 DEF Inv
<1>5. /\ MaxTime \in Nat /\ MaxSkew \in Nat /\ IdleLimit \in Nat /\ Cost \in Nat
      /\ now \in Nat
  BY <1>2, LimiterAssumption
<1> HIDE DEF k, t
<1>6. b = r
  <2>1. CASE buckets[k] # None \/ shadow[k] = None
    BY <1>4, <2>1 DEF BucketInv
  <2>2. CASE buckets[k] = None /\ shadow[k] # None
    <3>1. shadow[k] \in Bucket /\ shadow[k].last \in Nat /\ now - shadow[k].last > IdleLimit
      BY <1>2, <1>3, <1>4, <2>2, FilledIsNotNone DEF BucketInv
    <3>2. t - shadow[k].last > IdleLimit - MaxSkew
      BY <1>3, <1>5, <3>1
    <3> QED
      BY <1>3, <2>2, <3>1, <3>2, EvictedIsFull
  <2> QED
    BY <2>1, <2>2
<1>7. /\ r \in Filled /\ r.last = t
      /\ \A old : Spent(r, old) \in Filled /\ Spent(r, old).last = t
      /\ \A old : Spent(r, old) = Spent(r, shadow[k])
  <2>1. r \in Filled /\ r.last = t
    BY <1>2, <1>3, RefilledTokens
  <2> QED
    BY <2>1, SpentTokens DEF Spent
<1> DEFINE adm2 == IF r.tokens < Cost THEN admitted[k] ELSE admitted[k] + Cost
           rew2 == IF t < shadow[k].last THEN rewound[k] + (shadow[k].last - t) ELSE rewound[k]
           s == Spent(r, shadow[k])
<1>8. Paid(adm2, rew2, s)
  <2>1. Paid(admitted[k], rewound[k], shadow[k])
    BY <1>4 DEF BucketInv
  <2> QED
    BY <1>2, <1>3, <2>1, AllowIsPaid
<1>9. adm2 \in Nat /\ rew2 \in Nat
  <2>1. admitted[k] \in Nat /\ rewound[k] \in Nat /\ (shadow[k] = None \/ shadow[k].last \in Nat)
    BY <1>2, <1>3, FilledIsNotNone
  <2>2. None.last = -1
    BY DEF None
  <2> QED
    BY <1>3, <1>5, <2>1, <2>2
<1>10. s \in Filled /\ s \in Bucket /\ s # None /\ s.last = t
  BY <1>7, FilledIsNotNone, Zenon
<1>11. /\ buckets' = [buckets EXCEPT ![k] = s] /\ shadow' = [shadow EXCEPT ![k] = s]
       /\ admitted' = [admitted EXCEPT ![k] = adm2] /\ rewound' = [rewound EXCEPT ![k] = rew2]
  BY <1>1, <1>6, <1>7, Zenon DEF k, t
<1> HIDE DEF b, r, s, adm2, rew2
<1>12. StateInv'
  <2>1. Idle \in Request
    BY DEF Idle, Request
  <2>2. /\ buckets' \in [Addresses -> Bucket] /\ shadow' \in [Addresses -> Bucket]
        /\ admitted' \in [Addresses -> Nat] /\ rewound' \in [Addresses -> Nat]
    BY <1>2, <1>9, <1>10, <1>11, Zenon
  <2>3. flight' \in [Handlers -> Request]
    BY <1>1, <1>2, <2>1
  <2> QED
    BY <1>1, <1>2, <2>2, <2>3 DEF StateInv
<1>13. ASSUME NEW i \in Handlers
       PROVE  FlightInv(i)'
  <2>1. flight'[i] = Idle \/ flight'[i] = flight[i]
    BY <1>1, <1>2
  <2> QED
    BY <1>1, <2>1 DEF Inv, FlightInv
<1>14. ASSUME NEW i \in Addresses
       PROVE  BucketInv(i)'
  <2>1. CASE i = k
    <3>1. buckets'[i] = s /\ shadow'[i] = s /\ admitted'[i] = adm2 /\ rewound'[i] = rew2
      BY <1>2, <1>3, <1>11, <2>1
    <3> QED
      BY <1>1, <1>3, <1>8, <1>10, <3>1 DEF BucketInv
  <2>2. CASE i # k
    <3>1. UNCHANGED <<buckets[i], shadow[i], admitted[i], rewound[i]>>
      BY <1>2, <1>11, <2>2
    <3> QED
      BY <1>1, <3>1 DEF Inv, BucketInv
  <2> QED
    BY <2>1, <2>2
<1> QED
  BY <1>12, <1>13, <1>14 DEF Inv

-----------------------------------------------------------------------------
LEMMA InvInit ==
    Init => Inv
<1> SUFFICES ASSUME Init
             PROVE  Inv
  OBVIOUS
<1>1. None \in Bucket /\ Idle \in Request /\ 0 \in 0 .. MaxTime
  BY LimiterAssumption DEF Bucket, Idle, Request
<1>2. StateInv
  BY <1>1 DEF Init, StateInv
<1>3. \A h \in Handlers : FlightInv(h)
  BY DEF Init, FlightInv
<1>4. \A k \in Addresses : BucketInv(k)
  BY DEF Init, BucketInv, Paid
<1> QED
  BY <1>2, <1>3, <1>4 DEF Inv

LEMMA InvStep ==
    Inv /\ [Next]_vars => Inv'
<1> SUFFICES ASSUME Inv, [Next]_vars
             PROVE  Inv'
  OBVIOUS
<1>1. CASE UNCHANGED vars
  <2>1. StateInv' /\ UNCHANGED <<now, buckets, flight, shadow, admitted, rewound>>
    BY <1>1, Zenon DEF vars, Inv, StateInv
  <2>2. \A h \in Handlers : FlightInv(h)'
    BY <2>1, Zenon DEF Inv, FlightInv
  <2>3. \A k \in Addresses : BucketInv(k)'
    BY <2>1, Zenon DEF Inv, BucketInv
  <2> QED
    BY <2>1, <2>2, <2>3, Zenon DEF Inv
<1> QED
  BY <1>1, ArriveStep, AllowStep, CleanupStep, TickStep, Zenon DEF Next

(* The inductive invariant holds in every reachable state.                 *)
THEOREM Invariance == Spec => []Inv
BY InvInit, InvStep, PTL DEF Spec

(* Every bucket holds between nothing and the burst, and its clock is      *)
(* never ahead.                                                            *)
THEOREM Typed == Spec => []TypeOK
<1>1. Inv => TypeOK
  <2> SUFFICES ASSUME Inv
               PROVE  TypeOK
    OBVIOUS
  <2>1. StateInv /\ now \in Nat /\ Burst \in Nat
    BY LimiterAssumption DEF Inv, StateInv
  <2>2. ASSUME NEW k \in Addresses, NEW b \in {buckets[k], shadow[k]}
        PROVE  b = None \/ (b.tokens \in 0 .. Burst /\ b.last \in 0 .. now)
    <3>1. b = None \/ b = shadow[k]
      BY DEF Inv, BucketInv
    <3>2. shadow[k] \in Bucket /\ (shadow[k] # None => shadow[k].last <= now)
      BY <2>1 DEF Inv, StateInv, BucketInv
    <3> QED
      BY <2>1, <3>1, <3>2, FilledIsNotNone
  <2>3. \A h \in Handlers : flight[h].key \in Addresses \cup {Junk}
    BY <2>1 DEF StateInv, Request
  <2> QED
    BY <2>1, <2>2, <2>3 DEF TypeOK, StateInv
<1> QED
  BY <1>1, Invariance, PTL

(* Evicting idle buckets changes no answer of the limiter, for any rate    *)
(* and burst whose bucket fills within the idle limit less the skew.       *)
THEOREM EvictionChangesNothing == Spec => []EvictionIsInvisible
<1>1. Inv => EvictionIsInvisible
  BY DEF Inv, BucketInv, EvictionIsInvisible
<1> QED
  BY <1>1, Invariance, PTL

(* No interleaving grants a client more than the burst, what the elapsed   *)
(* time is worth, and the time its late requests gave back.                *)
THEOREM AdmissionBound == Spec => []AdmissionIsBounded
<1>1. Inv => AdmissionIsBounded
  <2> SUFFICES ASSUME Inv, NEW k \in Addresses
               PROVE  admitted[k] <= Burst + Rate * (now + rewound[k])
    BY DEF AdmissionIsBounded
  <2>1. /\ now \in Nat /\ Burst \in Nat /\ Rate \in Nat
        /\ admitted[k] \in Nat /\ rewound[k] \in Nat /\ shadow[k] \in Bucket
    BY LimiterAssumption DEF Inv, StateInv
  <2>2. BucketInv(k)
    BY DEF Inv
  <2>3. CASE shadow[k] = None
    <3>1. admitted[k] = 0 /\ Rate * (now + rewound[k]) \in Nat
      BY <2>1, <2>2, <2>3 DEF BucketInv, Paid
    <3> QED
      BY <2>1, <3>1
  <2>4. CASE shadow[k] # None
    <3>1. /\ shadow[k].tokens \in Nat /\ shadow[k].last \in Nat /\ shadow[k].last <= now
          /\ admitted[k] + shadow[k].tokens <= Burst + Rate * (shadow[k].last + rewound[k])
      BY <2>1, <2>2, <2>4, FilledIsNotNone DEF BucketInv, Paid
    <3>2. Rate * (shadow[k].last + rewound[k]) <= Rate * (now + rewound[k])
      BY <2>1, <3>1, TimesMonotone
    <3>3. Rate * (shadow[k].last + rewound[k]) \in Int /\ Rate * (now + rewound[k]) \in Int
      BY <2>1, <3>1, TimesSum
    <3> QED
      BY <2>1, <3>1, <3>2, <3>3
  <2> QED
    BY <2>3, <2>4
<1> QED
  BY <1>1, Invariance, PTL

(* A request is counted under its client's address, whatever the client    *)
(* wrote into X-Forwarded-For and whichever trusted proxies it came by.    *)
THEOREM ClientsAreCounted == Spec => []CountedUnderItsClient
<1>1. Inv => CountedUnderItsClient
  <2> SUFFICES ASSUME Inv, NEW h \in Handlers
               PROVE  flight[h].key = flight[h].from
    BY DEF CountedUnderItsClient
  <2>1. FlightInv(h)
    BY DEF Inv
  <2> QED
    BY <2>1 DEF FlightInv, Idle
<1> QED
  BY <1>1, Invariance, PTL
=============================================================================
