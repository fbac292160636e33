---------------------------- MODULE RateLimiter -----------------------------
(***************************************************************************)
(* The rate limiter in front of the open and management endpoints: the     *)
(* client address a request is counted under, its token bucket, and the    *)
(* eviction of idle buckets.                                               *)
(*                                                                         *)
(* A handler reads the clock, and only then takes the lock: requests reach *)
(* a bucket out of order, up to MaxSkew apart.  Tokens are counted in      *)
(* parts: a request costs Cost of them and Rate of them come back in an    *)
(* instant.                                                                *)
(***************************************************************************)
EXTENDS Integers, Sequences, FiniteSetsExt

CONSTANTS
    Clients,   \* addresses of clients
    Strangers, \* other addresses a client may write into a header
    Proxies,   \* addresses inside trustedProxies
    Junk,      \* an X-Forwarded-For entry that is not an address
    Handlers,  \* requests in flight
    Cost,      \* parts of one token
    Rate,      \* parts added in an instant
    Burst,     \* burst, in parts
    IdleLimit, \* the 10 minutes after which a bucket is evicted
    MaxSkew,   \* bound: from reading the clock to taking the lock
    MaxTime    \* bound: the last instant of the clock

(* A bucket fills in a minute (burst is perMinute, rate perMinute / 60),   *)
(* well within the ten minutes of an idle bucket.                          *)
ASSUME LimiterAssumption ==
    /\ {Cost, Rate, Burst, IdleLimit, MaxSkew, MaxTime} \subseteq Nat
    /\ Cost > 0 /\ Rate > 0 /\ Burst >= Cost
    /\ Rate * (IdleLimit - MaxSkew) >= Burst
    /\ (Clients \cup Strangers) \cap Proxies = {} /\ Junk \notin Clients \cup Strangers \cup Proxies

VARIABLES
    now,      \* the clock
    buckets,  \* rateLimiter.buckets
    flight,   \* the requests between their clock reading and the lock
    shadow,   \* history: the buckets as they would be without eviction
    admitted, \* history: parts spent by each client
    rewound   \* history: how far requests out of order moved a bucket's clock back

vars == <<now, buckets, flight, shadow, admitted, rewound>>

Addresses == Clients \cup Strangers \cup Proxies
None == [tokens |-> -1, last |-> -1]
Idle == [from |-> Junk, key |-> Junk, read |-> 0]

TypeOK ==
    /\ now \in 0 .. MaxTime
    /\ \A k \in Addresses : \A b \in {buckets[k], shadow[k]} :
          b = None \/ (b.tokens \in 0 .. Burst /\ b.last \in 0 .. now)
    /\ \A h \in Handlers : flight[h].key \in Addresses \cup {Junk}
    /\ admitted \in [Addresses -> Nat] /\ rewound \in [Addresses -> Nat]

Init ==
    /\ now = 0
    /\ buckets = [k \in Addresses |-> None] /\ shadow = buckets
    /\ flight = [h \in Handlers |-> Idle]
    /\ admitted = [k \in Addresses |-> 0] /\ rewound = admitted

-----------------------------------------------------------------------------
(* clientIP.                                                               *)

isTrustedIP(a) == a \in Proxies

(* Mutant: the walk starts at the left.                                    *)
rightmostUntrusted_Leftmost(xff) ==
    LET valid == {i \in DOMAIN xff : xff[i] # Junk /\ ~isTrustedIP(xff[i])} IN
    IF valid = {} THEN Junk ELSE xff[Min(valid)]

(* The right-most entry that is an address and not a trusted proxy's.      *)
rightmostUntrusted(xff) ==
    LET valid == {i \in DOMAIN xff : xff[i] # Junk /\ ~isTrustedIP(xff[i])} IN
    IF valid = {} THEN Junk ELSE xff[Max(valid)]

(* The header counts only behind a trusted peer, and the peer stands in    *)
(* where the header names nobody.  Header.Get returns the first line of    *)
(* the header: xff is that line.                                           *)
clientIP(peer, xff) ==
    IF isTrustedIP(peer) /\ rightmostUntrusted(xff) # Junk THEN rightmostUntrusted(xff) ELSE peer

(* The ways a client's request arrives: what the client wrote itself, then *)
(* the hop each proxy recorded.  The peer is the last hop.  The proxies    *)
(* join what they received into one line and append to it; one that adds a *)
(* line of its own would record a hop that clientIP never reads.  Bounds:  *)
(* one entry and two proxies; ClientIsFound (RateLimiterProofs) needs none.*)
UpTo(n, S) == UNION {[1 .. m -> S] : m \in 0 .. n}
Written == UpTo(1, Addresses \cup {Junk})
Hops(c) == {<<c>> \o via : via \in UpTo(2, Proxies)}

Peer(hops) == hops[Len(hops)]
Recorded(hops) == SubSeq(hops, 1, Len(hops) - 1)

(* middlewareByKey, up to the call of allow.                               *)
Arrive(h, c) ==
    /\ flight[h] = Idle
    /\ \E own \in Written, hops \in Hops(c) :
          flight' = [flight EXCEPT ![h] =
              [from |-> c, key |-> clientIP(Peer(hops), own \o Recorded(hops)), read |-> now]]
    /\ UNCHANGED <<now, buckets, shadow, admitted, rewound>>

-----------------------------------------------------------------------------
(* allow.                                                                  *)

(* Mutant: the tokens of a bucket are not capped.                          *)
Refilled_NoCap(b, t) ==
    IF b = None THEN [tokens |-> Burst, last |-> t]
    ELSE IF t > b.last THEN [tokens |-> b.tokens + Rate * (t - b.last), last |-> t]
    ELSE [b EXCEPT !.last = t]

(* Mutant: a bucket's clock moves only when a token is spent.              *)
Spent_KeepsClock(b, old) ==
    IF b.tokens < Cost THEN [b EXCEPT !.last = IF old = None THEN @ ELSE old.last]
    ELSE [b EXCEPT !.tokens = @ - Cost]

(* A new bucket is full; an old one has gained what the time since its     *)
(* last request is worth.  Its clock becomes the request's, even an        *)
(* earlier one.                                                            *)
Refilled(b, t) ==
    IF b = None THEN [tokens |-> Burst, last |-> t]
    ELSE [tokens |-> IF t > b.last THEN Min({Burst, b.tokens + Rate * (t - b.last)}) ELSE b.tokens,
          last |-> t]

(* What the request leaves of the refilled bucket b, which was old.        *)
Spent(b, old) == IF b.tokens < Cost THEN b ELSE [b EXCEPT !.tokens = @ - Cost]

allow(h) ==
    LET k == flight[h].key
        t == flight[h].read
        b == Refilled(buckets[k], t)
        old == shadow[k]
    IN  /\ flight[h] # Idle
        /\ buckets' = [buckets EXCEPT ![k] = Spent(b, buckets[k])]
        /\ shadow' = [shadow EXCEPT ![k] = Spent(Refilled(old, t), old)]
        /\ admitted' = [admitted EXCEPT ![k] = IF b.tokens < Cost THEN @ ELSE @ + Cost]
        /\ rewound' = [rewound EXCEPT ![k] = IF t < old.last THEN @ + (old.last - t) ELSE @]
        /\ flight' = [flight EXCEPT ![h] = Idle]
        /\ UNCHANGED now

(* Mutant: a bucket is evicted when it has been idle for a moment.         *)
IsIdle_Early(b) == b # None /\ now - b.last > 1

(* cleanup's condition.                                                    *)
IsIdle(b) == b # None /\ now - b.last > IdleLimit

(* One tick of cleanup.                                                    *)
cleanup ==
    /\ \E k \in Addresses : IsIdle(buckets[k])
    /\ buckets' = [k \in Addresses |-> IF IsIdle(buckets[k]) THEN None ELSE buckets[k]]
    /\ UNCHANGED <<now, flight, shadow, admitted, rewound>>

Tick ==
    /\ now < MaxTime
    /\ \A h \in Handlers : flight[h] # Idle => now < flight[h].read + MaxSkew
    /\ now' = now + 1
    /\ UNCHANGED <<buckets, flight, shadow, admitted, rewound>>

Next ==
    \/ \E h \in Handlers, c \in Clients : Arrive(h, c)
    \/ \E h \in Handlers : allow(h)
    \/ cleanup
    \/ Tick

Spec == Init /\ [][Next]_vars

-----------------------------------------------------------------------------
(* Evicting a bucket changes no answer: a bucket that was evicted and made *)
(* again is the bucket that would have stayed, out of order requests       *)
(* included (cleanup against allow).                                       *)
EvictionIsInvisible ==
    \A k \in Addresses : buckets[k] # None => buckets[k] = shadow[k]

(* However the requests of a client interleave, what it is granted is the  *)
(* burst and what the elapsed time is worth.  A request that takes the     *)
(* lock after a later one moves the bucket's clock back, and only that     *)
(* time is granted twice (allow sets b.last to the request's own now).     *)
AdmissionIsBounded ==
    \A k \in Addresses : admitted[k] <= Burst + Rate * (now + rewound[k])

(* A request is counted under the address of its client, whatever list the *)
(* client sent and through however many trusted proxies that append to it  *)
(* (clientIP, which reads one line of the header).                         *)
CountedUnderItsClient ==
    \A h \in Handlers : flight[h].key = flight[h].from
=============================================================================
