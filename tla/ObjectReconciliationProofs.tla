--------------------- MODULE ObjectReconciliationProofs ---------------------
(***************************************************************************)
(* Proofs about ObjectReconciliation, for any finite set of keys, any page *)
(* size, any number of scanners and any number of uploads and faults.      *)
(***************************************************************************)
EXTENDS ObjectReconciliation, FiniteSetTheorems, TLAPS

-----------------------------------------------------------------------------
(* The inductive invariant.                                                *)

(* An object was uploaded under a row, and whoever listed it knows it had  *)
(* one; a job is queued only once that row protects nothing any more.      *)
RowsInv ==
    /\ \A k \in bucket : row[k] # "none"
    /\ \A p \in Scanners : \A k \in page[p] : row[k] # "none"
    /\ LiveObjectsAreSpared

(* The claims, and that no job has both ended and not ended.               *)
JobsInv ==
    /\ ClaimsMatchJobs
    /\ jobs \cap owed = {}

(* What a scanner of the current generation holds: the cursor itself, and  *)
(* a page with every key the pass must judge up to its own end.            *)
ScanInv(p) ==
    p \in fresh /\ pc[p] # "idle" =>
        /\ from[p] = cursor
        /\ pc[p] = "listed" =>
              \A k \in resident :
                  k > cursor /\ (next[p] = 0 \/ k <= next[p]) => k \in page[p]

(* Everything before the cursor has been judged.                           *)
PassInv ==
    /\ resident \subseteq bucket
    /\ \A k \in resident : k <= cursor => k \in seen
    /\ PassIsComplete

Inv ==
    /\ TypeOK
    /\ RowsInv
    /\ JobsInv
    /\ \A p \in Scanners : ScanInv(p)
    /\ PassInv

-----------------------------------------------------------------------------
(* Pages.                                                                  *)

LEMMA LeastNatural ==
    ASSUME NEW S \in SUBSET Nat, S # {}
    PROVE  \E x \in S : \A y \in S : x <= y
<1> DEFINE R == OpToRel(<, Nat)
<1>1. IsWellFoundedOn(R, Nat)
  BY NatLessThanWellFounded
<1>2. \A x, y \in Nat : y < x => <<y, x>> \in R
  BY DEF OpToRel
<1> HIDE DEF R
<1>3. PICK x \in S : \A y \in S : <<y, x>> \notin R
  BY <1>1, WFMin
<1>4. ASSUME NEW y \in S
      PROVE  x <= y
  <2>1. x \in Nat /\ y \in Nat /\ ~(y < x)
    BY <1>2, <1>3, Zenon
  <2> QED
    BY <2>1
<1> QED
  BY <1>4

LEMMA GreatestNatural ==
    ASSUME NEW S \in SUBSET Nat, S # {}, NEW b \in Nat, \A y \in S : y <= b
    PROVE  Max(S) \in S /\ \A y \in S : y <= Max(S)
<1> DEFINE bounds == {u \in Nat : \A y \in S : y <= u}
<1>1. PICK u \in bounds : \A v \in bounds : u <= v
  BY LeastNatural
<1>2. u \in S
  <2>1. SUFFICES ASSUME u \notin S
                 PROVE  FALSE
    OBVIOUS
  <2>2. u \in Nat /\ \A y \in S : y \in Nat /\ y <= u /\ y # u
    BY <1>1, <2>1
  <2>3. PICK z \in S : TRUE
    OBVIOUS
  <2>4. u - 1 \in Nat /\ \A y \in S : y <= u - 1
    BY <2>2, <2>3
  <2> QED
    BY <1>1, <2>2, <2>4
<1>3. \E x \in S : \A y \in S : x >= y
  BY <1>1, <1>2
<1>4. Max(S) \in S /\ \A y \in S : Max(S) >= y
  BY <1>3 DEF Max
<1> QED
  BY <1>4

(* The keys strictly between two.                                          *)
Between(after, k) == {j \in bucket : after < j /\ j < k}

LEMMA BetweenIsFinite ==
    ASSUME TypeOK, NEW after \in Nat, NEW k \in Nat
    PROVE  /\ IsFiniteSet(Between(after, k)) /\ Cardinality(Between(after, k)) \in Nat
           /\ \A j \in Nat : j <= k =>
                 Cardinality(Between(after, j)) <= Cardinality(Between(after, k))
<1>1. IsFiniteSet(bucket)
  BY ScanAssumption, FS_Subset DEF TypeOK
<1>2. Between(after, k) \in SUBSET bucket
  BY DEF Between
<1>3. IsFiniteSet(Between(after, k)) /\ Cardinality(Between(after, k)) \in Nat
  BY <1>1, <1>2, FS_Subset, FS_CardinalityType
<1>4. ASSUME NEW j \in Nat, j <= k
      PROVE  Cardinality(Between(after, j)) <= Cardinality(Between(after, k))
  <2>1. bucket \subseteq Nat
    BY ScanAssumption DEF TypeOK
  <2>2. Between(after, j) \in SUBSET Between(after, k)
    <3>1. ASSUME NEW x \in bucket, after < x, x < j
          PROVE  x < k
      BY <1>4, <2>1, <3>1
    <3> QED
      BY <3>1 DEF Between
  <2> QED
    BY <1>3, <2>2, FS_Subset
<1> QED
  BY <1>3, <1>4

(* A page starts right after its cursor and has no gap, and the cursor it  *)
(* returns is its last key, or empty when nothing is left.                 *)
LEMMA PageHasNoGap ==
    ASSUME TypeOK, NEW after \in Nat
    PROVE  /\ ListedKeys(after) \subseteq bucket
           /\ NextCursor(after) \in ListedKeys(after) \cup {0}
           /\ \A k \in bucket :
                 k > after /\ (NextCursor(after) = 0 \/ k <= NextCursor(after))
                 => k \in ListedKeys(after)
<1> DEFINE keys == ListedKeys(after)
<1>1. bucket \subseteq Nat /\ 0 \notin bucket /\ Limit \in Nat \ {0}
  BY ScanAssumption DEF TypeOK
<1>2. keys = {k \in bucket : k > after /\ Cardinality(Between(after, k)) < Limit}
  BY DEF ListedKeys, Between
<1>3. \A k \in bucket : Cardinality(Between(after, k)) \in Nat
  BY <1>1, BetweenIsFinite
<1>4. \A j, k \in bucket : j > after /\ j <= k /\ k \in keys => j \in keys
  <2> SUFFICES ASSUME NEW j \in bucket, NEW k \in bucket, j > after, j <= k, k \in keys
               PROVE  j \in keys
    OBVIOUS
  <2>1. Cardinality(Between(after, j)) <= Cardinality(Between(after, k))
    BY <1>1, BetweenIsFinite
  <2>2. Cardinality(Between(after, k)) < Limit
    BY <1>2
  <2> QED
    BY <1>1, <1>2, <1>3, <2>1, <2>2
<1> HIDE DEF keys
<1>5. ASSUME NEW k \in bucket, k > after, k \notin keys
      PROVE  /\ Max(keys) \in keys
             /\ \A y \in keys : y <= Max(keys)
  <2>1. keys \in SUBSET Nat
    BY <1>1, <1>2
  <2>2. \A y \in keys : y <= k
    BY <1>1, <1>2, <1>4, <1>5
  <2>3. keys # {}
    <3>1. Between(after, k) # {}
      BY <1>1, <1>2, <1>5, FS_EmptySet
    <3>2. Between(after, k) \in SUBSET Nat
      BY <1>1 DEF Between
    <3>3. PICK m \in Between(after, k) : \A y \in Between(after, k) : m <= y
      BY <3>1, <3>2, LeastNatural
    <3>4. m \in bucket /\ m \in Nat /\ m > after /\ m < k
      BY <1>1, <3>3 DEF Between
    <3>5. ASSUME NEW y \in Between(after, m)
          PROVE  FALSE
      <4>1. y \in bucket /\ y \in Nat /\ after < y /\ y < m
        BY <1>1 DEF Between
      <4>2. y \in Between(after, k)
        BY <1>1, <3>4, <4>1 DEF Between
      <4> QED
        BY <3>3, <3>4, <4>1, <4>2
    <3>6. Cardinality(Between(after, m)) = 0
      BY <3>5, FS_EmptySet
    <3> QED
      BY <1>1, <1>2, <3>4, <3>6
  <2>4. k \in Nat
    BY <1>1
  <2> QED
    BY <2>1, <2>2, <2>3, <2>4, GreatestNatural
<1>6. NextCursor(after) = IF \E k \in bucket : k > after /\ k \notin keys THEN Max(keys) ELSE 0
  BY DEF NextCursor, keys
<1>7. CASE \E k \in bucket : k > after /\ k \notin keys
  <2>1. NextCursor(after) = Max(keys) /\ Max(keys) \in keys
    BY <1>5, <1>6, <1>7
  <2>2. keys \subseteq bucket
    BY <1>2
  <2> QED
    BY <1>1, <1>4, <2>1, <2>2 DEF keys
<1>8. CASE ~\E k \in bucket : k > after /\ k \notin keys
  BY <1>2, <1>6, <1>8 DEF keys
<1> QED
  BY <1>7, <1>8

-----------------------------------------------------------------------------
(* Typing.                                                                 *)

LEMMA CursorsAreNatural ==
    ASSUME TypeOK
    PROVE  cursor \in Nat /\ \A p \in Scanners : from[p] \in Nat /\ next[p] \in Nat
<1>1. /\ cursor \in Keys \cup {0}
      /\ \A p \in Scanners : from[p] \in Keys \cup {0} /\ next[p] \in Keys \cup {0}
  BY DEF TypeOK
<1>2. Keys \cup {0} \subseteq Nat
  BY ScanAssumption
<1> QED
  BY <1>1, <1>2, Zenon

LEMMA FaultTyped ==
    ASSUME TypeOK, Fault
    PROVE  faults' \in 0 .. MaxFaults
BY ScanAssumption DEF TypeOK, Fault

LEMMA DoneTyped ==
    ASSUME TypeOK, NEW p \in Scanners, Done(p)
    PROVE  /\ pc' \in [Scanners -> {"idle", "read", "listed"}]
           /\ from' \in [Scanners -> Keys \cup {0}]
           /\ page' \in [Scanners -> SUBSET Keys]
           /\ next' \in [Scanners -> Keys \cup {0}]
           /\ \A q \in Scanners : next'[q] \in page'[q] \cup {0}
BY DEF TypeOK, Done

LEMMA EnqueueTyped ==
    ASSUME TypeOK, NEW won \in SUBSET Keys, Enqueue(won)
    PROVE  /\ pending' \in [Keys -> Nat] /\ claims' \in [Keys -> Nat]
           /\ jobs' \subseteq Keys \X Nat /\ owed' = owed
<1>1. pending \in [Keys -> Nat] /\ claims \in [Keys -> Nat] /\ jobs \subseteq Keys \X Nat
  BY DEF TypeOK
<1>2. pending' \in [Keys -> Nat] /\ claims' \in [Keys -> Nat]
  BY <1>1 DEF Enqueue
<1>3. \A k \in won : <<k, claims[k] + 1>> \in Keys \X Nat
  BY <1>1
<1>4. jobs' \subseteq Keys \X Nat
  BY <1>1, <1>3, Zenon DEF Enqueue
<1> QED
  BY <1>2, <1>4 DEF Enqueue

LEMMA ScanTyped ==
    ASSUME TypeOK, NEW p \in Scanners, Scan(p)
    PROVE  TypeOK'
<1>1. CASE ReadCursor(p)
  <2>1. /\ pc' \in [Scanners -> {"idle", "read", "listed"}]
        /\ from' \in [Scanners -> Keys \cup {0}]
        /\ fresh' \subseteq Scanners
    BY <1>1 DEF TypeOK, ReadCursor
  <2> QED
    BY <1>1, <2>1, Zenon DEF TypeOK, ReadCursor, bucketVars, jobVars, passVars
<1>2. CASE List(p)
  <2>1. from[p] \in Nat
    BY CursorsAreNatural
  <2>2. /\ ListedKeys(from[p]) \in SUBSET Keys
        /\ NextCursor(from[p]) \in Keys \cup {0}
        /\ NextCursor(from[p]) \in ListedKeys(from[p]) \cup {0}
    BY <2>1, PageHasNoGap DEF TypeOK
  <2>3. pc' \in [Scanners -> {"idle", "read", "listed"}]
    BY <1>2 DEF TypeOK, List
  <2>4. /\ page' = [page EXCEPT ![p] = ListedKeys(from[p])]
        /\ next' = [next EXCEPT ![p] = NextCursor(from[p])]
        /\ page \in [Scanners -> SUBSET Keys] /\ next \in [Scanners -> Keys \cup {0}]
        /\ \A q \in Scanners : next[q] \in page[q] \cup {0}
    BY <1>2, Zenon DEF TypeOK, List
  <2>5. page' \in [Scanners -> SUBSET Keys] /\ next' \in [Scanners -> Keys \cup {0}]
    BY <2>2, <2>4
  <2>6. \A q \in Scanners : next'[q] \in page'[q] \cup {0}
    BY <2>2, <2>4
  <2> QED
    BY <1>2, <2>3, <2>5, <2>6, Zenon DEF TypeOK, List, bucketVars, jobVars, passVars
<1>3. CASE Commit(p)
  <2>1. Claimable(p) \in SUBSET Keys /\ page[p] \in SUBSET Keys /\ next[p] \in Keys \cup {0}
    BY DEF TypeOK, Claimable
  <2>2. Done(p) /\ UNCHANGED <<bucketVars, faults>>
    BY <1>3, Zenon DEF Commit
  <2>3. /\ pending' \in [Keys -> Nat] /\ claims' \in [Keys -> Nat]
        /\ jobs' \subseteq Keys \X Nat /\ owed' \subseteq Keys \X Nat
    BY <1>3, <2>1, EnqueueTyped, Zenon DEF Commit, jobVars, TypeOK
  <2>4. seen' \subseteq Keys /\ resident' \subseteq Keys /\ missed' \subseteq Keys
    BY <1>3, <2>1 DEF Commit, Judged, NewPass, passVars, TypeOK
  <2>5. cursor' \in Keys \cup {0} /\ fresh' \subseteq Scanners
    BY <1>3, <2>1 DEF Commit, Advance, TypeOK
  <2> QED
    BY <2>2, <2>3, <2>4, <2>5, DoneTyped, Zenon DEF TypeOK, bucketVars
<1> QED
  BY <1>1, <1>2, <1>3, Zenon DEF Scan

LEMMA JobTyped ==
    ASSUME TypeOK, NEW j \in Drawn
    PROVE  j[1] \in Keys /\ j[2] \in 1 .. claims[j[1]] /\ j = <<j[1], j[2]>> /\ j[2] \in Nat
<1>1. PICK k \in Keys : j \in {k} \X (1 .. claims[k])
  BY DEF Drawn
<1>2. claims[k] \in Nat
  BY DEF TypeOK
<1> QED
  BY <1>1, <1>2

LEMMA TypedStep ==
    ASSUME TypeOK, [Next]_vars
    PROVE  TypeOK'
<1>1. ASSUME NEW k \in Keys, Environment(k)
      PROVE  TypeOK'
  <2>1. row' \in [Keys -> {"none", "live", "over"}]
    BY <1>1 DEF TypeOK, Environment, Protect, ProtectionEnds, Put
  <2>2. bucket' \subseteq Keys
    BY <1>1 DEF TypeOK, Environment, Protect, ProtectionEnds, Put
  <2>3. puts \in 0 .. MaxPuts /\ (puts' = puts \/ (puts < MaxPuts /\ puts' = puts + 1))
    BY <1>1, Zenon DEF TypeOK, Environment, Protect, ProtectionEnds, Put
  <2>4. puts' \in 0 .. MaxPuts
    BY <2>3, ScanAssumption
  <2> QED
    BY <1>1, <2>1, <2>2, <2>4, Zenon
       DEF TypeOK, Environment, Protect, ProtectionEnds, Put, scanVars, jobVars, passVars
<1>2. ASSUME NEW p \in Scanners, ErrInvalidCursor(p) \/ ScanFails(p)
      PROVE  TypeOK'
  <2>1. /\ cursor' \in Keys \cup {0} /\ fresh' \subseteq Scanners
        /\ seen' \subseteq Keys /\ resident' \subseteq Keys /\ missed' \subseteq Keys
    BY <1>2 DEF TypeOK, ErrInvalidCursor, ScanFails, Advance, NewPass, passVars
  <2>2. Fault /\ Done(p) /\ UNCHANGED <<bucketVars, jobVars>>
    BY <1>2, Zenon DEF ErrInvalidCursor, ScanFails
  <2> QED
    BY <2>1, <2>2, FaultTyped, DoneTyped, Zenon DEF TypeOK, bucketVars, jobVars
<1>3. ASSUME NEW j \in Drawn, handleObjectDelete(j) \/ DeadLetter(j)
      PROVE  TypeOK'
  <2>1. j \in jobs /\ UNCHANGED <<row, puts, cursor, scanVars, fresh, pending, claims, seen, missed>>
    BY <1>3, Zenon DEF handleObjectDelete, DeadLetter, bucketVars, passVars
  <2>2. jobs' \subseteq Keys \X Nat /\ owed' \subseteq Keys \X Nat
    BY <1>3, <2>1 DEF TypeOK, handleObjectDelete, DeadLetter
  <2>3. bucket' \subseteq Keys /\ resident' \subseteq Keys
    BY <1>3 DEF TypeOK, handleObjectDelete, DeadLetter, bucketVars, passVars
  <2>4. faults' \in 0 .. MaxFaults
    BY <1>3, FaultTyped, Zenon DEF TypeOK, handleObjectDelete, DeadLetter
  <2> QED
    BY <2>1, <2>2, <2>3, <2>4, Zenon DEF TypeOK, scanVars
<1>4. ASSUME NEW j \in Drawn, AcknowledgeObjectCleanup(j) \/ LateAcknowledgement(j)
      PROVE  TypeOK'
  <2>1. /\ UNCHANGED <<bucketVars, cursor, scanVars, fresh, claims, jobs, passVars, faults>>
        /\ pending' = Acknowledged(j) /\ owed' \subseteq owed
    BY <1>4 DEF AcknowledgeObjectCleanup, LateAcknowledgement
  <2>2. pending' \in [Keys -> Nat]
    BY <2>1, JobTyped DEF TypeOK, Acknowledged
  <2> QED
    BY <2>1, <2>2, Zenon DEF TypeOK, bucketVars, scanVars, passVars
<1>5. CASE UNCHANGED vars
  BY <1>5, Zenon DEF TypeOK, vars, bucketVars, scanVars, jobVars, passVars
<1> QED
  BY <1>1, <1>2, <1>3, <1>4, <1>5, ScanTyped, Zenon DEF Next

-----------------------------------------------------------------------------
(* Rows: what a deletion job may name.                                     *)

LEMMA RowsStep ==
    ASSUME Inv, [Next]_vars
    PROVE  RowsInv'
<1>0. /\ row \in [Keys -> {"none", "live", "over"}]
      /\ bucket \subseteq Keys /\ jobs \subseteq Keys \X Nat
      /\ page \in [Scanners -> SUBSET Keys]
  BY DEF Inv, TypeOK
<1>1. /\ \A k \in bucket : row[k] # "none"
      /\ \A p \in Scanners : \A k \in page[p] : row[k] # "none"
      /\ \A j \in jobs : row[j[1]] = "over"
  BY DEF Inv, RowsInv, LiveObjectsAreSpared
(* A row that protected once never does again.                             *)
<1>2. \A k \in Keys : /\ row[k] # "none" => row'[k] # "none"
                      /\ row[k] = "over" => row'[k] = "over"
  <2>1. ASSUME NEW k \in Keys, Protect(k) \/ ProtectionEnds(k)
        PROVE  \A i \in Keys : /\ row[i] # "none" => row'[i] # "none"
                               /\ row[i] = "over" => row'[i] = "over"
    BY <1>0, <2>1 DEF Protect, ProtectionEnds
  <2>2. \/ \E k \in Keys : Protect(k) \/ ProtectionEnds(k)
        \/ row' = row
    BY Zenon DEF Next, vars, bucketVars, Environment, Put, Scan, ReadCursor, List, Commit, ScanFails,
           ErrInvalidCursor, handleObjectDelete, DeadLetter, AcknowledgeObjectCleanup,
           LateAcknowledgement
  <2> QED
    BY <2>1, <2>2
<1>3. \A k \in bucket' : row'[k] # "none"
  <2>1. \A k \in bucket' : k \in Keys /\ row[k] # "none"
    <3>1. ASSUME NEW k \in Keys, Put(k)
          PROVE  \A i \in bucket' : i \in Keys /\ row[i] # "none"
      BY <1>0, <1>1, <3>1 DEF Put
    <3>2. (\E k \in Keys : Put(k)) \/ bucket' \subseteq bucket
      BY DEF Next, vars, bucketVars, Environment, Protect, ProtectionEnds, Scan, ReadCursor, List,
             Commit, ScanFails, ErrInvalidCursor, handleObjectDelete, DeadLetter,
             AcknowledgeObjectCleanup, LateAcknowledgement
    <3> QED
      BY <1>0, <1>1, <3>1, <3>2
  <2> QED
    BY <1>2, <2>1
<1>4. \A p \in Scanners : \A k \in page'[p] : row'[k] # "none"
  <2>1. ASSUME NEW q \in Scanners, List(q)
        PROVE  \A p \in Scanners : page'[p] \subseteq page[p] \cup bucket
    <3>1. from[q] \in Nat /\ page' = [page EXCEPT ![q] = ListedKeys(from[q])]
      BY <2>1, CursorsAreNatural DEF Inv, List
    <3>2. ListedKeys(from[q]) \subseteq bucket
      BY DEF ListedKeys
    <3> QED
      BY <1>0, <3>1, <3>2
  <2>2. ASSUME NEW q \in Scanners, Done(q)
        PROVE  \A p \in Scanners : page'[p] \subseteq page[p] \cup bucket
    BY <1>0, <2>2 DEF Done
  <2>3. \/ \E q \in Scanners : List(q) \/ Done(q)
        \/ page' = page
    BY Zenon DEF Next, vars, scanVars, Environment, Protect, ProtectionEnds, Put, Scan, ReadCursor,
           Commit, ScanFails, ErrInvalidCursor, handleObjectDelete, DeadLetter,
           AcknowledgeObjectCleanup, LateAcknowledgement
  <2>4. \A p \in Scanners : page'[p] \subseteq page[p] \cup bucket
    BY <2>1, <2>2, <2>3
  <2> QED
    BY <1>0, <1>1, <1>2, <2>4
<1>5. \A j \in jobs' : row'[j[1]] = "over"
  <2>1. ASSUME NEW p \in Scanners, Enqueue(Claimable(p))
        PROVE  \A j \in jobs' : j[1] \in Keys /\ row[j[1]] = "over"
    <3>1. \A k \in Claimable(p) : k \in Keys /\ row[k] = "over"
      BY <1>0, <1>1 DEF Claimable, protectObjectTx
    <3>2. jobs' = jobs \cup {<<k, claims[k] + 1>> : k \in Claimable(p)}
      BY <2>1 DEF Enqueue
    <3>3. \A j \in jobs : j[1] \in Keys
      BY <1>0
    <3> QED
      BY <1>1, <3>1, <3>2, <3>3
  <2>2. \/ \E p \in Scanners : Enqueue(Claimable(p))
        \/ jobs' \subseteq jobs
    BY DEF Next, vars, jobVars, Environment, Protect, ProtectionEnds, Put, Scan, ReadCursor, List,
           Commit, ScanFails, ErrInvalidCursor, handleObjectDelete, DeadLetter,
           AcknowledgeObjectCleanup, LateAcknowledgement
  <2>3. \A j \in jobs : j[1] \in Keys
    BY <1>0
  <2> QED
    BY <1>1, <1>2, <2>1, <2>2, <2>3
<1> QED
  BY <1>3, <1>4, <1>5, Zenon DEF RowsInv, LiveObjectsAreSpared

-----------------------------------------------------------------------------
(* Claims.                                                                 *)

(* ClaimsMatchJobs, key by key: job n of key k is under way, or its end    *)
(* not acknowledged, exactly when the claim on k is for it.                *)
Matched(pend, last, open) ==
    \A k \in Keys, n \in Nat : <<k, n>> \in open <=> n \in 1 .. last[k] /\ pend[k] = n

LEMMA MatchedIsClaimsMatchJobs ==
    ASSUME NEW pend \in [Keys -> Nat], NEW last \in [Keys -> Nat],
           NEW open \in SUBSET (Keys \X Nat)
    PROVE  LET drawn == UNION {{k} \X (1 .. last[k]) : k \in Keys}
           IN  {j \in drawn : pend[j[1]] = j[2]} = open <=> Matched(pend, last, open)
<1> DEFINE drawn == UNION {{k} \X (1 .. last[k]) : k \in Keys}
           claimed == {j \in drawn : pend[j[1]] = j[2]}
<1>1. \A k \in Keys, n \in Nat : <<k, n>> \in claimed <=> n \in 1 .. last[k] /\ pend[k] = n
  <2> TAKE k \in Keys, n \in Nat
  <2>1. <<k, n>> \in drawn <=> n \in 1 .. last[k]
    OBVIOUS
  <2>2. <<k, n>>[1] = k /\ <<k, n>>[2] = n
    OBVIOUS
  <2> HIDE DEF drawn
  <2> QED
    BY <2>1, <2>2
<1>2. drawn \subseteq Keys \X Nat
  OBVIOUS
<1>3. claimed \subseteq Keys \X Nat
  BY <1>2
<1> HIDE DEF drawn, claimed
<1>4. (\A k \in Keys, n \in Nat : <<k, n>> \in claimed <=> <<k, n>> \in open) <=> claimed = open
  BY <1>3
<1>5. claimed = open <=> Matched(pend, last, open)
  BY <1>1, <1>4 DEF Matched
<1> QED
  BY <1>5 DEF claimed, drawn

LEMMA JobsStep ==
    ASSUME Inv, TypeOK', [Next]_vars
    PROVE  JobsInv'
<1>0. /\ pending \in [Keys -> Nat] /\ claims \in [Keys -> Nat]
      /\ jobs \subseteq Keys \X Nat /\ owed \subseteq Keys \X Nat
  BY DEF Inv, TypeOK
<1>1. Matched(pending, claims, jobs \cup owed) /\ jobs \cap owed = {}
  BY <1>0, MatchedIsClaimsMatchJobs DEF Inv, JobsInv, ClaimsMatchJobs, Drawn
<1>2. SUFFICES Matched(pending', claims', jobs' \cup owed') /\ jobs' \cap owed' = {}
  <2>1. /\ pending' \in [Keys -> Nat] /\ claims' \in [Keys -> Nat]
        /\ jobs' \subseteq Keys \X Nat /\ owed' \subseteq Keys \X Nat
    BY DEF TypeOK
  <2> QED
    BY <2>1, MatchedIsClaimsMatchJobs DEF JobsInv, ClaimsMatchJobs, Drawn
(* A new claim is for a job no receipt can be of.                          *)
<1>3. ASSUME NEW p \in Scanners, Enqueue(Claimable(p))
      PROVE  Matched(pending', claims', jobs' \cup owed') /\ jobs' \cap owed' = {}
  <2> DEFINE won == Claimable(p)
  <2>1. \A k \in won : k \in Keys /\ pending[k] = 0
    BY DEF Claimable, Inv, TypeOK
  <2> HIDE DEF won
  <2>2. /\ \A k \in Keys : k \in won => pending'[k] = claims[k] + 1 /\ claims'[k] = claims[k] + 1
        /\ \A k \in Keys : k \notin won => pending'[k] = pending[k] /\ claims'[k] = claims[k]
        /\ owed' = owed /\ jobs' = jobs \cup {<<k, claims[k] + 1>> : k \in won}
    BY <1>3 DEF Enqueue, won
  <2>3. \A k \in Keys, n \in Nat :
           <<k, n>> \in jobs' <=> <<k, n>> \in jobs \/ (k \in won /\ n = claims[k] + 1)
    BY <2>2
  <2>4. ASSUME NEW k \in Keys, NEW n \in Nat
        PROVE  /\ <<k, n>> \in jobs' \cup owed' <=> n \in 1 .. claims'[k] /\ pending'[k] = n
               /\ ~(<<k, n>> \in jobs' /\ <<k, n>> \in owed')
    <3>1. /\ claims[k] \in Nat /\ pending[k] \in Nat
          /\ <<k, n>> \in jobs \cup owed <=> n \in 1 .. claims[k] /\ pending[k] = n
      BY <1>0, <1>1 DEF Matched
    <3>2. CASE k \in won
      BY <2>1, <2>2, <2>3, <3>1, <3>2
    <3>3. CASE k \notin won
      BY <1>1, <2>2, <2>3, <3>1, <3>3
    <3> QED
      BY <3>2, <3>3
  <2>5. jobs' \subseteq Keys \X Nat
    BY DEF TypeOK
  <2> QED
    BY <2>4, <2>5 DEF Matched
<1>4. ASSUME NEW j \in Drawn, handleObjectDelete(j) \/ DeadLetter(j)
      PROVE  Matched(pending', claims', jobs' \cup owed') /\ jobs' \cap owed' = {}
  <2>1. UNCHANGED <<pending, claims>> /\ jobs' \cup owed' = jobs \cup owed
    BY <1>4 DEF handleObjectDelete, DeadLetter
  <2>2. jobs' \cap owed' = {}
    BY <1>1, <1>4 DEF handleObjectDelete, DeadLetter
  <2> QED
    BY <1>1, <2>1, <2>2
<1>5. ASSUME NEW j \in Drawn, AcknowledgeObjectCleanup(j)
      PROVE  Matched(pending', claims', jobs' \cup owed') /\ jobs' \cap owed' = {}
  <2>1. PICK k \in Keys, n \in Nat : j = <<k, n>> /\ n \in 1 .. claims[k]
    BY JobTyped DEF Inv
  <2>2. /\ <<k, n>> \in owed /\ <<k, n>> \notin jobs
        /\ pending[k] = n /\ claims' = claims
        /\ pending' = [pending EXCEPT ![k] = 0]
    BY <1>0, <1>1, <1>5, <2>1 DEF AcknowledgeObjectCleanup, Acknowledged, Matched
  <2>3. jobs' \cup owed' = (jobs \cup owed) \ {<<k, n>>}
    BY <1>5, <2>1, <2>2 DEF AcknowledgeObjectCleanup
  <2>4. ASSUME NEW i \in Keys, NEW m \in Nat
        PROVE  <<i, m>> \in jobs' \cup owed' <=> m \in 1 .. claims'[i] /\ pending'[i] = m
    <3>1. <<i, m>> \in jobs \cup owed <=> m \in 1 .. claims[i] /\ pending[i] = m
      BY <1>1 DEF Matched
    <3>2. <<i, m>> = <<k, n>> <=> i = k /\ m = n
      OBVIOUS
    <3>3. CASE i = k
      BY <1>0, <2>2, <2>3, <3>1, <3>2, <3>3
    <3>4. CASE i # k
      BY <1>0, <2>2, <2>3, <3>1, <3>2, <3>4
    <3> QED
      BY <3>3, <3>4
  <2>5. jobs' \cap owed' = {}
    BY <1>1, <1>5 DEF AcknowledgeObjectCleanup
  <2> QED
    BY <2>4, <2>5 DEF Matched
(* An acknowledgement that comes again finds no claim for its job.         *)
<1>6. ASSUME NEW j \in Drawn, LateAcknowledgement(j)
      PROVE  Matched(pending', claims', jobs' \cup owed') /\ jobs' \cap owed' = {}
  <2>1. PICK k \in Keys, n \in Nat : j = <<k, n>> /\ n \in 1 .. claims[k]
    BY JobTyped DEF Inv
  <2>2. pending[k] # n
    BY <1>1, <1>6, <2>1 DEF LateAcknowledgement, Matched
  <2>3. UNCHANGED <<pending, claims, jobs, owed>>
    BY <1>0, <1>6, <2>1, <2>2 DEF LateAcknowledgement, Acknowledged
  <2> QED
    BY <1>1, <2>3
<1>7. CASE UNCHANGED jobVars
  BY <1>1, <1>7 DEF jobVars
<1>8. \/ \E p \in Scanners : Enqueue(Claimable(p))
      \/ \E j \in Drawn : handleObjectDelete(j) \/ DeadLetter(j)
      \/ \E j \in Drawn : AcknowledgeObjectCleanup(j) \/ LateAcknowledgement(j)
      \/ UNCHANGED jobVars
  BY Zenon DEF Next, vars, Environment, Protect, ProtectionEnds, Put, Scan, ReadCursor, List,
         Commit, ScanFails, ErrInvalidCursor
<1> QED
  BY <1>3, <1>4, <1>5, <1>6, <1>7, <1>8, Zenon

-----------------------------------------------------------------------------
(* Passes.                                                                 *)

(* Nothing of a scanner's own, nor of what it is measured against, moves.  *)
LEMMA ScanFrame ==
    ASSUME NEW p \in Scanners, ScanInv(p), fresh' \subseteq fresh, cursor' = cursor,
           resident' \subseteq resident,
           UNCHANGED <<pc[p], from[p], page[p], next[p]>>
    PROVE  ScanInv(p)'
BY DEF ScanInv

(* A scanner that goes idle holds nothing; the others are as they were.    *)
LEMMA DoneFrame ==
    ASSUME Inv, NEW p \in Scanners, Done(p), fresh' \subseteq fresh, cursor' = cursor,
           resident' \subseteq resident
    PROVE  \A q \in Scanners : ScanInv(q)'
<1>1. /\ pc'[p] = "idle"
      /\ \A q \in Scanners : q # p => UNCHANGED <<pc[q], from[q], page[q], next[q]>>
  BY DEF Done, Inv, TypeOK
<1>2. ScanInv(p)'
  BY <1>1 DEF ScanInv
<1>3. ASSUME NEW q \in Scanners, q # p
      PROVE  ScanInv(q)'
  <2>1. ScanInv(q)
    BY DEF Inv
  <2> QED
    BY <1>1, <1>3, <2>1, ScanFrame, Zenon
<1> QED
  BY <1>2, <1>3

(* With a new generation no outstanding read counts.                       *)
LEMMA AdvanceFrame ==
    ASSUME NEW to, Advance(to)
    PROVE  \A q \in Scanners : ScanInv(q)'
BY DEF Advance, ScanInv

LEMMA NewPassStep ==
    ASSUME TypeOK, NewPass, bucket' = bucket, cursor' = 0, missed' = {}
    PROVE  PassInv'
<1>1. \A k \in bucket : ~(k <= 0)
  BY ScanAssumption DEF TypeOK
<1> QED
  BY <1>1 DEF PassInv, NewPass, PassIsComplete

LEMMA ReadListStep ==
    ASSUME Inv, NEW p \in Scanners, ReadCursor(p) \/ List(p)
    PROVE  (\A q \in Scanners : ScanInv(q)') /\ PassInv'
<1>1. /\ UNCHANGED <<bucket, cursor, resident, seen, missed>>
      /\ fresh' \subseteq fresh \cup {p}
      /\ \A q \in Scanners : q # p => UNCHANGED <<pc[q], from[q], page[q], next[q]>>
  BY DEF ReadCursor, List, bucketVars, passVars, Inv, TypeOK
<1>2. PassInv'
  BY <1>1 DEF Inv, PassInv, PassIsComplete
<1>3. ASSUME NEW q \in Scanners, q # p
      PROVE  ScanInv(q)'
  <2>1. ScanInv(q)
    BY DEF Inv
  <2> QED
    BY <1>1, <1>3, <2>1 DEF ScanInv
<1>4. CASE ReadCursor(p)
  <2>1. pc'[p] = "read" /\ from'[p] = cursor
    BY <1>4 DEF ReadCursor, Inv, TypeOK
  <2> QED
    BY <1>1, <1>2, <1>3, <2>1 DEF ScanInv
<1>5. CASE List(p)
  <2>1. /\ pc[p] = "read" /\ UNCHANGED <<from[p], fresh>>
        /\ page'[p] = ListedKeys(from[p]) /\ next'[p] = NextCursor(from[p])
    BY <1>5 DEF List, Inv, TypeOK
  <2>2. ASSUME p \in fresh
        PROVE  from[p] = cursor
    BY <2>1, <2>2 DEF Inv, ScanInv
  <2>3. resident \subseteq bucket /\ from[p] \in Nat
    BY CursorsAreNatural DEF Inv, PassInv
  <2>4. \A k \in bucket :
           k > from[p] /\ (NextCursor(from[p]) = 0 \/ k <= NextCursor(from[p]))
           => k \in ListedKeys(from[p])
    BY <2>3, PageHasNoGap DEF Inv
  <2>5. ScanInv(p)'
    BY <1>1, <2>1, <2>2, <2>3, <2>4 DEF ScanInv
  <2> QED
    BY <1>2, <1>3, <2>5
<1> QED
  BY <1>4, <1>5

(* The fence: a page that is committed joins exactly where the pass stood. *)
LEMMA CommitStep ==
    ASSUME Inv, NEW p \in Scanners, Commit(p)
    PROVE  (\A q \in Scanners : ScanInv(q)') /\ PassInv'
<1>1. pc[p] = "listed" /\ Done(p) /\ bucket' = bucket
  BY Zenon DEF Commit, bucketVars
<1>2. CASE p \notin fresh
  <2>1. UNCHANGED <<cursor, fresh, seen, resident, missed>>
    BY <1>2 DEF Commit, passVars
  <2>2. PassInv'
    BY <1>1, <2>1 DEF Inv, PassInv, PassIsComplete
  <2> QED
    BY <1>1, <2>1, <2>2, DoneFrame
<1>3. CASE p \in fresh
  <2>1. Advance(next[p]) /\ Judged(p)
    BY <1>3, Zenon DEF Commit
  <2>2. \A q \in Scanners : ScanInv(q)'
    BY <2>1, AdvanceFrame
  <2>3. /\ resident \subseteq bucket /\ missed = {}
        /\ \A k \in resident : k <= cursor => k \in seen
        /\ \A k \in resident : k > cursor /\ (next[p] = 0 \/ k <= next[p]) => k \in page[p]
    BY <1>1, <1>3 DEF Inv, PassInv, PassIsComplete, ScanInv
  <2>4. \A k \in resident : k \in Nat
    BY <2>3, ScanAssumption DEF Inv, TypeOK
  <2>5. cursor \in Nat /\ next[p] \in Nat
    BY CursorsAreNatural DEF Inv
  <2>6. \A k \in resident : next[p] = 0 \/ k <= next[p] => k \in seen \cup page[p]
    BY <2>3, <2>4, <2>5
  <2>7. CASE next[p] = 0
    <3>1. NewPass /\ missed' = {} /\ cursor' = 0
      BY <2>1, <2>3, <2>6, <2>7 DEF Judged, Advance
    <3> QED
      BY <1>1, <2>2, <3>1, NewPassStep DEF Inv
  <2>8. CASE next[p] # 0
    <3>1. /\ seen' = seen \cup page[p] /\ UNCHANGED <<resident, missed>>
          /\ cursor' = next[p]
      BY <2>1, <2>8 DEF Judged, Advance
    <3>2. PassInv'
      BY <1>1, <2>3, <2>6, <3>1 DEF PassInv, PassIsComplete
    <3> QED
      BY <2>2, <3>2
  <2> QED
    BY <2>7, <2>8
<1> QED
  BY <1>2, <1>3

LEMMA AbandonStep ==
    ASSUME Inv, NEW p \in Scanners, ErrInvalidCursor(p) \/ ScanFails(p)
    PROVE  (\A q \in Scanners : ScanInv(q)') /\ PassInv'
<1>1. Done(p) /\ bucket' = bucket
  BY Zenon DEF ErrInvalidCursor, ScanFails, bucketVars
<1>2. CASE UNCHANGED <<cursor, fresh, passVars>>
  <2>1. PassInv'
    BY <1>1, <1>2 DEF Inv, PassInv, PassIsComplete, passVars
  <2> QED
    BY <1>1, <1>2, <2>1, DoneFrame DEF passVars
<1>3. CASE Advance(0) /\ NewPass /\ UNCHANGED missed
  <2>1. TypeOK /\ cursor' = 0 /\ missed' = {}
    BY <1>3 DEF Inv, PassInv, PassIsComplete, Advance
  <2> QED
    BY <1>1, <1>3, <2>1, AdvanceFrame, NewPassStep
<1> QED
  BY <1>2, <1>3, Zenon DEF ErrInvalidCursor, ScanFails

LEMMA PassStep ==
    ASSUME Inv, [Next]_vars
    PROVE  (\A q \in Scanners : ScanInv(q)') /\ PassInv'
<1>1. CASE \E p \in Scanners : Scan(p) \/ ErrInvalidCursor(p) \/ ScanFails(p)
  BY <1>1, ReadListStep, CommitStep, AbandonStep, Zenon DEF Scan
<1>2. CASE /\ UNCHANGED <<cursor, pc, from, page, next, fresh, seen, missed>>
           /\ resident' \subseteq resident /\ resident' \subseteq bucket'
  <2>1. PassInv'
    BY <1>2 DEF Inv, PassInv, PassIsComplete
  <2>2. \A q \in Scanners : ScanInv(q)'
    BY <1>2, ScanFrame DEF Inv
  <2> QED
    BY <2>1, <2>2
<1>3. resident \subseteq bucket
  BY DEF Inv, PassInv
<1>4. ASSUME NEW k \in Keys, Environment(k)
      PROVE  /\ UNCHANGED <<cursor, pc, from, page, next, fresh, seen, missed>>
             /\ resident' \subseteq resident /\ resident' \subseteq bucket'
  BY <1>3, <1>4 DEF Environment, Protect, ProtectionEnds, Put, scanVars, passVars
<1>5. ASSUME NEW j \in Drawn,
             \/ handleObjectDelete(j) \/ DeadLetter(j)
             \/ AcknowledgeObjectCleanup(j) \/ LateAcknowledgement(j)
      PROVE  /\ UNCHANGED <<cursor, pc, from, page, next, fresh, seen, missed>>
             /\ resident' \subseteq resident /\ resident' \subseteq bucket'
  BY <1>3, <1>5 DEF handleObjectDelete, DeadLetter, AcknowledgeObjectCleanup, LateAcknowledgement,
         bucketVars, scanVars, passVars
<1>6. CASE UNCHANGED vars
  BY <1>2, <1>3, <1>6 DEF vars, bucketVars, scanVars, passVars
<1> QED
  BY <1>1, <1>2, <1>4, <1>5, <1>6, Zenon DEF Next

-----------------------------------------------------------------------------
LEMMA InvInit ==
    Init => Inv
<1> SUFFICES ASSUME Init
             PROVE  Inv
  OBVIOUS
<1>1. TypeOK
  BY ScanAssumption DEF Init, TypeOK
<1>2. RowsInv
  BY DEF Init, RowsInv, LiveObjectsAreSpared
<1>3. JobsInv
  <2>1. Drawn = {}
    BY DEF Init, Drawn
  <2> QED
    BY <2>1 DEF Init, JobsInv, ClaimsMatchJobs
<1>4. (\A p \in Scanners : ScanInv(p)) /\ PassInv
  BY DEF Init, ScanInv, PassInv, PassIsComplete
<1> QED
  BY <1>1, <1>2, <1>3, <1>4, Zenon DEF Inv

LEMMA InvStep ==
    Inv /\ [Next]_vars => Inv'
<1> SUFFICES ASSUME Inv, [Next]_vars
             PROVE  Inv'
  OBVIOUS
<1>1. TypeOK'
  BY TypedStep DEF Inv
<1> QED
  BY <1>1, RowsStep, JobsStep, PassStep, Zenon DEF Inv

(* The inductive invariant holds in every reachable state, whatever        *)
(* uploads, deletions, late acknowledgements and faults fall between the   *)
(* steps of the scanners.                                                  *)
THEOREM Invariance == Spec => []Inv
BY InvInit, InvStep, PTL DEF Spec

(* Cursors, pages, claims and jobs are well formed: a cursor is empty or a *)
(* key of the page it was returned with.                                   *)
THEOREM Typed == Spec => []TypeOK
<1>1. Inv => TypeOK
  BY DEF Inv
<1> QED
  BY <1>1, Invariance, PTL

(* No scan queues the deletion of an object a live row protects, for any   *)
(* number of scanners working from listings of any age: protectObjectTx is *)
(* judged in the transaction that queues.                                  *)
THEOREM ScansSpareLiveObjects == Spec => []LiveObjectsAreSpared
<1>1. Inv => LiveObjectsAreSpared
  BY DEF Inv, RowsInv
<1> QED
  BY <1>1, Invariance, PTL

(* A key is claimed exactly while a job for it is open: a claim outlives   *)
(* no job, and an acknowledgement that is late or comes twice frees        *)
(* nothing of a newer one (delete where object_key = ? and job_id = ?).    *)
THEOREM ClaimsAreExact == Spec => []ClaimsMatchJobs
<1>1. Inv => ClaimsMatchJobs
  BY DEF Inv, JobsInv
<1> QED
  BY <1>1, Invariance, PTL

(* Every completed pass has judged every object the bucket held from its   *)
(* beginning, for any bucket, page size and number of overlapping          *)
(* scanners: pages have no gap, and the generation fence lets no page in   *)
(* that does not join the one before.                                      *)
THEOREM PassesAreComplete == Spec => []PassIsComplete
<1>1. Inv => PassIsComplete
  BY DEF Inv, PassInv
<1> QED
  BY <1>1, Invariance, PTL
=============================================================================
