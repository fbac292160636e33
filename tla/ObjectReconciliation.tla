------------------------ MODULE ObjectReconciliation ------------------------
(***************************************************************************)
(* The recurring scan for orphaned objects.  Every reaper tick reads a     *)
(* durable cursor, lists one page of the managed prefix, and in one        *)
(* transaction advances the cursor and queues a deletion for every listed  *)
(* key no live row protects.  secrets and requests each run a copy of it   *)
(* over their own prefix; two API processes run it at once while one       *)
(* replaces the other.                                                     *)
(*                                                                         *)
(* Between the three steps uploads land, workers delete, acknowledgements  *)
(* arrive late or twice, and the process may stop.  Keys are numbers in    *)
(* listing order.  The row protecting a key is inserted before the key's   *)
(* upload form exists and protects it over one interval, never again       *)
(* (NoJobForObjectInUse of SecretDelivery and of RequestLinks).            *)
(***************************************************************************)
EXTENDS Naturals, FiniteSets, FiniteSetsExt

CONSTANTS
    Keys,       \* object keys under the managed prefix
    Scanners,   \* API processes that scan
    Limit,      \* keys a page may hold
    MaxPuts,    \* bound: uploads that reach the bucket
    MaxFaults   \* bound: failed scans, rejected cursors, dead letters

ASSUME ScanAssumption ==
    /\ Keys \subseteq Nat \ {0}
    /\ IsFiniteSet(Keys)
    /\ Limit \in Nat \ {0}
    /\ MaxPuts \in Nat /\ MaxFaults \in Nat

VARIABLES
    bucket,   \* keys the bucket holds
    row,      \* the row protecting a key: "none", then "live", then "over"
    puts,     \* uploads that reached the bucket so far
    cursor,   \* object_reconciliation_cursor.continuation_token, 0 when empty
    pc,       \* where each scanner is in ReconcileOnce
    from,     \* the cursor it read
    fresh,    \* scanners whose generation is still the stored one
    page,     \* the keys it listed
    next,     \* the cursor that listing returned
    pending,  \* object_reconciliation_pending: the claim's job, 0 without a row
    claims,   \* jobs drawn for the key so far
    jobs,     \* reconciliation jobs without a terminal receipt: <<key, job>>
    owed,     \* terminal receipts the API has not acknowledged yet
    seen,     \* history: keys judged since the pass began
    resident, \* history: keys the bucket has held ever since the pass began
    missed,   \* history: keys a completed pass has not judged
    faults    \* faults so far

bucketVars == <<bucket, row, puts>>
scanVars == <<pc, from, page, next>>
jobVars == <<pending, claims, jobs, owed>>
passVars == <<seen, resident, missed>>
vars == <<bucketVars, cursor, scanVars, fresh, jobVars, passVars, faults>>

TypeOK ==
    /\ bucket \subseteq Keys
    /\ row \in [Keys -> {"none", "live", "over"}]
    /\ puts \in 0 .. MaxPuts
    /\ cursor \in Keys \cup {0}
    /\ pc \in [Scanners -> {"idle", "read", "listed"}]
    /\ from \in [Scanners -> Keys \cup {0}]
    /\ fresh \subseteq Scanners
    /\ page \in [Scanners -> SUBSET Keys]
    /\ next \in [Scanners -> Keys \cup {0}]
    /\ \A p \in Scanners : next[p] \in page[p] \cup {0}
    /\ pending \in [Keys -> Nat]
    /\ claims \in [Keys -> Nat]
    /\ jobs \subseteq Keys \X Nat
    /\ owed \subseteq Keys \X Nat
    /\ seen \subseteq Keys
    /\ resident \subseteq Keys
    /\ missed \subseteq Keys
    /\ faults \in 0 .. MaxFaults

Init ==
    /\ bucket = {} /\ row = [k \in Keys |-> "none"] /\ puts = 0
    /\ cursor = 0
    /\ pc = [p \in Scanners |-> "idle"]
    /\ from = [p \in Scanners |-> 0]
    /\ fresh = {}
    /\ page = [p \in Scanners |-> {}]
    /\ next = [p \in Scanners |-> 0]
    /\ pending = [k \in Keys |-> 0] /\ claims = [k \in Keys |-> 0]
    /\ jobs = {} /\ owed = {}
    /\ seen = {} /\ resident = {} /\ missed = {}
    /\ faults = 0

Fault == faults < MaxFaults /\ faults' = faults + 1

-----------------------------------------------------------------------------
(* The rest of the system, as the scan meets it.                           *)
Protect(k) ==
    /\ row[k] = "none"
    /\ row' = [row EXCEPT ![k] = "live"]
    /\ UNCHANGED <<bucket, puts, cursor, scanVars, fresh, jobVars, passVars, faults>>

(* Expired, cancelled, reclaimed, or past the grace of its open.           *)
ProtectionEnds(k) ==
    /\ row[k] = "live"
    /\ row' = [row EXCEPT ![k] = "over"]
    /\ UNCHANGED <<bucket, puts, cursor, scanVars, fresh, jobVars, passVars, faults>>

(* An upload or a copy lands, perhaps long after its row is gone.          *)
Put(k) ==
    /\ row[k] # "none"
    /\ puts < MaxPuts
    /\ puts' = puts + 1
    /\ bucket' = bucket \cup {k}
    /\ UNCHANGED <<row, cursor, scanVars, fresh, jobVars, passVars, faults>>

-----------------------------------------------------------------------------
(* ReconcileOnce reads the cursor and its generation.  Only whether the    *)
(* generation has moved since matters, so it is kept as membership in      *)
(* fresh.                                                                  *)
ReadCursor(p) ==
    /\ pc[p] = "idle"
    /\ pc' = [pc EXCEPT ![p] = "read"]
    /\ from' = [from EXCEPT ![p] = cursor]
    /\ fresh' = fresh \cup {p}
    /\ UNCHANGED <<bucketVars, cursor, page, next, jobVars, passVars, faults>>

(* The first Limit keys after the cursor, and where the next page starts:  *)
(* an empty NextCursor completes the pass.                                 *)
ListedKeys(after) ==
    {k \in bucket : k > after /\ Cardinality({j \in bucket : after < j /\ j < k}) < Limit}

(* Mutant: the next page starts one key too far.                           *)
NextCursor_PastEnd(after) ==
    LET keys == ListedKeys(after)
    IN  IF \E k \in bucket : k > after /\ k \notin keys THEN Max(keys) + 1 ELSE 0

NextCursor(after) ==
    LET keys == ListedKeys(after)
    IN  IF \E k \in bucket : k > after /\ k \notin keys THEN Max(keys) ELSE 0

List(p) ==
    /\ pc[p] = "read"
    /\ pc' = [pc EXCEPT ![p] = "listed"]
    /\ page' = [page EXCEPT ![p] = ListedKeys(from[p])]
    /\ next' = [next EXCEPT ![p] = NextCursor(from[p])]
    /\ UNCHANGED <<bucketVars, cursor, from, fresh, jobVars, passVars, faults>>

(* The scanner is idle again; its reads are forgotten.                     *)
Done(p) ==
    /\ pc' = [pc EXCEPT ![p] = "idle"]
    /\ from' = [from EXCEPT ![p] = 0]
    /\ page' = [page EXCEPT ![p] = {}]
    /\ next' = [next EXCEPT ![p] = 0]

(* A new generation makes every outstanding read stale.                    *)
Advance(to) == cursor' = to /\ fresh' = {}

(* A pass begins with what the bucket holds now.                           *)
NewPass == seen' = {} /\ resident' = bucket

(* Where the pass stands once this page has been judged.                   *)
Judged(p) ==
    \/ /\ next[p] = 0
       /\ NewPass
       /\ missed' = missed \cup (resident \ (seen \cup page[p]))
    \/ /\ next[p] # 0
       /\ seen' = seen \cup page[p]
       /\ UNCHANGED <<resident, missed>>

(* The bucket no longer knows the cursor: start over, unless another       *)
(* scanner has already moved on.                                           *)
ErrInvalidCursor(p) ==
    /\ pc[p] = "read"
    /\ from[p] # 0
    /\ Fault
    /\ IF p \in fresh THEN Advance(0) /\ NewPass /\ UNCHANGED missed
                      ELSE UNCHANGED <<cursor, fresh, passVars>>
    /\ Done(p)
    /\ UNCHANGED <<bucketVars, jobVars>>

(* Mutant: no row is looked up.                                            *)
protectObjectTx_Never(k) == FALSE

(* Mutant: the deadlines of the row are not looked at.                     *)
protectObjectTx_AnyRow(k) == row[k] # "none"

protectObjectTx(k) == row[k] = "live"

(* Listed keys that get a new claim: insert or ignore leaves an existing   *)
(* one, and its job, alone.                                                *)
Claimable(p) == {k \in page[p] : ~protectObjectTx(k) /\ pending[k] = 0}

(* Claim and outbox row are of the same transaction.                       *)
Enqueue(won) ==
    /\ claims' = [k \in Keys |-> IF k \in won THEN claims[k] + 1 ELSE claims[k]]
    /\ pending' = [k \in Keys |-> IF k \in won THEN claims[k] + 1 ELSE pending[k]]
    /\ jobs' = jobs \cup {<<k, claims[k] + 1>> : k \in won}
    /\ UNCHANGED owed

(* Mutant: the page commits whatever became of the cursor meanwhile.       *)
Commit_NoFence(p) ==
    /\ pc[p] = "listed"
    /\ Advance(next[p])
    /\ Enqueue(Claimable(p))
    /\ Judged(p)
    /\ Done(p)
    /\ UNCHANGED <<bucketVars, faults>>

(* The transaction.  A page listed under an older generation changes       *)
(* nothing; the protection of each key is judged here, not when it was     *)
(* listed.                                                                 *)
Commit(p) ==
    /\ pc[p] = "listed"
    /\ \/ /\ p \in fresh
          /\ Advance(next[p])
          /\ Enqueue(Claimable(p))
          /\ Judged(p)
       \/ /\ p \notin fresh
          /\ UNCHANGED <<cursor, fresh, jobVars, passVars>>
    /\ Done(p)
    /\ UNCHANGED <<bucketVars, faults>>

(* The listing or the transaction fails, or the process stops.             *)
ScanFails(p) ==
    /\ pc[p] # "idle"
    /\ Fault
    /\ Done(p)
    /\ UNCHANGED <<bucketVars, cursor, fresh, jobVars, passVars>>

-----------------------------------------------------------------------------
(* The worker's side, as JobQueue promises it: a job deletes at least once *)
(* before its receipt is terminal, perhaps more often, or is dead-lettered *)
(* without having deleted.                                                 *)
handleObjectDelete(j) ==
    /\ j \in jobs
    /\ bucket' = bucket \ {j[1]}
    /\ resident' = resident \ {j[1]}
    /\ \/ UNCHANGED <<jobs, owed>>
       \/ jobs' = jobs \ {j} /\ owed' = owed \cup {j}
    /\ UNCHANGED <<row, puts, cursor, scanVars, fresh, pending, claims, seen, missed, faults>>

DeadLetter(j) ==
    /\ j \in jobs
    /\ Fault
    /\ jobs' = jobs \ {j} /\ owed' = owed \cup {j}
    /\ UNCHANGED <<bucketVars, cursor, scanVars, fresh, pending, claims, passVars>>

(* Mutant: the acknowledgement names the key only.                         *)
Acknowledged_AnyJob(j) == [pending EXCEPT ![j[1]] = 0]

(* delete ... where object_key = ? and job_id = ?                          *)
Acknowledged(j) == [pending EXCEPT ![j[1]] = IF @ = j[2] THEN 0 ELSE @]

AcknowledgeObjectCleanup(j) ==
    /\ j \in owed
    /\ pending' = Acknowledged(j)
    /\ owed' = owed \ {j}
    /\ UNCHANGED <<bucketVars, cursor, scanVars, fresh, claims, jobs, passVars, faults>>

(* A redelivered message acknowledges a job that ended long ago.           *)
LateAcknowledgement(j) ==
    /\ j[2] \in 1 .. claims[j[1]]
    /\ j \notin jobs \cup owed
    /\ pending' = Acknowledged(j)
    /\ UNCHANGED <<bucketVars, cursor, scanVars, fresh, claims, jobs, owed, passVars, faults>>

-----------------------------------------------------------------------------
Drawn == UNION {{k} \X (1 .. claims[k]) : k \in Keys}

Environment(k) == Protect(k) \/ ProtectionEnds(k) \/ Put(k)

Scan(p) == ReadCursor(p) \/ List(p) \/ Commit(p)

Next ==
    \/ \E k \in Keys : Environment(k)
    \/ \E p \in Scanners : Scan(p) \/ ErrInvalidCursor(p) \/ ScanFails(p)
    \/ \E j \in Drawn :
          \/ handleObjectDelete(j) \/ DeadLetter(j)
          \/ AcknowledgeObjectCleanup(j) \/ LateAcknowledgement(j)

Spec == Init /\ [][Next]_vars

(* The reaper ticks for as long as its process lives, and the cleanup      *)
(* pipeline ends every job and reports it (EveryJobEnds of                 *)
(* CleanupPipeline).  Nothing is assumed of senders or of rows.            *)
Fairness ==
    /\ \A p \in Scanners : WF_vars(Scan(p))
    /\ \A k \in Keys :
          /\ WF_vars(\E j \in Drawn : j[1] = k /\ handleObjectDelete(j) /\ j \notin jobs')
          /\ WF_vars(\E j \in Drawn : j[1] = k /\ AcknowledgeObjectCleanup(j))

FairSpec == Spec /\ Fairness

-----------------------------------------------------------------------------
(* A scan never queues the deletion of an object a live row protects,      *)
(* however old the listing it works from (protectObjectTx judged inside    *)
(* the transaction that queues).                                           *)
LiveObjectsAreSpared == \A j \in jobs : row[j[1]] = "over"

(* A key is claimed exactly while one reconciliation job for it is on its  *)
(* way or its end not yet acknowledged: no claim is left behind to block   *)
(* later scans for good (claims have no lease), and no late or repeated    *)
(* acknowledgement frees a key whose newer job is still running.           *)
ClaimsMatchJobs == {j \in Drawn : pending[j[1]] = j[2]} = jobs \cup owed

(* A pass that completes has judged every object the bucket held from its  *)
(* beginning: two scanners that overlap, and cursors that are rejected,    *)
(* cannot make the cursor skip a page (the generation fence).              *)
PassIsComplete == missed = {}

(* An object nothing protects any more leaves the bucket: abandoned        *)
(* uploads, copies that land after their row is gone, bodies whose own     *)
(* deletion job was dead-lettered.                                         *)
OrphansAreDeleted ==
    \A k \in Keys : k \in bucket /\ row[k] = "over" ~> k \notin bucket
=============================================================================
