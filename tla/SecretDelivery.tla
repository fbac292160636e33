--------------------------- MODULE SecretDelivery ---------------------------
(***************************************************************************)
(* The delivery store of the API process: the secrets, secret_payloads and *)
(* secret_management tables of api.db, the handlers that create, finalize, *)
(* open and revoke a delivery, the reaper's expiry sweep, the deletion     *)
(* jobs they commit with their changes, and the ActiveUploads gauge.       *)
(*                                                                         *)
(* api.db is opened with one connection, so transactions exclude each      *)
(* other.  A transaction that does no network I/O is one action.  Finalize *)
(* and the open of an S3 body hold the connection across a call to the     *)
(* bucket: each is a Begin and a Commit action, and while it is between    *)
(* them no other transaction runs but time passes, the bucket changes and  *)
(* the process may stop.                                                   *)
(***************************************************************************)
EXTENDS Integers, FiniteSets

CONSTANTS
    Secrets,          \* identifiers generateID may draw; none is drawn twice
    Inline,           \* those that may be created with an inline payload
    Large,            \* those that may be created with an object to upload
    TTLs,             \* content lifetimes a sender may choose
    PendingTTL,       \* how long an upload may wait for /finalize
    StreamTimeout,    \* OpenStreamTimeout
    OpenObjectGrace,  \* openObjectGrace
    MaxFailedAccess,  \* maxFailedAccessAttempts
    BatchSize,        \* rows one sweep claims
    CreateLag,        \* bound: longest wait of an insert for the connection
    MaxPuts,          \* bound: uploads that reach one object key
    LastCreate,       \* bound: no delivery is created after this instant
    MaxTime           \* bound: the last instant of the clock

ASSUME ConstantsAssumption ==
    /\ IsFiniteSet(Secrets)
    /\ Inline \subseteq Secrets /\ Large \subseteq Secrets
    /\ TTLs \subseteq Nat \ {0}
    /\ PendingTTL \in Nat \ {0}
    /\ MaxFailedAccess \in Nat \ {0}
    /\ BatchSize \in Nat \ {0}
    /\ CreateLag \in Nat /\ MaxPuts \in Nat
    /\ LastCreate \in Nat /\ MaxTime \in Nat

(* openObjectGrace is OpenStreamTimeout plus five minutes.                 *)
ASSUME GraceAssumption ==
    /\ StreamTimeout \in Nat
    /\ OpenObjectGrace \in Nat
    /\ StreamTimeout < OpenObjectGrace

VARIABLES
    now,        \* the clock every handler reads
    row,        \* secrets.state, "none" when there is no row
    backend,    \* secrets.storage_backend
    proof,      \* whether the row carries an access proof (Model A)
    created,    \* secrets.created_at, Null before the id is drawn
    expires,    \* secrets.expires_at and secret_management.expires_at
    consumed,   \* secrets.consumed_at
    failed,     \* secrets.failed_access_count
    payload,    \* ids with a secret_payloads row
    mgmt,       \* secret_management.outcome: "none" no record, "unset" NULL
    object,     \* what the bucket holds under managed/secrets/<id>
    puts,       \* uploads that reached the key so far
    cleanupJobs,\* delete_secret jobs in the outbox or on their way
    objectJobs, \* delete_oci_object jobs, with the step that queued them
    finalizing, \* the Finalize transaction holding the connection, if any
    opening,    \* the open transaction holding the connection, if any
    stream,     \* the body an open handler is sending
    reaperNow,  \* the instant a sweep read before waiting for the connection
    gauge,      \* telemetry.ActiveUploads
    incDue,     \* committed creates that have not yet incremented the gauge
    decDue,     \* committed transitions that have not yet decremented it
    released    \* history: how often the ciphertext was handed out

tables == <<row, payload, mgmt>>
insertVars == <<backend, proof, created, expires>>
accessVars == <<consumed, failed, released>>
bucketVars == <<object, puts>>
jobVars == <<cleanupJobs, objectJobs>>
gaugeVars == <<gauge, incDue, decDue>>
vars == <<now, tables, insertVars, accessVars, bucketVars, jobVars,
          finalizing, opening, stream, reaperNow, gaugeVars>>

Null == -1
States == {"pending_upload", "active"}
Outcomes == {"opened", "locked", "cancelled", "unavailable"}
Causes == {"lock", "revoke", "reap", "streamed", "orphan"}

TypeOK ==
    /\ now \in Nat
    /\ row \in [Secrets -> States \cup {"none"}]
    /\ backend \in [Secrets -> {"sqlite_blob", "s3_object"}]
    /\ proof \in [Secrets -> BOOLEAN]
    /\ created \in [Secrets -> Nat \cup {Null}]
    /\ expires \in [Secrets -> Nat]
    /\ consumed \in [Secrets -> Nat \cup {Null}]
    /\ failed \in [Secrets -> 0 .. MaxFailedAccess]
    /\ payload \subseteq Secrets
    /\ mgmt \in [Secrets -> Outcomes \cup {"none", "unset"}]
    /\ object \in [Secrets -> {"absent", "short", "whole"}]
    /\ puts \in [Secrets -> 0 .. MaxPuts]
    /\ cleanupJobs \subseteq Secrets
    /\ objectJobs \subseteq Secrets \X Causes
    /\ finalizing \subseteq Secrets
    /\ opening \subseteq Secrets
    /\ stream \in [Secrets -> {"none", "sending", "ended"}]
    /\ reaperNow \in Nat \cup {Null}
    /\ gauge \in Int /\ incDue \in Nat /\ decDue \in Nat
    /\ released \in [Secrets -> Nat]

Init ==
    /\ now = 0
    /\ row = [s \in Secrets |-> "none"]
    /\ backend = [s \in Secrets |-> "sqlite_blob"]
    /\ proof = [s \in Secrets |-> FALSE]
    /\ created = [s \in Secrets |-> Null]
    /\ expires = [s \in Secrets |-> 0]
    /\ consumed = [s \in Secrets |-> Null]
    /\ failed = [s \in Secrets |-> 0]
    /\ payload = {}
    /\ mgmt = [s \in Secrets |-> "none"]
    /\ object = [s \in Secrets |-> "absent"]
    /\ puts = [s \in Secrets |-> 0]
    /\ cleanupJobs = {} /\ objectJobs = {}
    /\ finalizing = {} /\ opening = {}
    /\ stream = [s \in Secrets |-> "none"]
    /\ reaperNow = Null
    /\ gauge = 0 /\ incDue = 0 /\ decDue = 0
    /\ released = [s \in Secrets |-> 0]

-----------------------------------------------------------------------------
(* SetMaxOpenConns(1): the connection is free when no transaction that     *)
(* waits for the bucket holds it.                                          *)
DbFree == finalizing = {} /\ opening = {}

Earlier(a, b) == IF a < b THEN a ELSE b

(* The instant Finalize refuses an upload: the earlier of content expiry   *)
(* and the pending window.                                                 *)
UploadDeadline(s) == Earlier(expires[s], created[s] + PendingTTL)

PendingRows == {s \in Secrets : row[s] = "pending_upload"}

(* The outcome column is written once: update ... where outcome is null.   *)
recordManagementOutcomeTx(m, outcome) == IF m = "unset" THEN outcome ELSE m

createManagementTx(s) == mgmt' = [mgmt EXCEPT ![s] = "unset"]

-----------------------------------------------------------------------------
(* Creating.  created_at is read before the insert waits for the           *)
(* connection, so the row may be up to CreateLag old when it commits.      *)
Insert(s, b, state) ==
    /\ DbFree
    /\ created[s] = Null
    /\ now <= LastCreate
    /\ \E at \in {t \in now - CreateLag .. now : t >= 0}, ttl \in TTLs, a \in BOOLEAN :
          /\ created' = [created EXCEPT ![s] = at]
          /\ expires' = [expires EXCEPT ![s] = at + ttl]
          /\ proof' = [proof EXCEPT ![s] = a]
    /\ row' = [row EXCEPT ![s] = state]
    /\ backend' = [backend EXCEPT ![s] = b]
    /\ createManagementTx(s)
    /\ UNCHANGED <<now, accessVars, bucketVars, jobVars, finalizing, opening,
                   stream, reaperNow, gauge, decDue>>

(* Row, inline payload and management record commit together.              *)
Create(s) ==
    /\ s \in Inline
    /\ Insert(s, "sqlite_blob", "active")
    /\ payload' = payload \cup {s}
    /\ UNCHANGED incDue

(* The upload form is presigned before the insert and returned after it;   *)
(* the gauge is incremented once the commit has returned.                  *)
CreateLarge(s) ==
    /\ s \in Large
    /\ Insert(s, "s3_object", "pending_upload")
    /\ incDue' = incDue + 1
    /\ UNCHANGED payload

GaugeInc ==
    /\ incDue > 0
    /\ gauge' = gauge + 1
    /\ incDue' = incDue - 1
    /\ UNCHANGED <<now, tables, insertVars, accessVars, bucketVars, jobVars,
                   finalizing, opening, stream, reaperNow, decDue>>

GaugeDec ==
    /\ decDue > 0
    /\ gauge' = gauge - 1
    /\ decDue' = decDue - 1
    /\ UNCHANGED <<now, tables, insertVars, accessVars, bucketVars, jobVars,
                   finalizing, opening, stream, reaperNow, incDue>>

(* The sender holds an upload form once the row has committed.  The bucket *)
(* may store a body of another length, store it late, or be written twice. *)
PresignedPut(s) ==
    /\ created[s] # Null
    /\ backend[s] = "s3_object"
    /\ puts[s] < MaxPuts
    /\ \E body \in {"short", "whole"} : object' = [object EXCEPT ![s] = body]
    /\ puts' = [puts EXCEPT ![s] = @ + 1]
    /\ UNCHANGED <<now, tables, insertVars, accessVars, jobVars, finalizing,
                   opening, stream, reaperNow, gaugeVars>>

-----------------------------------------------------------------------------
(* Finalizing.  The first check and the HEAD run with the connection held; *)
(* every early return leaves the tables as they were.                      *)
FinalizeBegin(s) ==
    /\ DbFree
    /\ row[s] = "pending_upload"
    /\ now < UploadDeadline(s)
    /\ object[s] = "whole"
    /\ finalizing' = {s}
    /\ UNCHANGED <<now, tables, insertVars, accessVars, bucketVars, jobVars,
                   opening, stream, reaperNow, gaugeVars>>

activateSecretTx(s) ==
    /\ row[s] = "pending_upload"
    /\ row' = [row EXCEPT ![s] = "active"]

(* Mutant: the deadline is not read again after the HEAD.                  *)
FinalizeCommit_NoRecheck(s) ==
    /\ s \in finalizing
    /\ activateSecretTx(s)
    /\ finalizing' = {}
    /\ decDue' = decDue + 1
    /\ UNCHANGED <<now, payload, mgmt, insertVars, accessVars, bucketVars, jobVars,
                   opening, stream, reaperNow, gauge, incDue>>

(* Mutant: the gauge is not decremented after activation.                  *)
FinalizeCommit_NoDec(s) ==
    /\ s \in finalizing
    /\ now < UploadDeadline(s)
    /\ activateSecretTx(s)
    /\ finalizing' = {}
    /\ UNCHANGED <<now, payload, mgmt, insertVars, accessVars, bucketVars, jobVars,
                   opening, stream, reaperNow, gaugeVars>>

(* The deadline is checked again after the HEAD.                           *)
FinalizeCommit(s) ==
    /\ s \in finalizing
    /\ now < UploadDeadline(s)
    /\ activateSecretTx(s)
    /\ finalizing' = {}
    /\ decDue' = decDue + 1
    /\ UNCHANGED <<now, payload, mgmt, insertVars, accessVars, bucketVars, jobVars,
                   opening, stream, reaperNow, gauge, incDue>>

(* The bucket call failed, a deadline passed or the caller went away: the  *)
(* deferred rollback releases the connection.                              *)
TxRollback ==
    /\ ~DbFree
    /\ finalizing' = {} /\ opening' = {}
    /\ UNCHANGED <<now, tables, insertVars, accessVars, bucketVars, jobVars,
                   stream, reaperNow, gaugeVars>>

-----------------------------------------------------------------------------
(* Opening.  load finds active rows only, and an inline row that lost its  *)
(* payload counts as missing.                                              *)
load(s) ==
    /\ row[s] = "active"
    /\ backend[s] = "s3_object" \/ s \in payload

Openable(s) == load(s) /\ consumed[s] = Null /\ now < expires[s]

(* The body must be served whole before the row is marked consumed.        *)
openBody(s) == object[s] = "whole"

(* Mutant: the open does not record its outcome.                           *)
consume_NoOutcome(s) ==
    /\ consumed[s] = Null
    /\ consumed' = [consumed EXCEPT ![s] = now]
    /\ cleanupJobs' = cleanupJobs \cup {s}
    /\ released' = [released EXCEPT ![s] = @ + 1]
    /\ UNCHANGED mgmt

(* consumed_at, the sender's outcome and the delete_secret job commit      *)
(* together; only then is the ciphertext handed to the caller.             *)
consume(s) ==
    /\ consumed[s] = Null
    /\ consumed' = [consumed EXCEPT ![s] = now]
    /\ mgmt' = [mgmt EXCEPT ![s] = recordManagementOutcomeTx(@, "opened")]
    /\ cleanupJobs' = cleanupJobs \cup {s}
    /\ released' = [released EXCEPT ![s] = @ + 1]

(* An open of an inline payload touches no bucket: one transaction.        *)
OpenInline(s) ==
    /\ DbFree
    /\ Openable(s)
    /\ backend[s] = "sqlite_blob"
    /\ consume(s)
    /\ UNCHANGED <<now, row, payload, insertVars, failed, bucketVars, objectJobs,
                   finalizing, opening, stream, reaperNow, gaugeVars>>

OpenBegin(s) ==
    /\ DbFree
    /\ Openable(s)
    /\ backend[s] = "s3_object"
    /\ openBody(s)
    /\ opening' = {s}
    /\ UNCHANGED <<now, tables, insertVars, accessVars, bucketVars, jobVars,
                   finalizing, stream, reaperNow, gaugeVars>>

(* Mutant: the object's deletion is queued with the open, not at its end.  *)
OpenCommit_DeletesAtOnce(s) ==
    /\ s \in opening
    /\ now < expires[s]
    /\ consume(s)
    /\ opening' = {}
    /\ stream' = [stream EXCEPT ![s] = "sending"]
    /\ objectJobs' = objectJobs \cup {<<s, "streamed">>}
    /\ UNCHANGED <<now, row, payload, insertVars, failed, bucketVars, finalizing,
                   reaperNow, gaugeVars>>

(* Expiry is checked again once the bucket has answered.                   *)
OpenCommit(s) ==
    /\ s \in opening
    /\ now < expires[s]
    /\ consume(s)
    /\ opening' = {}
    /\ stream' = [stream EXCEPT ![s] = "sending"]
    /\ UNCHANGED <<now, row, payload, insertVars, failed, bucketVars, objectJobs,
                   finalizing, reaperNow, gaugeVars>>

(* Mutant: the lock comes one attempt late.                                *)
recordFailedAccessTx_Late(s) ==
    LET locked == failed[s] + 1 > MaxFailedAccess
    IN  /\ failed' = [failed EXCEPT ![s] = @ + 1]
        /\ consumed' = IF locked THEN [consumed EXCEPT ![s] = now] ELSE consumed
        /\ UNCHANGED <<mgmt, payload, objectJobs>>

(* A wrong proof.  The attempt that reaches the limit consumes the row,    *)
(* records the lock, and removes the payload or queues the object's        *)
(* deletion in the same transaction.                                       *)
recordFailedAccessTx(s) ==
    LET locked == failed[s] + 1 >= MaxFailedAccess
        inline == backend[s] # "s3_object"
    IN  /\ failed' = [failed EXCEPT ![s] = @ + 1]
        /\ consumed' = IF locked THEN [consumed EXCEPT ![s] = now] ELSE consumed
        /\ mgmt' = IF locked
                      THEN [mgmt EXCEPT ![s] = recordManagementOutcomeTx(@, "locked")]
                      ELSE mgmt
        /\ payload' = IF locked /\ inline THEN payload \ {s} ELSE payload
        /\ objectJobs' = IF locked /\ ~inline THEN objectJobs \cup {<<s, "lock">>}
                                               ELSE objectJobs

OpenWithWrongProof(s) ==
    /\ DbFree
    /\ Openable(s)
    /\ proof[s]
    /\ recordFailedAccessTx(s)
    /\ UNCHANGED <<now, row, insertVars, released, bucketVars, cleanupJobs,
                   finalizing, opening, stream, reaperNow, gaugeVars>>

(* The copy to the recipient stops: completed, failed, or cut by the       *)
(* stream deadline.                                                        *)
StreamEnd(s) ==
    /\ stream[s] = "sending"
    /\ stream' = [stream EXCEPT ![s] = "ended"]
    /\ UNCHANGED <<now, tables, insertVars, accessVars, bucketVars, jobVars,
                   finalizing, opening, reaperNow, gaugeVars>>

(* Best effort: a failed enqueue is dropped.                               *)
enqueueOpenedObjectCleanup(s) ==
    /\ stream[s] = "ended"
    /\ stream' = [stream EXCEPT ![s] = "none"]
    /\ \/ DbFree /\ objectJobs' = objectJobs \cup {<<s, "streamed">>}
       \/ UNCHANGED objectJobs
    /\ UNCHANGED <<now, tables, insertVars, accessVars, bucketVars, cleanupJobs,
                   finalizing, opening, reaperNow, gaugeVars>>

-----------------------------------------------------------------------------
(* What an authenticated management read answers.                          *)
management(s) ==
    IF mgmt[s] = "none" \/ now >= expires[s] THEN "ErrManagementUnavailable"
    ELSE IF mgmt[s] # "unset" THEN mgmt[s]
    ELSE IF row[s] = "none" THEN "management outcome missing"
    ELSE IF row[s] = "pending_upload" /\ now >= created[s] + PendingTTL THEN "unavailable"
    ELSE row[s]

CanCancel(s) == management(s) \in States

(* One transaction without network I/O.  The second status read is the     *)
(* one that decides: time only moves on between the two.                   *)
Revoke(s) ==
    /\ DbFree
    /\ CanCancel(s)
    /\ consumed[s] = Null
    /\ row[s] \in States
    /\ row' = [row EXCEPT ![s] = "none"]
    /\ payload' = payload \ {s}
    /\ mgmt' = [mgmt EXCEPT ![s] = recordManagementOutcomeTx(@, "cancelled")]
    /\ objectJobs' = IF backend[s] = "s3_object" THEN objectJobs \cup {<<s, "revoke">>}
                                                 ELSE objectJobs
    /\ decDue' = IF row[s] = "pending_upload" THEN decDue + 1 ELSE decDue
    /\ UNCHANGED <<now, insertVars, accessVars, bucketVars, cleanupJobs, finalizing,
                   opening, stream, reaperNow, gauge, incDue>>

-----------------------------------------------------------------------------
(* The expiry sweep.  It reads the clock, then waits for the connection.   *)
SweepBegin ==
    /\ reaperNow = Null
    /\ reaperNow' = now
    /\ UNCHANGED <<now, tables, insertVars, accessVars, bucketVars, jobVars,
                   finalizing, opening, stream, gaugeVars>>

(* Rows claimReclaimableSQL selects at the sweep's instant.                *)
claimReclaimable(s) ==
    /\ row[s] # "none"
    /\ consumed[s] = Null
    /\ \/ expires[s] <= reaperNow
       \/ row[s] = "pending_upload" /\ created[s] <= reaperNow - PendingTTL

(* "reclaimable since", the order in which rows compete for a batch.       *)
ReclaimableSince(s) ==
    IF row[s] = "active" THEN expires[s] ELSE UploadDeadline(s)

(* Mutant: the grace of a consumed S3 row never ends.                      *)
purgeable_NotConsumed(s) ==
    /\ mgmt[s] # "none"
    /\ expires[s] <= reaperNow
    /\ ~(row[s] # "none" /\ backend[s] = "s3_object" /\ consumed[s] # Null)

(* Management records purgeManagementTx selects: expired, and not the      *)
(* record of an S3 body that may still be streaming, which waits for a     *)
(* later sweep (PurgeSkipsNoConsumedRow).                                  *)
purgeable(s) ==
    /\ mgmt[s] # "none"
    /\ expires[s] <= reaperNow
    /\ ~ /\ row[s] # "none"
         /\ backend[s] = "s3_object"
         /\ consumed[s] # Null
         /\ consumed[s] > reaperNow - OpenObjectGrace

(* order by ... limit BatchSize, ties in any order.                        *)
FirstBatch(batch, all, since) ==
    /\ batch \subseteq all
    /\ Cardinality(batch) = Earlier(BatchSize, Cardinality(all))
    /\ \A b \in batch, a \in all \ batch : since[b] <= since[a]

(* Mutant: a reclaimed upload records no outcome.                          *)
reclaimRow_Silent(s) == mgmt[s]

(* What reclaimRow leaves in the outcome column: an upload that was never  *)
(* finalized is unavailable, an expired delivery records nothing.          *)
reclaimRow(s) ==
    IF row[s] = "pending_upload" THEN recordManagementOutcomeTx(mgmt[s], "unavailable")
                                 ELSE mgmt[s]

(* Claim, row deletion, object jobs and the purge are one transaction.     *)
claimExpired ==
    /\ DbFree
    /\ reaperNow # Null
    /\ \E batch, purge \in SUBSET Secrets :
          LET dropped == batch \cup {s \in purge : consumed[s] # Null}
          IN  /\ FirstBatch(batch, {s \in Secrets : claimReclaimable(s)},
                            [s \in Secrets |-> ReclaimableSince(s)])
              /\ FirstBatch(purge, {s \in Secrets : purgeable(s)}, expires)
              /\ row' = [s \in Secrets |-> IF s \in dropped THEN "none" ELSE row[s]]
              /\ payload' = payload \ dropped
              /\ mgmt' = [s \in Secrets |-> IF s \in purge THEN "none"
                                             ELSE IF s \in batch THEN reclaimRow(s)
                                             ELSE mgmt[s]]
              /\ objectJobs' = objectJobs \cup
                     {<<s, "reap">> : s \in {b \in batch : backend[b] = "s3_object"}}
              /\ decDue' = decDue + Cardinality(batch \cap PendingRows)
    /\ reaperNow' = Null
    /\ UNCHANGED <<now, insertVars, accessVars, bucketVars, cleanupJobs, finalizing,
                   opening, stream, gauge, incDue>>

(* A failed sweep rolls back; the next tick retries.                       *)
SweepFail ==
    /\ reaperNow # Null
    /\ reaperNow' = Null
    /\ UNCHANGED <<now, tables, insertVars, accessVars, bucketVars, jobVars,
                   finalizing, opening, stream, gaugeVars>>

(* Whether a row still vouches for the object under its key.               *)
protectObjectTx(s) ==
    /\ row[s] # "none"
    /\ backend[s] = "s3_object"
    /\ IF consumed[s] # Null THEN now < consumed[s] + OpenObjectGrace
       ELSE now < expires[s] /\ (row[s] = "pending_upload" => now < created[s] + PendingTTL)

(* The scan of the bucket (ObjectReconciliation) reaches a key nothing     *)
(* protects.                                                               *)
ReconcileOnce(s) ==
    /\ DbFree
    /\ object[s] # "absent"
    /\ ~protectObjectTx(s)
    /\ objectJobs' = objectJobs \cup {<<s, "orphan">>}
    /\ UNCHANGED <<now, tables, insertVars, accessVars, bucketVars, cleanupJobs,
                   finalizing, opening, stream, reaperNow, gaugeVars>>

-----------------------------------------------------------------------------
(* The worker's side, as the API sees it: a job runs at least once, maybe  *)
(* again before its receipt is terminal, or ends in the dead letters.      *)
Cleanup(s) ==
    /\ s \in cleanupJobs
    /\ DbFree
    /\ payload' = payload \ {s}
    /\ cleanupJobs' \in {cleanupJobs, cleanupJobs \ {s}}
    /\ UNCHANGED <<now, row, mgmt, insertVars, accessVars, bucketVars, objectJobs,
                   finalizing, opening, stream, reaperNow, gaugeVars>>

handleObjectDelete(j) ==
    /\ j \in objectJobs
    /\ object' = [object EXCEPT ![j[1]] = "absent"]
    /\ objectJobs' \in {objectJobs, objectJobs \ {j}}
    /\ UNCHANGED <<now, tables, insertVars, accessVars, puts, cleanupJobs, finalizing,
                   opening, stream, reaperNow, gaugeVars>>

DeadLetter ==
    /\ \/ \E s \in cleanupJobs : cleanupJobs' = cleanupJobs \ {s} /\ UNCHANGED objectJobs
       \/ \E j \in objectJobs : objectJobs' = objectJobs \ {j} /\ UNCHANGED cleanupJobs
    /\ UNCHANGED <<now, tables, insertVars, accessVars, bucketVars, finalizing,
                   opening, stream, reaperNow, gaugeVars>>

-----------------------------------------------------------------------------
(* The API process stops and starts: the open transaction rolls back,      *)
(* streams are cut without their cleanup job, and main seeds the gauge     *)
(* from CountPendingUploads before any handler runs.                       *)
CountPendingUploads == Cardinality(PendingRows)

Restart ==
    /\ finalizing' = {} /\ opening' = {}
    /\ stream' = [s \in Secrets |-> "none"]
    /\ reaperNow' = Null
    /\ gauge' = CountPendingUploads
    /\ incDue' = 0 /\ decDue' = 0
    /\ UNCHANGED <<now, tables, insertVars, accessVars, bucketVars, jobVars>>

(* Time passes, but not beyond the deadline of a body still being sent.    *)
(* That deadline runs from the handler's start, so consumed_at plus        *)
(* StreamTimeout is the latest it can be.                                  *)
Tick ==
    /\ now < MaxTime
    /\ \A s \in Secrets : stream[s] = "sending" => now < consumed[s] + StreamTimeout
    /\ now' = now + 1
    /\ UNCHANGED <<tables, insertVars, accessVars, bucketVars, jobVars, finalizing,
                   opening, stream, reaperNow, gaugeVars>>

TxEnd == TxRollback \/ \E s \in Secrets : FinalizeCommit(s) \/ OpenCommit(s)

Next ==
    \/ \E s \in Secrets :
          \/ Create(s) \/ CreateLarge(s) \/ PresignedPut(s)
          \/ FinalizeBegin(s) \/ FinalizeCommit(s)
          \/ OpenInline(s) \/ OpenBegin(s) \/ OpenCommit(s) \/ OpenWithWrongProof(s)
          \/ StreamEnd(s) \/ enqueueOpenedObjectCleanup(s)
          \/ Revoke(s) \/ ReconcileOnce(s) \/ Cleanup(s)
    \/ \E j \in objectJobs : handleObjectDelete(j)
    \/ TxRollback \/ GaugeInc \/ GaugeDec
    \/ SweepBegin \/ claimExpired \/ SweepFail
    \/ DeadLetter \/ Restart \/ Tick

Spec == Init /\ [][Next]_vars

(* Why progress is owed: the clock moves, RunReaper ticks for as long as   *)
(* the process lives and its wait for the connection is first come first   *)
(* served, a transaction ends because its context does, and a stream ends  *)
(* at its deadline.  The scan of the bucket comes round, and a deletion it *)
(* queues again and again is not dead-lettered every time.                 *)
Fairness ==
    /\ WF_vars(Tick)
    /\ WF_vars(SweepBegin) /\ SF_vars(claimExpired)
    /\ WF_vars(TxEnd)
    /\ \A s \in Large :
          /\ WF_vars(StreamEnd(s))
          /\ WF_vars(ReconcileOnce(s))
          /\ SF_vars(handleObjectDelete(<<s, "orphan">>))

FairSpec == Spec /\ Fairness

-----------------------------------------------------------------------------
(* Where a delivery stands: the recorded outcome, else what its row and    *)
(* the clock say.                                                          *)
Phase(s) ==
    IF created[s] = Null THEN "none"
    ELSE IF mgmt[s] = "none" THEN "gone"
    ELSE IF mgmt[s] # "unset" THEN mgmt[s]
    ELSE IF row[s] = "pending_upload"
         THEN IF now < UploadDeadline(s) THEN "pending_upload" ELSE "unavailable"
    ELSE IF now >= expires[s] THEN "expired"
    ELSE IF row[s] = "active" THEN "active" ELSE "lost"

Delivery == INSTANCE OneTimeDelivery WITH phase <- [s \in Secrets |-> Phase(s)]

(* The store implements the one-time delivery contract: whatever the       *)
(* interleaving of opens, wrong proofs, revocations, finalizations, sweeps *)
(* and restarts, a delivery takes exactly one terminal transition and its  *)
(* ciphertext leaves in the opening transition only.                       *)
ImplementsOneTimeDelivery == Delivery!Spec

(* The outcome the sender reads is what happened to the ciphertext: it was *)
(* handed out at most once, exactly when the record says opened, and never *)
(* after a lock, a cancellation or a reclaimed upload; and a delivery that *)
(* ended without being opened keeps no inline payload (OpenTx,             *)
(* recordFailedAccessTx, Revoke and reclaimRow racing for one row).        *)
OutcomeIsTruthful ==
    \A s \in Secrets :
        /\ released[s] <= 1
        /\ mgmt[s] = "opened" => released[s] = 1
        /\ released[s] = 1 => mgmt[s] \in {"opened", "none"}
        /\ s \in payload => row[s] = "active" /\ mgmt[s] \in {"unset", "opened", "none"}

(* Until content expiry a management read answers with a status: no sweep  *)
(* removes the record or leaves it without both an outcome and a row (the  *)
(* "management outcome missing" error of management()).                    *)
SenderCanAskUntilExpiry ==
    \A s \in Secrets :
        created[s] # Null /\ now < expires[s] => management(s) \in States \cup Outcomes

(* No deletion job exists for the object of a delivery that can still be   *)
(* finalized or opened, nor for one whose body is being sent: lock,        *)
(* revocation, sweep and stream end queue it with the step that ends the   *)
(* delivery, and the scan for orphans never mistakes an upload in progress *)
(* or an open body for one (protectObjectTx, openObjectGrace).             *)
NoJobForObjectInUse ==
    \A j \in objectJobs :
        /\ Phase(j[1]) \notin {"pending_upload", "active"}
        /\ stream[j[1]] # "sending"

(* ActiveUploads counts the pending_upload rows, up to the handlers that   *)
(* have committed and not yet touched it: every transition out of pending  *)
(* is paid for once (Finalize, Revoke, claimExpired, and the boot seed).   *)
GaugeBalanced == gauge + incDue - decDue = CountPendingUploads

(* Every delivery is eventually forgotten altogether, and for good: row,   *)
(* payload and management record go once expiry and the grace of an open   *)
(* body have passed, with sweeps that take a bounded batch, and its object *)
(* is deleted, although the job queued at the end of a stream may be       *)
(* dropped, any job may be dead-lettered, the process may stop and an      *)
(* upload may arrive after the row has gone.                               *)
EventuallyForgotten ==
    \A s \in Secrets :
        created[s] # Null ~> [](/\ row[s] = "none" /\ mgmt[s] = "none"
                                /\ s \notin payload /\ object[s] = "absent")

(* The contract of management records says of the purge of expired ones    *)
(* "even when `consumed_at` is set.  No consumed-row exclusion may skip    *)
(* this purge.": a sweep that commits leaves an expired record only when   *)
(* its batch was full (purgeManagementTx).                                 *)
PurgeSkipsNoConsumedRow ==
    [][claimExpired =>
          LET purged == {s \in Secrets : mgmt[s] # "none" /\ mgmt'[s] = "none"}
          IN  \/ Cardinality(purged) = BatchSize
              \/ \A s \in Secrets : expires[s] <= reaperNow => mgmt'[s] = "none"]_vars
=============================================================================
