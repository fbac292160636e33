---------------------------- MODULE RequestLinks ----------------------------
(***************************************************************************)
(* Request links: the requests and request_payloads tables of api.db, the  *)
(* handlers of both capabilities, the coalesced finalize of a large upload *)
(* with its copy to the server-only key, the open that streams a body, the *)
(* purge in the reaper's transaction, and the objects they leave behind.   *)
(*                                                                         *)
(* A transaction without network I/O is one action.  Object I/O never      *)
(* holds the database: between the steps of a finalize or an open any      *)
(* other transaction may commit, time passes and the process may stop.     *)
(* A reservation draws fresh object keys and ends with its generation, so  *)
(* a key is named by request, generation and side.                         *)
(***************************************************************************)
EXTENDS Integers, FiniteSets, TLC

CONSTANTS
    Requests,        \* ids Create may draw; none is drawn twice
    Tokens,          \* attempt tokens submitters draw
    Bodies,          \* age files
    None,            \* no attempt, no body, no object
    Finalizers,      \* handlers that may be inside Finalize at once
    Openers,         \* handlers that may be inside Open at once
    NoCall,          \* no finalize in flight
    TTL,             \* lifetime of a request
    ReservationTTL,  \* lifetime of a reservation
    MaxGeneration,   \* MaxGeneration
    MaxCopies,       \* maxCopies
    StreamTimeout,   \* OpenStreamTimeout
    OpenObjectGrace, \* openObjectGrace
    BatchSize,       \* rows of each kind one purge takes
    MaxPuts,         \* bound: uploads that reach the bucket
    LastCreate,      \* bound: the last instant a request is created
    MaxTime          \* bound: the last instant of the clock

Attempt == [token : Tokens, large : BOOLEAN, body : Bodies]
Submission == [gen : 1 .. MaxGeneration, token : Tokens, body : Bodies]

ASSUME RequestAssumption ==
    /\ None \notin Bodies \cup Attempt \cup Submission
    /\ IsFiniteSet(Requests) /\ NoCall \notin Finalizers
    /\ TTL \in Nat \ {0} /\ ReservationTTL \in Nat \ {0}
    /\ MaxGeneration \in Nat \ {0} /\ MaxCopies \in Nat \ {0} /\ BatchSize \in Nat \ {0}
    /\ StreamTimeout \in Nat /\ OpenObjectGrace \in Nat /\ StreamTimeout < OpenObjectGrace
    /\ MaxPuts \in Nat /\ LastCreate \in Nat /\ MaxTime \in Nat

VARIABLES
    now,        \* the clock every handler reads
    req,        \* the requests row with its request_payloads row
    bucket,     \* what the bucket holds under each key
    forms,      \* reservations whose upload form was handed out
    puts,       \* uploads that reached the bucket so far
    jobs,       \* keys a delete_oci_object job was ever queued for
    fin,        \* each finalize handler
    finalizing, \* Store.finalizing: the handler copying for a request
    opn,        \* each open handler
    reaperNow,  \* the instant a sweep read before waiting for the connection
    told,       \* history: attempts answered "submitted" or "accepted"
    accepted,   \* history: the submission that was accepted
    released    \* history: the body an open handed out

objectVars == <<bucket, forms, puts>>
handlerVars == <<fin, finalizing, opn, reaperNow>>
history == <<told, accepted, released>>
vars == <<now, req, objectVars, jobs, handlerVars, history>>

Null == -1
States == {"waiting", "uploading", "submitted", "consumed", "cancelled", "unavailable"}
Keys == Requests \X (1 .. MaxGeneration) \X {"upload", "final"}

NoRow == [state |-> "none", expires |-> Null, gen |-> 1, attempt |-> None,
          payload |-> None, large |-> FALSE, uploadKey |-> 0, finalKey |-> 0,
          reservation |-> Null, consumedAt |-> Null]

IdleCall == [at |-> "idle", id |-> None, gen |-> 0, token |-> None, body |-> None,
             copy |-> None, lead |-> NoCall]

IdleOpen == [at |-> "idle", id |-> None, key |-> 0, body |-> None]

TypeOK ==
    /\ now \in 0 .. MaxTime
    /\ \A r \in Requests :
          /\ req[r].state \in States \cup {"none"}
          /\ req[r].gen \in 1 .. MaxGeneration
          /\ req[r].attempt \in Attempt \cup {None}
          /\ req[r].payload \in Bodies \cup {None}
          /\ req[r].large \in BOOLEAN
          /\ {req[r].uploadKey, req[r].finalKey} \subseteq 0 .. MaxGeneration
          /\ {req[r].expires, req[r].reservation, req[r].consumedAt} \subseteq Int
          /\ req[r].state = "uploading" =>
                 req[r].attempt # None /\ 0 \notin {req[r].uploadKey, req[r].finalKey}
          /\ req[r].state = "submitted" =>
                 req[r].attempt # None /\ (req[r].large => req[r].finalKey # 0)
    /\ bucket \in [Keys -> Bodies \cup {None}]
    /\ forms \subseteq Requests \X (1 .. MaxGeneration)
    /\ puts \in 0 .. MaxPuts
    /\ jobs \subseteq Keys
    /\ \A f \in Finalizers : fin[f].at \in {"idle", "checked", "waiting", "queued", "copying",
                                            "copied", "succeeded", "failed"}
    /\ finalizing \in [Requests -> Finalizers \cup {NoCall}]
    /\ \A o \in Openers : opn[o].at \in {"idle", "checked", "opened", "streaming", "ended"}
    /\ reaperNow \in 0 .. MaxTime \cup {Null}
    /\ told \in [Requests -> SUBSET ((1 .. MaxGeneration) \X Tokens)]
    /\ accepted \in [Requests -> Submission \cup {None}]
    /\ released \in [Requests -> Bodies \cup {None}]

Init ==
    /\ now = 0
    /\ req = [r \in Requests |-> NoRow]
    /\ bucket = [k \in Keys |-> None] /\ forms = {} /\ puts = 0
    /\ jobs = {}
    /\ fin = [f \in Finalizers |-> IdleCall]
    /\ finalizing = [r \in Requests |-> NoCall]
    /\ opn = [o \in Openers |-> IdleOpen]
    /\ reaperNow = Null
    /\ told = [r \in Requests |-> {}]
    /\ accepted = [r \in Requests |-> None]
    /\ released = [r \in Requests |-> None]

-----------------------------------------------------------------------------
(* Creating.  A row whose insert waited for the connection is one with a   *)
(* shorter lifetime.                                                       *)
Create(r) ==
    /\ req[r].expires = Null
    /\ now <= LastCreate
    /\ req' = [req EXCEPT ![r].state = "waiting", ![r].expires = now + TTL]
    /\ UNCHANGED <<now, objectVars, jobs, handlerVars, history>>

authorized(r) == req[r].state \notin {"none", "unavailable"} /\ now < req[r].expires

ReservationIsOver(r) == req[r].state = "uploading" /\ now >= req[r].reservation

(* A transaction on a request begins only once an overdue reservation has  *)
(* been ended, in a transaction of its own (BeginEndsReservation).         *)
begin(r) == authorized(r) /\ ~ReservationIsOver(r)

(* The deletion jobs enqueueRequestKeysTx adds for a row.                  *)
RequestKeys(r) ==
    {k \in Keys : k[1] = r /\ k[2] = IF k[3] = "upload" THEN req[r].uploadKey
                                                        ELSE req[r].finalKey}

Cleared(row) == [row EXCEPT !.uploadKey = 0, !.finalKey = 0, !.reservation = Null]

(* Mutant: the last generation may be left.                                *)
Reopened_NoLimit(row) ==
    [Cleared(row) EXCEPT !.state = "waiting", !.gen = @ + 1, !.large = FALSE, !.attempt = None]

(* What endReservationTx leaves: the next generation, or nothing to        *)
(* address after the last.                                                 *)
Reopened(row) ==
    LET last == row.gen = MaxGeneration
    IN  [Cleared(row) EXCEPT !.state = IF last THEN "unavailable" ELSE "waiting",
                             !.gen = IF last THEN @ ELSE @ + 1,
                             !.large = FALSE,
                             !.attempt = None]

endReservationTx(r) ==
    /\ jobs' = jobs \cup RequestKeys(r)
    /\ req' = [req EXCEPT ![r] = Reopened(@)]

BeginEndsReservation(r) ==
    /\ authorized(r)
    /\ ReservationIsOver(r)
    /\ endReservationTx(r)
    /\ UNCHANGED <<now, objectVars, handlerVars, history>>

-----------------------------------------------------------------------------
(* The submitter.  An attempt the row already carries, in a state past     *)
(* uploading, was accepted: every operation answers it with its receipt.   *)
Known(r, g, t) ==
    /\ begin(r)
    /\ req[r].gen = g
    /\ req[r].attempt # None
    /\ req[r].attempt.token = t

Answer(r, g, t) == told' = [told EXCEPT ![r] = @ \cup {<<g, t>>}]

RecordAcceptance(r, g, t, b) ==
    /\ accepted' = [accepted EXCEPT ![r] = [gen |-> g, token |-> t, body |-> b]]
    /\ Answer(r, g, t)
    /\ UNCHANGED released

Submit(r, g, t, b) ==
    /\ begin(r)
    /\ req[r].gen = g
    /\ \/ /\ req[r].state = "waiting"
          /\ req' = [req EXCEPT ![r].state = "submitted", ![r].payload = b,
                                ![r].attempt = [token |-> t, large |-> FALSE, body |-> b]]
          /\ RecordAcceptance(r, g, t, b)
       \/ /\ req[r].state \notin {"waiting", "uploading"}
          /\ req[r].attempt = [token |-> t, large |-> FALSE, body |-> b]
          /\ Answer(r, g, t)
          /\ UNCHANGED <<req, accepted, released>>
    /\ UNCHANGED <<now, objectVars, jobs, handlerVars>>

(* The status of an attempt changes nothing; "accepted" is a receipt.      *)
AttemptStatus(r, g, t) ==
    /\ Known(r, g, t)
    /\ req[r].state # "uploading"
    /\ Answer(r, g, t)
    /\ UNCHANGED <<now, req, objectVars, jobs, handlerVars, accepted, released>>

Earlier(a, b) == IF a < b THEN a ELSE b

(* A repeated Reserve of the same attempt gets a new form for the same     *)
(* key, or the receipt.                                                    *)
Reserve(r, g, t, b) ==
    /\ begin(r)
    /\ req[r].gen = g
    /\ \/ /\ req[r].state = "waiting"
          /\ req' = [req EXCEPT ![r].state = "uploading", ![r].large = TRUE,
                                ![r].attempt = [token |-> t, large |-> TRUE, body |-> b],
                                ![r].uploadKey = g, ![r].finalKey = g,
                                ![r].reservation = Earlier(now + ReservationTTL, req[r].expires)]
          /\ forms' = forms \cup {<<r, g>>}
          /\ UNCHANGED told
       \/ /\ req[r].state \notin {"waiting", "uploading"}
          /\ req[r].attempt = [token |-> t, large |-> TRUE, body |-> b]
          /\ Answer(r, g, t)
          /\ UNCHANGED <<req, forms>>
    /\ UNCHANGED <<now, bucket, puts, jobs, handlerVars, accepted, released>>

Abandon(r, g, t) ==
    /\ Known(r, g, t)
    /\ req[r].state = "uploading"
    /\ endReservationTx(r)
    /\ UNCHANGED <<now, objectVars, handlerVars, history>>

(* The submitter's PUT: perhaps another body, perhaps again, perhaps after *)
(* the reservation ended.                                                  *)
PresignedPut(r, g, b) ==
    /\ <<r, g>> \in forms
    /\ puts < MaxPuts
    /\ puts' = puts + 1
    /\ bucket' = [bucket EXCEPT ![<<r, g, "upload">>] = b]
    /\ UNCHANGED <<now, req, forms, jobs, handlerVars, history>>

-----------------------------------------------------------------------------
(* Finalize.  The first transaction checks the attempt and reads what it   *)
(* reserved.                                                               *)
Finalize(f, r, g, t) ==
    /\ fin[f].at = "idle"
    /\ Known(r, g, t)
    /\ \/ /\ req[r].state = "uploading"
          /\ fin' = [fin EXCEPT ![f] = [IdleCall EXCEPT !.at = "checked", !.id = r, !.gen = g,
                                            !.token = t, !.body = req[r].attempt.body]]
          /\ UNCHANGED told
       \/ /\ req[r].state \in {"submitted", "consumed", "cancelled"}
          /\ Answer(r, g, t)
          /\ UNCHANGED fin
    /\ UNCHANGED <<now, req, objectVars, jobs, finalizing, opn, reaperNow, accepted, released>>

(* Under finalizeMu: become the one that copies, or wait for it.           *)
Coalesce(f) ==
    LET r == fin[f].id
    IN  /\ fin[f].at = "checked"
        /\ \/ /\ finalizing[r] = NoCall
              /\ finalizing' = [finalizing EXCEPT ![r] = f]
              /\ fin' = [fin EXCEPT ![f].at = "queued"]
           \/ /\ finalizing[r] # NoCall
              /\ fin' = [fin EXCEPT ![f].at = "waiting", ![f].lead = finalizing[r]]
              /\ UNCHANGED finalizing
        /\ UNCHANGED <<now, req, objectVars, jobs, opn, reaperNow, history>>

(* copyVerified takes a slot, then opens the upload.                       *)
StartCopy(f) ==
    LET upload == bucket[<<fin[f].id, fin[f].gen, "upload">>]
    IN  /\ fin[f].at = "queued"
        /\ Cardinality({x \in Finalizers : fin[x].at = "copying"}) < MaxCopies
        /\ upload # None
        /\ fin' = [fin EXCEPT ![f].at = "copying", ![f].copy = upload]
        /\ UNCHANGED <<now, req, objectVars, jobs, finalizing, opn, reaperNow, history>>

(* Mutant: the bytes are written before they are verified.                 *)
PutStream_Unverified(f) ==
    /\ fin[f].at = "copying"
    /\ bucket' = [bucket EXCEPT ![<<fin[f].id, fin[f].gen, "final">>] = fin[f].copy]
    /\ fin' = [fin EXCEPT ![f].at = IF fin[f].copy = fin[f].body THEN "copied" ELSE "failed"]
    /\ UNCHANGED <<now, req, forms, puts, jobs, finalizing, opn, reaperNow, history>>

(* PutStream writes only what verify accepted.                             *)
PutStream(f) ==
    /\ fin[f].at = "copying"
    /\ fin[f].copy = fin[f].body
    /\ bucket' = [bucket EXCEPT ![<<fin[f].id, fin[f].gen, "final">>] = fin[f].copy]
    /\ fin' = [fin EXCEPT ![f].at = "copied"]
    /\ UNCHANGED <<now, req, forms, puts, jobs, finalizing, opn, reaperNow, history>>

(* Mutant: the second transaction trusts the first.                        *)
AcceptUpload_NoRecheck(f) ==
    LET r == fin[f].id
    IN  /\ req[r].state = "uploading"
        /\ now < req[r].expires
        /\ req' = [req EXCEPT ![r].state = "submitted", ![r].uploadKey = 0,
                              ![r].reservation = Null]
        /\ jobs' = jobs \cup {<<r, fin[f].gen, "upload">>}
        /\ RecordAcceptance(r, fin[f].gen, fin[f].token, fin[f].body)

(* finalizeAttempt's transaction accepts the upload it was called for.     *)
AcceptUpload(f) ==
    LET r == fin[f].id
    IN  /\ req[r].state = "uploading"
        /\ Known(r, fin[f].gen, fin[f].token)
        /\ req[r].finalKey = fin[f].gen
        /\ req' = [req EXCEPT ![r].state = "submitted", ![r].uploadKey = 0,
                              ![r].reservation = Null]
        /\ jobs' = jobs \cup {<<r, fin[f].gen, "upload">>}
        /\ RecordAcceptance(r, fin[f].gen, fin[f].token, fin[f].body)

(* It checks the attempt again: only a current one is accepted, and one    *)
(* that was accepted meanwhile is answered.                                *)
finalizeAttempt(f) ==
    LET r == fin[f].id
    IN  /\ fin[f].at = "copied"
        /\ \/ AcceptUpload(f)
           \/ /\ Known(r, fin[f].gen, fin[f].token)
              /\ req[r].state \in {"submitted", "consumed", "cancelled"}
              /\ Answer(r, fin[f].gen, fin[f].token)
              /\ UNCHANGED <<req, jobs, accepted, released>>
        /\ fin' = [fin EXCEPT ![f].at = "succeeded"]
        /\ UNCHANGED <<now, objectVars, finalizing, opn, reaperNow>>

(* No upload, other bytes than reserved, a storage error (after the write  *)
(* too), a cancelled caller, or a second transaction that finds another    *)
(* generation, attempt or deadline.                                        *)
FinalizeFails(f) ==
    /\ fin[f].at \in {"queued", "copying", "copied"}
    /\ fin' = [fin EXCEPT ![f].at = "failed"]
    /\ UNCHANGED <<now, req, objectVars, jobs, finalizing, opn, reaperNow, history>>

(* The deferred function: the call leaves the map and its waiters return   *)
(* with its receipt.  That names the generation it was for and is in told  *)
(* since the transaction that gave it, so a waiter adds nothing there.     *)
FinalizeReturns(f) ==
    /\ fin[f].at \in {"succeeded", "failed"}
    /\ finalizing' = [finalizing EXCEPT ![fin[f].id] = NoCall]
    /\ fin' = [x \in Finalizers |->
                  IF x = f \/ fin[x].lead = f THEN IdleCall ELSE fin[x]]
    /\ UNCHANGED <<now, req, objectVars, jobs, opn, reaperNow, history>>

WaiterLeaves(f) ==
    /\ fin[f].at = "waiting"
    /\ fin' = [fin EXCEPT ![f] = IdleCall]
    /\ UNCHANGED <<now, req, objectVars, jobs, finalizing, opn, reaperNow, history>>

-----------------------------------------------------------------------------
(* The requester.  An inline body is consumed in the transaction that      *)
(* reads it; an object is opened first, outside any transaction.           *)
Open(o, r) ==
    /\ opn[o].at = "idle"
    /\ begin(r)
    /\ req[r].state = "submitted"
    /\ \/ /\ ~req[r].large
          /\ req' = [req EXCEPT ![r].state = "consumed", ![r].payload = None,
                                ![r].consumedAt = now]
          /\ released' = [released EXCEPT ![r] = req[r].payload]
          /\ UNCHANGED opn
       \/ /\ req[r].large
          /\ opn' = [opn EXCEPT ![o] = [IdleOpen EXCEPT !.at = "checked", !.id = r,
                                                         !.key = req[r].finalKey]]
          /\ UNCHANGED <<req, released>>
    /\ UNCHANGED <<now, objectVars, jobs, fin, finalizing, reaperNow, told, accepted>>

OpenObject(o) ==
    LET object == bucket[<<opn[o].id, opn[o].key, "final">>]
    IN  /\ opn[o].at = "checked"
        /\ object # None
        /\ opn' = [opn EXCEPT ![o].at = "opened", ![o].body = object]
        /\ UNCHANGED <<now, req, objectVars, jobs, fin, finalizing, reaperNow, history>>

(* Mutant: the update is not conditional on the state it read.             *)
consumeObject_Unconditional(o) ==
    LET r == opn[o].id
    IN  /\ opn[o].at = "opened"
        /\ begin(r)
        /\ req' = [req EXCEPT ![r].state = "consumed", ![r].consumedAt = now]
        /\ released' = [released EXCEPT ![r] = opn[o].body]
        /\ opn' = [opn EXCEPT ![o].at = "streaming"]
        /\ UNCHANGED <<now, objectVars, jobs, fin, finalizing, reaperNow, told, accepted>>

(* Only this conditional update decides; final_key stays, to protect the   *)
(* object while its body streams.                                          *)
consumeObject(o) ==
    LET r == opn[o].id
    IN  /\ opn[o].at = "opened"
        /\ begin(r)
        /\ req[r].state = "submitted"
        /\ req[r].finalKey = opn[o].key
        /\ req' = [req EXCEPT ![r].state = "consumed", ![r].consumedAt = now]
        /\ released' = [released EXCEPT ![r] = opn[o].body]
        /\ opn' = [opn EXCEPT ![o].at = "streaming"]
        /\ UNCHANGED <<now, objectVars, jobs, fin, finalizing, reaperNow, told, accepted>>

(* A storage error, or another open, revocation or deadline came first.    *)
OpenFails(o) ==
    /\ opn[o].at \in {"checked", "opened"}
    /\ opn' = [opn EXCEPT ![o] = IdleOpen]
    /\ UNCHANGED <<now, req, objectVars, jobs, fin, finalizing, reaperNow, history>>

StreamEnd(o) ==
    /\ opn[o].at = "streaming"
    /\ opn' = [opn EXCEPT ![o].at = "ended"]
    /\ UNCHANGED <<now, req, objectVars, jobs, fin, finalizing, reaperNow, history>>

(* Drops the key and queues its object, best effort; the row may be gone.  *)
FinishOpen(o) ==
    LET r == opn[o].id
    IN  /\ opn[o].at = "ended"
        /\ \/ /\ req[r].state = "consumed" /\ req[r].finalKey = opn[o].key
              /\ req' = [req EXCEPT ![r].finalKey = 0]
              /\ jobs' = jobs \cup {<<r, opn[o].key, "final">>}
           \/ UNCHANGED <<req, jobs>>
        /\ opn' = [opn EXCEPT ![o] = IdleOpen]
        /\ UNCHANGED <<now, objectVars, fin, finalizing, reaperNow, history>>

(* What clearPayloadTx leaves; an accepted attempt keeps its hashes.       *)
Cancelled(row) ==
    [Cleared(row) EXCEPT !.state = "cancelled", !.payload = None,
                         !.attempt = IF row.state = "uploading" THEN None ELSE @]

Revoke(r) ==
    /\ begin(r)
    /\ req[r].state # "consumed"
    /\ jobs' = jobs \cup RequestKeys(r)
    /\ req' = [req EXCEPT ![r] = Cancelled(@)]
    /\ UNCHANGED <<now, objectVars, handlerVars, history>>

-----------------------------------------------------------------------------
(* The reaper reads the clock, then waits for the connection.              *)
SweepBegin ==
    /\ reaperNow = Null
    /\ reaperNow' = now
    /\ UNCHANGED <<now, req, objectVars, jobs, fin, finalizing, opn, history>>

Overdue(r) ==
    req[r].state = "uploading" /\ req[r].reservation <= reaperNow /\ req[r].expires > reaperNow

(* Mutant: the grace is compared the wrong way round.                      *)
Purgeable_GraceReversed(r) ==
    /\ req[r].state # "none"
    /\ req[r].expires <= reaperNow
    /\ ~ /\ req[r].state = "consumed"
         /\ req[r].finalKey # 0
         /\ req[r].consumedAt <= reaperNow - OpenObjectGrace

(* Mutant: the purge does not spare a body that is streaming.              *)
Purgeable_NoGrace(r) == req[r].state # "none" /\ req[r].expires <= reaperNow

Purgeable(r) ==
    /\ req[r].state # "none"
    /\ req[r].expires <= reaperNow
    /\ ~ /\ req[r].state = "consumed"
         /\ req[r].finalKey # 0
         /\ req[r].consumedAt > reaperNow - OpenObjectGrace

(* order by ... limit BatchSize, ties in any order.                        *)
FirstBatch(batch, all, since) ==
    /\ batch \subseteq all
    /\ Cardinality(batch) = Earlier(BatchSize, Cardinality(all))
    /\ \A b \in batch, a \in all \ batch : since[b] <= since[a]

(* A batch of overdue reservations and a batch of expired rows, in the     *)
(* reaper's transaction.  A reservation that is overdue has not expired,   *)
(* so the batches are disjoint.                                            *)
PurgeExpiredTx ==
    /\ reaperNow # Null
    /\ \E ends, drops \in SUBSET Requests :
          /\ FirstBatch(ends, {r \in Requests : Overdue(r)},
                        [r \in Requests |-> req[r].reservation])
          /\ FirstBatch(drops, {r \in Requests : Purgeable(r)},
                        [r \in Requests |-> req[r].expires])
          /\ jobs' = jobs \cup UNION {RequestKeys(r) : r \in ends \cup drops}
          /\ req' = [r \in Requests |->
                        IF r \in ends THEN Reopened(req[r])
                        ELSE IF r \in drops THEN [NoRow EXCEPT !.expires = req[r].expires]
                        ELSE req[r]]
    /\ reaperNow' = Null
    /\ UNCHANGED <<now, objectVars, fin, finalizing, opn, history>>

(* The query of ReconcileOnce.                                             *)
Protected(k) ==
    LET row == req[k[1]]
        final == k[3] = "final" /\ row.finalKey = k[2]
    IN  \/ row.state = "consumed" /\ final /\ row.consumedAt > now - OpenObjectGrace
        \/ /\ row.expires > now
           /\ \/ row.state = "submitted" /\ final
              \/ /\ row.state = "uploading" /\ row.reservation > now
                 /\ final \/ (k[3] = "upload" /\ row.uploadKey = k[2])

(* The scan reaches a key (ObjectReconciliation) and no row protects it.   *)
Reconcile(k) ==
    /\ bucket[k] # None
    /\ ~Protected(k)
    /\ jobs' = jobs \cup {k}
    /\ UNCHANGED <<now, req, objectVars, handlerVars, history>>

(* The worker's side.  A key stays in jobs when its job has ended, done or *)
(* dead-lettered: delivery is at least once, and no row protects the key   *)
(* any more (NoJobForObjectInUse), so that a scan that finds an object     *)
(* under it queues it again.  It may be deleted at any later time.         *)
handleObjectDelete(k) ==
    /\ k \in jobs
    /\ bucket' = [bucket EXCEPT ![k] = None]
    /\ UNCHANGED <<now, req, forms, puts, jobs, handlerVars, history>>

(* The process stops and starts: every handler is cut off where it is.     *)
Restart ==
    /\ fin' = [f \in Finalizers |-> IdleCall]
    /\ finalizing' = [r \in Requests |-> NoCall]
    /\ opn' = [o \in Openers |-> IdleOpen]
    /\ reaperNow' = Null
    /\ UNCHANGED <<now, req, objectVars, jobs, history>>

(* Time passes, but not beyond the deadline of a body still being sent.    *)
Tick ==
    /\ now < MaxTime
    /\ \A o \in Openers :
          opn[o].at = "streaming" => now < req[opn[o].id].consumedAt + StreamTimeout
    /\ now' = now + 1
    /\ UNCHANGED <<req, objectVars, jobs, handlerVars, history>>

FinalizeStep(f) ==
    \/ Coalesce(f) \/ StartCopy(f) \/ PutStream(f) \/ finalizeAttempt(f)
    \/ FinalizeFails(f) \/ FinalizeReturns(f)

OpenStep(o) == OpenObject(o) \/ consumeObject(o) \/ OpenFails(o) \/ StreamEnd(o) \/ FinishOpen(o)

Next ==
    \/ \E r \in Requests :
          \/ Create(r) \/ BeginEndsReservation(r) \/ Revoke(r)
          \/ \E g \in 1 .. MaxGeneration, t \in Tokens :
                \/ AttemptStatus(r, g, t) \/ Abandon(r, g, t)
                \/ \E b \in Bodies : Submit(r, g, t, b) \/ Reserve(r, g, t, b)
                \/ \E f \in Finalizers : Finalize(f, r, g, t)
          \/ \E g \in 1 .. MaxGeneration, b \in Bodies : PresignedPut(r, g, b)
          \/ \E o \in Openers : Open(o, r)
    \/ \E f \in Finalizers : FinalizeStep(f) \/ WaiterLeaves(f)
    \/ \E o \in Openers : OpenStep(o)
    \/ \E k \in Keys : Reconcile(k) \/ handleObjectDelete(k)
    \/ SweepBegin \/ PurgeExpiredTx \/ Restart \/ Tick

Spec == Init /\ [][Next]_vars

(* Time goes on, streams end or time out, the reaper and the scan of the   *)
(* bucket come round again, and an object that the scan would queue is one *)
(* day deleted (OrphansAreDeleted of ObjectReconciliation); of any other   *)
(* deletion nothing is assumed, as its job may end in the dead letters.    *)
(* Restarts are not so frequent that no sweep ever reaches its             *)
(* transaction.                                                            *)
FairSpec ==
    /\ Spec
    /\ WF_vars(Tick) /\ WF_vars(SweepBegin) /\ SF_vars(PurgeExpiredTx)
    /\ \A o \in Openers : WF_vars(StreamEnd(o))
    /\ \A k \in Keys : WF_vars(Reconcile(k)) /\ WF_vars(~Protected(k) /\ handleObjectDelete(k))

-----------------------------------------------------------------------------
(* Where a request stands once the clock is taken into account: an overdue *)
(* reservation has already given up its generation.                        *)
Current(r) == IF ReservationIsOver(r) THEN Reopened(req[r]) ELSE req[r]

Phase(r) ==
    IF req[r].expires = Null THEN "none"
    ELSE IF req[r].state = "none" THEN "gone"
    ELSE IF now >= req[r].expires /\ req[r].state \notin {"consumed", "cancelled"} THEN "expired"
    ELSE Current(r).state

Link == INSTANCE OneTimeRequest WITH
    Attempts <- Tokens,
    phase <- [r \in Requests |-> Phase(r)],
    generation <- [r \in Requests |-> IF Phase(r) \in {"none", "gone", "expired"}
                                         THEN 0 ELSE Current(r).gen]

(* The store implements the request-link contract: over retries, overdue   *)
(* reservations, concurrent finalizes and opens, sweeps and restarts, one  *)
(* submission is accepted, under the current generation and before both    *)
(* deadlines, and its exact bytes are released at most once.               *)
ImplementsOneTimeRequest == Link!Spec

(* A receipt "submitted" is given by a transaction only for the attempt    *)
(* that was accepted, and while the link lives the store remembers it, so  *)
(* every retry is told the same (Submit, Reserve, Finalize, Attempt;       *)
(* accepted receipts survive consume and revoke).  A finalize that waited  *)
(* for another is handed such a receipt, which names its generation; that  *)
(* it may not be the waiter's own is CoalescesSameAttempt.                 *)
ReceiptIsTruthful ==
    \A r \in Requests :
        /\ \A x \in told[r] : accepted[r] # None /\ x = <<accepted[r].gen, accepted[r].token>>
        /\ accepted[r] # None /\ authorized(r) =>
               /\ req[r].gen = accepted[r].gen
               /\ req[r].attempt # None
               /\ req[r].attempt.token = accepted[r].token

(* An accepted upload can be retrieved until its link expires: the final   *)
(* key holds exactly the reserved bytes, whatever later uploads, losing    *)
(* finalizers, sweeps and deletion jobs do.                                *)
AcceptedIsRetrievable ==
    \A r \in Requests :
        authorized(r) /\ req[r].state = "submitted" =>
            IF req[r].large THEN bucket[<<r, req[r].finalKey, "final">>] = accepted[r].body
                            ELSE req[r].payload = accepted[r].body

(* No deletion job exists for a key the reconciliation query protects, nor *)
(* for a body being sent: keys are queued by the step that gives them up,  *)
(* and one that has lost its protection never gets it back.                *)
NoJobForObjectInUse ==
    \A k \in jobs :
        /\ ~Protected(k)
        /\ \A o \in Openers :
              opn[o].at = "streaming" => k # <<opn[o].id, opn[o].key, "final">>

(* Nothing of a request outlives it for good: its row goes and its objects *)
(* are deleted, those of abandoned reservations, of uploads that arrived   *)
(* after their reservation ended and of copies nobody accepted included,   *)
(* even if the process stops at any point.                                 *)
NothingRemains ==
    \A r \in Requests :
        (req[r].expires # Null) ~> [](req[r].state = "none" /\
                                      \A k \in Keys : k[1] = r => bucket[k] = None)

(* Concurrent finalizes are coalesced "for the same request attempt"       *)
(* (Store.finalizing): a handler that waits for another's copy waits for   *)
(* its own attempt.                                                        *)
CoalescesSameAttempt ==
    \A f \in Finalizers :
        fin[f].at = "waiting" =>
            <<fin[f].gen, fin[f].token>> = <<fin[fin[f].lead].gen, fin[fin[f].lead].token>>

(* Handlers are interchangeable, and so are bodies.                        *)
Symmetry == Permutations(Finalizers) \cup Permutations(Openers) \cup Permutations(Bodies)
=============================================================================
