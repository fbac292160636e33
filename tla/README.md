# Flick: models, checks and proofs

Flick hands a client-encrypted secret to one recipient, once. This directory
models the parts of it where its promises are hard to keep: the delivery store
with its sweeps and gauge, the road of a cleanup job to the worker and back, the
scan for orphaned objects, request links, the live pipe relay, the rate limiter
and the command-line client. TLC checks the models on small instances; TLAPS
proves every safety property of all seven, and that three of them implement their
contracts, for every number of deliveries, jobs, keys, requests, sessions, clients
and handlers and every choice of limits.

## The system

| part | code | module |
|---|---|---|
| delivery store: create, finalize, open, lock, revoke | `internal/secrets/store.go`, `management.go`, `internal/httpapi/secrets.go` | `SecretDelivery` |
| expiry reaper, ActiveUploads gauge | `internal/secrets/reaper.go`, `internal/telemetry`, `cmd/flick-api/main.go` | `SecretDelivery` |
| one-time contract | `contracts/sender-management-v1.md` | `OneTimeDelivery` |
| outbox, publisher, JetStream, worker, receipts | `internal/events`, `internal/worker` | `CleanupPipeline` |
| queue contract | `docs/architecture/event-contract.md` | `JobQueue` |
| object reconciliation | `internal/secrets/reconciliation.go`, `internal/requests/cleanup.go`, `internal/storage/list.go` | `ObjectReconciliation` |
| request links | `internal/requests`, `internal/httpapi/requests.go` | `RequestLinks` |
| request contract | `docs/architecture/request-links.md` | `OneTimeRequest` |
| live pipe relay | `internal/piperelay`, `internal/httpapi/piperelay.go` | `PipeRelay` |
| rate limiter | `internal/httpapi/ratelimit.go` | `RateLimiter` |
| command-line client | `cmd/flick`, `internal/flickcli` | `CommandLine` |
| storage client, config, entry points, router, crypto, web | the rest | not modelled, or only as used |

A sender creates a delivery, inline in SQLite or as an upload to a bucket that is
activated by finalize. A recipient opens it; wrong proofs lock it; the sender may
revoke it; the reaper removes what nobody ended. Each of these commits its
deletion jobs in the same transaction. The publisher moves jobs to a work queue,
a worker executes them under a lease recorded in its own database, tells the API
that an object is gone, and acknowledges the message. Objects that no job names
any more are found by a scan of the bucket. A request link turns this round: the
requester publishes a link, a submitter uploads under it, and the requester opens
the submission once.

The modules meet at their contracts. `SecretDelivery` and `RequestLinks` see the
worker as a queue whose jobs run at least once or are dead-lettered, which
`CleanupPipeline` shows of the pipeline; both contain one page of the scan judged
against their rows, while `ObjectReconciliation` has the cursor, the pages and the
claims and takes from them that protection, once over, never returns.

## SecretDelivery

State: one variable per column of `secrets`, `secret_payloads` and
`secret_management` that decides anything, the bucket, the queued jobs, the
transaction in progress (`finalizing`, `opening`), the body being sent, the
instant a sweep has read, and the gauge with the steps still owed to it.

- `api.db` has one connection, so a transaction without network I/O is one
  action. `Finalize` and the open of an S3 body keep the connection while they
  call the bucket: each is a Begin and a Commit, with a rollback in between.
- `claimExpired` reads the clock before it waits for the connection: `SweepBegin`
  takes the instant, `claimExpired` uses it later. Likewise `created_at` may be
  up to `CreateLag` old when the insert commits.
- One sweep is one action: claim in "reclaimable since" order up to
  `BatchSize`, row deletion, outcome, object jobs, and the purge of records.
- `ReconcileOnce` judges one listed object with `protectObjectTx` and queues its
  deletion when nothing protects it, also after the row is gone.
- Gauge steps come after the commit and are separate (`GaugeInc`, `GaugeDec`);
  `Restart` loses those still owed and seeds the gauge from the table.
- Expired and missing rows, duplicate opens and all other early returns leave
  the tables alone and are the absence of a step.

Properties: `OutcomeIsTruthful` (which includes that no payload of a lost delivery
is kept), `SenderCanAskUntilExpiry`, `NoJobForObjectInUse`, `GaugeBalanced`,
`EventuallyForgotten` (row, record, payload and object go, and none comes back),
and `ImplementsOneTimeDelivery`: through the mapping `Phase` (the recorded outcome,
else what the row and the clock say) every step is a step of `OneTimeDelivery` or
invisible to it.

`PurgeSkipsNoConsumedRow` states a sentence of `contracts/sender-management-v1.md`
(lines 142-145): the reaper purges expired management records "on its next bounded
sweep even when `consumed_at` is set", and no consumed-row exclusion may skip the
purge. TLC finds it violated. `purgeManagementTx` (`internal/secrets/management.go:188`)
leaves out the record of an S3 delivery consumed less than `openObjectGrace` ago,
also when nothing streams because it was locked. The record does go once
the grace is over, which is part of `EventuallyForgotten`;
`contracts/age-format-v1.md` (lines 145-146) describes the grace.

## CleanupPipeline

State: the outbox row, the publish call in progress, the stored messages, the
receipt with its attempts and their results, the dead letters, the jobs the API
has heard of, and per worker its place in `Process`. Actions follow `PublishDue`,
`Start`, `HandleJob`, `finishAttempt`, the deferred acknowledgement and
`applyMessageAction`. A publish may be stored although its reply says it failed;
either process may stop between any two steps; a stored message may be delivered
to any idle worker at any time, which covers ack waits that run out. The retry
delay is not counted, so a failed row may be due at any time. Initial states
include a job that an older worker left failed without its dead letter.

Properties: `OneRunningAttempt`, `BudgetIsExact`, `HandlersExclude`, `NoJobLost`,
`EveryJobEnds`, and `ImplementsJobQueue`: a job is executed before it is recorded
as succeeded and never after its receipt is terminal.

## ObjectReconciliation

One scan is three steps: read the durable cursor, list a page, and commit a
transaction that advances the cursor only if its generation is still the one read,
judges each listed key, stores a claim and queues a job. Between them uploads
land, rows begin and stop to protect a key, jobs run and acknowledgements arrive
late. A scanner that read an old generation is no longer in `fresh`. A rejected
cursor starts the pass again. Jobs end by deleting or by a dead letter; the claim
goes with the acknowledgement of its own job only.

Properties: `LiveObjectsAreSpared`, `ClaimsMatchJobs`, `PassIsComplete` and
`OrphansAreDeleted`.

## RequestLinks

State: the row of a request with its payload, the bucket by request, generation
and side (`upload`, `final`), the forms handed out, the keys queued for deletion,
each finalize and open handler, `Store.finalizing`, and the sweep's instant.

- `Store.begin` ends an overdue reservation before its caller goes on: that is
  `BeginEndsReservation`, after which the caller's transaction is its own action.
- Finalize: look up the attempt, join or lead (`Coalesce`), start the copy within
  `MaxCopies`, spool, verify and write (`PutStream`), then accept in a transaction
  that checks attempt and deadlines again (`AcceptUpload`), and answer the
  waiters. A submitter can upload again at any time while the form lives.
- Open of a large body: open the object without a transaction, then consume
  conditionally, stream until the deadline, and queue the deletion.
- `Restart` drops every handler and leaves tables and bucket.

Properties: `ReceiptIsTruthful`, `AcceptedIsRetrievable`, `NoJobForObjectInUse`,
`NothingRemains`, and `ImplementsOneTimeRequest`, which maps a row and the clock
to the phases of `OneTimeRequest`. `CoalescesSameAttempt` states the comment on
`Store.finalizeMu`, that finalizes are coalesced "for the same request attempt".
TLC finds it violated: the map is keyed by request id alone
(`internal/requests/large.go:200`), so a finalize of a new attempt can join the
copy of one that was abandoned and return its answer. `ReceiptIsTruthful` is
therefore about the receipts that a caller's own transaction gives. A waiter is
handed such a receipt: it names the generation it belongs to, which may be another
one than the caller's. `requests` has one submitter's token; `ReceiptsAreTruthful`
holds for any number.

A job stays in `jobs` after it has run. The code forgets an ended job, after which
a scan may queue its key again; since a queued key is never protected again
(`NoJobForObjectInUse`), that second job does what the first one may still do.

## PipeRelay

State: the table of codes, every session ever created (the two ready channels,
`done`, the state of both pipe ends, failed attempts, expiry) and the place of each
handler. A handler keeps its session and names the code again when it burns it,
which may then be another session. A select takes any ready branch; a caller may
leave whenever its context is observed. A write to the pipe completes together
with the read that takes it. Every refused receive, also one that found
no session or a taken one, goes on to count a failed attempt. `Closed` closes both pipe ends
in one step, where the code closes them one after the other.

`StreamIsWhole` is about the pipe: the receive handler reads EOF only after every
chunk. The handler drops the error of `io.Copy` (`internal/httpapi/piperelay.go:156`),
so what the client of a broken transfer sees is up to the HTTP server and is not
modelled.

Properties: `StreamIsWhole`, `RemovedIsClosed`, `EveryCallReturns`.

## RateLimiter

A request takes its address from the peer and the forwarded list, reads the clock,
and later takes the lock and its bucket; requests overtake each other by up to
`MaxSkew`. A token is `Cost` parts, so the arithmetic is exact. `EvictionIsInvisible`
compares with buckets that are never evicted; it needs `LimiterAssumption`, that
the idle time less the skew refills a bucket (ten minutes against one).
`AdmissionIsBounded` is the bound the code gives: burst, elapsed time, and the time
by which late requests moved a bucket's clock back. `CountedUnderItsClient` covers
lists the client wrote and up to two trusted hops. `clientIP` reads the first
`X-Forwarded-For` line only, so the model, and the theorem, are about proxies that
join the lines they receive and append to the result.

## CommandLine

`flick send` seals, creates, uploads, finalizes and prints; `flick open` probes,
unlocks, reserves its output, consumes the secret, decrypts to a staging file and
places it. Any request may fail before or after the server acted, any checked file
operation may fail, other programs may take a name at any time, and a run may be
killed. Removals whose result the code ignores are taken to succeed. A disk that
fills while the body streams into the staging file is a fault, after which the
secret may be lost; `PayloadSurvives` is about a plaintext decrypted whole.
`FailedOpenLeavesNothing` is not about two empty files: that of the writability
probe when its removal fails, and the `-output` reservation of a run whose plaintext
was kept in its staging file.

Properties: `PayloadSurvives`, `FailedOpenLeavesNothing`, `NothingOverwritten`,
`LinkIsOpenable`.

## Runs

| run | instance | shows |
|---|---|---|
| `delivery_one` | one delivery of either backend, lifetimes 1 and 3, pending window 2, lock at 2, two uploads, clock to 7 | all safety properties and the refinement |
| `delivery_forgotten` | an inline and an S3 delivery, one upload, lifetimes 1, grace 2, batches of one, lock at 1, clock to 2 | both are removed with payload, record and object, under fairness |
| `delivery_purge` | one delivery of either backend, lifetime 1, grace 2 | violated: a sweep skips an expired record because its row was consumed lately |
| `pipeline` | one managed job, two workers, budget 2, two faults | all safety properties, the refinement, and every job ends, under fairness |
| `reconciliation` | two keys, two scanners, pages of one, two uploads, two faults | safety of claims and passes; orphans go, under fairness |
| `requests` | one request, two bodies, two finalizers, one open, two generations, two uploads, clock to 3 | receipts, retrievability, no job for an object in use |
| `requests_contract` | the same with one finalizer, two opens, one upload | the refinement; nothing remains, under fairness |
| `requests_coalesce` | one body, two finalizers | violated: finalizes are coalesced across attempts |
| `relay` | one code, two sessions, two senders, two receivers, two chunks | whole streams, closed sessions |
| `relay_returns` | one code, three sessions, one sender, receiver and waiter | every call returns, under fairness |
| `command_line` | two secrets, two runs of open, two candidate names | nothing lost, left behind or overwritten |
| `rate_limiter` | one client, one other address, one proxy, three requests in flight, burst of two tokens, skew 2, clock to 12 | eviction, admission, address |

Bounds. Lifetimes shorter and longer than the pending window, two failed accesses
and two uploads make every order of deadlines occur, and the clock runs past every
deadline plus the stream grace. Deliveries share only the connection, the gauge and
the sweep's batch, so two of them competing for batches of one exhibit the
interaction; the theorems need no bound. Two workers, or two scanners, are what a
rolling update overlaps. Two faults allow a lost publish reply and a crash in one
behaviour, and the theorems on the pipeline need no bound on them. In
`delivery_forgotten` the clock stops at its bound, where every deadline has passed
and every grace is over. Two keys in pages of one give a pass two pages, and a
second upload lets a key be claimed again. Requests share nothing but sweeps, scans
and the copy slots; two generations contain an abandoned attempt, its successor and
the end of the last one. Two sessions of one code contain its reuse while handlers
of the first are still on their way out; a third lets a burn hit a second
successor. Two openers and two names reach a name taken twice. The clock of the
limiter runs to twice the idle time.

Where a model has nothing left to do once its bounds are used up or its job has
ended, it does not check for deadlock; the liveness runs cover what must happen.

Fairness. The clock moves; `RunReaper` ticks while the process lives and waits
for the connection in arrival order, hence strong fairness of the sweep; a
transaction ends because its context does; a stream ends at its deadline. For the
objects of deliveries, as for those of the other modules, the scan comes round, and
the deletion it queues for an orphan, which it queues again after a dead letter, in
the end succeeds; the jobs queued by deliveries themselves may all be lost. In
the pipeline faults are finite, the publisher visits due rows, a live worker takes
its next step, and the stream redelivers what is not acknowledged, even though a
leased job is handed back many times (strong fairness of `Fetch`).
`ObjectReconciliation` and `RequestLinks` assume that the scan comes round and that
the pipeline ends and reports jobs, which is `EveryJobEnds`; in `RequestLinks` only
the deletion of unprotected objects is fair, because those the scan queues again
until they are gone. Nothing is assumed of senders. In the relay runnable goroutines run, timers fire, the cleaner ticks and
the read of a body ends by the connection's deadline; neither party is assumed to
move bytes or to disconnect.

## Proofs

| module | proves | of |
|---|---|---|
| `SecretDeliveryProofs` | `TypeCorrect`, `OutcomeTruth`, `SenderCanAsk`, `NoJobInUse`, `GaugeIsBalanced`, and `Refinement`: it implements `OneTimeDelivery` | `SecretDelivery` |
| `CleanupPipelineProofs` | `Typed`, `RunningAttemptIsUnique`, `FailuresAreBudgeted`, `MutualExclusion`, `CommittedJobsStay`, and `Refinement`: it implements `JobQueue` | `CleanupPipeline` |
| `ObjectReconciliationProofs` | `Typed`, `ScansSpareLiveObjects`, `ClaimsAreExact`, `PassesAreComplete` | `ObjectReconciliation` |
| `RequestLinksSteps`, `RequestLinksProofs` | `Typed`, `ReceiptsAreTruthful`, `AcceptedBodiesStay`, `JobsSpareObjectsInUse`, and `Refinement`: it implements `OneTimeRequest` | `RequestLinks` |
| `PipeRelayProofs` | `Typed`, `WholeStreams`, `ClosedSessions` | `PipeRelay` |
| `RateLimiterProofs` | `Typed`, `EvictionChangesNothing`, `AdmissionBound`, `ClientsAreCounted` | `RateLimiter` |
| `CommandLineProofs` | `Typed`, `NoPayloadLost`, `NothingLeftBehind`, `PrintedLinksOpen`, and the action property `FilesAreSafe` | `CommandLine` |

Each states that `Spec` implies the property the runs check. None of those
properties is inductive; each module has an invariant `Inv` that is (`Invariance`),
which TLC also checked on the instances of the runs. A step is shown to preserve
`Inv` action by action, and for one delivery, job, key, request, session, file or
handler at a time: a lemma says what a step on another one leaves alone. The assumptions are
the named ones of the modules: limits are positive, sets of ids finite, and the few
relations between limits given below.

### Deliveries

From `ConstantsAssumption` and `GraceAssumption` (a stream ends within the grace of
its object). `Inv` adds what the properties rest on: a delivery
without an id has left no trace (`UnbornInv`); a pending row is an unconsumed S3
row, a payload belongs to an active inline row, and an object to a delivery
created with the S3 backend (`RowInv`); an unset outcome means unconsumed, and a
missing row with an unset outcome or a missing record means content expiry has
passed (`OutcomeInv`); a deletion job means that the use of the object is over
(`Over`), and a body being sent belongs to an active S3 row whose stream deadline
is not past, so neither sweep nor scan can claim it (`JobInv`); and the
transaction that holds the connection still finds the row it read, with a sweep's
instant never ahead of the clock (`TxInv`). `TypeStep`, `SecretStep` and `TxStep`
are the steps; `OtherUntouched` and `Frame` carry what they leave alone.
`GaugeIsBalanced` counts pending rows across each step: one more, one fewer, the
same, or a batch fewer (`BatchLessPending`).

`Refinement` maps create to Arrive, finalize to Activate, open to Open, the last
wrong proof to Lock, revoke to Cancel, a tick to Lapse, a sweep to Forget; the key
step is that a row a sweep claims has already lapsed, so writing its outcome down
changes no phase.

### Pipeline

From `PipelineAssumption`: the lease is longer than the job timeout. `ReceiptInv`
ties a receipt to its list of attempts (only the newest runs, and only while the
receipt says processing), to its dead letter and to the failures spent; the lemmas
on lists of results (`InterruptedList`, `ClaimedList`, ...) show what a takeover, a
claim and a result do to the count. `QueueInv` says that a publish that succeeded
has delivered its job before the row says so. `WorkerInv` is what a worker knows at
each step of `Process`; above all, a handler that runs is the current attempt and
within its lease. `AttemptsDiffer` says that no two workers hold one attempt, from
which exclusion follows. The refinement maps a commit to Enqueue, a run of the
handler to Execute, the terminal results to Complete and GiveUp, and everything else
(publisher, redelivery, takeover, crash) to nothing.

### Scan

From `ScanAssumption`. `RowsInv`: an object, and a page that lists it, had a row,
and protection once over does not return; `JobsInv`: the claims, and that no job has
both ended and not ended; `ScanInv`: a scanner of the current generation holds the
cursor itself and a page with every key the pass must judge up to its end, which is
why the fence on the generation is enough; `PassInv`: everything before the cursor
has been judged. That a page is a prefix of what lies behind the cursor needs the
least element of a set of naturals (`LeastNatural`, from the well-foundedness of <)
and the cardinality of the keys below it.

### Request links

From `RequestAssumption`: a stream ends within the grace of its object.
`RequestLinksSteps` has the invariant, how one row may follow another, the steps
that move no row and those that move a row not yet consumed; `RequestLinksProofs`
the steps of streams and sweep, the theorems and the refinement.
`RowOK` relates a row to the submission accepted for it; `Ahead` says that a
generation may still begin, so that no key of it exists; `Guards` is protection, of
a row at an instant. The centre is `Follows`: over any step deadlines stay, a
generation begins once, a current upload or an accepted submission keeps its
attempt, and a key that has begun and that no row guards stays unguarded. From it
follow, in `FinalizeFrame` and `OpenFrame`, that what a finalize copied and what an
open has read stay right across every step of everyone else, and in `KeysStep` that
a queued deletion never meets an object that is needed. `OneReader`: no two opens
send one body.

The refinement sees a row through the clock (`PhaseAt`, `GenAt`). A tick maps to
EndAndExpire of the reservations and requests whose time has come, abandoning to
EndAndExpire of one, the sweep to Forget of the rows it drops; ending a reservation
that is overdue is invisible, because the request already answers to its next
generation (`OverdueIsReopened`). Consume releases the accepted body, by `RowOK`
for one in the row and by `OpenInv` for an object.

### Relay

From `RelayAssumption`: limits are positive and codes finite. `StreamIsWhole` speaks
of the chunks taken so far, so it needs what each handler is about to do.
`SenderInv`: a sender that is between two writes has put exactly the chunks 1 to
`chunk` of its body into the pipe, all taken by one receiver (`Written`), and holds
a session whose `senderReady` it set itself; `ReceiverInv` likewise, and a receiver
that copies has taken every chunk there is. `OneSender` and `OneReceiver` are what
`senderOnce` and `receiverOnce` give. `SessionInv` joins them: nothing goes through
a pipe before both sides are ready, and a reader sees EOF only on a pipe with all
chunks; a pipe whose writer failed, or whose reader is closed, never gets there,
because each end keeps what it was closed with first (`ClosedFacts`,
`ClosedWriterFacts`). `LeavingInv`
says that only its own receiver closes a session that is still listed. Handlers burn
a code, not a session: `RemoveFacts` and `RemoveStep` show that removing whatever
the code stands for now closes that session too, so it does no harm to the argument
when it is a successor. That EOF means `Chunks` chunks is a count of a set
(`ChunkedCount`, by a bijection).

### Rate limiter

From `LimiterAssumption`: the idle limit less the skew refills a bucket.
`BucketInv` compares a bucket with the one that is never evicted and says that one
that is gone has been idle so long that any request still to come finds it full
(`EvictedIsFull`); `Paid` is the account of granted and held tokens against elapsed
and given-back time; `FlightInv` bounds the skew. `ClientIsFound` shows that the
rightmost untrusted address is the client's, for any list of trusted hops and
whatever the client wrote in front of them.

### Command line

From `CommandLineAssumption`: at least one name is tried, and owners of files differ.
`SecretInv` ties the place of a run of `send` to the status on the server, and a
consumer to the run that holds the link. `OpenerInv` is what a run of `open` has at
each step: before `consume` nothing of the secret, while it holds the reservation an
empty file of its own at `-output`, from `place` on a whole staging file until there
is a whole file in its place, and a fault if it ended with neither copy nor output. `FileInv` is the converse, from
the file to the run: whoever a file belongs to is at a place in the code where it
holds that file (`Holds`), and a partial one is left only by a kill or a salvaged
text. The two directions are needed together: that a rename or a copy replaces only
the run's own reservation comes from `OpenerInv`, that a run which gave up left
nothing at any path from `FileInv`. `FilesAreSafe` is an action property: `StepSpares`
shows for every action that a file it changes is free, or an unfinished file of the
run that takes the step (`OwnFile`, `DiscardOwn`).

### Model-checked only

The liveness properties (`EventuallyForgotten`, `EveryJobEnds`, `OrphansAreDeleted`,
`NothingRemains`, `EveryCallReturns`): fairness and ENABLED are beyond the prover.
Every other property that a passing run checks is also a theorem;
`CoalescesSameAttempt` and `PurgeSkipsNoConsumedRow` are false. The prover has no induction over data (only
arguments from a least element), so nothing is proved of what a recursive
definition computes; the modules above contain none.

## Not modelled

Cryptography, request decoding, validation, headers, wording, metrics other than
the gauge, configuration and wiring, the web application, and the text form of
timestamps and the size arithmetic of age files. Deliveries of releases without a
management record, a boot whose gauge count fails, and a store without an outbox
(used by tests) are outside `SecretDelivery`. Payloads that do not decode are
terminated before `Start` and are outside `CleanupPipeline`. `PipeRelay` leaves out
the metadata of a session, which a second `Send` stores before it is refused, and
the close of the coordinator at shutdown. `RateLimiter` does not round as floating
point does. `CommandLine` leaves out flags, prompts, link parsing and the choice of
a safe name, and other programs that remove the file reserved for `-output`: the
rename would replace what they put there.

## Plan

`AgeSizes` and `TimeText`: pure algorithms against reference definitions.
