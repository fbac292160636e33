-------------------------- MODULE CleanupPipeline --------------------------
(***************************************************************************)
(* The road of a cleanup job: outbox_events in api.db, the publisher loop, *)
(* the JetStream work queue, and the workers with their receipts in        *)
(* worker.db.  A worker persists a terminal receipt first, then tells the  *)
(* API that a managed object is gone, and only then acknowledges the       *)
(* message.  Any process may stop between two of these steps, a reply may  *)
(* be lost, and a message may be delivered to two workers.                 *)
(*                                                                         *)
(* Clocks: the age of a processing lease is counted in ticks and stops at  *)
(* ProcessingLease, beyond which Start treats all ages alike.              *)
(***************************************************************************)
EXTENDS Naturals, FiniteSets, Sequences

CONSTANTS
    Jobs,             \* job ids
    Managed,          \* jobs that delete a managed object and need the API's ack
    NoJob,            \* what an idle worker holds
    Workers,          \* worker processes (two during a rolling update)
    MaxFailures,      \* DefaultMaxAttempts
    ProcessingLease,  \* age at which a processing receipt may be taken over
    JobTimeout,       \* a handler returns by this age of its lease
    MaxFaults         \* bound: crashes, lost replies, storage errors, stalls

ASSUME PipelineAssumption ==
    /\ Managed \subseteq Jobs
    /\ NoJob \notin Jobs
    /\ MaxFailures \in Nat \ {0}
    /\ ProcessingLease \in Nat /\ JobTimeout \in Nat
    /\ JobTimeout < ProcessingLease
    /\ MaxFaults \in Nat

VARIABLES
    outbox,     \* outbox_events.state, "none" before the enqueuing commit
    publishing, \* <<job, reply>> of a Publish call that returned, not yet marked
    published,  \* messages ever stored for the job
    stored,     \* messages the stream holds: <<job, n>>
    receipt,    \* job_receipts.state, "none" without a row
    attempts,   \* job_receipts.attempts
    result,     \* job_attempts.result per attempt; "interrupted": failed, no error
    age,        \* ticks since job_receipts.updated_at of a processing receipt
    deadLetters,\* dead_letters
    told,       \* jobs the API has heard the end of (AcknowledgeObjectCleanup)
    pc,         \* where each worker is with the message it holds
    held,       \* the job of that message
    copy,       \* and which of the job's messages it is
    mine,       \* the attempt number its Start returned
    runs,       \* history: executions of the job's side effect
    faults      \* faults so far

outboxVars == <<outbox, publishing, published>>
receiptVars == <<receipt, attempts, result, age, deadLetters>>
workerVars == <<pc, held, copy, mine>>
vars == <<outboxVars, stored, receiptVars, told, workerVars, runs, faults>>

Results == {"running", "succeeded", "failed", "interrupted"}
Steps == {"idle", "delivered", "handling", "handled", "errored", "notify", "ack"}

TypeOK ==
    /\ outbox \in [Jobs -> {"none", "pending", "failed", "published"}]
    /\ publishing \subseteq Jobs \X {"ok", "error"}
    /\ published \in [Jobs -> Nat]
    /\ stored \subseteq Jobs \X Nat
    /\ receipt \in [Jobs -> {"none", "processing", "succeeded", "failed", "dead"}]
    /\ attempts \in [Jobs -> Nat]
    /\ result \in [Jobs -> Seq(Results)]
    /\ age \in [Jobs -> 0 .. ProcessingLease]
    /\ deadLetters \subseteq Jobs
    /\ told \subseteq Managed
    /\ pc \in [Workers -> Steps]
    /\ held \in [Workers -> Jobs \cup {NoJob}]
    /\ copy \in [Workers -> Nat]
    /\ mine \in [Workers -> Nat]
    /\ runs \in [Jobs -> Nat]
    /\ faults \in 0 .. MaxFaults

(* Jobs in the hands of the queue before this worker version first ran.    *)
(* Older workers could commit the final failure before its dead letter.    *)
Init ==
    \E legacy \in SUBSET Jobs :
        /\ outbox = [j \in Jobs |-> IF j \in legacy THEN "published" ELSE "none"]
        /\ published = [j \in Jobs |-> IF j \in legacy THEN 1 ELSE 0]
        /\ stored = legacy \X {1}
        /\ receipt = [j \in Jobs |-> IF j \in legacy THEN "failed" ELSE "none"]
        /\ attempts = [j \in Jobs |-> IF j \in legacy THEN MaxFailures ELSE 0]
        /\ result = [j \in Jobs |-> IF j \in legacy THEN [n \in 1 .. MaxFailures |-> "failed"]
                                                     ELSE <<>>]
        /\ publishing = {}
        /\ age = [j \in Jobs |-> 0]
        /\ deadLetters = {} /\ told = {}
        /\ pc = [w \in Workers |-> "idle"]
        /\ held = [w \in Workers |-> NoJob]
        /\ copy = [w \in Workers |-> 0]
        /\ mine = [w \in Workers |-> 0]
        /\ runs = [j \in Jobs |-> 0]
        /\ faults = 0

Fault == faults < MaxFaults /\ faults' = faults + 1

-----------------------------------------------------------------------------
(* The outbox.  A job appears with the commit of the transaction that      *)
(* needs it.                                                               *)
EnqueueTx(j) ==
    /\ outbox[j] = "none"
    /\ outbox' = [outbox EXCEPT ![j] = "pending"]
    /\ UNCHANGED <<publishing, published, stored, receiptVars, told,
                   workerVars, runs, faults>>

(* Rows the publisher may pick.  The retry delay of a failed row is not    *)
(* counted: it may be due at any time.                                     *)
ListDue == {j \in Jobs : outbox[j] \in {"pending", "failed"}}

(* PublishDue takes one row at a time.  The stream may have stored the     *)
(* message although the reply says it failed.                              *)
Publish(j) ==
    /\ publishing = {}
    /\ j \in ListDue
    /\ \/ /\ publishing' = {<<j, "ok">>}
          /\ stored' = stored \cup {<<j, published[j] + 1>>}
          /\ published' = [published EXCEPT ![j] = @ + 1]
          /\ UNCHANGED faults
       \/ /\ publishing' = {<<j, "error">>}
          /\ stored' = stored \cup {<<j, published[j] + 1>>}
          /\ published' = [published EXCEPT ![j] = @ + 1]
          /\ Fault
       \/ /\ publishing' = {<<j, "error">>}
          /\ UNCHANGED <<stored, published>>
          /\ Fault
    /\ UNCHANGED <<outbox, receiptVars, told, workerVars, runs>>

MarkPublished(j) ==
    /\ <<j, "ok">> \in publishing
    /\ outbox[j] # "published"
    /\ outbox' = [outbox EXCEPT ![j] = "published"]
    /\ publishing' = {}
    /\ UNCHANGED <<published, stored, receiptVars, told, workerVars, runs, faults>>

(* Mutant: a failed publish is recorded as published.                      *)
MarkFailed_AsPublished(j) ==
    /\ <<j, "error">> \in publishing
    /\ outbox' = [outbox EXCEPT ![j] = "published"]
    /\ publishing' = {}
    /\ UNCHANGED <<published, stored, receiptVars, told, workerVars, runs, faults>>

MarkFailed(j) ==
    /\ <<j, "error">> \in publishing
    /\ outbox[j] # "published"
    /\ outbox' = [outbox EXCEPT ![j] = "failed"]
    /\ publishing' = {}
    /\ UNCHANGED <<published, stored, receiptVars, told, workerVars, runs, faults>>

(* The API stops, or the update fails, after Publish returned: the row     *)
(* stays due and its message may be published again.                       *)
PublisherStops ==
    /\ publishing # {}
    /\ publishing' = {}
    /\ Fault
    /\ UNCHANGED <<outbox, published, stored, receiptVars, told, workerVars, runs>>

-----------------------------------------------------------------------------
(* A worker.  Delivery reserves nothing: a message the stream still holds  *)
(* may reach any idle worker, because its ack wait may have run out.       *)
Fetch(w, m) ==
    /\ pc[w] = "idle"
    /\ m \in stored
    /\ pc' = [pc EXCEPT ![w] = "delivered"]
    /\ held' = [held EXCEPT ![w] = m[1]]
    /\ copy' = [copy EXCEPT ![w] = m[2]]
    /\ UNCHANGED <<outboxVars, stored, receiptVars, told, mine, runs, faults>>

(* Nak, crash and ack alike leave the worker without a message.            *)
Release(w) ==
    /\ pc' = [pc EXCEPT ![w] = "idle"]
    /\ held' = [held EXCEPT ![w] = NoJob]
    /\ copy' = [copy EXCEPT ![w] = 0]
    /\ mine' = [mine EXCEPT ![w] = 0]

Advance(w, step) ==
    /\ pc' = [pc EXCEPT ![w] = step]
    /\ UNCHANGED <<held, copy, mine>>

failureCount(rs) == Cardinality({n \in DOMAIN rs : rs[n] = "failed"})

(* Mutant: a takeover leaves the attempt it replaces running.              *)
Interrupted_StillRunning(rs) == rs

(* Mutant: a takeover spends a handler failure.                            *)
Interrupted_CountsAsFailure(rs) ==
    [n \in DOMAIN rs |-> IF rs[n] = "running" THEN "failed" ELSE rs[n]]

(* An attempt whose lease lapsed is kept as failed without an error.       *)
Interrupted(rs) == [n \in DOMAIN rs |-> IF rs[n] = "running" THEN "interrupted" ELSE rs[n]]

(* The claim Start commits: a new running attempt and a fresh lease.       *)
Claim(w, j) ==
    /\ receipt' = [receipt EXCEPT ![j] = "processing"]
    /\ attempts' = [attempts EXCEPT ![j] = @ + 1]
    /\ result' = [result EXCEPT ![j] = Append(Interrupted(@), "running")]
    /\ age' = [age EXCEPT ![j] = 0]
    /\ pc' = [pc EXCEPT ![w] = "handling"]
    /\ mine' = [mine EXCEPT ![w] = attempts[j] + 1]
    /\ UNCHANGED <<held, copy, deadLetters>>

deadLetter(j) ==
    /\ receipt' = [receipt EXCEPT ![j] = "dead"]
    /\ deadLetters' = deadLetters \cup {j}

(* Mutant: the lease is not consulted.                                     *)
Claimable_NoLease(j) == receipt[j] \in {"none", "failed", "processing"}

(* Mutant: a lapsed lease is never taken over.                             *)
Claimable_NoTakeover(j) == receipt[j] \in {"none", "failed"}

Claimable(j) ==
    \/ receipt[j] \in {"none", "failed"}
    \/ receipt[j] = "processing" /\ age[j] >= ProcessingLease

(* A terminal receipt goes on to be acknowledged again; a leased one is    *)
(* returned for retry; a claimable one gets a new attempt, or the dead     *)
(* letter an older worker still owes it.                                   *)
Start(w) ==
    LET j == held[w]
    IN  /\ pc[w] = "delivered"
        /\ \/ /\ receipt[j] \in {"succeeded", "dead"}
              /\ Advance(w, "notify")
              /\ UNCHANGED receiptVars
           \/ /\ receipt[j] = "processing" /\ age[j] < ProcessingLease
              /\ Release(w)
              /\ UNCHANGED receiptVars
           \/ /\ Claimable(j)
              /\ failureCount(result[j]) < MaxFailures
              /\ Claim(w, j)
           \/ /\ Claimable(j)
              /\ failureCount(result[j]) >= MaxFailures
              /\ result' = [result EXCEPT ![j] = Interrupted(@)]
              /\ deadLetter(j)
              /\ age' = [age EXCEPT ![j] = 0]
              /\ Advance(w, "notify")
              /\ UNCHANGED attempts
        /\ UNCHANGED <<outboxVars, stored, told, runs, faults>>

(* HandleJob returns.  After an error the side effect may or may not have  *)
(* happened.                                                               *)
HandleJob(w) ==
    LET j == held[w]
    IN  /\ pc[w] = "handling"
        /\ \/ /\ runs' = [runs EXCEPT ![j] = @ + 1]
              /\ Advance(w, "handled") \/ Advance(w, "errored")
           \/ /\ UNCHANGED runs
              /\ Advance(w, "errored")
        /\ UNCHANGED <<outboxVars, stored, receiptVars, told, faults>>

(* Mutant: any attempt may finish.                                         *)
Current_NotChecked(w) == pc[w] \in {"handled", "errored"}

(* finishAttempt refuses an attempt that is no longer the running one.     *)
Current(w) ==
    LET j == held[w]
    IN  /\ result[j][mine[w]] = "running"
        /\ receipt[j] = "processing"
        /\ attempts[j] = mine[w]

MarkSucceeded(w) ==
    LET j == held[w]
    IN  /\ pc[w] = "handled"
        /\ Current(w)
        /\ result' = [result EXCEPT ![j][mine[w]] = "succeeded"]
        /\ receipt' = [receipt EXCEPT ![j] = "succeeded"]
        /\ age' = [age EXCEPT ![j] = 0]
        /\ Advance(w, "notify")
        /\ UNCHANGED <<outboxVars, stored, attempts, deadLetters, told, runs, faults>>

(* Mutant: a failed attempt writes the outbox's word for due rows.         *)
finishFailed_UnknownState(w) ==
    LET j == held[w]
    IN  /\ pc[w] = "errored"
        /\ Current(w)
        /\ result' = [result EXCEPT ![j][mine[w]] = "failed"]
        /\ receipt' = [receipt EXCEPT ![j] = "pending"]
        /\ Release(w)
        /\ UNCHANGED <<outboxVars, stored, attempts, age, deadLetters, told, runs, faults>>

(* The failure that exhausts the budget commits with its dead letter;      *)
(* short of it the message is returned for redelivery.                     *)
finishFailed(w) ==
    LET j == held[w]
    IN  /\ pc[w] = "errored"
        /\ Current(w)
        /\ result' = [result EXCEPT ![j][mine[w]] = "failed"]
        /\ age' = [age EXCEPT ![j] = 0]
        /\ IF failureCount(result'[j]) >= MaxFailures
              THEN deadLetter(j) /\ Advance(w, "notify")
              ELSE /\ receipt' = [receipt EXCEPT ![j] = "failed"]
                   /\ Release(w)
                   /\ UNCHANGED deadLetters
        /\ UNCHANGED <<outboxVars, stored, attempts, told, runs, faults>>

ErrStaleAttempt(w) ==
    /\ pc[w] \in {"handled", "errored"}
    /\ ~Current(w)
    /\ Release(w)
    /\ UNCHANGED <<outboxVars, stored, receiptVars, told, runs, faults>>

(* Process's deferred call, for jobs on managed object keys.               *)
AcknowledgeObjectCleanup(w) ==
    /\ pc[w] = "notify"
    /\ told' = told \cup ({held[w]} \cap Managed)
    /\ Advance(w, "ack")
    /\ UNCHANGED <<outboxVars, stored, receiptVars, runs, faults>>

(* Ack or Term: the work queue drops the message.                          *)
applyMessageAction(w) ==
    /\ pc[w] = "ack"
    /\ stored' = stored \ {<<held[w], copy[w]>>}
    /\ Release(w)
    /\ UNCHANGED <<outboxVars, receiptVars, told, runs, faults>>

(* Crash, shutdown, a storage error, a failed call to the API or a lost    *)
(* ack: the worker is rid of the message and the stream still holds it.    *)
(* A handler cut short may already have had its effect.                    *)
Interrupt(w) ==
    /\ pc[w] # "idle"
    /\ Fault
    /\ \/ UNCHANGED runs
       \/ pc[w] = "handling" /\ runs' = [runs EXCEPT ![held[w]] = @ + 1]
    /\ Release(w)
    /\ UNCHANGED <<outboxVars, stored, receiptVars, told>>

-----------------------------------------------------------------------------
Older == [j \in Jobs |-> IF receipt[j] = "processing" /\ age[j] < ProcessingLease
                           THEN age[j] + 1 ELSE age[j]]

Holding(w) == pc[w] \in {"handling", "handled", "errored"}

(* Time passes.  A handler honours its context, so it has returned by      *)
(* JobTimeout; a worker that has its result normally writes it within the  *)
(* lease, and a stall that lets the lease run out counts as a fault.       *)
Tick ==
    /\ Older # age
    /\ \A w \in Workers : pc[w] = "handling" => age[held[w]] < JobTimeout
    /\ age' = Older
    /\ IF \E w \in Workers : Holding(w) /\ Current(w) /\ age'[held[w]] = ProcessingLease
         THEN Fault ELSE UNCHANGED faults
    /\ UNCHANGED <<outboxVars, stored, receipt, attempts, result, deadLetters, told,
                   workerVars, runs>>

Worker(w) ==
    \/ Start(w) \/ HandleJob(w) \/ MarkSucceeded(w) \/ finishFailed(w)
    \/ ErrStaleAttempt(w) \/ AcknowledgeObjectCleanup(w) \/ applyMessageAction(w)

Publisher(j) == Publish(j) \/ MarkPublished(j) \/ MarkFailed(j)

Next ==
    \/ \E j \in Jobs : EnqueueTx(j) \/ Publisher(j)
    \/ PublisherStops
    \/ \E w \in Workers : Worker(w) \/ Interrupt(w)
    \/ \E w \in Workers, m \in stored : Fetch(w, m)
    \/ Tick

Spec == Init /\ [][Next]_vars

(* Faults stop eventually (MaxFaults); then the publisher loop visits due  *)
(* rows in order, the stream redelivers what is not acknowledged, and a    *)
(* running worker takes its next step.                                     *)
Fairness ==
    /\ \A j \in Jobs : WF_vars(Publisher(j))
    /\ \A w \in Workers : WF_vars(Worker(w))
    /\ \A m \in Jobs \X (1 .. MaxFaults + 1) : SF_vars(\E w \in Workers : Fetch(w, m))
    /\ WF_vars(Tick)

FairSpec == Spec /\ Fairness

-----------------------------------------------------------------------------
Terminal(j) == receipt[j] \in {"succeeded", "dead"}

Queue == INSTANCE JobQueue WITH
    job <- [j \in Jobs |-> IF receipt[j] = "succeeded" THEN "done"
                           ELSE IF receipt[j] = "dead" THEN "dead"
                           ELSE IF outbox[j] = "none" THEN "none" ELSE "owed"]

(* The pipeline is the queue its producers rely on: a job is executed      *)
(* before it is recorded as succeeded and never after its receipt is       *)
(* terminal, over duplicate messages, lapsed leases and crashed workers.   *)
ImplementsJobQueue == Queue!Spec

(* job_attempts and job_receipts agree: a processing receipt has exactly   *)
(* one running attempt, its newest, and no other receipt has any (Start,   *)
(* finishAttempt and the takeover of a lapsed lease).                      *)
OneRunningAttempt ==
    \A j \in Jobs :
        /\ attempts[j] = Len(result[j])
        /\ \A n \in DOMAIN result[j] :
              result[j][n] = "running" <=> receipt[j] = "processing" /\ n = attempts[j]

(* A job is dead, with its dead letter, exactly when its budget of handler *)
(* failures is spent: interruptions, duplicates and storage errors spend   *)
(* none, and no handler runs beyond the budget.                            *)
BudgetIsExact ==
    \A j \in Jobs :
        /\ j \in deadLetters <=> receipt[j] = "dead"
        /\ receipt[j] = "dead" => failureCount(result[j]) = MaxFailures
        /\ receipt[j] \in {"processing", "succeeded"} => failureCount(result[j]) < MaxFailures

(* Two workers never execute one job at the same time: a lease outlives    *)
(* the handler it protects (ProcessingLease against JobTimeout).           *)
HandlersExclude ==
    \A v, w \in Workers :
        pc[v] = "handling" /\ pc[w] = "handling" /\ held[v] = held[w] => v = w

(* No committed job is lost: once its row says published the stream holds  *)
(* a message for it, or its receipt is terminal and the API has been told  *)
(* (publish before mark, receipt before acknowledgement before Ack).       *)
NoJobLost ==
    \A j \in Jobs :
        outbox[j] = "published" =>
            \/ \E m \in stored : m[1] = j
            \/ Terminal(j) /\ (j \in Managed => j \in told)

Settled(j) ==
    /\ outbox[j] = "published"
    /\ Terminal(j)
    /\ j \in Managed => j \in told
    /\ \A m \in stored : m[1] # j

(* Every committed job ends: published, terminal, reported to the API and  *)
(* gone from the stream.                                                   *)
EveryJobEnds == \A j \in Jobs : outbox[j] # "none" ~> Settled(j)
=============================================================================
