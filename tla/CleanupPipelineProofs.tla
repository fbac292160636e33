----------------------- MODULE CleanupPipelineProofs ------------------------
(***************************************************************************)
(* Proofs about CleanupPipeline, for any sets of jobs and workers, any     *)
(* failure budget, any lease longer than the job timeout and any number of *)
(* faults.                                                                 *)
(***************************************************************************)
EXTENDS CleanupPipeline, FiniteSetTheorems, TLAPS

-----------------------------------------------------------------------------
(* The inductive invariant.                                                *)

(* The receipt of a job, its attempts and its dead letter agree, and the   *)
(* budget of failures is never overdrawn, whatever the receipt says.       *)
ReceiptInv(j) ==
    /\ attempts[j] = Len(result[j])
    /\ \A n \in DOMAIN result[j] :
          result[j][n] = "running" <=> receipt[j] = "processing" /\ n = attempts[j]
    /\ j \in deadLetters <=> receipt[j] = "dead"
    /\ failureCount(result[j]) <= MaxFailures
    /\ receipt[j] = "dead" => failureCount(result[j]) = MaxFailures
    /\ receipt[j] \in {"processing", "succeeded"} => failureCount(result[j]) < MaxFailures
    /\ receipt[j] # "none" => outbox[j] # "none"

(* The job is in the stream, or over and reported.                         *)
Delivered(j) ==
    \/ \E m \in stored : m[1] = j
    \/ Terminal(j) /\ (j \in Managed => j \in told)

(* Only committed jobs are published, and a publish that succeeded has     *)
(* delivered its job even before the row says so.                          *)
QueueInv ==
    /\ \A m \in stored : outbox[m[1]] # "none"
    /\ \A j \in Jobs :
          /\ \A reply \in {"ok", "error"} : <<j, reply>> \in publishing => outbox[j] # "none"
          /\ <<j, "ok">> \in publishing \/ outbox[j] = "published" => Delivered(j)

(* What a worker knows at each of its steps.  A handler that runs is the   *)
(* current attempt and within its lease.                                   *)
WorkerInv(w) ==
    /\ pc[w] # "idle" => held[w] \in Jobs /\ outbox[held[w]] # "none"
    /\ Holding(w) => mine[w] \in 1 .. attempts[held[w]]
    /\ pc[w] = "handling" => Current(w) /\ age[held[w]] <= JobTimeout
    /\ pc[w] = "handled" => runs[held[w]] > 0
    /\ pc[w] \in {"notify", "ack"} => Terminal(held[w])
    /\ pc[w] = "ack" => (held[w] \in Managed => held[w] \in told)

(* No two workers work on one attempt.                                     *)
AttemptsDiffer ==
    \A v, w \in Workers :
        Holding(v) /\ Holding(w) /\ held[v] = held[w] /\ mine[v] = mine[w] => v = w

Inv ==
    /\ TypeOK
    /\ \A j \in Jobs : ReceiptInv(j)
    /\ QueueInv
    /\ \A w \in Workers : WorkerInv(w)
    /\ AttemptsDiffer

-----------------------------------------------------------------------------
(* Lists of attempt results.                                               *)

Failures(rs) == {n \in DOMAIN rs : rs[n] = "failed"}

LEMMA FailuresFinite ==
    ASSUME NEW rs \in Seq(Results)
    PROVE  IsFiniteSet(Failures(rs)) /\ failureCount(rs) \in Nat
<1>1. DOMAIN rs = 1 .. Len(rs) /\ Len(rs) \in Nat
  OBVIOUS
<1>2. IsFiniteSet(DOMAIN rs)
  BY <1>1, FS_Interval
<1>3. IsFiniteSet(Failures(rs))
  BY <1>2, FS_Subset, Zenon DEF Failures
<1> QED
  BY <1>3, FS_CardinalityType, Zenon DEF failureCount, Failures

(* A takeover keeps the list and its failures, and leaves nothing running. *)
LEMMA InterruptedList ==
    ASSUME NEW rs \in Seq(Results)
    PROVE  /\ Interrupted(rs) \in Seq(Results)
           /\ Len(Interrupted(rs)) = Len(rs)
           /\ DOMAIN Interrupted(rs) = DOMAIN rs
           /\ \A n \in DOMAIN rs : Interrupted(rs)[n] # "running"
           /\ failureCount(Interrupted(rs)) = failureCount(rs)
<1>1. Interrupted(rs) \in [1 .. Len(rs) -> Results]
  BY DEF Interrupted, Results
<1>2. /\ Interrupted(rs) \in Seq(Results)
      /\ Len(Interrupted(rs)) = Len(rs)
      /\ DOMAIN Interrupted(rs) = DOMAIN rs
  BY <1>1
<1>3. \A n \in DOMAIN rs : Interrupted(rs)[n] # "running"
  BY Zenon DEF Interrupted
<1>4. {n \in DOMAIN Interrupted(rs) : Interrupted(rs)[n] = "failed"} = {n \in DOMAIN rs : rs[n] = "failed"}
  BY Zenon DEF Interrupted
<1> QED
  BY <1>2, <1>3, <1>4, Zenon DEF failureCount

(* A new attempt is the only one running, and spends nothing.              *)
LEMMA ClaimedList ==
    ASSUME NEW rs \in Seq(Results)
    PROVE  LET new == Append(Interrupted(rs), "running")
           IN  /\ new \in Seq(Results)
               /\ Len(new) = Len(rs) + 1
               /\ \A n \in DOMAIN new : new[n] = "running" <=> n = Len(rs) + 1
               /\ failureCount(new) = failureCount(rs)
<1> DEFINE old == Interrupted(rs)
           new == Append(old, "running")
<1>1. /\ old \in Seq(Results) /\ Len(old) = Len(rs) /\ DOMAIN old = 1 .. Len(rs)
      /\ \A n \in DOMAIN old : old[n] # "running"
      /\ failureCount(old) = failureCount(rs)
  BY InterruptedList
<1>2. "running" \in Results
  BY Zenon DEF Results
<1> HIDE DEF old
<1>3. /\ new \in Seq(Results) /\ Len(new) = Len(rs) + 1
      /\ \A n \in 1 .. Len(rs) : new[n] = old[n]
      /\ new[Len(rs) + 1] = "running"
  BY <1>1, <1>2
<1>4. DOMAIN new = 1 .. Len(rs) + 1
  BY <1>3
<1> HIDE DEF new
<1>5. \A n \in DOMAIN new : new[n] = "running" <=> n = Len(rs) + 1
  BY <1>1, <1>3, <1>4
<1>6. {n \in DOMAIN new : new[n] = "failed"} = {n \in DOMAIN old : old[n] = "failed"}
  BY <1>1, <1>3, <1>4
<1>7. failureCount(new) = failureCount(rs)
  BY <1>1, <1>6, Zenon DEF failureCount
<1> QED
  BY <1>3, <1>5, <1>7, Zenon DEF new, old

Finished(rs, k, end) == [rs EXCEPT ![k] = end]

(* The running attempt ends: only a failure spends, and it spends one.     *)
LEMMA FinishedList ==
    ASSUME NEW rs \in Seq(Results), NEW k \in DOMAIN rs, rs[k] = "running",
           NEW end \in {"succeeded", "failed"}
    PROVE  LET new == Finished(rs, k, end)
           IN  /\ new \in Seq(Results)
               /\ Len(new) = Len(rs)
               /\ DOMAIN new = DOMAIN rs
               /\ \A n \in DOMAIN rs : n # k => new[n] = rs[n]
               /\ new[k] = end
               /\ failureCount(new) = IF end = "failed" THEN failureCount(rs) + 1
                                                        ELSE failureCount(rs)
<1> DEFINE new == Finished(rs, k, end)
<1>1. /\ DOMAIN new = DOMAIN rs /\ new[k] = end
      /\ \A n \in DOMAIN rs : n # k => new[n] = rs[n]
  BY Zenon DEF Finished
<1>2. k \in 1 .. Len(rs) /\ end \in Results
  BY DEF Results
<1>3. new \in Seq(Results) /\ Len(new) = Len(rs)
  BY <1>2 DEF Finished
<1> HIDE DEF new
<1>4. CASE end = "failed"
  <2>1. Failures(new) = Failures(rs) \cup {k} /\ k \notin Failures(rs)
    BY <1>1, <1>4, Zenon DEF Failures
  <2>2. Cardinality(Failures(new)) = Cardinality(Failures(rs)) + 1
    BY <2>1, FailuresFinite, FS_AddElement, Zenon
  <2> QED
    BY <1>1, <1>3, <1>4, <2>2, Zenon DEF failureCount, Failures, new
<1>5. CASE end = "succeeded"
  <2>1. Failures(new) = Failures(rs)
    BY <1>1, <1>5, Zenon DEF Failures
  <2> QED
    BY <1>1, <1>3, <1>5, <2>1, Zenon DEF failureCount, Failures, new
<1> QED
  BY <1>4, <1>5, Zenon

-----------------------------------------------------------------------------
(* Frames: what a step leaves alone keeps its part of the invariant.       *)

(* Nothing a job has reached is taken back.                                *)
Grows ==
    /\ \A j \in Jobs : outbox[j] # "none" => outbox'[j] # "none"
    /\ \A j \in Jobs : Terminal(j) => Terminal(j)'
    /\ \A j \in Jobs : attempts[j] <= attempts'[j]
    /\ \A j \in Jobs : runs[j] <= runs'[j]
    /\ told \subseteq told'

LEMMA ReceiptFrame ==
    ASSUME NEW j \in Jobs, ReceiptInv(j), Grows,
           UNCHANGED <<receipt[j], attempts[j], result[j], j \in deadLetters>>
    PROVE  ReceiptInv(j)'
BY Zenon DEF ReceiptInv, Grows

LEMMA QueueFrame ==
    ASSUME Inv, Grows, UNCHANGED <<outbox, publishing, stored>>
    PROVE  QueueInv'
BY Zenon DEF Inv, QueueInv, Delivered, Grows

LEMMA WorkerFrame ==
    ASSUME Inv, TypeOK', Grows, NEW w \in Workers,
           UNCHANGED <<pc[w], held[w], mine[w]>>,
           pc[w] = "handling" =>
              /\ UNCHANGED <<receipt[held[w]], attempts[held[w]], result[held[w]]>>
              /\ age'[held[w]] <= JobTimeout
    PROVE  WorkerInv(w)'
<1>1. WorkerInv(w)
  BY Zenon DEF Inv
<1>2. CASE pc[w] = "idle"
  BY <1>2, Zenon DEF WorkerInv, Holding
<1>3. CASE pc[w] # "idle"
  <2>1. held[w] \in Jobs /\ outbox'[held[w]] # "none"
    BY <1>1, <1>3, Zenon DEF WorkerInv, Grows
  <2>2. Holding(w) => mine[w] \in 1 .. attempts'[held[w]]
    BY <1>1, <2>1 DEF WorkerInv, Grows, Inv, TypeOK
  <2>3. pc[w] = "handling" => Current(w)' /\ age'[held[w]] <= JobTimeout
    BY <1>1, Zenon DEF WorkerInv, Current
  <2>4. pc[w] = "handled" => runs'[held[w]] > 0
    BY <1>1, <2>1 DEF WorkerInv, Grows, Inv, TypeOK
  <2>5. /\ pc[w] \in {"notify", "ack"} => Terminal(held[w])'
        /\ pc[w] = "ack" => (held[w] \in Managed => held[w] \in told')
    BY <1>1, <2>1, Zenon DEF WorkerInv, Grows, Terminal
  <2> QED
    BY <2>1, <2>2, <2>3, <2>4, <2>5, Zenon DEF WorkerInv, Holding
<1> QED
  BY <1>2, <1>3, Zenon

LEMMA AttemptsFrame ==
    ASSUME Inv,
           \A v \in Workers : Holding(v)' => Holding(v) /\ UNCHANGED <<held[v], mine[v]>>
    PROVE  AttemptsDiffer'
BY Zenon DEF Inv, AttemptsDiffer

(* Release and Advance touch one worker.                                   *)
LEMMA OneWorkerMoves ==
    ASSUME TypeOK, NEW w \in Workers, Release(w) \/ (\E step \in Steps : Advance(w, step))
    PROVE  \A v \in Workers \ {w} : UNCHANGED <<pc[v], held[v], mine[v]>>
BY Zenon DEF TypeOK, Release, Advance

LEMMA WorkersTyped ==
    ASSUME TypeOK, NEW w \in Workers, Release(w) \/ (\E step \in Steps : Advance(w, step))
    PROVE  /\ pc' \in [Workers -> Steps] /\ held' \in [Workers -> Jobs \cup {NoJob}]
           /\ copy' \in [Workers -> Nat] /\ mine' \in [Workers -> Nat]
<1>1. /\ pc \in [Workers -> Steps] /\ held \in [Workers -> Jobs \cup {NoJob}]
      /\ copy \in [Workers -> Nat] /\ mine \in [Workers -> Nat]
  BY Zenon DEF TypeOK
<1>2. CASE Release(w)
  <2>1. "idle" \in Steps
    BY Zenon DEF Steps
  <2> QED
    BY <1>1, <1>2, <2>1, Zenon DEF Release
<1>3. ASSUME NEW step \in Steps, Advance(w, step)
      PROVE  /\ pc' \in [Workers -> Steps]
             /\ UNCHANGED <<held, copy, mine>>
  BY <1>1, <1>3, Zenon DEF Advance
<1> QED
  BY <1>1, <1>2, <1>3, Zenon

LEMMA FaultTyped ==
    ASSUME TypeOK, Fault
    PROVE  faults' \in 0 .. MaxFaults
<1>1. faults \in 0 .. MaxFaults /\ MaxFaults \in Nat
  BY PipelineAssumption, Zenon DEF TypeOK
<1> QED
  BY <1>1 DEF Fault

-----------------------------------------------------------------------------
(* The outbox.                                                             *)

LEMMA EnqueueStep ==
    ASSUME Inv, NEW j \in Jobs, EnqueueTx(j)
    PROVE  Inv'
<1>1. TypeOK'
  BY Zenon DEF Inv, TypeOK, EnqueueTx, receiptVars, workerVars
<1>2. Grows
  BY DEF Inv, TypeOK, EnqueueTx, Grows, Terminal, receiptVars
<1>3. \A i \in Jobs : ReceiptInv(i)'
  BY <1>2, ReceiptFrame, Zenon DEF Inv, EnqueueTx, receiptVars
<1>4. QueueInv'
  BY <1>2, Zenon DEF Inv, TypeOK, QueueInv, Delivered, Grows, EnqueueTx
<1>5. \A w \in Workers : WorkerInv(w)'
  BY <1>1, <1>2, WorkerFrame, Zenon DEF Inv, WorkerInv, EnqueueTx, receiptVars, workerVars
<1>6. AttemptsDiffer'
  BY AttemptsFrame, Zenon DEF EnqueueTx, workerVars, Holding
<1> QED
  BY <1>1, <1>3, <1>4, <1>5, <1>6, Zenon DEF Inv

LEMMA PublisherStep ==
    ASSUME Inv, NEW j \in Jobs, Publisher(j)
    PROVE  Inv'
<1>1. /\ UNCHANGED <<receiptVars, told, workerVars, runs>>
      /\ stored \subseteq stored'
      /\ outbox[j] # "none"
      /\ outbox' = outbox \/ outbox' = [outbox EXCEPT ![j] = "failed"]
                          \/ (outbox' = [outbox EXCEPT ![j] = "published"] /\ <<j, "ok">> \in publishing)
      /\ publishing' = {} \/ publishing' = {<<j, "ok">>} \/ publishing' = {<<j, "error">>}
      /\ \/ UNCHANGED <<stored, published>>
         \/ /\ stored' = stored \cup {<<j, published[j] + 1>>}
            /\ published' = [published EXCEPT ![j] = @ + 1]
  BY Zenon DEF Inv, QueueInv, TypeOK, Publisher, Publish, MarkPublished, MarkFailed, ListDue
<1>2. TypeOK'
  <2>1. faults' \in 0 .. MaxFaults
    BY FaultTyped, Zenon DEF Inv, TypeOK, Publisher, Publish, MarkPublished, MarkFailed
  <2>2. publishing' \subseteq Jobs \X {"ok", "error"}
    BY <1>1
  <2>3. published' \in [Jobs -> Nat] /\ stored' \subseteq Jobs \X Nat
    <3>1. published[j] + 1 \in Nat
      BY DEF Inv, TypeOK
    <3>2. {<<j, published[j] + 1>>} \subseteq Jobs \X Nat
      BY <3>1
    <3> QED
      BY <1>1, <3>1, <3>2, Zenon DEF Inv, TypeOK
  <2> QED
    BY <1>1, <2>1, <2>2, <2>3, Zenon DEF Inv, TypeOK, receiptVars, workerVars
<1>3. Grows
  BY <1>1 DEF Inv, TypeOK, Grows, Terminal, receiptVars
<1>4. \A i \in Jobs : ReceiptInv(i)'
  BY <1>1, <1>3, ReceiptFrame, Zenon DEF Inv, receiptVars
<1>5. QueueInv'
  <2>1. \A i \in Jobs : Delivered(i) => Delivered(i)'
    BY <1>1, <1>3, Zenon DEF Delivered, Grows
  <2>2. \A m \in stored' : m \in stored \/ m[1] = j
    BY DEF Publisher, Publish, MarkPublished, MarkFailed
  <2>3. \A m \in stored' : outbox'[m[1]] # "none"
    BY <1>1, <1>2, <1>3, <2>2, Zenon DEF Inv, TypeOK, QueueInv, Grows
  <2>4. \A i \in Jobs, reply \in {"ok", "error"} :
           <<i, reply>> \in publishing' => i = j
    <3> TAKE i \in Jobs, reply \in {"ok", "error"}
    <3> HAVE <<i, reply>> \in publishing'
    <3>1. <<i, reply>> = <<j, "ok">> \/ <<i, reply>> = <<j, "error">>
      BY <1>1, Zenon
    <3> QED
      BY <3>1, Zenon
  <2>5. <<j, "ok">> \in publishing' => Delivered(j)'
    <3>1. <<j, "ok">> \in publishing' => <<j, published[j] + 1>> \in stored'
      BY DEF Publisher, Publish, MarkPublished, MarkFailed
    <3>2. <<j, published[j] + 1>>[1] = j
      BY Zenon
    <3> QED
      BY <3>1, <3>2, Zenon DEF Delivered
  <2>6. \A i \in Jobs : outbox'[i] = "published" => Delivered(i)'
    BY <1>1, <2>1, Zenon DEF Inv, TypeOK, QueueInv
  <2>7. \A i \in Jobs : <<i, "ok">> \in publishing' => Delivered(i)'
    BY <2>1, <2>4, <2>5, Zenon DEF Inv, QueueInv
  <2>8. \A i \in Jobs, reply \in {"ok", "error"} : <<i, reply>> \in publishing' => outbox'[i] # "none"
    BY <1>1, <1>3, <2>4, Zenon DEF Inv, QueueInv, Grows
  <2> QED
    BY <2>3, <2>6, <2>7, <2>8, Zenon DEF QueueInv
<1>6. \A w \in Workers : WorkerInv(w)'
  BY <1>1, <1>2, <1>3, WorkerFrame, Zenon DEF Inv, WorkerInv, receiptVars, workerVars
<1>7. AttemptsDiffer'
  BY <1>1, AttemptsFrame, Zenon DEF workerVars, Holding
<1> QED
  BY <1>2, <1>4, <1>5, <1>6, <1>7, Zenon DEF Inv

LEMMA PublisherStopsStep ==
    ASSUME Inv, PublisherStops
    PROVE  Inv'
<1>1. TypeOK'
  BY FaultTyped, Zenon DEF Inv, TypeOK, PublisherStops, receiptVars, workerVars
<1>2. Grows
  BY DEF Inv, TypeOK, PublisherStops, Grows, Terminal, receiptVars
<1>3. \A j \in Jobs : ReceiptInv(j)'
  BY <1>2, ReceiptFrame, Zenon DEF Inv, PublisherStops, receiptVars
<1>4. QueueInv'
  BY <1>2, Zenon DEF Inv, QueueInv, Delivered, Grows, PublisherStops
<1>5. \A w \in Workers : WorkerInv(w)'
  BY <1>1, <1>2, WorkerFrame, Zenon DEF Inv, WorkerInv, PublisherStops, receiptVars, workerVars
<1>6. AttemptsDiffer'
  BY AttemptsFrame, Zenon DEF PublisherStops, workerVars, Holding
<1> QED
  BY <1>1, <1>3, <1>4, <1>5, <1>6, Zenon DEF Inv

-----------------------------------------------------------------------------
(* A worker.                                                               *)

LEMMA FetchStep ==
    ASSUME Inv, NEW w \in Workers, NEW m \in stored, Fetch(w, m)
    PROVE  Inv'
<1>1. m[1] \in Jobs /\ m[2] \in Nat /\ outbox[m[1]] # "none"
  BY Zenon DEF Inv, TypeOK, QueueInv
<1>2. TypeOK'
  BY <1>1, Zenon DEF Inv, TypeOK, Fetch, outboxVars, receiptVars, Steps
<1>3. Grows
  BY DEF Inv, TypeOK, Fetch, Grows, Terminal, outboxVars, receiptVars
<1>4. \A j \in Jobs : ReceiptInv(j)'
  BY <1>3, ReceiptFrame, Zenon DEF Inv, Fetch, receiptVars
<1>5. QueueInv'
  BY <1>3, QueueFrame, Zenon DEF Fetch, outboxVars
<1>6. \A v \in Workers \ {w} : WorkerInv(v)'
  BY <1>2, <1>3, WorkerFrame, Zenon DEF Inv, TypeOK, WorkerInv, Fetch, receiptVars
<1>7. WorkerInv(w)'
  BY <1>1, Zenon DEF Inv, TypeOK, WorkerInv, Holding, Fetch, outboxVars
<1>8. AttemptsDiffer'
  BY AttemptsFrame, Zenon DEF Inv, TypeOK, Fetch, Holding
<1> QED
  BY <1>2, <1>4, <1>5, <1>6, <1>7, <1>8, Zenon DEF Inv

(* A worker that moves on, or gives its message back, while no receipt     *)
(* changes: every step but the ones that write a receipt ends like this.   *)
LEMMA MoveStep ==
    ASSUME Inv, NEW w \in Workers,
           UNCHANGED <<outboxVars, receiptVars>>,
           Release(w) \/ (\E step \in Steps : Advance(w, step)),
           Holding(w)' => Holding(w),
           Grows, QueueInv', WorkerInv(w)',
           told' \subseteq Managed, runs' \in [Jobs -> Nat], stored' \subseteq stored,
           faults' \in 0 .. MaxFaults
    PROVE  Inv'
<1>1. TypeOK'
  BY WorkersTyped, Zenon DEF Inv, TypeOK, outboxVars, receiptVars
<1>2. \A j \in Jobs : ReceiptInv(j)'
  BY ReceiptFrame, Zenon DEF Inv, receiptVars
<1>3. \A v \in Workers \ {w} : UNCHANGED <<pc[v], held[v], mine[v]>>
  BY OneWorkerMoves, Zenon DEF Inv
<1>4. \A v \in Workers \ {w} : WorkerInv(v)'
  BY <1>1, <1>3, WorkerFrame, Zenon DEF Inv, WorkerInv, receiptVars
<1>5. AttemptsDiffer'
  <2>1. Holding(w)' => UNCHANGED <<held[w], mine[w]>>
    BY Zenon DEF Inv, TypeOK, Holding, Release, Advance
  <2> QED
    BY <1>3, <2>1, AttemptsFrame, Zenon DEF Holding
<1> QED
  BY <1>1, <1>2, <1>4, <1>5, Zenon DEF Inv

LEMMA HandleStep ==
    ASSUME Inv, NEW w \in Workers, HandleJob(w)
    PROVE  Inv'
<1>1. held[w] \in Jobs /\ WorkerInv(w) /\ Holding(w)
  BY Zenon DEF Inv, WorkerInv, HandleJob, Holding
<1>2. /\ UNCHANGED <<outboxVars, receiptVars, stored, told, faults>>
      /\ \E step \in Steps : Advance(w, step)
      /\ runs' \in [Jobs -> Nat] /\ \A j \in Jobs : runs[j] <= runs'[j]
      /\ Advance(w, "errored") \/ (Advance(w, "handled") /\ runs'[held[w]] > 0)
  <2>1. runs \in [Jobs -> Nat]
    BY Zenon DEF Inv, TypeOK
  <2>2. \/ runs' = runs /\ Advance(w, "errored")
        \/ /\ runs' = [runs EXCEPT ![held[w]] = @ + 1]
           /\ Advance(w, "handled") \/ Advance(w, "errored")
    BY Zenon DEF HandleJob
  <2> QED
    BY <1>1, <2>1, <2>2 DEF HandleJob, Steps
<1>3. Grows
  BY <1>2 DEF Inv, TypeOK, Grows, Terminal, outboxVars, receiptVars
<1>4. QueueInv'
  BY <1>2, <1>3, QueueFrame, Zenon DEF outboxVars
<1>5. WorkerInv(w)'
  BY <1>1, <1>2, Zenon DEF Inv, TypeOK, WorkerInv, Holding, Advance, outboxVars, receiptVars
<1> QED
  <2>1. told' \subseteq Managed /\ faults' \in 0 .. MaxFaults /\ stored' \subseteq stored
    BY <1>2, Zenon DEF Inv, TypeOK
  <2> QED
    BY <1>1, <1>2, <1>3, <1>4, <1>5, <2>1, MoveStep, Zenon

(* A worker that lets go of its message.                                   *)
LEMMA ReleaseStep ==
    ASSUME Inv, NEW w \in Workers, Release(w), pc[w] # "idle",
           UNCHANGED <<outboxVars, receiptVars, told>>,
           stored' \subseteq stored, QueueInv', Grows,
           runs' \in [Jobs -> Nat], faults' \in 0 .. MaxFaults
    PROVE  Inv'
<1>1. ~Holding(w)' /\ WorkerInv(w)'
  BY Zenon DEF Inv, TypeOK, Release, Holding, WorkerInv
<1> QED
  BY <1>1, MoveStep, Zenon DEF Inv, TypeOK

LEMMA StaleStep ==
    ASSUME Inv, NEW w \in Workers, ErrStaleAttempt(w)
    PROVE  Inv'
<1>1. Grows
  BY DEF Inv, TypeOK, ErrStaleAttempt, Grows, Terminal, outboxVars, receiptVars
<1>2. QueueInv'
  BY <1>1, QueueFrame, Zenon DEF ErrStaleAttempt, outboxVars
<1>3. runs' \in [Jobs -> Nat] /\ faults' \in 0 .. MaxFaults
  BY Zenon DEF Inv, TypeOK, ErrStaleAttempt
<1> QED
  BY <1>1, <1>2, <1>3, ReleaseStep, Zenon DEF ErrStaleAttempt

LEMMA AcknowledgeStep ==
    ASSUME Inv, NEW w \in Workers, AcknowledgeObjectCleanup(w)
    PROVE  Inv'
<1>1. WorkerInv(w) /\ held[w] \in Jobs /\ Terminal(held[w]) /\ ~Holding(w)
  BY Zenon DEF Inv, WorkerInv, AcknowledgeObjectCleanup, Holding
<1>2. /\ UNCHANGED <<outboxVars, stored, receiptVars, runs, faults>>
      /\ told \subseteq told' /\ told' \subseteq Managed
      /\ held[w] \in Managed => held[w] \in told'
      /\ Advance(w, "ack")
  BY Zenon DEF Inv, TypeOK, AcknowledgeObjectCleanup
<1>3. Grows
  BY <1>2 DEF Inv, TypeOK, Grows, Terminal, outboxVars, receiptVars
<1>4. QueueInv'
  BY <1>2, <1>3, QueueFrame, Zenon DEF outboxVars
<1>5. pc'[w] = "ack" /\ held'[w] = held[w]
  BY <1>2, Zenon DEF Advance, Inv, TypeOK
<1>6. WorkerInv(w)'
  <2>1. outbox'[held[w]] # "none" /\ Terminal(held[w])'
    BY <1>1, <1>3, <1>5, Zenon DEF WorkerInv, Grows, AcknowledgeObjectCleanup
  <2> QED
    BY <1>1, <1>2, <1>5, <2>1, Zenon DEF WorkerInv, Holding
<1>7. runs' \in [Jobs -> Nat] /\ faults' \in 0 .. MaxFaults /\ stored' \subseteq stored
  BY <1>2, Zenon DEF Inv, TypeOK
<1> QED
  BY <1>2, <1>3, <1>4, <1>5, <1>6, <1>7, MoveStep, Zenon DEF Holding, Steps

(* The acknowledged message may have been the job's last: the job is over  *)
(* and reported.                                                           *)
LEMMA ApplyStep ==
    ASSUME Inv, NEW w \in Workers, applyMessageAction(w)
    PROVE  Inv'
<1>1. /\ held[w] \in Jobs /\ Terminal(held[w])
      /\ held[w] \in Managed => held[w] \in told
  BY Zenon DEF Inv, WorkerInv, applyMessageAction
<1>2. Grows
  BY DEF Inv, TypeOK, applyMessageAction, Grows, Terminal, outboxVars, receiptVars
<1>3. /\ UNCHANGED <<outbox, publishing, receipt, told>>
      /\ stored' = stored \ {<<held[w], copy[w]>>}
  BY Zenon DEF applyMessageAction, outboxVars, receiptVars
<1>4. \A m \in stored : m[1] # held[w] => m \in stored'
  BY <1>3
<1>5. \A j \in Jobs : Delivered(j) => Delivered(j)'
  BY <1>1, <1>3, <1>4, Zenon DEF Delivered, Terminal
<1>6. QueueInv'
  BY <1>3, <1>5, Zenon DEF Inv, QueueInv
<1>7. /\ runs' \in [Jobs -> Nat] /\ faults' \in 0 .. MaxFaults
      /\ stored' \subseteq stored
  BY <1>3, Zenon DEF Inv, TypeOK, applyMessageAction
<1> QED
  BY <1>2, <1>6, <1>7, ReleaseStep, Zenon DEF applyMessageAction

LEMMA InterruptStep ==
    ASSUME Inv, NEW w \in Workers, Interrupt(w)
    PROVE  Inv'
<1>1. held[w] \in Jobs /\ runs \in [Jobs -> Nat]
  BY Zenon DEF Inv, TypeOK, WorkerInv, Interrupt
<1>2. runs' = runs \/ runs' = [runs EXCEPT ![held[w]] = @ + 1]
  BY Zenon DEF Interrupt
<1>3. runs' \in [Jobs -> Nat] /\ \A j \in Jobs : runs[j] <= runs'[j]
  BY <1>1, <1>2
<1>4. Grows
  BY <1>3 DEF Inv, TypeOK, Interrupt, Grows, Terminal, outboxVars, receiptVars
<1>5. QueueInv'
  BY <1>4, QueueFrame, Zenon DEF Interrupt, outboxVars
<1>6. faults' \in 0 .. MaxFaults
  BY FaultTyped, Zenon DEF Interrupt, Inv
<1> QED
  BY <1>3, <1>4, <1>5, <1>6, ReleaseStep, Zenon DEF Interrupt

-----------------------------------------------------------------------------
(* Steps that write a receipt.                                             *)

(* Such a step touches one job, on which no other worker runs a handler.   *)
LEMMA SettleStep ==
    ASSUME Inv, TypeOK', NEW w \in Workers, NEW j \in Jobs,
           UNCHANGED <<outboxVars, stored, told, runs, faults>>,
           \A i \in Jobs \ {j} :
              UNCHANGED <<receipt[i], attempts[i], result[i], age[i], i \in deadLetters>>,
           Terminal(j) => Terminal(j)', attempts[j] <= attempts'[j],
           \A v \in Workers \ {w} : /\ UNCHANGED <<pc[v], held[v], mine[v]>>
                                    /\ ~(pc[v] = "handling" /\ held[v] = j),
           ReceiptInv(j)', WorkerInv(w)', AttemptsDiffer'
    PROVE  Inv'
<1>1. Grows
  <2>1. \A i \in Jobs : Terminal(i) => Terminal(i)'
    BY Zenon DEF Terminal
  <2>2. \A i \in Jobs : attempts[i] <= attempts'[i]
    <3>1. \A i \in Jobs : attempts[i] \in Nat
      BY Zenon DEF Inv, TypeOK
    <3> QED
      BY <3>1
  <2>3. \A i \in Jobs : runs[i] <= runs'[i]
    BY DEF Inv, TypeOK
  <2> QED
    BY <2>1, <2>2, <2>3, Zenon DEF Grows, outboxVars
<1>2. \A i \in Jobs : ReceiptInv(i)'
  BY <1>1, ReceiptFrame, Zenon DEF Inv
<1>3. QueueInv'
  BY <1>1, QueueFrame, Zenon DEF outboxVars
<1>4. \A v \in Workers \ {w} : WorkerInv(v)'
  <2> TAKE v \in Workers \ {w}
  <2>1. pc[v] = "handling" => held[v] \in Jobs \ {j} /\ age[held[v]] <= JobTimeout
    BY Zenon DEF Inv, WorkerInv
  <2> QED
    BY <1>1, <2>1, WorkerFrame
<1> QED
  BY <1>2, <1>3, <1>4, Zenon DEF Inv

(* A job another worker has under way cannot be claimed.                   *)
LEMMA ClaimableIsFree ==
    ASSUME Inv, NEW j \in Jobs, Claimable(j), NEW v \in Workers, pc[v] = "handling"
    PROVE  held[v] # j
<1>1. receipt[held[v]] = "processing" /\ age[held[v]] <= JobTimeout
  BY Zenon DEF Inv, WorkerInv, Current
<1>2. held[v] \in Jobs
  BY Zenon DEF Inv, WorkerInv
<1>3. age[held[v]] \in Nat
  BY <1>2, PipelineAssumption DEF Inv, TypeOK
<1> QED
  BY <1>1, <1>3, PipelineAssumption DEF Claimable

(* Nor can one attempt be finished while another is under way.             *)
LEMMA CurrentIsAlone ==
    ASSUME Inv, NEW w \in Workers, Holding(w), Current(w),
           NEW v \in Workers \ {w}, pc[v] = "handling"
    PROVE  held[v] # held[w]
BY DEF Inv, WorkerInv, Current, AttemptsDiffer, Holding

(* Start, on a claimable job within its budget: a new attempt.             *)
LEMMA ClaimStep ==
    ASSUME Inv, NEW w \in Workers, pc[w] = "delivered",
           Claimable(held[w]), failureCount(result[held[w]]) < MaxFailures, Claim(w, held[w]),
           UNCHANGED <<outboxVars, stored, told, runs, faults>>
    PROVE  Inv'
<1> DEFINE j == held[w]
           new == Append(Interrupted(result[j]), "running")
<1>1. j \in Jobs /\ outbox[j] # "none"
  BY Zenon DEF Inv, WorkerInv
<1>2. /\ result[j] \in Seq(Results) /\ attempts[j] \in Nat
      /\ attempts[j] = Len(result[j])
      /\ j \in deadLetters <=> receipt[j] = "dead"
  BY <1>1, Zenon DEF Inv, TypeOK, ReceiptInv
<1>3. /\ new \in Seq(Results) /\ Len(new) = attempts[j] + 1
      /\ \A n \in DOMAIN new : new[n] = "running" <=> n = attempts[j] + 1
      /\ failureCount(new) = failureCount(result[j])
  BY <1>2, ClaimedList, Zenon
<1> HIDE DEF new
<1>4. /\ receipt' = [receipt EXCEPT ![j] = "processing"]
      /\ attempts' = [attempts EXCEPT ![j] = @ + 1]
      /\ result' = [result EXCEPT ![j] = new]
      /\ age' = [age EXCEPT ![j] = 0]
      /\ pc' = [pc EXCEPT ![w] = "handling"]
      /\ mine' = [mine EXCEPT ![w] = attempts[j] + 1]
      /\ UNCHANGED <<held, copy, deadLetters>>
  BY Zenon DEF Claim, new
<1>5. TypeOK'
  <2>1. result' \in [Jobs -> Seq(Results)]
    BY <1>3, <1>4, Zenon DEF Inv, TypeOK
  <2>2. age' \in [Jobs -> 0 .. ProcessingLease] /\ attempts' \in [Jobs -> Nat]
    <3>1. 0 \in 0 .. ProcessingLease /\ attempts[j] + 1 \in Nat
      BY <1>2, PipelineAssumption
    <3>2. age \in [Jobs -> 0 .. ProcessingLease] /\ attempts \in [Jobs -> Nat]
      BY Zenon DEF Inv, TypeOK
    <3> QED
      BY <1>4, <3>1, <3>2, Zenon
  <2>3. pc' \in [Workers -> Steps] /\ mine' \in [Workers -> Nat]
    BY <1>2, <1>4 DEF Inv, TypeOK, Steps
  <2>4. receipt' \in [Jobs -> {"none", "processing", "succeeded", "failed", "dead"}]
    BY <1>4, Zenon DEF Inv, TypeOK
  <2> QED
    BY <1>4, <2>1, <2>2, <2>3, <2>4, Zenon DEF Inv, TypeOK, outboxVars
<1>6. /\ receipt'[j] = "processing" /\ attempts'[j] = attempts[j] + 1 /\ result'[j] = new
      /\ age'[j] = 0 /\ pc'[w] = "handling" /\ mine'[w] = attempts[j] + 1
      /\ \A i \in Jobs \ {j} : UNCHANGED <<receipt[i], attempts[i], result[i], age[i]>>
      /\ \A v \in Workers \ {w} : UNCHANGED <<pc[v], held[v], mine[v]>>
  BY <1>1, <1>4, Zenon DEF Inv, TypeOK
<1>7. ~Terminal(j)
  BY Zenon DEF Claimable, Terminal
<1>8. ReceiptInv(j)'
  <2>1. failureCount(new) < MaxFailures /\ failureCount(new) <= MaxFailures
    BY <1>3, <1>2, FailuresFinite, PipelineAssumption
  <2>2. j \notin deadLetters /\ outbox' = outbox
    BY <1>2, <1>7, Zenon DEF Terminal, outboxVars
  <2> QED
    BY <1>1, <1>3, <1>4, <1>6, <2>1, <2>2 DEF ReceiptInv
<1>9. WorkerInv(w)'
  <2>1. Current(w)'
    BY <1>2, <1>3, <1>4, <1>6 DEF Current
  <2> QED
    BY <1>1, <1>2, <1>4, <1>6, <2>1, PipelineAssumption DEF WorkerInv, outboxVars
<1>10. AttemptsDiffer'
  <2>1. \A v \in Workers \ {w} : Holding(v)' /\ held'[v] = held'[w] => mine'[v] # mine'[w]
    BY <1>2, <1>4, <1>6 DEF Inv, TypeOK, WorkerInv, Holding
  <2>2. \A v \in Workers \ {w} : Holding(v)' => Holding(v) /\ UNCHANGED <<held[v], mine[v]>>
    BY <1>6, Zenon DEF Holding
  <2> QED
    BY <2>1, <2>2, Zenon DEF Inv, AttemptsDiffer
<1>11. \A v \in Workers \ {w} : ~(pc[v] = "handling" /\ held[v] = j)
  BY <1>1, ClaimableIsFree, Zenon
<1> QED
  BY <1>1, <1>2, <1>4, <1>5, <1>6, <1>7, <1>8, <1>9, <1>10, <1>11, SettleStep

(* What a step that ends a job's attempt, or gives the job up, writes.     *)
Written(j, rs, state) ==
    /\ result' = [result EXCEPT ![j] = rs]
    /\ receipt' = [receipt EXCEPT ![j] = state]
    /\ age' = [age EXCEPT ![j] = 0]
    /\ deadLetters' = IF state = "dead" THEN deadLetters \cup {j} ELSE deadLetters
    /\ UNCHANGED <<outbox, publishing, published, attempts, stored, told, runs, faults>>

LEMMA WrittenTyped ==
    ASSUME TypeOK, NEW j \in Jobs, NEW rs \in Seq(Results),
           NEW state \in {"succeeded", "failed", "dead"}, Written(j, rs, state)
    PROVE  /\ receipt' \in [Jobs -> {"none", "processing", "succeeded", "failed", "dead"}]
           /\ result' \in [Jobs -> Seq(Results)]
           /\ age' \in [Jobs -> 0 .. ProcessingLease]
           /\ deadLetters' \subseteq Jobs
           /\ receipt'[j] = state /\ result'[j] = rs
           /\ \A i \in Jobs \ {j} :
                 UNCHANGED <<receipt[i], attempts[i], result[i], age[i], i \in deadLetters>>
<1>1. 0 \in 0 .. ProcessingLease
  BY PipelineAssumption
<1>2. /\ receipt \in [Jobs -> {"none", "processing", "succeeded", "failed", "dead"}]
      /\ result \in [Jobs -> Seq(Results)]
      /\ age \in [Jobs -> 0 .. ProcessingLease]
      /\ deadLetters \subseteq Jobs
  BY Zenon DEF TypeOK
<1>3. receipt' \in [Jobs -> {"none", "processing", "succeeded", "failed", "dead"}]
  BY <1>2, Zenon DEF Written
<1>4. result' \in [Jobs -> Seq(Results)] /\ age' \in [Jobs -> 0 .. ProcessingLease]
  BY <1>1, <1>2, Zenon DEF Written
<1>5. deadLetters' \subseteq Jobs
  BY <1>2, Zenon DEF Written
<1>6. /\ receipt'[j] = state /\ result'[j] = rs
      /\ \A i \in Jobs \ {j} :
            UNCHANGED <<receipt[i], attempts[i], result[i], age[i], i \in deadLetters>>
  BY <1>2 DEF Written
<1> QED
  BY <1>3, <1>4, <1>5, <1>6, Zenon

LEMMA EndStep ==
    ASSUME Inv, NEW w \in Workers, NEW j \in Jobs, j = held[w], pc[w] # "idle",
           NEW rs \in Seq(Results), NEW state \in {"succeeded", "failed", "dead"},
           Written(j, rs, state),
           ~Terminal(j), receipt[j] # "dead",
           Len(rs) = attempts[j], \A n \in DOMAIN rs : rs[n] # "running",
           failureCount(rs) <= MaxFailures,
           state = "dead" => failureCount(rs) = MaxFailures,
           state = "succeeded" => failureCount(rs) < MaxFailures,
           (state = "failed" /\ Release(w)) \/ (state # "failed" /\ Advance(w, "notify")),
           \A v \in Workers \ {w} : ~(pc[v] = "handling" /\ held[v] = j)
    PROVE  Inv'
<1>1. TypeOK /\ ReceiptInv(j) /\ outbox[j] # "none" /\ attempts[j] \in Nat
  BY Zenon DEF Inv, WorkerInv, TypeOK
<1>2. "notify" \in Steps
  BY Zenon DEF Steps
<1>3. /\ pc' \in [Workers -> Steps] /\ held' \in [Workers -> Jobs \cup {NoJob}]
      /\ copy' \in [Workers -> Nat] /\ mine' \in [Workers -> Nat]
      /\ \A v \in Workers \ {w} : UNCHANGED <<pc[v], held[v], mine[v]>>
  BY <1>1, <1>2, WorkersTyped, OneWorkerMoves, Zenon
<1>4. /\ receipt' \in [Jobs -> {"none", "processing", "succeeded", "failed", "dead"}]
      /\ result' \in [Jobs -> Seq(Results)]
      /\ age' \in [Jobs -> 0 .. ProcessingLease]
      /\ deadLetters' \subseteq Jobs
      /\ receipt'[j] = state /\ result'[j] = rs
      /\ \A i \in Jobs \ {j} :
            UNCHANGED <<receipt[i], attempts[i], result[i], age[i], i \in deadLetters>>
  BY <1>1, WrittenTyped
<1>5. UNCHANGED <<outbox, publishing, published, attempts, stored, told, runs, faults>>
  BY Zenon DEF Written
<1>6. TypeOK'
  BY <1>1, <1>3, <1>4, <1>5, Zenon DEF TypeOK
<1>7. ReceiptInv(j)'
  <2>1. j \in deadLetters' <=> state = "dead"
    BY <1>1, Zenon DEF Written, ReceiptInv
  <2> QED
    BY <1>1, <1>4, <1>5, <2>1, Zenon DEF ReceiptInv
<1>8. /\ pc'[w] = "idle" \/ (pc'[w] = "notify" /\ state # "failed" /\ held'[w] = j)
  BY <1>1, Zenon DEF TypeOK, Release, Advance
<1>9. WorkerInv(w)'
  BY <1>1, <1>4, <1>5, <1>8, Zenon DEF WorkerInv, Holding, Terminal
<1>10. AttemptsDiffer'
  BY <1>3, <1>8, AttemptsFrame, Zenon DEF Holding
<1>11. attempts[j] <= attempts'[j] /\ UNCHANGED <<outboxVars, stored, told, runs, faults>>
  BY <1>1, <1>5 DEF outboxVars
<1> QED
  BY <1>3, <1>4, <1>6, <1>7, <1>9, <1>10, <1>11, SettleStep, ZenonT(60)

(* Start, on a job an older worker left without its dead letter.           *)
LEMMA GiveUpStep ==
    ASSUME Inv, NEW w \in Workers, NEW j \in Jobs, j = held[w], pc[w] = "delivered",
           Claimable(j), failureCount(result[j]) >= MaxFailures,
           Written(j, Interrupted(result[j]), "dead"), Advance(w, "notify")
    PROVE  Inv'
<1>1. ReceiptInv(j) /\ result[j] \in Seq(Results) /\ attempts[j] \in Nat
  BY Zenon DEF Inv, TypeOK
<1>2. failureCount(result[j]) = MaxFailures
  BY <1>1, FailuresFinite, PipelineAssumption DEF ReceiptInv
<1> DEFINE new == Interrupted(result[j])
<1>3. /\ new \in Seq(Results) /\ Len(new) = attempts[j]
      /\ \A n \in DOMAIN new : new[n] # "running"
      /\ failureCount(new) = MaxFailures
  BY <1>1, <1>2, InterruptedList, Zenon DEF ReceiptInv
<1>4. Written(j, new, "dead")
  BY Zenon
<1> HIDE DEF new
<1>5. ~Terminal(j) /\ receipt[j] # "dead"
  BY Zenon DEF Claimable, Terminal
<1>6. \A v \in Workers \ {w} : ~(pc[v] = "handling" /\ held[v] = j)
  BY ClaimableIsFree, Zenon
<1>7. failureCount(new) <= MaxFailures
  BY <1>3, PipelineAssumption
<1> QED
  BY <1>3, <1>4, <1>5, <1>6, <1>7, EndStep, Zenon

LEMMA StartStep ==
    ASSUME Inv, NEW w \in Workers, Start(w)
    PROVE  Inv'
<1> DEFINE j == held[w]
<1>1. pc[w] = "delivered" /\ j \in Jobs /\ WorkerInv(w)
  BY Zenon DEF Inv, WorkerInv, Start
<1>2. UNCHANGED <<outboxVars, stored, told, runs, faults>>
  BY Zenon DEF Start
<1>3. CASE receipt[j] \in {"succeeded", "dead"} /\ Advance(w, "notify") /\ UNCHANGED receiptVars
  <2>1. Grows
    BY <1>2, <1>3 DEF Inv, TypeOK, Grows, Terminal, outboxVars, receiptVars
  <2>2. QueueInv'
    BY <1>2, <2>1, QueueFrame, Zenon DEF outboxVars
  <2>3. pc'[w] = "notify" /\ held'[w] = j
    BY <1>3, Zenon DEF Advance, Inv, TypeOK
  <2>4. WorkerInv(w)'
    BY <1>1, <1>2, <1>3, <2>3, Zenon DEF WorkerInv, Holding, Terminal, outboxVars, receiptVars
  <2>5. /\ told' \subseteq Managed /\ runs' \in [Jobs -> Nat] /\ faults' \in 0 .. MaxFaults
        /\ stored' \subseteq stored
    BY <1>2, Zenon DEF Inv, TypeOK
  <2>6. "notify" \in Steps /\ ~Holding(w)'
    BY <2>3, Zenon DEF Steps, Holding
  <2> QED
    BY <1>2, <1>3, <2>1, <2>2, <2>4, <2>5, <2>6, MoveStep, ZenonT(60)
<1>4. CASE Release(w) /\ UNCHANGED receiptVars
  <2>1. Grows
    BY <1>2, <1>4 DEF Inv, TypeOK, Grows, Terminal, outboxVars, receiptVars
  <2>2. QueueInv'
    BY <1>2, <2>1, QueueFrame, Zenon DEF outboxVars
  <2>3. runs' \in [Jobs -> Nat] /\ faults' \in 0 .. MaxFaults /\ stored' \subseteq stored
    BY <1>2, Zenon DEF Inv, TypeOK
  <2> QED
    BY <1>1, <1>2, <1>4, <2>1, <2>2, <2>3, ReleaseStep, Zenon
<1>5. CASE Claimable(j) /\ failureCount(result[j]) < MaxFailures /\ Claim(w, j)
  BY <1>1, <1>2, <1>5, ClaimStep, Zenon
<1>6. CASE /\ Claimable(j) /\ failureCount(result[j]) >= MaxFailures
           /\ result' = [result EXCEPT ![j] = Interrupted(@)]
           /\ deadLetter(j)
           /\ age' = [age EXCEPT ![j] = 0]
           /\ Advance(w, "notify")
           /\ UNCHANGED attempts
  <2>1. Written(j, Interrupted(result[j]), "dead")
    BY <1>2, <1>6, Zenon DEF Written, deadLetter, outboxVars
  <2> QED
    BY <1>1, <1>6, <2>1, GiveUpStep, Zenon
<1> QED
  BY <1>3, <1>4, <1>5, <1>6, Zenon DEF Start

(* The attempt a worker finishes is the running one.                       *)
LEMMA CurrentAttempt ==
    ASSUME Inv, NEW w \in Workers, pc[w] \in {"handled", "errored"}, Current(w)
    PROVE  LET j == held[w]
           IN  /\ j \in Jobs /\ ReceiptInv(j) /\ result[j] \in Seq(Results)
               /\ mine[w] \in DOMAIN result[j] /\ result[j][mine[w]] = "running"
               /\ receipt[j] = "processing" /\ Len(result[j]) = attempts[j]
               /\ \A n \in DOMAIN result[j] : result[j][n] = "running" => n = mine[w]
               /\ failureCount(result[j]) \in Nat /\ failureCount(result[j]) < MaxFailures
               /\ \A v \in Workers \ {w} : ~(pc[v] = "handling" /\ held[v] = j)
<1> DEFINE j == held[w]
<1>1. j \in Jobs /\ ReceiptInv(j) /\ mine[w] \in 1 .. attempts[j]
  BY Zenon DEF Inv, WorkerInv, Holding
<1>2. result[j] \in Seq(Results) /\ Len(result[j]) = attempts[j]
  BY <1>1, Zenon DEF Inv, TypeOK, ReceiptInv
<1>3. mine[w] \in DOMAIN result[j]
  BY <1>1, <1>2
<1>4. receipt[j] = "processing" /\ result[j][mine[w]] = "running" /\ attempts[j] = mine[w]
  BY Zenon DEF Current
<1>5. /\ \A n \in DOMAIN result[j] : result[j][n] = "running" => n = mine[w]
      /\ failureCount(result[j]) < MaxFailures
  BY <1>1, <1>4, Zenon DEF ReceiptInv
<1>6. failureCount(result[j]) \in Nat
  BY <1>2, FailuresFinite, Zenon
<1>7. \A v \in Workers \ {w} : ~(pc[v] = "handling" /\ held[v] = j)
  BY CurrentIsAlone, Zenon DEF Holding
<1> QED
  BY <1>1, <1>2, <1>3, <1>4, <1>5, <1>6, <1>7, Zenon

LEMMA SucceedStep ==
    ASSUME Inv, NEW w \in Workers, NEW j, j = held[w], MarkSucceeded(w)
    PROVE  Inv'
<1> DEFINE rs == result[j]
           new == Finished(rs, mine[w], "succeeded")
<1>1. /\ j \in Jobs /\ rs \in Seq(Results)
      /\ mine[w] \in DOMAIN rs /\ rs[mine[w]] = "running"
      /\ receipt[j] = "processing" /\ Len(rs) = attempts[j]
      /\ \A n \in DOMAIN rs : rs[n] = "running" => n = mine[w]
      /\ failureCount(rs) \in Nat /\ failureCount(rs) < MaxFailures
      /\ \A v \in Workers \ {w} : ~(pc[v] = "handling" /\ held[v] = j)
  BY CurrentAttempt, Zenon DEF MarkSucceeded
<1>2. /\ new \in Seq(Results) /\ Len(new) = Len(rs) /\ DOMAIN new = DOMAIN rs
      /\ \A n \in DOMAIN rs : n # mine[w] => new[n] = rs[n]
      /\ new[mine[w]] = "succeeded" /\ failureCount(new) = failureCount(rs)
  BY <1>1, FinishedList
<1>3. /\ result' = [result EXCEPT ![j] = new]
      /\ receipt' = [receipt EXCEPT ![j] = "succeeded"]
      /\ age' = [age EXCEPT ![j] = 0]
      /\ UNCHANGED <<outbox, publishing, published, attempts, deadLetters, stored, told, runs, faults>>
      /\ Advance(w, "notify") /\ pc[w] # "idle"
  BY Zenon DEF MarkSucceeded, Finished, outboxVars
<1> HIDE DEF new
<1>4. Written(j, new, "succeeded")
  BY <1>3, Zenon DEF Written
<1>5. \A n \in DOMAIN new : new[n] # "running"
  BY <1>1, <1>2, Zenon
<1>6. failureCount(new) <= MaxFailures /\ failureCount(new) < MaxFailures
  BY <1>1, <1>2, PipelineAssumption
<1>7. ~Terminal(j) /\ receipt[j] # "dead"
  BY <1>1, Zenon DEF Terminal
<1>8. /\ j \in Jobs /\ pc[w] # "idle" /\ new \in Seq(Results) /\ Len(new) = attempts[j]
      /\ Advance(w, "notify")
      /\ \A v \in Workers \ {w} : ~(pc[v] = "handling" /\ held[v] = j)
  BY <1>1, <1>2, <1>3, Zenon
<1> QED
  BY <1>4, <1>5, <1>6, <1>7, <1>8, EndStep, Zenon

LEMMA FailStep ==
    ASSUME Inv, NEW w \in Workers, NEW j, j = held[w], finishFailed(w)
    PROVE  Inv'
<1> DEFINE rs == result[j]
           new == Finished(rs, mine[w], "failed")
<1>1. /\ j \in Jobs /\ rs \in Seq(Results)
      /\ mine[w] \in DOMAIN rs /\ rs[mine[w]] = "running"
      /\ receipt[j] = "processing" /\ Len(rs) = attempts[j]
      /\ \A n \in DOMAIN rs : rs[n] = "running" => n = mine[w]
      /\ failureCount(rs) \in Nat /\ failureCount(rs) < MaxFailures
      /\ \A v \in Workers \ {w} : ~(pc[v] = "handling" /\ held[v] = j)
  BY CurrentAttempt, Zenon DEF finishFailed
<1>2. /\ new \in Seq(Results) /\ Len(new) = Len(rs) /\ DOMAIN new = DOMAIN rs
      /\ \A n \in DOMAIN rs : n # mine[w] => new[n] = rs[n]
      /\ new[mine[w]] = "failed" /\ failureCount(new) = failureCount(rs) + 1
  BY <1>1, FinishedList
<1>3. /\ result' = [result EXCEPT ![j] = new]
      /\ age' = [age EXCEPT ![j] = 0]
      /\ UNCHANGED <<outbox, publishing, published, attempts, stored, told, runs, faults>>
      /\ pc[w] # "idle"
  BY Zenon DEF finishFailed, Finished, outboxVars
<1>4. IF failureCount(result'[j]) >= MaxFailures
         THEN deadLetter(j) /\ Advance(w, "notify")
         ELSE /\ receipt' = [receipt EXCEPT ![j] = "failed"]
              /\ Release(w)
              /\ UNCHANGED deadLetters
  BY Zenon DEF finishFailed
<1> HIDE DEF new
<1>5. result'[j] = new
  BY <1>1, <1>3, Zenon DEF Inv, TypeOK
<1>6. \A n \in DOMAIN new : new[n] # "running"
  BY <1>1, <1>2, Zenon
<1>7. ~Terminal(j) /\ receipt[j] # "dead"
  BY <1>1, Zenon DEF Terminal
<1>8. /\ j \in Jobs /\ pc[w] # "idle" /\ new \in Seq(Results) /\ Len(new) = attempts[j]
       /\ \A v \in Workers \ {w} : ~(pc[v] = "handling" /\ held[v] = j)
  BY <1>1, <1>2, <1>3, Zenon
<1>9. CASE failureCount(new) >= MaxFailures
  <2>1. failureCount(new) = MaxFailures /\ failureCount(new) <= MaxFailures
    BY <1>1, <1>2, <1>9, PipelineAssumption
  <2>2. Written(j, new, "dead") /\ Advance(w, "notify")
    BY <1>3, <1>4, <1>5, <1>9, Zenon DEF Written, deadLetter
  <2> QED
    BY <1>6, <1>7, <1>8, <2>1, <2>2, EndStep, Zenon
<1>10. CASE ~(failureCount(new) >= MaxFailures)
  <2>1. failureCount(new) <= MaxFailures
    BY <1>1, <1>2, <1>10, PipelineAssumption
  <2>2. Written(j, new, "failed") /\ Release(w)
    BY <1>3, <1>4, <1>5, <1>10, Zenon DEF Written
  <2> QED
    BY <1>6, <1>7, <1>8, <2>1, <2>2, EndStep, Zenon
<1> QED
  BY <1>9, <1>10, Zenon

-----------------------------------------------------------------------------
(* Time.                                                                   *)

LEMMA TickStep ==
    ASSUME Inv, Tick
    PROVE  Inv'
<1>1. /\ UNCHANGED <<outboxVars, stored, receipt, attempts, result, deadLetters, told,
                     workerVars, runs>>
      /\ age' = Older
  BY Zenon DEF Tick
<1>2. age' \in [Jobs -> 0 .. ProcessingLease]
  <2>1. age \in [Jobs -> 0 .. ProcessingLease]
    BY Zenon DEF Inv, TypeOK
  <2> QED
    BY <1>1, <2>1, PipelineAssumption DEF Older
<1>3. faults' \in 0 .. MaxFaults
  <2>1. Fault \/ UNCHANGED faults
    BY Zenon DEF Tick
  <2> QED
    BY <2>1, FaultTyped, Zenon DEF Inv, TypeOK
<1>4. TypeOK'
  BY <1>1, <1>2, <1>3, Zenon DEF Inv, TypeOK, outboxVars, workerVars
<1>5. Grows
  <2>1. attempts \in [Jobs -> Nat] /\ runs \in [Jobs -> Nat]
    BY Zenon DEF Inv, TypeOK
  <2> QED
    BY <1>1, <2>1 DEF Grows, Terminal, outboxVars
<1>6. \A j \in Jobs : ReceiptInv(j)'
  BY <1>1, <1>5, ReceiptFrame, Zenon DEF Inv
<1>7. QueueInv'
  BY <1>1, <1>5, QueueFrame, Zenon DEF outboxVars
<1>8. \A w \in Workers : WorkerInv(w)'
  <2> TAKE w \in Workers
  <2>1. pc[w] = "handling" => age'[held[w]] <= JobTimeout
    <3> HAVE pc[w] = "handling"
    <3>1. held[w] \in Jobs /\ age[held[w]] < JobTimeout
      BY Zenon DEF Inv, WorkerInv, Tick
    <3>2. age[held[w]] \in Nat /\ JobTimeout \in Nat
      BY <3>1, PipelineAssumption DEF Inv, TypeOK
    <3> QED
      BY <1>1, <3>1, <3>2 DEF Older
  <2> QED
    BY <1>1, <1>4, <1>5, <2>1, WorkerFrame, Zenon DEF workerVars
<1>9. AttemptsDiffer'
  BY <1>1, AttemptsFrame, Zenon DEF workerVars, Holding
<1> QED
  BY <1>4, <1>6, <1>7, <1>8, <1>9, Zenon DEF Inv

-----------------------------------------------------------------------------
LEMMA InvInit == Init => Inv
<1> SUFFICES ASSUME Init PROVE Inv
  BY Zenon
<1> DEFINE Spoiled == [n \in 1 .. MaxFailures |-> "failed"]
<1> PICK legacy \in SUBSET Jobs :
        /\ outbox = [j \in Jobs |-> IF j \in legacy THEN "published" ELSE "none"]
        /\ published = [j \in Jobs |-> IF j \in legacy THEN 1 ELSE 0]
        /\ stored = legacy \X {1}
        /\ receipt = [j \in Jobs |-> IF j \in legacy THEN "failed" ELSE "none"]
        /\ attempts = [j \in Jobs |-> IF j \in legacy THEN MaxFailures ELSE 0]
        /\ result = [j \in Jobs |-> IF j \in legacy THEN Spoiled ELSE <<>>]
  BY Zenon DEF Init
<1>1. /\ publishing = {} /\ age = [j \in Jobs |-> 0]
      /\ deadLetters = {} /\ told = {} /\ faults = 0
      /\ pc = [w \in Workers |-> "idle"] /\ held = [w \in Workers |-> NoJob]
      /\ copy = [w \in Workers |-> 0] /\ mine = [w \in Workers |-> 0]
      /\ runs = [j \in Jobs |-> 0]
  BY Zenon DEF Init
<1>2. /\ Spoiled \in Seq(Results) /\ Len(Spoiled) = MaxFailures
      /\ \A n \in DOMAIN Spoiled : Spoiled[n] # "running"
      /\ failureCount(Spoiled) = MaxFailures
  <2>1. {n \in DOMAIN Spoiled : Spoiled[n] = "failed"} = 1 .. MaxFailures
    BY Zenon
  <2>2. Cardinality(1 .. MaxFailures) = MaxFailures
    BY FS_Interval, PipelineAssumption
  <2>3. MaxFailures \in Nat /\ "failed" \in Results
    BY PipelineAssumption, Zenon DEF Results
  <2>4. Spoiled \in Seq(Results) /\ Len(Spoiled) = MaxFailures
    BY <2>3
  <2>5. failureCount(Spoiled) = MaxFailures
    BY <2>1, <2>2, Zenon DEF failureCount
  <2> QED
    BY <2>4, <2>5, Zenon
<1>3. /\ <<>> \in Seq(Results) /\ Len(<<>>) = 0 /\ DOMAIN <<>> = {}
      /\ failureCount(<<>>) = 0
  <2>1. {n \in DOMAIN <<>> : <<>>[n] = "failed"} = {}
    OBVIOUS
  <2> QED
    BY <2>1, FS_EmptySet DEF failureCount
<1> HIDE DEF Spoiled
<1>4. TypeOK
  <2>1. result \in [Jobs -> Seq(Results)] /\ attempts \in [Jobs -> Nat]
    BY <1>2, <1>3, PipelineAssumption, Zenon
  <2>2. age \in [Jobs -> 0 .. ProcessingLease] /\ faults \in 0 .. MaxFaults
    BY <1>1, PipelineAssumption
  <2>3. pc \in [Workers -> Steps]
    BY <1>1, Zenon DEF Steps
  <2>4. /\ outbox \in [Jobs -> {"none", "pending", "failed", "published"}]
        /\ receipt \in [Jobs -> {"none", "processing", "succeeded", "failed", "dead"}]
        /\ published \in [Jobs -> Nat] /\ stored \subseteq Jobs \X Nat
    OBVIOUS
  <2> QED
    BY <1>1, <2>1, <2>2, <2>3, <2>4, Zenon DEF TypeOK
<1>5. \A j \in Jobs : ReceiptInv(j)
  <2> TAKE j \in Jobs
  <2>1. CASE j \in legacy
    <3>1. /\ attempts[j] = MaxFailures /\ result[j] = Spoiled /\ receipt[j] = "failed"
          /\ outbox[j] = "published"
      BY <2>1, Zenon
    <3> QED
      BY <1>1, <1>2, <3>1, PipelineAssumption DEF ReceiptInv
  <2>2. CASE j \notin legacy
    <3>1. /\ attempts[j] = 0 /\ result[j] = <<>> /\ receipt[j] = "none"
      BY <2>2, Zenon
    <3> QED
      BY <1>1, <1>3, <3>1, PipelineAssumption DEF ReceiptInv
  <2> QED
    BY <2>1, <2>2, Zenon
<1>6. QueueInv
  <2>1. \A m \in stored : m[1] \in legacy
    BY Zenon
  <2>2. \A j \in legacy : <<j, 1>> \in stored /\ <<j, 1>>[1] = j
    BY Zenon
  <2> QED
    BY <1>1, <2>1, <2>2, Zenon DEF QueueInv, Delivered
<1>7. (\A w \in Workers : WorkerInv(w)) /\ AttemptsDiffer
  BY <1>1, Zenon DEF WorkerInv, AttemptsDiffer, Holding
<1> QED
  BY <1>4, <1>5, <1>6, <1>7, Zenon DEF Inv

LEMMA InvStep == Inv /\ [Next]_vars => Inv'
<1> SUFFICES ASSUME Inv, [Next]_vars PROVE Inv'
  BY Zenon
<1>1. ASSUME NEW j \in Jobs, EnqueueTx(j) \/ Publisher(j)
      PROVE  Inv'
  BY <1>1, EnqueueStep, PublisherStep, Zenon
<1>2. ASSUME NEW w \in Workers, Worker(w) \/ Interrupt(w)
      PROVE  Inv'
  BY <1>2, StartStep, HandleStep, SucceedStep, FailStep, StaleStep, AcknowledgeStep,
     ApplyStep, InterruptStep, Zenon DEF Worker
<1>3. ASSUME NEW w \in Workers, NEW m \in stored, Fetch(w, m)
      PROVE  Inv'
  BY <1>3, FetchStep, Zenon
<1>4. CASE UNCHANGED vars
  <2>1. UNCHANGED <<outbox, publishing, published, stored, receipt, attempts, result, age,
                    deadLetters, told, pc, held, copy, mine, runs, faults>>
    BY <1>4, Zenon DEF vars, outboxVars, receiptVars, workerVars
  <2>2. TypeOK'
    BY <2>1, Zenon DEF Inv, TypeOK
  <2>3. Grows
    BY <2>1 DEF Inv, TypeOK, Grows, Terminal
  <2>4. (\A j \in Jobs : ReceiptInv(j)') /\ QueueInv'
    BY <2>1, <2>3, ReceiptFrame, QueueFrame, Zenon DEF Inv
  <2>5. \A w \in Workers : WorkerInv(w)'
    BY <2>1, <2>2, <2>3, WorkerFrame, Zenon DEF Inv, WorkerInv
  <2>6. AttemptsDiffer'
    BY <2>1, AttemptsFrame, Zenon DEF Holding
  <2> QED
    BY <2>2, <2>4, <2>5, <2>6, Zenon DEF Inv
<1> QED
  BY <1>1, <1>2, <1>3, <1>4, PublisherStopsStep, TickStep, Zenon DEF Next

(* The inductive invariant holds in every reachable state, through crashes, *)
(* takeovers, redeliveries and publishes whose reply was lost.             *)
THEOREM Invariance == Spec => []Inv
BY InvInit, InvStep, PTL DEF Spec

-----------------------------------------------------------------------------
(* The state of the tables, the stream and the workers is always well      *)
(* formed: no step writes a state no other step knows.                     *)
THEOREM Typed == Spec => []TypeOK
<1>1. Inv => TypeOK
  BY Zenon DEF Inv
<1> QED
  BY <1>1, Invariance, PTL

(* A processing receipt has exactly one running attempt, its newest, for   *)
(* any number of workers, takeovers and crashes.                           *)
THEOREM RunningAttemptIsUnique == Spec => []OneRunningAttempt
<1>1. Inv => OneRunningAttempt
  BY Zenon DEF Inv, ReceiptInv, OneRunningAttempt
<1> QED
  BY <1>1, Invariance, PTL

(* Dead letters and the failure budget agree: exactly MaxFailures failures *)
(* of the handler make a job dead, whatever else interrupts its attempts.  *)
THEOREM FailuresAreBudgeted == Spec => []BudgetIsExact
<1>1. Inv => BudgetIsExact
  BY Zenon DEF Inv, ReceiptInv, BudgetIsExact
<1> QED
  BY <1>1, Invariance, PTL

(* With a lease longer than the job timeout no two workers execute a job   *)
(* at once, however many there are.                                        *)
THEOREM MutualExclusion == Spec => []HandlersExclude
<1>1. Inv => HandlersExclude
  BY DEF Inv, WorkerInv, Current, AttemptsDiffer, Holding, HandlersExclude
<1> QED
  BY <1>1, Invariance, PTL

(* A job whose row says published is in the stream, or over and reported:  *)
(* publish before mark, receipt before report before Ack.                  *)
THEOREM CommittedJobsStay == Spec => []NoJobLost
<1>1. Inv => NoJobLost
  BY Zenon DEF Inv, QueueInv, Delivered, NoJobLost
<1> QED
  BY <1>1, Invariance, PTL

-----------------------------------------------------------------------------
(* Refinement of JobQueue.                                                 *)

Standing(j) ==
    IF receipt[j] = "succeeded" THEN "done"
    ELSE IF receipt[j] = "dead" THEN "dead"
    ELSE IF outbox[j] = "none" THEN "none" ELSE "owed"

LEMMA StandingsFrame ==
    ASSUME \A j \in Jobs : UNCHANGED Standing(j), UNCHANGED runs
    PROVE  UNCHANGED Queue!vars
BY Zenon DEF Queue!vars, Standing

LEMMA RefineInit == Init => Queue!Init
<1> SUFFICES ASSUME Init PROVE Queue!Init
  BY Zenon
<1>1. \A j \in Jobs : receipt[j] \notin {"succeeded", "dead"}
  BY Zenon DEF Init
<1>2. runs = [j \in Jobs |-> 0]
  BY Zenon DEF Init
<1> QED
  BY <1>1, <1>2, Zenon DEF Queue!Init

LEMMA RefineEnqueue ==
    ASSUME Inv, NEW j \in Jobs, EnqueueTx(j)
    PROVE  Queue!Enqueue(j)
<1>1. /\ receipt[j] = "none" /\ outbox[j] = "none" /\ outbox'[j] = "pending"
      /\ \A i \in Jobs \ {j} : outbox'[i] = outbox[i]
      /\ UNCHANGED <<receipt, runs>>
  BY Zenon DEF Inv, TypeOK, ReceiptInv, EnqueueTx, receiptVars
<1> QED
  BY <1>1, Zenon DEF Queue!Enqueue

LEMMA RefinePublisher ==
    ASSUME Inv, NEW j \in Jobs, Publisher(j)
    PROVE  UNCHANGED Queue!vars
<1>1. /\ outbox[j] # "none" /\ outbox'[j] # "none"
      /\ \A i \in Jobs \ {j} : outbox'[i] = outbox[i]
      /\ UNCHANGED <<receipt, runs>>
  BY Zenon DEF Inv, TypeOK, QueueInv, Publisher, Publish, ListDue, MarkPublished, MarkFailed, receiptVars
<1> QED
  BY <1>1, StandingsFrame, Zenon DEF Standing

LEMMA RefineHandle ==
    ASSUME Inv, NEW w \in Workers, NEW j \in Jobs, j = held[w], HandleJob(w) \/ Interrupt(w)
    PROVE  Queue!Execute(j) \/ UNCHANGED Queue!vars
<1>1. UNCHANGED <<outbox, receipt>>
  BY Zenon DEF HandleJob, Interrupt, outboxVars, receiptVars
<1>2. \/ runs' = runs
      \/ pc[w] = "handling" /\ runs' = [runs EXCEPT ![held[w]] = @ + 1]
  BY Zenon DEF HandleJob, Interrupt
<1>3. CASE runs' = runs
  BY <1>1, <1>3, StandingsFrame, Zenon DEF Standing
<1>4. CASE pc[w] = "handling" /\ runs' = [runs EXCEPT ![held[w]] = @ + 1]
  <2>1. receipt[j] = "processing" /\ outbox[j] # "none"
    BY <1>4, Zenon DEF Inv, WorkerInv, Current
  <2> QED
    BY <1>1, <1>4, <2>1, Zenon DEF Queue!Execute
<1> QED
  BY <1>2, <1>3, <1>4, Zenon

(* At most the receipt of j changes, and j is owed.                        *)
OnlyReceiptOf(j) ==
    /\ receipt[j] \notin {"succeeded", "dead"}
    /\ outbox[j] # "none"
    /\ \A i \in Jobs \ {j} : receipt'[i] = receipt[i]
    /\ UNCHANGED <<outbox, runs>>

LEMMA RefineEnd ==
    ASSUME NEW j \in Jobs, OnlyReceiptOf(j)
    PROVE  /\ receipt'[j] = "succeeded" /\ runs[j] > 0 => Queue!Complete(j)
           /\ receipt'[j] = "dead" => Queue!GiveUp(j)
           /\ receipt'[j] \in {"processing", "failed"} => UNCHANGED Queue!vars
<1>1. receipt'[j] \in {"processing", "failed"} => UNCHANGED Queue!vars
  BY StandingsFrame, Zenon DEF Standing, OnlyReceiptOf
<1> QED
  BY <1>1, Zenon DEF Queue!Complete, Queue!GiveUp, OnlyReceiptOf

LEMMA RefineStart ==
    ASSUME Inv, NEW w \in Workers, NEW j \in Jobs, j = held[w], Start(w)
    PROVE  Queue!GiveUp(j) \/ UNCHANGED Queue!vars
<1>1. j \in Jobs /\ outbox[j] # "none" /\ UNCHANGED <<outbox, runs>>
  BY Zenon DEF Inv, WorkerInv, Start, outboxVars
<1>2. \/ receipt' = receipt
      \/ /\ receipt[j] \notin {"succeeded", "dead"}
         /\ receipt' = [receipt EXCEPT ![j] = "processing"] \/ receipt' = [receipt EXCEPT ![j] = "dead"]
  BY Zenon DEF Start, receiptVars, Claim, deadLetter, Claimable
<1>3. receipt \in [Jobs -> {"none", "processing", "succeeded", "failed", "dead"}]
  BY Zenon DEF Inv, TypeOK
<1>4. CASE receipt' = receipt
  BY <1>1, <1>4, StandingsFrame, Zenon DEF Standing
<1>5. CASE /\ receipt[j] \notin {"succeeded", "dead"}
           /\ receipt' = [receipt EXCEPT ![j] = "processing"] \/ receipt' = [receipt EXCEPT ![j] = "dead"]
  <2>1. receipt'[j] \in {"processing", "dead"} /\ OnlyReceiptOf(j)
    BY <1>1, <1>3, <1>5, Zenon DEF OnlyReceiptOf
  <2> QED
    BY <1>1, <2>1, RefineEnd, Zenon
<1> QED
  BY <1>2, <1>4, <1>5, Zenon

LEMMA RefineFinish ==
    ASSUME Inv, NEW w \in Workers, NEW j \in Jobs, j = held[w], MarkSucceeded(w) \/ finishFailed(w)
    PROVE  Queue!Complete(j) \/ Queue!GiveUp(j) \/ UNCHANGED Queue!vars
<1>1. j \in Jobs /\ outbox[j] # "none" /\ receipt[j] = "processing" /\ UNCHANGED <<outbox, runs>>
  BY Zenon DEF Inv, WorkerInv, MarkSucceeded, finishFailed, Current, outboxVars
<1>2. receipt \in [Jobs -> {"none", "processing", "succeeded", "failed", "dead"}]
  BY Zenon DEF Inv, TypeOK
<1>3. CASE MarkSucceeded(w)
  <2>1. runs[j] > 0 /\ receipt' = [receipt EXCEPT ![j] = "succeeded"]
    BY <1>3, Zenon DEF Inv, WorkerInv, MarkSucceeded
  <2>2. receipt'[j] = "succeeded" /\ OnlyReceiptOf(j)
    BY <1>1, <1>2, <2>1, Zenon DEF OnlyReceiptOf
  <2> QED
    BY <1>1, <2>1, <2>2, RefineEnd, Zenon
<1>4. CASE finishFailed(w)
  <2>1. receipt' = [receipt EXCEPT ![j] = "failed"] \/ receipt' = [receipt EXCEPT ![j] = "dead"]
    BY <1>4, Zenon DEF finishFailed, deadLetter
  <2>2. receipt'[j] \in {"failed", "dead"} /\ OnlyReceiptOf(j)
    BY <1>1, <1>2, <2>1, Zenon DEF OnlyReceiptOf
  <2> QED
    BY <1>1, <2>2, RefineEnd, Zenon
<1> QED
  BY <1>3, <1>4, Zenon

(* The pipeline implements the queue its producers rely on: a step of any  *)
(* worker, of the publisher or of the clock is a step of the contract of   *)
(* one job, or invisible in it.                                            *)
THEOREM Refinement == Spec => ImplementsJobQueue
<1>1. Inv /\ [Next]_vars => [Queue!Next]_(Queue!vars)
  <2> SUFFICES ASSUME Inv, [Next]_vars PROVE Queue!Next \/ UNCHANGED Queue!vars
    BY Zenon
  <2>1. ASSUME NEW j \in Jobs, EnqueueTx(j) \/ Publisher(j)
        PROVE  Queue!Next \/ UNCHANGED Queue!vars
    BY <2>1, RefineEnqueue, RefinePublisher, Zenon DEF Queue!Next
  <2>2. ASSUME NEW w \in Workers, Worker(w) \/ Interrupt(w)
        PROVE  Queue!Next \/ UNCHANGED Queue!vars
    <3>1. CASE pc[w] = "idle"
      BY <2>2, <3>1, Zenon DEF Worker, Interrupt, Start, HandleJob, MarkSucceeded, finishFailed,
         ErrStaleAttempt, AcknowledgeObjectCleanup, applyMessageAction
    <3>2. CASE pc[w] # "idle"
      <4>1. PICK j \in Jobs : j = held[w]
        BY <3>2, Zenon DEF Inv, WorkerInv
      <4>2. CASE HandleJob(w) \/ Interrupt(w) \/ Start(w) \/ MarkSucceeded(w) \/ finishFailed(w)
        <5>1. \/ Queue!Execute(j) \/ Queue!Complete(j) \/ Queue!GiveUp(j)
              \/ UNCHANGED Queue!vars
          BY <4>1, <4>2, RefineHandle, RefineStart, RefineFinish, Zenon
        <5> QED
          BY <4>1, <5>1, Zenon DEF Queue!Next
      <4>3. CASE ErrStaleAttempt(w) \/ AcknowledgeObjectCleanup(w) \/ applyMessageAction(w)
        <5>1. UNCHANGED <<outbox, receipt, runs>>
          BY <4>3, Zenon DEF ErrStaleAttempt, AcknowledgeObjectCleanup, applyMessageAction,
             outboxVars, receiptVars
        <5> QED
          BY <5>1, StandingsFrame, Zenon DEF Standing
      <4> QED
        BY <2>2, <4>2, <4>3, Zenon DEF Worker
    <3> QED
      BY <3>1, <3>2, Zenon
  <2>3. CASE \/ PublisherStops \/ Tick \/ UNCHANGED vars
             \/ \E w \in Workers, m \in stored : Fetch(w, m)
    <3>1. UNCHANGED <<outbox, receipt, runs>>
      BY <2>3, Zenon DEF PublisherStops, Tick, Fetch, vars, outboxVars, receiptVars
    <3> QED
      BY <3>1, StandingsFrame, Zenon DEF Standing
  <2> QED
    BY <2>1, <2>2, <2>3, Zenon DEF Next
<1> QED
  BY <1>1, RefineInit, Invariance, PTL DEF Spec, ImplementsJobQueue, Queue!Spec
=============================================================================
