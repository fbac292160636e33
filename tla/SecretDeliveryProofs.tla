------------------------ MODULE SecretDeliveryProofs ------------------------
(***************************************************************************)
(* Proofs about SecretDelivery, for any set of deliveries, any lifetimes,  *)
(* batch size and lock limit.  The properties the runs check are not       *)
(* inductive by themselves: Inv adds what ties the secrets row, the        *)
(* management record, the jobs and the transaction in progress together.   *)
(* The refinement of OneTimeDelivery rests on the same invariant.          *)
(***************************************************************************)
EXTENDS SecretDelivery, FiniteSetTheorems, TLAPS

(* Before its id is drawn a delivery has left no trace.                    *)
UnbornInv(s) ==
    created[s] = Null =>
        /\ row[s] = "none" /\ mgmt[s] = "none" /\ s \notin payload
        /\ consumed[s] = Null /\ released[s] = 0 /\ stream[s] = "none"

(* What a row's columns say together.                                      *)
RowInv(s) ==
    /\ row[s] = "pending_upload" => consumed[s] = Null /\ backend[s] = "s3_object"
    /\ s \in payload => row[s] = "active" /\ backend[s] = "sqlite_blob"
    /\ consumed[s] = Null => released[s] = 0 /\ failed[s] < MaxFailedAccess
    /\ consumed[s] # Null => consumed[s] <= now
    /\ object[s] # "absent" => created[s] # Null /\ backend[s] = "s3_object"

(* What the outcome column says of the row and of the ciphertext.          *)
OutcomeInv(s) ==
    /\ mgmt[s] = "unset" => consumed[s] = Null
                            /\ (row[s] = "none" => now >= expires[s])
    /\ mgmt[s] = "opened" => released[s] = 1 /\ consumed[s] # Null
    /\ mgmt[s] = "locked" => released[s] = 0 /\ consumed[s] # Null /\ s \notin payload
    /\ mgmt[s] \in {"cancelled", "unavailable"} => released[s] = 0 /\ row[s] = "none"
    /\ mgmt[s] = "none" /\ created[s] # Null =>
          now >= expires[s] /\ (row[s] # "none" => consumed[s] = Null)
    /\ released[s] <= 1

(* Nobody can finalize or open the delivery any more.                      *)
Over(s) ==
    \/ row[s] = "none" \/ consumed[s] # Null \/ now >= expires[s]
    \/ row[s] = "pending_upload" /\ now >= created[s] + PendingTTL

(* A deletion job exists only for a delivery that is over and whose body   *)
(* is not on its way; a body on its way keeps its row, which protects it   *)
(* from the scan for orphans.                                              *)
JobInv(s) ==
    /\ \A c \in Causes : <<s, c>> \in objectJobs =>
          created[s] # Null /\ Over(s) /\ stream[s] # "sending"
    /\ stream[s] # "none" => consumed[s] # Null
    /\ stream[s] = "sending" =>
          row[s] = "active" /\ backend[s] = "s3_object" /\ now <= consumed[s] + StreamTimeout

(* The transaction that holds the connection found the row it relies on,   *)
(* and nothing has changed it since.                                       *)
TxInv ==
    /\ \A s \in finalizing : row[s] = "pending_upload"
    /\ \A s \in opening : row[s] = "active" /\ consumed[s] = Null
                          /\ backend[s] = "s3_object"
    /\ \A s, t \in finalizing \cup opening : s = t
    /\ reaperNow # Null => reaperNow <= now

SecretInv(s) == UnbornInv(s) /\ RowInv(s) /\ OutcomeInv(s) /\ JobInv(s)

Inv ==
    /\ TypeOK
    /\ \A s \in Secrets : SecretInv(s)
    /\ TxInv

(* Deliveries are finitely many, so any part of them can be counted.       *)
LEMMA PartFinite ==
    ASSUME NEW T \in SUBSET Secrets
    PROVE  IsFiniteSet(T) /\ Cardinality(T) \in Nat
<1>1. IsFiniteSet(T)
  BY ConstantsAssumption, FS_Subset, Zenon
<1> QED
  BY <1>1, FS_CardinalityType, Zenon

LEMMA InvInit == Init => Inv
BY ConstantsAssumption DEF Init, Inv, TypeOK, SecretInv, UnbornInv, RowInv, OutcomeInv, JobInv, Over, TxInv,
   Null, States, Outcomes, Causes

LEMMA TypeStep == Inv /\ [Next]_vars => TypeOK'
<1> SUFFICES ASSUME Inv, [Next]_vars PROVE TypeOK'
  BY Zenon
<1> USE ConstantsAssumption DEF Inv, TypeOK, SecretInv, RowInv, Null, States, Outcomes, Causes,
        tables, insertVars, accessVars, bucketVars, jobVars, gaugeVars
<1>1. ASSUME NEW s \in Secrets, Create(s) PROVE TypeOK'
  BY <1>1 DEF Create, Insert, createManagementTx, DbFree
<1>2. ASSUME NEW s \in Secrets, CreateLarge(s) PROVE TypeOK'
  BY <1>2 DEF CreateLarge, Insert, createManagementTx, DbFree
<1>3. ASSUME NEW s \in Secrets, PresignedPut(s) PROVE TypeOK'
  BY <1>3 DEF PresignedPut
<1>4. ASSUME NEW s \in Secrets, FinalizeBegin(s) PROVE TypeOK'
  BY <1>4, Zenon DEF FinalizeBegin, DbFree
<1>5. ASSUME NEW s \in Secrets, FinalizeCommit(s) PROVE TypeOK'
  BY <1>5 DEF FinalizeCommit, activateSecretTx
<1>6. ASSUME NEW s \in Secrets, OpenInline(s) PROVE TypeOK'
  BY <1>6 DEF OpenInline, Openable, load, consume, recordManagementOutcomeTx, DbFree
<1>7. ASSUME NEW s \in Secrets, OpenBegin(s) PROVE TypeOK'
  BY <1>7, Zenon DEF OpenBegin, Openable, load, DbFree
<1>8. ASSUME NEW s \in Secrets, OpenCommit(s) PROVE TypeOK'
  BY <1>8 DEF OpenCommit, consume, recordManagementOutcomeTx
<1>9. ASSUME NEW s \in Secrets, OpenWithWrongProof(s) PROVE TypeOK'
  BY <1>9 DEF OpenWithWrongProof, Openable, load, recordFailedAccessTx, recordManagementOutcomeTx, DbFree
<1>10. ASSUME NEW s \in Secrets, StreamEnd(s) PROVE TypeOK'
  BY <1>10, Zenon DEF StreamEnd
<1>11. ASSUME NEW s \in Secrets, enqueueOpenedObjectCleanup(s) PROVE TypeOK'
  BY <1>11 DEF enqueueOpenedObjectCleanup
<1>12. ASSUME NEW s \in Secrets, Revoke(s) PROVE TypeOK'
  BY <1>12 DEF Revoke, CanCancel, management, recordManagementOutcomeTx, DbFree
<1>13. ASSUME NEW s \in Secrets, Cleanup(s) \/ ReconcileOnce(s) PROVE TypeOK'
  BY <1>13 DEF Cleanup, ReconcileOnce, DbFree
<1>14. ASSUME NEW j \in objectJobs, handleObjectDelete(j) PROVE TypeOK'
  BY <1>14, Zenon DEF handleObjectDelete
<1>15. CASE TxRollback
  BY <1>15, Zenon DEF TxRollback
<1>16. CASE GaugeInc
  BY <1>16 DEF GaugeInc
<1>17. CASE GaugeDec
  BY <1>17 DEF GaugeDec
<1>18. CASE SweepBegin
  BY <1>18, Zenon DEF SweepBegin
<1>19. CASE SweepFail
  BY <1>19, Zenon DEF SweepFail
<1>20. CASE DeadLetter
  BY <1>20, Zenon DEF DeadLetter
<1>21. CASE Tick
  BY <1>21, SMTT(60) DEF Tick
<1>22. CASE claimExpired
  <2>1. PICK batch \in SUBSET Secrets, purge \in SUBSET Secrets :
          /\ mgmt' = [s \in Secrets |-> IF s \in purge THEN "none"
                                         ELSE IF s \in batch THEN reclaimRow(s)
                                         ELSE mgmt[s]]
          /\ objectJobs' = objectJobs \cup
                 {<<s, "reap">> : s \in {b \in batch : backend[b] = "s3_object"}}
          /\ decDue' = decDue + Cardinality(batch \cap PendingRows)
    BY <1>22, ZenonT(60) DEF claimExpired
  <2>2. Cardinality(batch \cap PendingRows) \in Nat
    BY PartFinite, Zenon DEF PendingRows
  <2> QED
    BY <1>22, <2>1, <2>2, SMTT(60) DEF claimExpired, reclaimRow, recordManagementOutcomeTx
<1>23. CASE Restart
  <2>1. CountPendingUploads \in Nat
    BY PartFinite, Zenon DEF CountPendingUploads, PendingRows
  <2> QED
    BY <1>23, <2>1 DEF Restart
<1>24. CASE UNCHANGED vars
  BY <1>24, Zenon DEF vars
<1> QED
  BY <1>1, <1>2, <1>3, <1>4, <1>5, <1>6, <1>7, <1>8, <1>9, <1>10,
     <1>11, <1>12, <1>13, <1>14, <1>15, <1>16, <1>17, <1>18, <1>19, <1>20,
     <1>21, <1>22, <1>23, <1>24, ZenonT(60) DEF Next

(* The part of TypeOK that the invariants of one delivery rest on.         *)
Columns ==
    /\ now \in Nat /\ reaperNow \in Nat \cup {Null}
    /\ row \in [Secrets -> States \cup {"none"}]
    /\ mgmt \in [Secrets -> Outcomes \cup {"none", "unset"}]
    /\ backend \in [Secrets -> {"sqlite_blob", "s3_object"}]
    /\ created \in [Secrets -> Nat \cup {Null}]
    /\ expires \in [Secrets -> Nat]
    /\ consumed \in [Secrets -> Nat \cup {Null}]
    /\ failed \in [Secrets -> 0 .. MaxFailedAccess]
    /\ released \in [Secrets -> Nat]
    /\ object \in [Secrets -> {"absent", "short", "whole"}]
    /\ stream \in [Secrets -> {"none", "sending", "ended"}]

(* The step leaves the delivery x, and the clock, as they are.             *)
Untouched(x) ==
    /\ now' = now
    /\ row'[x] = row[x] /\ mgmt'[x] = mgmt[x] /\ backend'[x] = backend[x]
    /\ created'[x] = created[x] /\ expires'[x] = expires[x]
    /\ consumed'[x] = consumed[x] /\ failed'[x] = failed[x] /\ released'[x] = released[x]
    /\ object'[x] = object[x] /\ stream'[x] = stream[x]
    /\ (x \in payload' <=> x \in payload)
    /\ \A c \in Causes : <<x, c>> \in objectJobs' => <<x, c>> \in objectJobs

LEMMA Frame ==
    ASSUME NEW x \in Secrets, SecretInv(x), Untouched(x)
    PROVE  SecretInv(x)'
<1> USE DEF Untouched, SecretInv
<1>1. UnbornInv(x)'
  BY Zenon DEF UnbornInv
<1>2. RowInv(x)'
  BY Zenon DEF RowInv
<1>3. OutcomeInv(x)'
  BY Zenon DEF OutcomeInv
<1>4. JobInv(x)'
  BY Zenon DEF JobInv, Over
<1> QED
  BY <1>1, <1>2, <1>3, <1>4, Zenon

(* The operations on one delivery.                                         *)
Operation(s) ==
    \/ Create(s) \/ CreateLarge(s) \/ PresignedPut(s) \/ FinalizeBegin(s) \/ FinalizeCommit(s)
    \/ OpenInline(s) \/ OpenBegin(s) \/ OpenCommit(s) \/ OpenWithWrongProof(s)
    \/ StreamEnd(s) \/ enqueueOpenedObjectCleanup(s) \/ Revoke(s) \/ Cleanup(s)
    \/ ReconcileOnce(s)

LEMMA OtherUntouched ==
    ASSUME Columns, NEW x \in Secrets, NEW s \in Secrets, x # s, Operation(s)
    PROVE  Untouched(x)
<1> USE DEF Columns, Untouched, Causes, tables, insertVars, accessVars, bucketVars, jobVars, gaugeVars
<1>1. CASE Create(s) \/ CreateLarge(s)
  BY <1>1 DEF Create, CreateLarge, Insert, createManagementTx
<1>2. CASE PresignedPut(s)
  BY <1>2, Zenon DEF PresignedPut
<1>3. CASE FinalizeBegin(s) \/ OpenBegin(s)
  BY <1>3, Zenon DEF FinalizeBegin, OpenBegin
<1>4. CASE FinalizeCommit(s)
  BY <1>4, Zenon DEF FinalizeCommit, activateSecretTx
<1>5. CASE OpenInline(s) \/ OpenCommit(s)
  BY <1>5 DEF OpenInline, OpenCommit, consume, recordManagementOutcomeTx
<1>6. CASE OpenWithWrongProof(s)
  BY <1>6, Zenon DEF OpenWithWrongProof, recordFailedAccessTx, recordManagementOutcomeTx
<1>7. CASE StreamEnd(s) \/ enqueueOpenedObjectCleanup(s)
  BY <1>7 DEF StreamEnd, enqueueOpenedObjectCleanup
<1>8. CASE Revoke(s)
  BY <1>8, Zenon DEF Revoke, recordManagementOutcomeTx
<1>9. CASE Cleanup(s) \/ ReconcileOnce(s)
  BY <1>9, Zenon DEF Cleanup, ReconcileOnce
<1> QED
  BY <1>1, <1>2, <1>3, <1>4, <1>5, <1>6, <1>7, <1>8, <1>9, ZenonT(60) DEF Operation

LEMMA SecretStep ==
    ASSUME Inv, Next, NEW x \in Secrets
    PROVE  SecretInv(x)'
<1>0. Columns /\ TxInv /\ SecretInv(x)
  BY Zenon DEF Inv, TypeOK, Columns
<1>15. ASSUME NEW s \in Secrets, x # s, Operation(s) PROVE SecretInv(x)'
  BY <1>0, <1>15, OtherUntouched, Frame, Zenon
<1>16. CASE TxRollback \/ GaugeInc \/ GaugeDec \/ SweepBegin \/ SweepFail
  <2>1. Untouched(x)
    BY <1>16, Zenon DEF Untouched, TxRollback, GaugeInc, GaugeDec, SweepBegin, SweepFail,
                 tables, insertVars, accessVars, bucketVars, jobVars, gaugeVars
  <2> QED
    BY <1>0, <2>1, Frame, Zenon
<1> USE <1>0, ConstantsAssumption, GraceAssumption DEF Columns, SecretInv, UnbornInv, RowInv, OutcomeInv, JobInv, Over,
        Null, States, Outcomes, Causes, tables, insertVars, accessVars, bucketVars, jobVars, gaugeVars
<1>1. CASE Create(x)
  BY <1>1, SMTT(60) DEF Create, Insert, createManagementTx
<1>2. CASE CreateLarge(x)
  BY <1>2, SMTT(60) DEF CreateLarge, Insert, createManagementTx
<1>3. CASE PresignedPut(x)
  BY <1>3, Zenon DEF PresignedPut
<1>4. CASE FinalizeBegin(x)
  BY <1>4, Zenon DEF FinalizeBegin
<1>5. CASE FinalizeCommit(x)
  BY <1>5, SMTT(60) DEF FinalizeCommit, activateSecretTx, UploadDeadline, Earlier
<1>6. CASE OpenInline(x)
  BY <1>6, SMTT(60) DEF OpenInline, Openable, load, consume, recordManagementOutcomeTx
<1>7. CASE OpenBegin(x)
  BY <1>7, Zenon DEF OpenBegin
<1>8. CASE OpenCommit(x)
  BY <1>8, SMTT(60) DEF OpenCommit, consume, recordManagementOutcomeTx, TxInv
<1>9. CASE OpenWithWrongProof(x)
  BY <1>9, SMTT(60) DEF OpenWithWrongProof, Openable, load, recordFailedAccessTx, recordManagementOutcomeTx
<1>10. CASE StreamEnd(x)
  BY <1>10, Zenon DEF StreamEnd
<1>11. CASE enqueueOpenedObjectCleanup(x)
  BY <1>11, Zenon DEF enqueueOpenedObjectCleanup
<1>12. CASE Revoke(x)
  BY <1>12, SMTT(60) DEF Revoke, CanCancel, management, recordManagementOutcomeTx
<1>13. CASE Cleanup(x)
  BY <1>13, Zenon DEF Cleanup
<1>14. ASSUME NEW j \in objectJobs, handleObjectDelete(j) PROVE SecretInv(x)'
  BY <1>14, Zenon DEF handleObjectDelete
<1>20. CASE DeadLetter
  BY <1>20, SMTT(60) DEF DeadLetter
<1>21. CASE Tick
  BY <1>21, SMTT(60) DEF Tick
<1>22. CASE Restart
  BY <1>22, Zenon DEF Restart
<1>23. CASE claimExpired
  <2>1. PICK batch \in SUBSET Secrets, purge \in SUBSET Secrets :
          LET dropped == batch \cup {s \in purge : consumed[s] # Null}
          IN  /\ \A s \in batch : claimReclaimable(s)
              /\ \A s \in purge : purgeable(s)
              /\ row' = [s \in Secrets |-> IF s \in dropped THEN "none" ELSE row[s]]
              /\ payload' = payload \ dropped
              /\ mgmt' = [s \in Secrets |-> IF s \in purge THEN "none"
                                             ELSE IF s \in batch THEN reclaimRow(s)
                                             ELSE mgmt[s]]
              /\ objectJobs' = objectJobs \cup
                     {<<s, "reap">> : s \in {b \in batch : backend[b] = "s3_object"}}
    BY <1>23, ZenonT(60) DEF claimExpired, FirstBatch
  <2>2. UNCHANGED <<now, insertVars, accessVars, object, stream>> /\ reaperNow # Null /\ reaperNow <= now
    <3>1. UNCHANGED <<now, insertVars, accessVars, bucketVars, stream>> /\ reaperNow # Null
      BY <1>23, ZenonT(60) DEF claimExpired
    <3> QED
      BY <3>1, Zenon DEF TxInv
  <2>3. x \in purge => stream[x] # "sending"
    BY <2>1, <2>2, SMTT(60) DEF purgeable
  <2>4. x \in batch => now >= expires[x] \/ (row[x] = "pending_upload" /\ consumed[x] = Null)
    BY <2>1, <2>2, SMTT(60) DEF claimReclaimable
  <2>5. x \in purge => now >= expires[x] /\ created[x] # Null
    BY <2>1, <2>2, SMTT(60) DEF purgeable
  <2>6. UnbornInv(x)'
    BY <2>1, <2>2, Zenon DEF claimReclaimable, purgeable
  <2>7. RowInv(x)'
    BY <2>1, <2>2, Zenon
  <2>8. OutcomeInv(x)'
    BY <2>1, <2>2, <2>4, <2>5, Zenon DEF claimReclaimable, purgeable, reclaimRow, recordManagementOutcomeTx
  <2>9. JobInv(x)'
    BY <2>1, <2>2, <2>3, <2>4, <2>5, SMTT(60) DEF claimReclaimable, purgeable
  <2> HIDE DEF Columns, UnbornInv, RowInv, OutcomeInv, JobInv, Over
  <2> QED
    BY <2>6, <2>7, <2>8, <2>9, Zenon
<1>24. CASE ReconcileOnce(x)
  <2>1. UnbornInv(x)' /\ RowInv(x)' /\ OutcomeInv(x)'
    BY <1>24, Zenon DEF ReconcileOnce
  <2>2. created[x] # Null /\ Over(x) /\ stream[x] # "sending"
    BY <1>24, SMTT(60) DEF ReconcileOnce, protectObjectTx
  <2>3. JobInv(x)'
    BY <1>24, <2>2, Zenon DEF ReconcileOnce
  <2> HIDE DEF Columns, UnbornInv, RowInv, OutcomeInv, JobInv, Over
  <2> QED
    BY <2>1, <2>3, Zenon
<1> HIDE DEF Columns, SecretInv, UnbornInv, RowInv, OutcomeInv, JobInv
<1>25. ASSUME NEW s \in Secrets, Operation(s) PROVE SecretInv(x)'
  BY <1>1, <1>2, <1>3, <1>4, <1>5, <1>6, <1>7, <1>8, <1>9, <1>10, <1>11, <1>12, <1>13,
     <1>15, <1>24, <1>25, Zenon DEF Operation
<1> QED
  BY <1>14, <1>16, <1>20, <1>21, <1>22, <1>23, <1>25, Zenon DEF Next, Operation

LEMMA TxStep == Inv /\ [Next]_vars => TxInv'
<1> SUFFICES ASSUME Inv, [Next]_vars PROVE TxInv'
  BY Zenon
<1> USE DEF Inv, TypeOK, TxInv, Null,
        tables, insertVars, accessVars, bucketVars, jobVars, gaugeVars
<1>1. ASSUME NEW s \in Secrets, Create(s) \/ CreateLarge(s) PROVE TxInv'
  BY <1>1, Zenon DEF Create, CreateLarge, Insert, DbFree
<1>2. ASSUME NEW s \in Secrets, FinalizeBegin(s) \/ OpenBegin(s) PROVE TxInv'
  BY <1>2, Zenon DEF FinalizeBegin, OpenBegin, Openable, load, DbFree
<1>3. ASSUME NEW s \in Secrets, FinalizeCommit(s) PROVE TxInv'
  BY <1>3, SMTT(60) DEF FinalizeCommit
<1>4. ASSUME NEW s \in Secrets, OpenCommit(s) PROVE TxInv'
  BY <1>4, Zenon DEF OpenCommit
<1>5. ASSUME NEW s \in Secrets, OpenInline(s) \/ OpenWithWrongProof(s) PROVE TxInv'
  BY <1>5, Zenon DEF OpenInline, OpenWithWrongProof, DbFree
<1>6. ASSUME NEW s \in Secrets, Revoke(s) \/ Cleanup(s) \/ ReconcileOnce(s) PROVE TxInv'
  BY <1>6, Zenon DEF Revoke, Cleanup, ReconcileOnce, DbFree
<1>7. ASSUME NEW s \in Secrets, PresignedPut(s) \/ StreamEnd(s) \/ enqueueOpenedObjectCleanup(s)
      PROVE  TxInv'
  BY <1>7, Zenon DEF PresignedPut, StreamEnd, enqueueOpenedObjectCleanup
<1>8. ASSUME NEW j \in objectJobs, handleObjectDelete(j) PROVE TxInv'
  BY <1>8, Zenon DEF handleObjectDelete
<1>9. CASE claimExpired
  BY <1>9, Zenon DEF claimExpired, DbFree
<1>10. CASE TxRollback \/ Restart
  BY <1>10, Zenon DEF TxRollback, Restart
<1>11. CASE GaugeInc \/ GaugeDec \/ DeadLetter
  BY <1>11, Zenon DEF GaugeInc, GaugeDec, DeadLetter
<1>12. CASE SweepBegin \/ SweepFail \/ Tick
  BY <1>12, SMTT(60) DEF SweepBegin, SweepFail, Tick
<1>13. CASE UNCHANGED vars
  BY <1>13, Zenon DEF vars
<1> QED
  BY <1>1, <1>2, <1>3, <1>4, <1>5, <1>6, <1>7, <1>8, <1>9, <1>10, <1>11, <1>12, <1>13, ZenonT(60)
  DEF Next

(* Inv is an invariant of the delivery store.                              *)
THEOREM Invariance == Spec => []Inv
<1>1. Inv /\ UNCHANGED vars => Inv'
  <2> SUFFICES ASSUME Inv, UNCHANGED vars PROVE Inv'
    BY Zenon
  <2> USE DEF vars, tables, insertVars, accessVars, bucketVars, jobVars, gaugeVars
  <2>1. TypeOK' /\ TxInv'
    BY Zenon DEF Inv, TypeOK, TxInv
  <2>2. ASSUME NEW x \in Secrets PROVE SecretInv(x)'
    <3>1. Untouched(x)
      BY Zenon DEF Untouched
    <3> QED
      BY <3>1, Frame, Zenon DEF Inv
  <2> QED
    BY <2>1, <2>2, Zenon DEF Inv
<1>2. Inv /\ [Next]_vars => Inv'
  BY <1>1, TypeStep, SecretStep, TxStep, Zenon DEF Inv
<1> QED
  BY InvInit, <1>2, PTL DEF Spec

-----------------------------------------------------------------------------
(* Every column keeps its type and failed_access_count never passes the    *)
(* lock limit, because the attempt that reaches it consumes the row.       *)
THEOREM TypeCorrect == Spec => []TypeOK
BY Invariance, PTL DEF Inv

(* The outcome the sender reads is what happened to the ciphertext, for    *)
(* any number of deliveries and any order of OpenTx, recordFailedAccessTx, *)
(* Revoke, Finalize, sweeps, worker cleanups and restarts.  A lock, a      *)
(* revocation or a sweep takes the inline payload with it.                 *)
THEOREM OutcomeTruth == Spec => []OutcomeIsTruthful
<1>1. Inv => OutcomeIsTruthful
  <2> SUFFICES ASSUME Inv PROVE OutcomeIsTruthful
    OBVIOUS
  <2>1. \A s \in Secrets : /\ released[s] <= 1
                           /\ mgmt[s] = "opened" => released[s] = 1
                           /\ released[s] = 1 => mgmt[s] \in {"opened", "none"}
    BY DEF Inv, TypeOK, SecretInv, RowInv, OutcomeInv, Outcomes, Null
  <2>2. \A s \in payload : row[s] = "active" /\ mgmt[s] \in {"unset", "opened", "none"}
    BY Zenon DEF Inv, TypeOK, SecretInv, RowInv, OutcomeInv, Outcomes
  <2> QED
    BY <2>1, <2>2, Zenon DEF OutcomeIsTruthful
<1> QED
  BY <1>1, Invariance, PTL

(* A management read before content expiry never meets the "management     *)
(* outcome missing" error nor a purged record.                             *)
THEOREM SenderCanAsk == Spec => []SenderCanAskUntilExpiry
<1>1. Inv => SenderCanAskUntilExpiry
  <2> SUFFICES ASSUME Inv, NEW s \in Secrets, created[s] # Null, now < expires[s]
               PROVE  management(s) \in States \cup Outcomes
    BY ZenonT(60) DEF SenderCanAskUntilExpiry
  <2>1. mgmt[s] # "none" /\ (mgmt[s] = "unset" => row[s] # "none")
    BY DEF Inv, TypeOK, SecretInv, OutcomeInv, Null
  <2> QED
    BY <2>1 DEF Inv, TypeOK, management, States, Outcomes
<1> QED
  BY <1>1, Invariance, PTL

(* No deletion job is ever queued for the object of a delivery that can    *)
(* still be finalized or opened, or whose body is being sent.              *)
THEOREM NoJobInUse == Spec => []NoJobForObjectInUse
<1>1. Inv => NoJobForObjectInUse
  <2> SUFFICES ASSUME Inv, NEW s \in Secrets, NEW c \in Causes, <<s, c>> \in objectJobs
               PROVE  Phase(s) \notin {"pending_upload", "active"} /\ stream[s] # "sending"
    BY DEF NoJobForObjectInUse, Inv, TypeOK
  <2>1. Over(s) /\ stream[s] # "sending"
    BY ZenonT(60) DEF Inv, SecretInv, JobInv
  <2>2. mgmt[s] = "unset" => consumed[s] = Null
    BY ZenonT(60) DEF Inv, SecretInv, OutcomeInv
  <2>3. mgmt[s] \notin {"pending_upload", "active"}
    BY Zenon DEF Inv, TypeOK, Outcomes
  <2>4. now \in Nat /\ expires[s] \in Nat /\ created[s] \in Int
    BY DEF Inv, TypeOK, Null
  <2>5. row[s] = "pending_upload" /\ consumed[s] = Null => ~(now < UploadDeadline(s))
    BY <2>1, <2>4, ConstantsAssumption DEF Over, UploadDeadline, Earlier
  <2> QED
    BY <2>1, <2>2, <2>3, <2>4, <2>5, Zenon DEF Phase, Over
<1> QED
  BY <1>1, Invariance, PTL

-----------------------------------------------------------------------------
(* ActiveUploads against the pending_upload rows.                          *)

(* The gauge.  Counting the pending rows after a step that leaves them     *)
(* alone, adds one, removes one, or removes a batch.                       *)
LEMMA SamePending ==
    ASSUME \A s \in Secrets : row'[s] = "pending_upload" <=> row[s] = "pending_upload"
    PROVE  CountPendingUploads' = CountPendingUploads
<1>1. PendingRows' = PendingRows
  BY Zenon DEF PendingRows
<1> QED
  BY <1>1, Zenon DEF CountPendingUploads

LEMMA OneMorePending ==
    ASSUME TypeOK, NEW s \in Secrets, row[s] # "pending_upload",
           row' = [row EXCEPT ![s] = "pending_upload"]
    PROVE  CountPendingUploads' = CountPendingUploads + 1
<1>1. PendingRows' = PendingRows \cup {s} /\ s \notin PendingRows
  BY Zenon DEF PendingRows, TypeOK
<1>2. IsFiniteSet(PendingRows)
  BY PartFinite, Zenon DEF PendingRows
<1> QED
  BY <1>1, <1>2, FS_AddElement, Zenon DEF CountPendingUploads

LEMMA OneLessPending ==
    ASSUME TypeOK, NEW s \in Secrets, NEW v, row[s] = "pending_upload", v # "pending_upload",
           row' = [row EXCEPT ![s] = v]
    PROVE  CountPendingUploads' = CountPendingUploads - 1
<1>1. PendingRows' = PendingRows \ {s} /\ s \in PendingRows
  BY Zenon DEF PendingRows, TypeOK
<1>2. IsFiniteSet(PendingRows)
  BY PartFinite, Zenon DEF PendingRows
<1> QED
  BY <1>1, <1>2, FS_RemoveElement, Zenon DEF CountPendingUploads

LEMMA BatchLessPending ==
    ASSUME NEW B \in SUBSET Secrets, PendingRows' = PendingRows \ B
    PROVE  CountPendingUploads' = CountPendingUploads - Cardinality(B \cap PendingRows)
<1> DEFINE kept == PendingRows \ B
           gone == B \cap PendingRows
<1>1. /\ PendingRows = kept \cup gone /\ kept \cap gone = {}
      /\ kept \in SUBSET Secrets /\ gone \in SUBSET Secrets
  BY Zenon DEF PendingRows
<1>2. /\ IsFiniteSet(kept) /\ IsFiniteSet(gone)
      /\ Cardinality(kept) \in Nat /\ Cardinality(gone) \in Nat
  BY <1>1, PartFinite, Zenon
<1> HIDE DEF kept, gone
<1>3. Cardinality(kept \cup gone)
         = Cardinality(kept) + Cardinality(gone) - Cardinality(kept \cap gone)
  BY <1>2, FS_Union, Zenon
<1>4. Cardinality(kept \cap gone) = 0
  BY <1>1, FS_EmptySet, Zenon
<1>5. Cardinality(PendingRows) = Cardinality(kept) + Cardinality(gone)
  BY <1>1, <1>2, <1>3, <1>4
<1>6. CountPendingUploads' = Cardinality(kept)
  BY Zenon DEF CountPendingUploads, kept
<1> QED
  BY <1>2, <1>5, <1>6 DEF CountPendingUploads, gone

LEMMA GaugeStep == Inv /\ GaugeBalanced /\ [Next]_vars => GaugeBalanced'
<1> SUFFICES ASSUME Inv, GaugeBalanced, [Next]_vars PROVE GaugeBalanced'
  BY Zenon
<1>0. TypeOK /\ CountPendingUploads \in Nat
  BY PartFinite, Zenon DEF Inv, CountPendingUploads, PendingRows
<1>a. gauge \in Int /\ incDue \in Nat /\ decDue \in Nat
  BY <1>0, Zenon DEF TypeOK
<1>1. ASSUME NEW s \in Secrets, CreateLarge(s) PROVE GaugeBalanced'
  <2>1. row[s] # "pending_upload"
    BY <1>1, Zenon DEF CreateLarge, Insert, Inv, SecretInv, UnbornInv
  <2>2. CountPendingUploads' = CountPendingUploads + 1
    BY <1>0, <1>1, <2>1, OneMorePending, Zenon DEF CreateLarge, Insert
  <2>3. incDue' = incDue + 1 /\ UNCHANGED <<gauge, decDue>>
    BY <1>1, Zenon DEF CreateLarge, Insert
  <2> QED
    BY <1>0, <1>a, <2>2, <2>3, SMTT(20) DEF GaugeBalanced
<1>2. ASSUME NEW s \in Secrets, FinalizeCommit(s) PROVE GaugeBalanced'
  <2>1. CountPendingUploads' = CountPendingUploads - 1
    BY <1>0, <1>2, OneLessPending, Zenon DEF FinalizeCommit, activateSecretTx
  <2> QED
    BY <1>0, <1>a, <1>2, <2>1 DEF FinalizeCommit, GaugeBalanced
<1>3. ASSUME NEW s \in Secrets, Revoke(s) PROVE GaugeBalanced'
  <2>1. CASE row[s] = "pending_upload"
    <3>1. CountPendingUploads' = CountPendingUploads - 1
      BY <1>0, <1>3, <2>1, OneLessPending, Zenon DEF Revoke
    <3>2. decDue' = decDue + 1 /\ UNCHANGED <<gauge, incDue>>
      BY <1>3, <2>1, Zenon DEF Revoke
    <3> QED
      BY <1>0, <1>a, <3>1, <3>2 DEF GaugeBalanced
  <2>2. CASE row[s] # "pending_upload"
    <3>1. CountPendingUploads' = CountPendingUploads
      BY <1>0, <1>3, <2>2, SamePending, Zenon DEF Revoke, TypeOK
    <3>2. UNCHANGED <<gauge, incDue, decDue>>
      BY <1>3, <2>2, Zenon DEF Revoke
    <3> QED
      BY <3>1, <3>2, Zenon DEF GaugeBalanced
  <2> QED
    BY <2>1, <2>2, Zenon
<1>4. CASE claimExpired
  <2>1. PICK batch \in SUBSET Secrets, purge \in SUBSET Secrets :
          LET dropped == batch \cup {s \in purge : consumed[s] # Null}
          IN  /\ row' = [s \in Secrets |-> IF s \in dropped THEN "none" ELSE row[s]]
              /\ decDue' = decDue + Cardinality(batch \cap PendingRows)
    BY <1>4, Zenon DEF claimExpired
  <2>2. PendingRows' = PendingRows \ batch
    BY <2>1, Zenon DEF PendingRows, Inv, SecretInv, RowInv
  <2>3. CountPendingUploads' = CountPendingUploads - Cardinality(batch \cap PendingRows)
    BY <2>2, BatchLessPending, Zenon
  <2>4. Cardinality(batch \cap PendingRows) \in Nat
    BY PartFinite, Zenon DEF PendingRows
  <2>5. UNCHANGED <<gauge, incDue>>
    BY <1>4, Zenon DEF claimExpired
  <2> QED
    BY <1>0, <1>a, <2>1, <2>3, <2>4, <2>5 DEF GaugeBalanced
<1>5. CASE Restart
  <2>1. CountPendingUploads' = CountPendingUploads
    BY <1>5, SamePending, Zenon DEF Restart, tables
  <2> QED
    BY <1>0, <1>5, <2>1 DEF Restart, GaugeBalanced
<1>6. ASSUME NEW s \in Secrets, Create(s) PROVE GaugeBalanced'
  <2>1. row[s] # "pending_upload"
    BY <1>6, Zenon DEF Create, Insert, Inv, SecretInv, UnbornInv
  <2>2. CountPendingUploads' = CountPendingUploads
    BY <1>0, <1>6, <2>1, SamePending, Zenon DEF Create, Insert, TypeOK
  <2> QED
    BY <1>6, <2>2, Zenon DEF Create, Insert, GaugeBalanced
<1>7. CASE GaugeInc \/ GaugeDec
  <2>1. CountPendingUploads' = CountPendingUploads
    BY <1>7, SamePending, Zenon DEF GaugeInc, GaugeDec, tables
  <2> QED
    BY <1>0, <1>a, <1>7, <2>1 DEF GaugeInc, GaugeDec, GaugeBalanced
<1>8. ASSUME UNCHANGED <<row, gaugeVars>> PROVE GaugeBalanced'
  <2>1. CountPendingUploads' = CountPendingUploads
    BY <1>8, SamePending, Zenon
  <2> QED
    BY <1>8, <2>1, Zenon DEF gaugeVars, GaugeBalanced
<1>9. ASSUME NEW s \in Secrets,
             \/ PresignedPut(s) \/ FinalizeBegin(s) \/ OpenInline(s) \/ OpenBegin(s)
             \/ OpenCommit(s) \/ OpenWithWrongProof(s) \/ StreamEnd(s)
             \/ enqueueOpenedObjectCleanup(s) \/ Cleanup(s) \/ ReconcileOnce(s)
      PROVE  UNCHANGED <<row, gaugeVars>>
  BY <1>9, Zenon DEF PresignedPut, FinalizeBegin, OpenInline, OpenBegin, OpenCommit,
      OpenWithWrongProof, StreamEnd, enqueueOpenedObjectCleanup, Cleanup, ReconcileOnce, tables
<1>10. ASSUME NEW j \in objectJobs, handleObjectDelete(j) PROVE UNCHANGED <<row, gaugeVars>>
  BY <1>10, Zenon DEF handleObjectDelete, tables
<1>11. ASSUME TxRollback \/ SweepBegin \/ SweepFail \/ DeadLetter \/ Tick \/ UNCHANGED vars
       PROVE  UNCHANGED <<row, gaugeVars>>
  BY <1>11, Zenon DEF TxRollback, SweepBegin, SweepFail, DeadLetter, Tick, vars, tables
<1> QED
  BY <1>1, <1>2, <1>3, <1>4, <1>5, <1>6, <1>7, <1>8, <1>9, <1>10, <1>11, Zenon DEF Next

(* ActiveUploads is owed to the pending_upload rows at every moment: each  *)
(* transition out of pending is paid for once, for any batch size.         *)
THEOREM GaugeIsBalanced == Spec => []GaugeBalanced
<1>1. Init => GaugeBalanced
  <2> SUFFICES ASSUME Init PROVE GaugeBalanced
    BY Zenon
  <2>1. PendingRows = {}
    BY Zenon DEF Init, PendingRows
  <2> QED
    BY <2>1, FS_EmptySet DEF Init, GaugeBalanced, CountPendingUploads
<1> QED
  BY <1>1, GaugeStep, Invariance, PTL DEF Spec

-----------------------------------------------------------------------------
(* The delivery store implements OneTimeDelivery: each action, seen        *)
(* through Phase, is an action of the contract or invisible in it.         *)

(* A step that touches one delivery changes one phase.                     *)
LEMMA PhaseFrame ==
    ASSUME NEW s \in Secrets,
           UNCHANGED <<now, row[s], mgmt[s], created[s], expires[s]>>
    PROVE  Phase(s)' = Phase(s)
BY Zenon DEF Phase, UploadDeadline, Earlier

LEMMA RecordedPhase ==
    ASSUME NEW s \in Secrets, created'[s] # Null, mgmt'[s] \notin {"none", "unset"}
    PROVE  Phase(s)' = mgmt'[s]
BY Zenon DEF Phase, UploadDeadline, Earlier

LEMMA ActivePhase ==
    ASSUME TypeOK, NEW s \in Secrets, created[s] # Null, mgmt[s] = "unset", row[s] = "active",
           now < expires[s]
    PROVE  Phase(s) = "active"
<1>1. ~(now >= expires[s])
  BY DEF TypeOK
<1> QED
  BY <1>1, Zenon DEF Phase, UploadDeadline, Earlier

LEMMA OnePhaseChanges ==
    ASSUME NEW s \in Secrets,
           \A t \in Secrets \ {s} : UNCHANGED <<now, row[t], mgmt[t], created[t], expires[t]>>
    PROVE  [t \in Secrets |-> Phase(t)]'
              = [[t \in Secrets |-> Phase(t)] EXCEPT ![s] = Phase(s)']
<1>1. \A t \in Secrets \ {s} : Phase(t)' = Phase(t)
  BY PhaseFrame, Zenon
<1> QED
  BY <1>1, Zenon

(* The row a transition works on says in which phase the delivery is.      *)
LEMMA LiveRow ==
    ASSUME Inv, NEW s \in Secrets, row[s] # "none", consumed[s] = Null, now < expires[s]
    PROVE  created[s] # Null /\ mgmt[s] = "unset"
<1>1. created[s] # Null
  BY Zenon DEF Inv, SecretInv, UnbornInv
<1> QED
  BY <1>1 DEF Inv, TypeOK, SecretInv, OutcomeInv, Outcomes

LEMMA RefineArrive ==
    ASSUME Inv, NEW s \in Secrets, Create(s) \/ CreateLarge(s)
    PROVE  Delivery!Arrive(s)
<1>1. /\ created[s] = Null /\ created'[s] \in Nat /\ mgmt'[s] = "unset"
      /\ row'[s] \in {"pending_upload", "active"}
  BY DEF Create, CreateLarge, Insert, createManagementTx, Inv, TypeOK
<1>2. \A t \in Secrets \ {s} : UNCHANGED <<now, row[t], mgmt[t], created[t], expires[t]>>
  BY DEF Create, CreateLarge, Insert, createManagementTx, Inv, TypeOK
<1>3. Phase(s) = "none"
  BY <1>1, Zenon DEF Phase
<1>4. Phase(s)' \in {"pending_upload", "active", "unavailable", "expired"}
  BY <1>1 DEF Phase, UploadDeadline, Earlier, Null
<1>5. UNCHANGED released
  BY Zenon DEF Create, CreateLarge, Insert, accessVars
<1> QED
  BY <1>2, <1>3, <1>4, <1>5, OnePhaseChanges, Zenon DEF Delivery!Arrive, Delivery!Live

LEMMA RefineActivate ==
    ASSUME Inv, NEW s \in Secrets, FinalizeCommit(s)
    PROVE  Delivery!Activate(s)
<1>1. /\ row[s] = "pending_upload" /\ consumed[s] = Null
      /\ now < UploadDeadline(s) /\ now < expires[s]
  BY ConstantsAssumption DEF FinalizeCommit, activateSecretTx, UploadDeadline, Earlier,
     Inv, TypeOK, SecretInv, RowInv, Null
<1>2. created[s] # Null /\ mgmt[s] = "unset"
  BY <1>1, LiveRow, Zenon
<1>3. /\ row'[s] = "active"
      /\ UNCHANGED <<now, mgmt, created, expires, released>>
  BY Zenon DEF FinalizeCommit, activateSecretTx, insertVars, accessVars, Inv, TypeOK
<1>4. \A t \in Secrets \ {s} : UNCHANGED <<now, row[t], mgmt[t], created[t], expires[t]>>
  BY <1>3, Zenon DEF FinalizeCommit, activateSecretTx, Inv, TypeOK
<1>5. Phase(s) = "pending_upload"
  BY <1>1, <1>2, Zenon DEF Phase
<1>6. Phase(s)' = "active"
  <2>1. ~(now >= expires[s])
    BY <1>1 DEF Inv, TypeOK
  <2> QED
    BY <1>2, <1>3, <2>1, Zenon DEF Phase, UploadDeadline, Earlier
<1> QED
  BY <1>3, <1>4, <1>5, <1>6, OnePhaseChanges, Zenon DEF Delivery!Activate

LEMMA RefineOpen ==
    ASSUME Inv, NEW s \in Secrets, OpenInline(s) \/ OpenCommit(s)
    PROVE  Delivery!Open(s)
<1>1. row[s] = "active" /\ consumed[s] = Null /\ now < expires[s]
  BY Zenon DEF OpenInline, OpenCommit, Openable, load, Inv, TxInv
<1>2. created[s] # Null /\ mgmt[s] = "unset"
  BY <1>1, LiveRow, Zenon
<1>3. /\ mgmt'[s] = "opened"
      /\ UNCHANGED <<now, row, created, expires>>
      /\ released' = [released EXCEPT ![s] = @ + 1]
  BY <1>2, Zenon DEF OpenInline, OpenCommit, consume, recordManagementOutcomeTx, insertVars, Inv, TypeOK
<1>4. \A t \in Secrets \ {s} : UNCHANGED <<now, row[t], mgmt[t], created[t], expires[t]>>
  BY <1>3 DEF OpenInline, OpenCommit, consume, Inv, TypeOK
<1>5. Phase(s) = "active" /\ Phase(s)' = "opened"
  BY <1>1, <1>2, <1>3, ActivePhase, RecordedPhase, Zenon DEF Inv
<1> QED
  BY <1>3, <1>4, <1>5, OnePhaseChanges, Zenon DEF Delivery!Open

LEMMA RefineLock ==
    ASSUME Inv, NEW s \in Secrets, OpenWithWrongProof(s)
    PROVE  Delivery!Lock(s) \/ UNCHANGED Delivery!vars
<1>1. row[s] = "active" /\ consumed[s] = Null /\ now < expires[s]
  BY Zenon DEF OpenWithWrongProof, Openable, load
<1>2. created[s] # Null /\ mgmt[s] = "unset"
  BY <1>1, LiveRow, Zenon
<1>3. UNCHANGED <<now, row, created, expires, released>>
  BY Zenon DEF OpenWithWrongProof, insertVars
<1>4. \A t \in Secrets \ {s} : UNCHANGED <<now, row[t], mgmt[t], created[t], expires[t]>>
  BY <1>3, Zenon DEF OpenWithWrongProof, recordFailedAccessTx, Inv, TypeOK
<1>5. mgmt'[s] = "locked" \/ mgmt' = mgmt
  BY <1>2, Zenon DEF OpenWithWrongProof, recordFailedAccessTx, recordManagementOutcomeTx, Inv, TypeOK
<1>6. CASE mgmt' = mgmt
  <2>1. \A t \in Secrets : Phase(t)' = Phase(t)
    BY <1>3, <1>6, PhaseFrame, Zenon
  <2> QED
    BY <1>3, <2>1, Zenon DEF Delivery!vars
<1>7. CASE mgmt'[s] = "locked"
  <2>1. Phase(s) = "active" /\ Phase(s)' = "locked"
    BY <1>1, <1>2, <1>3, <1>7, ActivePhase, RecordedPhase, Zenon DEF Inv
  <2> QED
    BY <1>3, <1>4, <2>1, OnePhaseChanges, Zenon DEF Delivery!Lock
<1> QED
  BY <1>5, <1>6, <1>7, Zenon

LEMMA RefineCancel ==
    ASSUME Inv, NEW s \in Secrets, Revoke(s)
    PROVE  Delivery!Cancel(s)
<1>1. /\ row[s] \in States /\ consumed[s] = Null /\ now < expires[s]
      /\ row[s] = "pending_upload" => now < created[s] + PendingTTL
  <2>1. management(s) \in States
    BY Zenon DEF Revoke, CanCancel
  <2>2. now < expires[s] /\ (row[s] = "pending_upload" /\ mgmt[s] = "unset" => now < created[s] + PendingTTL)
    BY <2>1, ConstantsAssumption DEF management, States, Inv, TypeOK, Null
  <2>3. row[s] \in States /\ consumed[s] = Null
    BY Zenon DEF Revoke
  <2> QED
    BY <2>2, <2>3, LiveRow, Zenon DEF States
<1>2. created[s] # Null /\ mgmt[s] = "unset"
  BY <1>1, LiveRow, Zenon DEF States
<1>3. /\ mgmt'[s] = "cancelled"
      /\ UNCHANGED <<now, created, expires, released>>
  BY <1>2, Zenon DEF Revoke, recordManagementOutcomeTx, insertVars, accessVars, Inv, TypeOK
<1>4. \A t \in Secrets \ {s} : UNCHANGED <<now, row[t], mgmt[t], created[t], expires[t]>>
  BY <1>3, Zenon DEF Revoke, Inv, TypeOK
<1>5. Phase(s) \in {"pending_upload", "active"}
  <2>1. row[s] = "pending_upload" => now < UploadDeadline(s)
    BY <1>1, Zenon DEF UploadDeadline, Earlier
  <2>2. ~(now >= expires[s])
    BY <1>1 DEF Inv, TypeOK
  <2> QED
    BY <1>1, <1>2, <2>1, <2>2, Zenon DEF Phase, States
<1>6. Phase(s)' = "cancelled"
  BY <1>2, <1>3, RecordedPhase, Zenon
<1> QED
  BY <1>3, <1>4, <1>5, <1>6, OnePhaseChanges, Zenon DEF Delivery!Cancel, Delivery!Live

(* A clock tick takes live deliveries past a deadline and leaves every     *)
(* other phase alone.                                                      *)
LEMMA RefineLapse ==
    ASSUME Inv, Tick
    PROVE  Delivery!Lapse({s \in Secrets : Phase(s)' # Phase(s)})
<1>1. now' = now + 1 /\ UNCHANGED <<row, mgmt, created, expires, released>>
  BY Zenon DEF Tick, tables, insertVars, accessVars
<1>2. ASSUME NEW s \in Secrets, Phase(s)' # Phase(s)
      PROVE  \/ Phase(s) = "active" /\ Phase(s)' = "expired"
             \/ Phase(s) = "pending_upload" /\ Phase(s)' = "unavailable"
  <2>1. created[s] # Null /\ mgmt[s] = "unset"
    <3>1. CASE created[s] = Null
      BY <1>1, <1>2, <3>1, Zenon DEF Phase, UploadDeadline, Earlier
    <3>2. CASE created[s] # Null /\ mgmt[s] # "unset"
      BY <1>1, <1>2, <3>2, Zenon DEF Phase, UploadDeadline, Earlier
    <3> QED
      BY <3>1, <3>2, Zenon
  <2>2. CASE row[s] = "pending_upload"
    <3>1. now \in Nat /\ UploadDeadline(s) \in Int
      BY ConstantsAssumption DEF Inv, TypeOK, Null, UploadDeadline, Earlier
    <3>2. Phase(s) = IF now < UploadDeadline(s) THEN "pending_upload" ELSE "unavailable"
      BY <2>1, <2>2, Zenon DEF Phase
    <3>3. Phase(s)' = IF now + 1 < UploadDeadline(s) THEN "pending_upload" ELSE "unavailable"
      BY <1>1, <2>1, <2>2, Zenon DEF Phase, UploadDeadline, Earlier
    <3> QED
      BY <1>2, <3>1, <3>2, <3>3
  <2>3. CASE row[s] # "pending_upload"
    <3>1. row[s] = "none" => now >= expires[s]
      BY <2>1, Zenon DEF Inv, SecretInv, OutcomeInv
    <3>2. now \in Nat /\ expires[s] \in Nat /\ row[s] \in {"active", "none"}
      BY <2>3, Zenon DEF Inv, TypeOK, States
    <3>3. Phase(s) = IF now < expires[s] THEN "active" ELSE "expired"
      BY <2>1, <2>3, <3>1, <3>2 DEF Phase
    <3>4. Phase(s)' = IF now + 1 < expires[s] THEN "active" ELSE "expired"
      <4>1. now' >= expires'[s] <=> ~(now + 1 < expires[s])
        BY <1>1, <3>2
      <4>2. row'[s] = "active" \/ now' >= expires'[s]
        BY <1>1, <3>1, <3>2
      <4> QED
        BY <1>1, <2>1, <2>3, <4>1, <4>2, Zenon DEF Phase, UploadDeadline, Earlier
    <3> QED
      BY <1>2, <3>2, <3>3, <3>4
  <2> QED
    BY <2>2, <2>3, Zenon
<1> QED
  BY <1>1, <1>2, Zenon DEF Delivery!Lapse, Delivery!Live

(* A sweep forgets the records it purges and changes no other phase: a row *)
(* it claims has already lapsed, and reclaimRow writes down what the clock *)
(* has decided.                                                            *)
LEMMA RefineForget ==
    ASSUME Inv, claimExpired
    PROVE  \E S \in SUBSET Secrets : Delivery!Forget(S)
<1>1. PICK batch \in SUBSET Secrets, purge \in SUBSET Secrets :
        LET dropped == batch \cup {s \in purge : consumed[s] # Null}
        IN  /\ \A s \in batch : claimReclaimable(s)
            /\ \A s \in purge : purgeable(s)
            /\ row' = [s \in Secrets |-> IF s \in dropped THEN "none" ELSE row[s]]
            /\ mgmt' = [s \in Secrets |-> IF s \in purge THEN "none"
                                           ELSE IF s \in batch THEN reclaimRow(s)
                                           ELSE mgmt[s]]
  BY Zenon DEF claimExpired, FirstBatch
<1>2. /\ UNCHANGED <<now, created, expires, released>>
      /\ reaperNow \in Nat /\ reaperNow <= now
  BY Zenon DEF claimExpired, insertVars, accessVars, Inv, TypeOK, TxInv
<1>3. \A s \in Secrets : mgmt[s] # "none" => created[s] # Null
  BY Zenon DEF Inv, SecretInv, UnbornInv
<1>4. ASSUME NEW s \in purge
      PROVE  Phase(s) \in Delivery!Ended /\ Phase(s)' = "gone"
  <2>1. mgmt[s] # "none" /\ created[s] # Null /\ expires[s] <= now
    BY <1>1, <1>2, <1>3, SMTT(20) DEF purgeable, Inv, TypeOK
  <2>2. Phase(s)' = "gone"
    BY <1>1, <1>2, <2>1, ZenonT(30) DEF Phase, UploadDeadline, Earlier
  <2>3. CASE mgmt[s] = "unset"
    <3>1. ~(now < UploadDeadline(s)) /\ now >= expires[s]
      BY <2>1, ConstantsAssumption, SMTT(20) DEF UploadDeadline, Earlier, Inv, TypeOK, Null
    <3> QED
      BY <2>1, <2>2, <2>3, <3>1, Zenon DEF Phase, UploadDeadline, Earlier, Delivery!Ended
  <2>4. CASE mgmt[s] # "unset"
    BY <2>1, <2>2, <2>4, Zenon DEF Phase, UploadDeadline, Earlier, Delivery!Ended, Inv, TypeOK, Outcomes
  <2> QED
    BY <2>3, <2>4, Zenon
<1>5. ASSUME NEW s \in Secrets \ purge
      PROVE  Phase(s)' = Phase(s)
  <2>1. CASE s \in batch
    <3>1. row[s] # "none" /\ row'[s] = "none" /\ mgmt'[s] = reclaimRow(s) /\ created[s] # Null
      BY <1>1, <1>5, <2>1, Zenon DEF claimReclaimable, Inv, SecretInv, UnbornInv
    <3>2. CASE mgmt[s] # "unset"
      BY <1>2, <3>1, <3>2, Zenon DEF Phase, UploadDeadline, Earlier, reclaimRow, recordManagementOutcomeTx
    <3>3. CASE mgmt[s] = "unset" /\ row[s] = "pending_upload"
      <4>1. ~(now < UploadDeadline(s))
        BY <1>1, <1>2, <2>1, <3>1, ConstantsAssumption, SMTT(20)
        DEF claimReclaimable, UploadDeadline, Earlier, Inv, TypeOK, Null
      <4> QED
        BY <1>2, <3>1, <3>3, <4>1, Zenon DEF Phase, UploadDeadline, Earlier, reclaimRow, recordManagementOutcomeTx
    <3>4. CASE mgmt[s] = "unset" /\ row[s] # "pending_upload"
      <4>1. now >= expires[s]
        BY <1>1, <1>2, <2>1, <3>4, SMTT(20) DEF claimReclaimable, Inv, TypeOK
      <4> QED
        BY <1>2, <3>1, <3>4, <4>1, Zenon DEF Phase, UploadDeadline, Earlier, reclaimRow
    <3> QED
      BY <3>2, <3>3, <3>4, Zenon
  <2>2. CASE s \notin batch
    BY <1>1, <1>2, <1>5, <2>2, PhaseFrame, Zenon
  <2> QED
    BY <2>1, <2>2, Zenon
<1>6. Delivery!Forget(purge)
  BY <1>2, <1>4, <1>5, Zenon DEF Delivery!Forget
<1> QED
  BY <1>6, Zenon

(* Everything else is invisible in the contract.                           *)
LEMMA RefineStutter ==
    ASSUME UNCHANGED <<now, row, mgmt, insertVars, released>>
    PROVE  UNCHANGED Delivery!vars
<1>1. \A s \in Secrets : Phase(s)' = Phase(s)
  BY PhaseFrame, Zenon DEF insertVars
<1> QED
  BY <1>1, Zenon DEF Delivery!vars

(* The store implements the one-time delivery contract, for any set of     *)
(* deliveries: whatever handlers, sweeps and restarts interleave, a        *)
(* delivery takes exactly one terminal transition, its ciphertext leaves   *)
(* in the opening transition only, and nothing revives it.                 *)
THEOREM Refinement == Spec => ImplementsOneTimeDelivery
<1>1. Init => Delivery!Init
  <2> SUFFICES ASSUME Init PROVE Delivery!Init
    BY Zenon
  <2>1. \A s \in Secrets : Phase(s) = "none"
    BY Zenon DEF Init, Phase, UploadDeadline, Earlier
  <2> QED
    BY <2>1, Zenon DEF Init, Delivery!Init
<1>2. Inv /\ [Next]_vars => [Delivery!Next]_(Delivery!vars)
  <2> SUFFICES ASSUME Inv, [Next]_vars PROVE [Delivery!Next]_(Delivery!vars)
    BY Zenon
  <2>1. ASSUME NEW s \in Secrets, Create(s) \/ CreateLarge(s) PROVE Delivery!Next
    BY <2>1, RefineArrive, Zenon DEF Delivery!Next
  <2>2. ASSUME NEW s \in Secrets, FinalizeCommit(s) PROVE Delivery!Next
    BY <2>2, RefineActivate, Zenon DEF Delivery!Next
  <2>3. ASSUME NEW s \in Secrets, OpenInline(s) \/ OpenCommit(s) PROVE Delivery!Next
    BY <2>3, RefineOpen, Zenon DEF Delivery!Next
  <2>4. ASSUME NEW s \in Secrets, OpenWithWrongProof(s)
        PROVE  Delivery!Next \/ UNCHANGED Delivery!vars
    BY <2>4, RefineLock, Zenon DEF Delivery!Next
  <2>5. ASSUME NEW s \in Secrets, Revoke(s) PROVE Delivery!Next
    BY <2>5, RefineCancel, Zenon DEF Delivery!Next
  <2>6. CASE claimExpired
    BY <2>6, RefineForget, Zenon DEF Delivery!Next
  <2>7. CASE Tick
    <3>1. {s \in Secrets : Phase(s)' # Phase(s)} \in SUBSET Secrets
      BY Zenon
    <3> QED
      BY <2>7, <3>1, RefineLapse, Zenon DEF Delivery!Next
  <2>8. ASSUME NEW s \in Secrets,
               \/ PresignedPut(s) \/ FinalizeBegin(s) \/ OpenBegin(s) \/ StreamEnd(s)
               \/ enqueueOpenedObjectCleanup(s) \/ Cleanup(s) \/ ReconcileOnce(s)
        PROVE  UNCHANGED Delivery!vars
    <3>1. UNCHANGED <<now, row, mgmt, insertVars, released>>
      BY <2>8, Zenon DEF PresignedPut, FinalizeBegin, OpenBegin, StreamEnd,
          enqueueOpenedObjectCleanup, Cleanup, ReconcileOnce, tables, accessVars
    <3> QED
      BY <3>1, RefineStutter, Zenon
  <2>9. ASSUME NEW j \in objectJobs, handleObjectDelete(j) PROVE UNCHANGED Delivery!vars
    <3>1. UNCHANGED <<now, row, mgmt, insertVars, released>>
      BY <2>9, Zenon DEF handleObjectDelete, tables, accessVars
    <3> QED
      BY <3>1, RefineStutter, Zenon
  <2>10. ASSUME \/ TxRollback \/ GaugeInc \/ GaugeDec \/ SweepBegin \/ SweepFail
                \/ DeadLetter \/ Restart \/ UNCHANGED vars
         PROVE  UNCHANGED Delivery!vars
    <3>1. UNCHANGED <<now, row, mgmt, insertVars, released>>
      BY <2>10, Zenon DEF TxRollback, GaugeInc, GaugeDec, SweepBegin, SweepFail, DeadLetter, Restart,
          vars, tables, accessVars
    <3> QED
      BY <3>1, RefineStutter, Zenon
  <2> QED
    BY <2>1, <2>2, <2>3, <2>4, <2>5, <2>6, <2>7, <2>8, <2>9, <2>10 DEF Next
<1> QED
  BY <1>1, <1>2, Invariance, PTL DEF Spec, ImplementsOneTimeDelivery, Delivery!Spec
=============================================================================
