-------------------------- MODULE UploadJobsProofs --------------------------
(***************************************************************************)
(* The safety properties of UploadJobs and of FileStore, for any number of *)
(* batches, any files and any number of restarts and failed statements.    *)
(*                                                                         *)
(* The argument: a batch is submitted once, so the pool and the worker     *)
(* hold it only after its request is over (Submitted); hence the job of    *)
(* the batch the worker is at is "processing" until the worker says        *)
(* otherwise or the batch is deleted (Working), and what the worker has    *)
(* stored of the file goes with the step it is at (Progress).  Nobody lets *)
(* go of a batch before it is settled (UnsettledIsInHand), and a job that  *)
(* is not found is that of a deleted batch (HasJob).                       *)
(*                                                                         *)
(* FileStore adds the file to the upload without changing what UploadJobs  *)
(* says of the rest, and a job always finds its file: a batch is inserted  *)
(* only after store_upload has kept the whole stream, and nobody writes to *)
(* or removes the file of a kept upload.                                   *)
(***************************************************************************)
EXTENDS FileStore, TLAPS

Submitted ==
    /\ \A i \in 1 .. Len(pool) : request[pool[i]] = "done"
    /\ worker # Nobody => request[worker] = "done"

Working == Alive => job[worker] = "processing"

Progress ==
    /\ worker = Nobody => step = "read"
    /\ Alive => read <= NumRows(worker)
    /\ step \in {"plan", "finish"} => Kind[worker] = "exports"
    /\ Alive /\ step \in {"plan", "finish"} =>
          /\ saved[worker] = NumRows(worker) /\ worker \in counted
          /\ batch[worker] \notin {"queued", "processing"}
    /\ Alive /\ step = "finish" => worker \in planned

(* Only a deletion takes the job of a batch that waits for the worker.     *)
HasJob ==
    \A b \in Batches :
        batch[b] # "absent" /\ (request[b] = "enqueued" \/ b \in Pooled) => job[b] # "absent"

(* The properties the runs check are part of the invariant.                *)
IInv ==
    /\ TypeOK
    /\ Submitted
    /\ Working
    /\ Progress
    /\ HasJob
    /\ FinishedIsComplete
    /\ NothingOutlivesDelete
    /\ UnsettledIsInHand

LEMMA NumRowsType == \A b \in Batches : NumRows(b) \in Nat
  BY JobsAssumption DEF NumRows

LEMMA PoolFacts ==
  ASSUME TypeOK
  PROVE  /\ \A i \in 1 .. Len(pool) : pool[i] \in Batches
         /\ pool # <<>> => Head(pool) \in Batches /\ Tail(pool) \in Seq(Batches)
  BY DEF TypeOK

(* Who is in the pool.                                                     *)
LEMMA PooledFacts ==
  ASSUME TypeOK
  PROVE  /\ Pooled \subseteq Batches
         /\ Submitted => \A b \in Pooled : request[b] = "done"
         /\ UNCHANGED pool => Pooled' = Pooled
         /\ pool' = <<>> => Pooled' = {}
         /\ pool # <<>> /\ pool' = Tail(pool) => Pooled = {Head(pool)} \cup Pooled'
         /\ \A b \in Batches : pool' = Append(pool, b) => Pooled' = Pooled \cup {b}
<1>1. pool \in Seq(Batches)
  BY DEF TypeOK
<1>2. ASSUME pool # <<>>, pool' = Tail(pool)
      PROVE  Pooled = {Head(pool)} \cup Pooled'
  <2>1. /\ Len(pool) \in Nat \ {0} /\ DOMAIN pool = 1 .. Len(pool)
        /\ Head(pool) = pool[1] /\ DOMAIN Tail(pool) = 1 .. Len(pool) - 1
        /\ \A i \in 1 .. Len(pool) - 1 : Tail(pool)[i] = pool[i + 1]
    BY <1>1, <1>2
  <2>2. \A i \in DOMAIN pool : i = 1 \/ (i - 1 \in DOMAIN Tail(pool) /\ pool[i] = Tail(pool)[i - 1])
    BY <2>1
  <2>3. \A i \in DOMAIN Tail(pool) : i + 1 \in DOMAIN pool /\ 1 \in DOMAIN pool
    BY <2>1
  <2>4. 1 \in DOMAIN pool
    BY <2>1
  <2> QED
    BY <1>2, <2>1, <2>2, <2>3, <2>4 DEF Pooled
<1>3. ASSUME NEW b \in Batches, pool' = Append(pool, b)
      PROVE  Pooled' = Pooled \cup {b}
  <2>1. /\ Len(pool) \in Nat /\ DOMAIN pool = 1 .. Len(pool)
        /\ DOMAIN pool' = 1 .. Len(pool) + 1 /\ pool'[Len(pool) + 1] = b
        /\ \A i \in 1 .. Len(pool) : pool'[i] = pool[i]
    BY <1>1, <1>3
  <2>2. DOMAIN pool' = DOMAIN pool \cup {Len(pool) + 1}
    BY <2>1
  <2> QED
    BY <2>1, <2>2 DEF Pooled
<1>4. pool' = <<>> => Pooled' = {}
  BY DEF Pooled
<1>5. Pooled \subseteq Batches /\ (Submitted => \A b \in Pooled : request[b] = "done")
  BY <1>1 DEF Pooled, Submitted
<1>6. UNCHANGED pool => Pooled' = Pooled
  BY DEF Pooled
<1> QED
  BY <1>2, <1>3, <1>4, <1>5, <1>6

LEMMA InitIInv == Init => IInv
  BY JobsAssumption, NumRowsType
  DEF Init, IInv, TypeOK, Submitted, Working, Progress, HasJob, FinishedIsComplete,
      NothingOutlivesDelete, UnsettledIsInHand, Unsettled, Pooled, Alive, BatchStatuses

LEMMA InsertBatchIInv ==
  ASSUME IInv, NEW b \in Batches, InsertBatch(b)
  PROVE  IInv'
<1> USE JobsAssumption, NumRowsType DEF IInv, InsertBatch, dbVars, workerVars, outageVars
<1>1. TypeOK'
  BY DEF TypeOK, BatchStatuses, Alive
<1>2. Submitted'
  BY PoolFacts DEF TypeOK, Submitted
<1>3. Working'
  BY DEF TypeOK, Submitted, Working, Alive
<1>4. Progress'
  BY DEF TypeOK, Submitted, Progress, Alive
<1>5. FinishedIsComplete'
  BY DEF TypeOK, Working, Progress, FinishedIsComplete, Alive
<1>6. NothingOutlivesDelete'
  BY DEF TypeOK, NothingOutlivesDelete, Alive
<1>7. HasJob'
  BY PooledFacts DEF TypeOK, Submitted, Working, HasJob, Alive
<1>8. UnsettledIsInHand'
  BY PooledFacts DEF TypeOK, HasJob, UnsettledIsInHand, Unsettled, InHand, Alive
<1> QED
  BY <1>1, <1>2, <1>3, <1>4, <1>5, <1>6, <1>7, <1>8

LEMMA EnqueueJobIInv ==
  ASSUME IInv, NEW b \in Batches, EnqueueJob(b)
  PROVE  IInv'
<1> USE JobsAssumption, NumRowsType DEF IInv, EnqueueJob, dbVars, workerVars, outageVars
<1>1. TypeOK'
  BY DEF TypeOK, BatchStatuses, Alive
<1>2. Submitted'
  BY PoolFacts DEF TypeOK, Submitted
<1>3. Working'
  BY DEF TypeOK, Submitted, Working, Alive
<1>4. Progress'
  BY DEF TypeOK, Submitted, Progress, Alive
<1>5. FinishedIsComplete'
  BY DEF TypeOK, Working, Progress, FinishedIsComplete, Alive
<1>6. NothingOutlivesDelete'
  BY DEF TypeOK, NothingOutlivesDelete, Alive
<1>7. HasJob'
  BY PooledFacts DEF TypeOK, Submitted, Working, HasJob, Alive
<1>8. UnsettledIsInHand'
  BY PooledFacts DEF TypeOK, HasJob, UnsettledIsInHand, Unsettled, InHand, Alive
<1> QED
  BY <1>1, <1>2, <1>3, <1>4, <1>5, <1>6, <1>7, <1>8

LEMMA SubmitJobIInv ==
  ASSUME IInv, NEW b \in Batches, SubmitJob(b)
  PROVE  IInv'
<1> USE JobsAssumption, NumRowsType DEF IInv, SubmitJob, dbVars, workerVars, outageVars
<1>1. TypeOK'
  BY DEF TypeOK, BatchStatuses, Alive
<1>2. Submitted'
  <2>1. pool \in Seq(Batches) /\ request \in [Batches -> {"none", "inserted", "enqueued", "done"}]
    BY DEF TypeOK
  <2>2. ASSUME NEW i \in 1 .. Len(pool')
        PROVE  request'[pool'[i]] = "done"
    <3>1. Len(pool') = Len(pool) + 1 /\ Len(pool) \in Nat
      BY <2>1
    <3>2. CASE i = Len(pool) + 1
      BY <2>1, <3>1, <3>2
    <3>3. CASE i \in 1 .. Len(pool)
      <4>1. pool'[i] = pool[i] /\ pool[i] \in Batches
        BY <2>1, <3>1, <3>3
      <4> QED
        BY <2>1, <3>3, <4>1 DEF Submitted
    <3> QED
      BY <3>1, <3>2, <3>3
  <2>3. worker' # Nobody => request'[worker'] = "done"
    BY <2>1 DEF TypeOK, Submitted
  <2> QED
    BY <2>2, <2>3 DEF Submitted
<1>3. Working'
  BY DEF TypeOK, Submitted, Working, Alive
<1>4. Progress'
  BY DEF TypeOK, Submitted, Progress, Alive
<1>5. FinishedIsComplete'
  BY DEF TypeOK, Working, Progress, FinishedIsComplete, Alive
<1>6. NothingOutlivesDelete'
  BY DEF TypeOK, NothingOutlivesDelete, Alive
<1>7. HasJob'
  BY PooledFacts DEF TypeOK, Submitted, Working, HasJob, Alive
<1>8. UnsettledIsInHand'
  BY PooledFacts DEF TypeOK, HasJob, UnsettledIsInHand, Unsettled, InHand, Alive
<1> QED
  BY <1>1, <1>2, <1>3, <1>4, <1>5, <1>6, <1>7, <1>8

LEMMA RequestFailsIInv ==
  ASSUME IInv, NEW b \in Batches, RequestFails(b)
  PROVE  IInv'
<1> USE JobsAssumption, NumRowsType DEF IInv, RequestFails, Outage, dbVars, workerVars, outageVars
<1>1. TypeOK'
  <2>1. outages' \in 0 .. MaxOutages
    BY DEF TypeOK
  <2>2. request' \in [Batches -> {"none", "inserted", "enqueued", "done"}]
    BY DEF TypeOK
  <2> QED
    BY <2>1, <2>2 DEF TypeOK
<1>2. Submitted'
  BY PoolFacts DEF TypeOK, Submitted
<1>3. Working'
  BY DEF TypeOK, Submitted, Working, Alive
<1>4. Progress'
  BY DEF TypeOK, Submitted, Progress, Alive
<1>5. FinishedIsComplete'
  BY DEF TypeOK, Working, Progress, FinishedIsComplete, Alive
<1>6. NothingOutlivesDelete'
  BY DEF TypeOK, NothingOutlivesDelete, Alive
<1>7. HasJob'
  BY PooledFacts DEF TypeOK, Submitted, Working, HasJob, Alive
<1>8. UnsettledIsInHand'
  BY PooledFacts DEF TypeOK, HasJob, UnsettledIsInHand, Unsettled, InHand, Alive
<1> QED
  BY <1>1, <1>2, <1>3, <1>4, <1>5, <1>6, <1>7, <1>8

LEMMA TakeJobIInv ==
  ASSUME IInv, TakeJob
  PROVE  IInv'
<1> USE JobsAssumption, NumRowsType DEF IInv, TakeJob, dbVars, workerVars, outageVars, Idle
<1>1. TypeOK'
  <2>1. CASE job[Head(pool)] = "absent" \/ batch[Head(pool)] = "absent"
    BY <2>1, PoolFacts DEF TypeOK, BatchStatuses
  <2>2. CASE ~(job[Head(pool)] = "absent" \/ batch[Head(pool)] = "absent")
    <3>1. batch' = [batch EXCEPT ![Head(pool)] = "processing"]
          /\ job' = [job EXCEPT ![Head(pool)] = "processing"]
          /\ worker' = Head(pool) /\ step' = "read" /\ read' = 0
      BY <2>2
    <3>2. batch' \in [Batches -> BatchStatuses] /\ job' \in [Batches -> BatchStatuses \ {"confirmed"}]
      BY <3>1 DEF TypeOK, BatchStatuses
    <3> QED BY <3>1, <3>2, PoolFacts DEF TypeOK
  <2> QED BY <2>1, <2>2
<1>2. Submitted'
  BY DEF TypeOK, Submitted
<1>3. Working'
  BY DEF TypeOK, Submitted, Working, Alive
<1>4. Progress'
  BY DEF TypeOK, Submitted, Progress, Alive
<1>5. FinishedIsComplete'
  BY DEF TypeOK, Working, Progress, FinishedIsComplete, Alive
<1>6. NothingOutlivesDelete'
  BY DEF TypeOK, NothingOutlivesDelete, Alive
<1>7. HasJob'
  BY PooledFacts DEF TypeOK, Submitted, Working, HasJob, Alive
<1>8. UnsettledIsInHand'
  <2> DEFINE h == Head(pool)
  <2>1. h \in Batches /\ Pooled = {h} \cup Pooled' /\ request' = request
    BY PooledFacts, PoolFacts
  <2>2. job[h] = "absent" => batch[h] = "absent"
    BY <2>1 DEF HasJob
  <2>3. h = worker' \/ batch'[h] = "absent"
    BY <2>1, <2>2
  <2>4. \A b \in Batches \ {h} : batch'[b] = batch[b] /\ job'[b] = job[b]
    BY <2>1 DEF TypeOK
  <2>5. worker = Nobody /\ Nobody \notin Batches /\ stranded' = stranded
    OBVIOUS
  <2> SUFFICES ASSUME NEW b \in Batches, Unsettled(b)'
               PROVE  b \in InHand' \cup stranded'
    BY DEF UnsettledIsInHand
  <2>6. CASE b = h
    BY <2>3, <2>6 DEF Unsettled, InHand
  <2>7. CASE b # h
    <3>1. b \in InHand \cup stranded
      BY <2>4, <2>7 DEF UnsettledIsInHand, Unsettled
    <3> QED
      BY <2>1, <2>5, <2>7, <3>1 DEF InHand
  <2> QED
    BY <2>6, <2>7
<1> QED
  BY <1>1, <1>2, <1>3, <1>4, <1>5, <1>6, <1>7, <1>8

LEMMA CommitChunkIInv ==
  ASSUME IInv, CommitChunk
  PROVE  IInv'
<1> USE JobsAssumption, NumRowsType DEF IInv, CommitChunk, dbVars, workerVars, outageVars, RowsAdded
<1>1. TypeOK'
  BY DEF TypeOK, BatchStatuses, Alive
<1>2. Submitted'
  BY DEF TypeOK, Submitted
<1>3. Working'
  BY DEF TypeOK, Submitted, Working, Alive
<1>4. Progress'
  BY DEF TypeOK, Submitted, Progress, Alive
<1>5. FinishedIsComplete'
  BY DEF TypeOK, Working, Progress, FinishedIsComplete, Alive
<1>6. NothingOutlivesDelete'
  BY DEF TypeOK, NothingOutlivesDelete, Alive
<1>7. HasJob'
  BY PooledFacts DEF TypeOK, Submitted, Working, HasJob, Alive
<1>8. UnsettledIsInHand'
  BY PooledFacts DEF TypeOK, HasJob, UnsettledIsInHand, Unsettled, InHand, Alive
<1> QED
  BY <1>1, <1>2, <1>3, <1>4, <1>5, <1>6, <1>7, <1>8

LEMMA FinishImportIInv ==
  ASSUME IInv, FinishImport
  PROVE  IInv'
<1> USE JobsAssumption, NumRowsType DEF IInv, FinishImport, dbVars, workerVars, outageVars, Idle, RowsAtEnd
<1>1. TypeOK'
  BY DEF TypeOK, BatchStatuses, Alive
<1>2. Submitted'
  BY DEF TypeOK, Submitted
<1>3. Working'
  BY DEF TypeOK, Submitted, Working, Alive
<1>4. Progress'
  BY DEF TypeOK, Submitted, Progress, Alive
<1>5. FinishedIsComplete'
  BY DEF TypeOK, Working, Progress, FinishedIsComplete, Alive
<1>6. NothingOutlivesDelete'
  BY DEF TypeOK, NothingOutlivesDelete, Alive
<1>7. HasJob'
  BY PooledFacts DEF TypeOK, Submitted, Working, HasJob, Alive
<1>8. UnsettledIsInHand'
  BY PooledFacts DEF TypeOK, HasJob, UnsettledIsInHand, Unsettled, InHand, Alive
<1> QED
  BY <1>1, <1>2, <1>3, <1>4, <1>5, <1>6, <1>7, <1>8

LEMMA PreviewExportRowsIInv ==
  ASSUME IInv, PreviewExportRows
  PROVE  IInv'
<1> USE JobsAssumption, NumRowsType DEF IInv, PreviewExportRows, dbVars, workerVars, outageVars, RowsAtEnd, EndOfFile
<1>1. TypeOK'
  <2>1. batch' \in [Batches -> BatchStatuses] /\ counted' \subseteq Batches
    BY DEF TypeOK, BatchStatuses, Alive
  <2>2. saved' \in [Batches -> Nat] /\ \A b \in Batches : saved'[b] <= NumRows(b)
    BY DEF TypeOK, Alive
  <2> QED BY <2>1, <2>2 DEF TypeOK
<1>2. Submitted'
  BY DEF TypeOK, Submitted
<1>3. Working'
  BY DEF TypeOK, Submitted, Working, Alive
<1>4. Progress'
  BY DEF TypeOK, Submitted, Progress, Alive
<1>5. FinishedIsComplete'
  BY DEF TypeOK, Working, Progress, FinishedIsComplete, Alive
<1>6. NothingOutlivesDelete'
  BY DEF TypeOK, NothingOutlivesDelete, Alive
<1>7. HasJob'
  BY PooledFacts DEF TypeOK, Submitted, Working, HasJob, Alive
<1>8. UnsettledIsInHand'
  BY PooledFacts DEF TypeOK, HasJob, UnsettledIsInHand, Unsettled, InHand, Alive
<1> QED
  BY <1>1, <1>2, <1>3, <1>4, <1>5, <1>6, <1>7, <1>8

LEMMA SavePlanIInv ==
  ASSUME IInv, SavePlan
  PROVE  IInv'
<1> USE JobsAssumption, NumRowsType DEF IInv, SavePlan, dbVars, workerVars, outageVars, SetReviewReadyAgain
<1>1. TypeOK'
  BY DEF TypeOK, BatchStatuses, Alive
<1>2. Submitted'
  BY DEF TypeOK, Submitted
<1>3. Working'
  BY DEF TypeOK, Submitted, Working, Alive
<1>4. Progress'
  BY DEF TypeOK, Submitted, Progress, Alive
<1>5. FinishedIsComplete'
  BY DEF TypeOK, Working, Progress, FinishedIsComplete, Alive
<1>6. NothingOutlivesDelete'
  BY DEF TypeOK, NothingOutlivesDelete, Alive
<1>7. HasJob'
  BY PooledFacts DEF TypeOK, Submitted, Working, HasJob, Alive
<1>8. UnsettledIsInHand'
  BY PooledFacts DEF TypeOK, HasJob, UnsettledIsInHand, Unsettled, InHand, Alive
<1> QED
  BY <1>1, <1>2, <1>3, <1>4, <1>5, <1>6, <1>7, <1>8

LEMMA FinishExportIInv ==
  ASSUME IInv, FinishExport
  PROVE  IInv'
<1> USE JobsAssumption, NumRowsType DEF IInv, FinishExport, dbVars, workerVars, outageVars, SetReviewReadyAgain, Idle
<1>1. TypeOK'
  BY DEF TypeOK, BatchStatuses, Alive
<1>2. Submitted'
  BY DEF TypeOK, Submitted
<1>3. Working'
  BY DEF TypeOK, Submitted, Working, Alive
<1>4. Progress'
  BY DEF TypeOK, Submitted, Progress, Alive
<1>5. FinishedIsComplete'
  BY DEF TypeOK, Working, Progress, FinishedIsComplete, Alive
<1>6. NothingOutlivesDelete'
  BY DEF TypeOK, NothingOutlivesDelete, Alive
<1>7. HasJob'
  BY PooledFacts DEF TypeOK, Submitted, Working, HasJob, Alive
<1>8. UnsettledIsInHand'
  BY PooledFacts DEF TypeOK, Progress, HasJob, UnsettledIsInHand, Unsettled, InHand, Alive
<1> QED
  BY <1>1, <1>2, <1>3, <1>4, <1>5, <1>6, <1>7, <1>8

LEMMA FailJobIInv ==
  ASSUME IInv, FailJob
  PROVE  IInv'
<1> USE JobsAssumption, NumRowsType DEF IInv, FailJob, Recorded, Outage, dbVars, workerVars, outageVars, Idle
<1>1. TypeOK'
  BY DEF TypeOK, BatchStatuses, Alive
<1>2. Submitted'
  BY DEF TypeOK, Submitted
<1>3. Working'
  BY DEF TypeOK, Submitted, Working, Alive
<1>4. Progress'
  BY DEF TypeOK, Submitted, Progress, Alive
<1>5. FinishedIsComplete'
  BY DEF TypeOK, Working, Progress, FinishedIsComplete, Alive
<1>6. NothingOutlivesDelete'
  BY DEF TypeOK, NothingOutlivesDelete, Alive
<1>7. HasJob'
  BY PooledFacts DEF TypeOK, Submitted, Working, HasJob, Alive
<1>8. UnsettledIsInHand'
  BY PooledFacts DEF TypeOK, HasJob, UnsettledIsInHand, Unsettled, InHand, Alive
<1> QED
  BY <1>1, <1>2, <1>3, <1>4, <1>5, <1>6, <1>7, <1>8

LEMMA LoseBatchIInv ==
  ASSUME IInv, LoseBatch
  PROVE  IInv'
<1> USE JobsAssumption, NumRowsType DEF IInv, LoseBatch, dbVars, workerVars, outageVars, Idle
<1>1. TypeOK'
  BY DEF TypeOK, BatchStatuses, Alive
<1>2. Submitted'
  BY DEF TypeOK, Submitted
<1>3. Working'
  BY DEF TypeOK, Submitted, Working, Alive
<1>4. Progress'
  BY DEF TypeOK, Submitted, Progress, Alive
<1>5. FinishedIsComplete'
  BY DEF TypeOK, Working, Progress, FinishedIsComplete, Alive
<1>6. NothingOutlivesDelete'
  BY DEF TypeOK, NothingOutlivesDelete, Alive
<1>7. HasJob'
  BY PooledFacts DEF TypeOK, Submitted, Working, HasJob, Alive
<1>8. UnsettledIsInHand'
  BY PooledFacts DEF TypeOK, HasJob, UnsettledIsInHand, Unsettled, InHand, Alive
<1> QED
  BY <1>1, <1>2, <1>3, <1>4, <1>5, <1>6, <1>7, <1>8

LEMMA LoseJobIInv ==
  ASSUME IInv, LoseJob
  PROVE  IInv'
<1> USE JobsAssumption, NumRowsType DEF IInv, LoseJob, Outage, Idle, dbVars, workerVars, outageVars
<1>1. TypeOK'
  <2>1. outages' \in 0 .. MaxOutages
    BY DEF TypeOK
  <2>2. stranded' \subseteq Batches /\ pool' \in Seq(Batches)
    BY PoolFacts DEF TypeOK, Alive
  <2> QED
    BY <2>1, <2>2 DEF TypeOK
<1>2. Submitted'
  <2>1. pool \in Seq(Batches)
    BY DEF TypeOK
  <2>2. CASE pool # <<>> /\ pool' = Tail(pool)
    BY <2>1, <2>2 DEF Submitted
  <2>3. CASE UNCHANGED pool
    BY <2>3 DEF Submitted
  <2> QED
    BY <2>2, <2>3
<1>3. Working'
  BY DEF TypeOK, Submitted, Working, Alive
<1>4. Progress'
  BY DEF TypeOK, Submitted, Progress, Alive
<1>5. FinishedIsComplete'
  BY DEF TypeOK, Working, Progress, FinishedIsComplete, Alive
<1>6. NothingOutlivesDelete'
  BY DEF TypeOK, NothingOutlivesDelete, Alive
<1>7. HasJob'
  BY PooledFacts DEF TypeOK, Submitted, Working, HasJob, Alive
<1>8. UnsettledIsInHand'
  BY PooledFacts DEF TypeOK, HasJob, UnsettledIsInHand, Unsettled, InHand, Alive
<1> QED
  BY <1>1, <1>2, <1>3, <1>4, <1>5, <1>6, <1>7, <1>8

LEMMA StampIInv ==
  ASSUME IInv, NEW b \in Batches, batch[b] # "absent", Stamp(b)
  PROVE  IInv'
<1> USE JobsAssumption, NumRowsType DEF IInv, Stamp, dbVars, workerVars, outageVars
<1>1. TypeOK'
  BY DEF TypeOK, BatchStatuses, Alive
<1>2. Submitted'
  BY DEF TypeOK, Submitted
<1>3. Working'
  BY DEF TypeOK, Submitted, Working, Alive
<1>4. Progress'
  BY DEF TypeOK, Submitted, Progress, Alive
<1>5. FinishedIsComplete'
  BY DEF TypeOK, Working, Progress, FinishedIsComplete, Alive
<1>6. NothingOutlivesDelete'
  BY DEF TypeOK, NothingOutlivesDelete, Alive
<1>7. HasJob'
  BY PooledFacts DEF TypeOK, Submitted, Working, HasJob, Alive
<1>8. UnsettledIsInHand'
  BY PooledFacts DEF TypeOK, HasJob, UnsettledIsInHand, Unsettled, InHand, Alive
<1> QED
  BY <1>1, <1>2, <1>3, <1>4, <1>5, <1>6, <1>7, <1>8

LEMMA DeleteBatchIInv ==
  ASSUME IInv, NEW b \in Batches, DeleteBatch(b)
  PROVE  IInv'
<1> USE JobsAssumption, NumRowsType DEF IInv, DeleteBatch, dbVars, workerVars, outageVars
<1>1. TypeOK'
  BY DEF TypeOK, BatchStatuses, Alive
<1>2. Submitted'
  BY DEF TypeOK, Submitted
<1>3. Working'
  BY DEF TypeOK, Submitted, Working, Alive
<1>4. Progress'
  BY DEF TypeOK, Submitted, Progress, Alive
<1>5. FinishedIsComplete'
  BY DEF TypeOK, Working, Progress, FinishedIsComplete, Alive
<1>6. NothingOutlivesDelete'
  BY DEF TypeOK, NothingOutlivesDelete, Alive
<1>7. HasJob'
  BY PooledFacts DEF TypeOK, Submitted, Working, HasJob, Alive
<1>8. UnsettledIsInHand'
  BY PooledFacts DEF TypeOK, HasJob, UnsettledIsInHand, Unsettled, InHand, Alive
<1> QED
  BY <1>1, <1>2, <1>3, <1>4, <1>5, <1>6, <1>7, <1>8

LEMMA RestartIInv ==
  ASSUME IInv, Restart
  PROVE  IInv'
<1> USE JobsAssumption, NumRowsType DEF IInv, Restart, Outage, dbVars, workerVars, outageVars, Idle
<1>1. TypeOK'
  <2>1. outages' \in 0 .. MaxOutages
    BY DEF TypeOK
  <2>2. stranded' \subseteq Batches /\ request' \in [Batches -> {"none", "inserted", "enqueued", "done"}]
    BY DEF TypeOK, InHand
  <2> QED
    BY <2>1, <2>2 DEF TypeOK
<1>2. Submitted'
  BY DEF TypeOK, Submitted
<1>3. Working'
  BY DEF TypeOK, Submitted, Working, Alive
<1>4. Progress'
  BY DEF TypeOK, Submitted, Progress, Alive
<1>5. FinishedIsComplete'
  BY DEF TypeOK, Working, Progress, FinishedIsComplete, Alive
<1>6. NothingOutlivesDelete'
  BY DEF TypeOK, NothingOutlivesDelete, Alive
<1>7. HasJob'
  BY PooledFacts DEF TypeOK, Submitted, Working, HasJob, Alive
<1>8. UnsettledIsInHand'
  BY PooledFacts DEF TypeOK, HasJob, UnsettledIsInHand, Unsettled, InHand, Alive
<1> QED
  BY <1>1, <1>2, <1>3, <1>4, <1>5, <1>6, <1>7, <1>8

(* A confirmation stamps a batch that exists.                              *)
LEMMA ConfirmStamps ==
  ASSUME NEW b \in Batches, ConfirmBatch(b) \/ ConfirmMatchRun(b) \/ ConfirmOnPage(b)
  PROVE  Stamp(b) /\ batch[b] # "absent"
  BY DEF ConfirmBatch, ConfirmMatchRun, ConfirmOnPage

LEMMA WorkIInv ==
  ASSUME IInv, Work
  PROVE  IInv'
  BY TakeJobIInv, CommitChunkIInv, FinishImportIInv, PreviewExportRowsIInv, SavePlanIInv,
     FinishExportIInv, FailJobIInv, LoseBatchIInv, LoseJobIInv
  DEF Work

LEMMA UploadIInv ==
  ASSUME IInv, NEW b \in Batches, Upload(b)
  PROVE  IInv'
  BY InsertBatchIInv, EnqueueJobIInv, SubmitJobIInv, RequestFailsIInv DEF Upload

(* The users of the pages and the clients of the JSON routes do, to a      *)
(* batch, one of four things.                                              *)
LEMMA StepIInv == IInv /\ [Next]_vars => IInv'
<1> SUFFICES ASSUME IInv, [Next]_vars
             PROVE  IInv'
  OBVIOUS
<1>1. ASSUME NEW b \in Batches, Upload(b)
      PROVE  IInv'
  BY <1>1, UploadIInv
<1>2. ASSUME NEW b \in Batches, ConfirmBatch(b) \/ ConfirmMatchRun(b) \/ ConfirmOnPage(b)
      PROVE  IInv'
  BY <1>2, ConfirmStamps, StampIInv
<1>3. ASSUME NEW b \in Batches, DeleteBatch(b)
      PROVE  IInv'
  BY <1>3, DeleteBatchIInv
<1>4. CASE Work
  BY <1>4, WorkIInv
<1>5. CASE Restart
  BY <1>5, RestartIInv
<1>6. CASE UNCHANGED vars
  BY <1>6
  DEF vars, dbVars, workerVars, outageVars, IInv, TypeOK, Submitted, Working, Progress, HasJob,
      FinishedIsComplete, NothingOutlivesDelete, UnsettledIsInHand, Unsettled, InHand, Pooled, Alive
<1> QED
  BY <1>1, <1>2, <1>3, <1>4, <1>5, <1>6, JobsAssumption DEF Next

LEMMA Invariant == Spec => []IInv
  BY InitIInv, StepIInv, PTL DEF Spec

(* Whatever users, the worker and restarts do, the tables keep their types *)
(* and a batch never has more rows than its file.                          *)
THEOREM TypeCorrect == Spec => []TypeOK
  BY Invariant, PTL DEF IInv

(* A job that ended well has stored everything, on the pages and through   *)
(* the JSON routes alike (process_upload_preview_job).                     *)
THEOREM JobsFinishComplete == Spec => []FinishedIsComplete
  BY Invariant, PTL DEF IInv

(* delete_unconfirmed_upload under a running worker leaves nothing behind. *)
THEOREM DeleteIsFinal == Spec => []NothingOutlivesDelete
  BY Invariant, PTL DEF IInv

(* Whatever restarts, failed statements, confirmations and deletions come  *)
(* between, a batch left queued or processing is one that is being worked  *)
(* on, or an outage has struck its own request or job                      *)
(* (api_create_upload_batch, process_upload_preview_job).                  *)
THEOREM OnlyOutagesStrand == Spec => []UnsettledIsInHand
  BY Invariant, PTL DEF IInv
-----------------------------------------------------------------------------
(* The review page offers its button for review_ready batches only, and    *)
(* that is enough: such a batch is complete and its conflicts are counted. *)
ReviewIsComplete ==
    \A b \in Batches \ ApiClients : batch[b] = "review_ready" =>
        saved[b] = NumRows(b) /\ b \in counted

ReaderIsProcessing ==
    Alive /\ worker \notin ApiClients /\ step = "read" => batch[worker] = "processing"

PageInv == ReviewIsComplete /\ ReaderIsProcessing /\ ConfirmedWhole

LEMMA InitPageInv == Init => PageInv
  BY DEF Init, PageInv, ReviewIsComplete, ReaderIsProcessing, ConfirmedWhole, Alive

LEMMA UploadPageInv ==
  ASSUME IInv, PageInv, NEW b \in Batches, Upload(b)
  PROVE  PageInv'
  BY DEF IInv, TypeOK, Submitted, PageInv, ReviewIsComplete, ReaderIsProcessing,
         ConfirmedWhole, Alive, Upload, InsertBatch, EnqueueJob, SubmitJob, RequestFails,
         dbVars, workerVars

LEMMA WorkPageInv ==
  ASSUME IInv, PageInv, Work
  PROVE  PageInv'
<1>1. ConfirmedWhole'
  BY DEF Work, TakeJob, CommitChunk, FinishImport, PreviewExportRows, SavePlan, FinishExport,
         FailJob, LoseBatch, LoseJob, PageInv, ConfirmedWhole, dbVars
<1>2. ASSUME TakeJob PROVE ReviewIsComplete' /\ ReaderIsProcessing'
  BY <1>2, PoolFacts
  DEF TakeJob, Idle, IInv, TypeOK, PageInv, ReviewIsComplete, ReaderIsProcessing, Alive
<1>3. ASSUME CommitChunk PROVE ReviewIsComplete' /\ ReaderIsProcessing'
  BY <1>3 DEF CommitChunk, IInv, TypeOK, PageInv, ReviewIsComplete, ReaderIsProcessing, Alive
<1>4. ASSUME FinishImport \/ PreviewExportRows PROVE ReviewIsComplete' /\ ReaderIsProcessing'
  BY <1>4
  DEF FinishImport, PreviewExportRows, RowsAtEnd, Idle, IInv, TypeOK, PageInv,
      ReviewIsComplete, ReaderIsProcessing, Alive
<1>5. ASSUME SavePlan \/ FinishExport PROVE ReviewIsComplete' /\ ReaderIsProcessing'
  BY <1>5
  DEF SavePlan, FinishExport, SetReviewReadyAgain, Idle, IInv, TypeOK, Progress, PageInv,
      ReviewIsComplete, ReaderIsProcessing, Alive
<1>6. ASSUME FailJob \/ LoseBatch \/ LoseJob PROVE ReviewIsComplete' /\ ReaderIsProcessing'
  BY <1>6
  DEF FailJob, Recorded, LoseBatch, LoseJob, Idle, dbVars, IInv, TypeOK, PageInv, ReviewIsComplete,
      ReaderIsProcessing, Alive
<1> QED
  BY <1>1, <1>2, <1>3, <1>4, <1>5, <1>6 DEF Work, PageInv

LEMMA ConfirmPageInv ==
  ASSUME IInv, PageInv, NEW b \in Batches \ ApiClients, ConfirmOnPage(b)
  PROVE  PageInv'
<1>1. batch[b] = "review_ready" /\ saved[b] = NumRows(b) /\ b \in counted /\ Stamp(b)
  BY DEF ConfirmOnPage, OffersConfirm, ConfirmBatch, ConfirmMatchRun, PageInv, ReviewIsComplete
<1>2. Kind[b] = "imports" => ~HasRow(b, "conflict") /\ ~HasRow(b, "error")
  BY <1>1 DEF ConfirmOnPage, ConfirmBatch, NoConflictCounted
<1>3. ConfirmedWhole'
  BY <1>1, <1>2 DEF Stamp, IInv, TypeOK, PageInv, ConfirmedWhole
<1>4. ReviewIsComplete' /\ ReaderIsProcessing'
  BY <1>1 DEF Stamp, workerVars, IInv, TypeOK, PageInv, ReviewIsComplete, ReaderIsProcessing, Alive
<1> QED
  BY <1>3, <1>4 DEF PageInv

(* What a client confirms is no concern of the page users' batches.        *)
LEMMA ClientPageInv ==
  ASSUME IInv, PageInv, NEW b \in ApiClients, Stamp(b)
  PROVE  PageInv'
  BY JobsAssumption
  DEF Stamp, workerVars, IInv, TypeOK, PageInv, ReviewIsComplete, ReaderIsProcessing,
      ConfirmedWhole, Alive

LEMMA StepPageInv == IInv /\ PageInv /\ [Next]_vars => PageInv'
<1> SUFFICES ASSUME IInv, PageInv, [Next]_vars
             PROVE  PageInv'
  OBVIOUS
<1>1. ASSUME NEW b \in Batches, DeleteBatch(b)
      PROVE  PageInv'
  BY <1>1
  DEF DeleteBatch, workerVars, IInv, TypeOK, PageInv, ReviewIsComplete, ReaderIsProcessing,
      ConfirmedWhole, Alive
<1>2. CASE Restart \/ UNCHANGED vars
  BY <1>2
  DEF Restart, Idle, vars, dbVars, workerVars, PageInv, ReviewIsComplete,
      ReaderIsProcessing, ConfirmedWhole, Alive
<1>3. ASSUME NEW b \in ApiClients, ConfirmBatch(b) \/ ConfirmMatchRun(b) \/ ConfirmOnPage(b)
      PROVE  PageInv'
  BY <1>3, JobsAssumption, ConfirmStamps, ClientPageInv
<1>4. ASSUME NEW b \in Batches, ConfirmOnPage(b)
      PROVE  PageInv'
  BY <1>3, <1>4, ConfirmPageInv
<1> QED
  BY <1>1, <1>2, <1>3, <1>4, UploadPageInv, WorkPageInv DEF Next

(* A user of the pages never saves a part of an import file, nor one with  *)
(* a conflict (confirm_batch has no such check: the page's button has).    *)
THEOREM PagesConfirmWhole == Spec => []ConfirmedWhole
  BY Invariant, InitPageInv, StepPageInv, PTL DEF Spec, PageInv
-----------------------------------------------------------------------------
(* The file on disk.                                                       *)

StoreTypeOK ==
    /\ storing \in [Batches -> {"none", "writing", "kept", "rejected", "lost"}]
    /\ disk \in [Batches -> Nat \cup {NoFile}]
    /\ sent \in [Batches -> Nat]

(* What is in the database came from a request, and a request starts with  *)
(* a file that has been kept.                                              *)
KeptFirst ==
    \A b \in Batches :
        /\ request[b] \in {"inserted", "enqueued"} => storing[b] = "kept"
        /\ request[b] = "done" => storing[b] \in {"kept", "lost"}
        /\ batch[b] # "absent" \/ job[b] # "absent" => request[b] # "none" /\ storing[b] = "kept"

Files ==
    \A b \in Batches :
        /\ storing[b] = "none" => disk[b] = NoFile
        /\ storing[b] = "rejected" => disk[b] = NoFile
        /\ storing[b] = "writing" => disk[b] \in 0 .. MaxBytes
        /\ storing[b] = "lost" => disk[b] \in 0 .. MaxBytes /\ outages > 0
        /\ storing[b] = "kept" => sent[b] = Len(Stream[b]) /\ disk[b] \in 1 .. MaxBytes

StoreInv == StoreTypeOK /\ KeptFirst /\ Files

LEMMA StreamFacts ==
  \A b \in Batches : Len(Stream[b]) \in Nat /\ \A i \in 1 .. Len(Stream[b]) : Stream[b][i] \in Nat
  BY StoreAssumption

LEMMA InitStoreInv == StoreInit => StoreInv
  BY StoreAssumption DEF StoreInit, Init, StoreInv, StoreTypeOK, KeptFirst, Files

LEMMA StoreKeeps ==
  ASSUME StoreInv, TypeOK, NEW b \in Batches, Store(b)
  PROVE  StoreInv'
<1> USE StoreAssumption, StreamFacts DEF StoreInv
<1>1. CASE OpenFile(b)
  BY <1>1 DEF OpenFile, StoreTypeOK, KeptFirst, Files, vars, dbVars, outageVars
<1>2. CASE WriteChunk(b)
  <2>1. NextChunk(b) \in Nat /\ disk[b] \in Nat /\ disk[b] + NextChunk(b) <= MaxBytes
    BY <1>2 DEF WriteChunk, MoreToRead, Fits, NextChunk, StoreTypeOK, Files
  <2> QED
    BY <1>2, <2>1 DEF WriteChunk, MoreToRead, StoreTypeOK, KeptFirst, Files, vars, dbVars, outageVars
<1>3. CASE RejectUpload(b)
  BY <1>3 DEF RejectUpload, MoreToRead, Discard, StoreTypeOK, KeptFirst, Files, vars, dbVars, outageVars
<1>4. CASE KeepFile(b)
  BY <1>4 DEF KeepFile, Complete, StoreTypeOK, KeptFirst, Files, vars, dbVars, outageVars
<1> QED
  BY <1>1, <1>2, <1>3, <1>4 DEF Store

LEMMA InsertKeeps ==
  ASSUME StoreInv, TypeOK, NEW b \in Batches, InsertStored(b)
  PROVE  StoreInv'
  BY DEF InsertStored, InsertBatch, outageVars, storeVars, StoreInv, StoreTypeOK, KeptFirst, Files, TypeOK

LEMMA FailKeeps ==
  ASSUME StoreInv, TypeOK, NEW b \in Batches, FailStored(b)
  PROVE  StoreInv'
<1>1. /\ storing[b] = "kept" /\ request' = [request EXCEPT ![b] = "done"]
      /\ storing' = [storing EXCEPT ![b] = IF request[b] = "none" THEN "lost" ELSE "kept"]
      /\ UNCHANGED <<batch, job, disk, sent>>
  BY DEF FailStored, RequestFails, dbVars
<1>2. outages > 0 => outages' > 0
  BY DEF FailStored, RequestFails, Outage, outageVars, TypeOK
<1>3. CASE request[b] = "none"
  <2>1. outages' > 0
    BY <1>3 DEF FailStored, RequestFails, Outage, TypeOK
  <2> QED
    BY <1>1, <1>2, <1>3, <2>1 DEF StoreInv, StoreTypeOK, KeptFirst, Files, TypeOK
<1>4. CASE request[b] # "none"
  BY <1>1, <1>2, <1>4 DEF StoreInv, StoreTypeOK, KeptFirst, Files, TypeOK
<1> QED
  BY <1>3, <1>4

(* The rest of UploadJobs starts no request and brings back no batch.      *)
LEMMA BesideKeeps ==
  ASSUME StoreInv, IInv, Beside
  PROVE  StoreInv'
<1> USE DEF StoreInv, IInv
<1>1. UNCHANGED storeVars
  BY DEF Beside
<1>2. ASSUME NEW b \in Batches, EnqueueJob(b) \/ SubmitJob(b) \/ DeleteBatch(b)
      PROVE  StoreInv'
  BY <1>1, <1>2
  DEF EnqueueJob, SubmitJob, DeleteBatch, storeVars, dbVars, outageVars, TypeOK,
      StoreTypeOK, KeptFirst, Files
<1>4. ASSUME NEW b \in Batches, ConfirmBatch(b) \/ ConfirmMatchRun(b) \/ ConfirmOnPage(b)
      PROVE  StoreInv'
  <2>1. Stamp(b) /\ batch[b] # "absent"
    BY <1>4, ConfirmStamps
  <2> QED
    BY <1>1, <2>1 DEF Stamp, storeVars, outageVars, TypeOK, StoreTypeOK, KeptFirst, Files
<1>3. CASE Work
  <2>1. (outages > 0 => outages' > 0) /\ request' = request
    BY <1>3 DEF Work, TakeJob, CommitChunk, FinishImport, PreviewExportRows, SavePlan, FinishExport,
                FailJob, LoseBatch, LoseJob, Outage, outageVars, IInv, TypeOK
  <2>2. \A b \in Batches : (batch'[b] # "absent" => batch[b] # "absent")
                           /\ (job'[b] # "absent" => job[b] # "absent" \/ batch[b] # "absent")
    BY <1>3, PoolFacts
    DEF Work, TakeJob, CommitChunk, FinishImport, PreviewExportRows, SavePlan, FinishExport,
        FailJob, Recorded, LoseBatch, LoseJob, Alive, SetReviewReadyAgain, dbVars, TypeOK
  <2> QED
    BY <1>1, <2>1, <2>2 DEF storeVars, StoreTypeOK, KeptFirst, Files
<1> QED
  <2>1. CASE \E b \in Batches :
               EnqueueJob(b) \/ SubmitJob(b) \/ ConfirmOnPage(b) \/ DeleteBatch(b)
    BY <1>2, <1>4, <2>1
  <2>2. CASE \E b \in ApiClients : ConfirmBatch(b) \/ ConfirmMatchRun(b)
    BY <1>4, <2>2, JobsAssumption
  <2> QED
    BY <1>3, <2>1, <2>2 DEF Beside

LEMMA RestartKeeps ==
  ASSUME StoreInv, TypeOK, RestartStore
  PROVE  StoreInv'
<1>1. outages' > 0 /\ batch' = batch /\ job' = job
  BY DEF RestartStore, Restart, Outage, dbVars, TypeOK
<1>2. \A b \in Batches : request'[b] = IF request[b] = "none" THEN "none" ELSE "done"
  BY DEF RestartStore, Restart
<1>3. /\ storing' = [b \in Batches |->
             IF storing[b] = "writing" \/ (storing[b] = "kept" /\ request[b] = "none")
             THEN "lost" ELSE storing[b]]
      /\ disk' = disk /\ sent' = sent
  BY DEF RestartStore
<1>4. StoreTypeOK'
  BY <1>3 DEF StoreInv, StoreTypeOK
<1>5. KeptFirst'
  <2> SUFFICES ASSUME NEW b \in Batches
               PROVE  /\ request'[b] \in {"inserted", "enqueued"} => storing'[b] = "kept"
                      /\ request'[b] = "done" => storing'[b] \in {"kept", "lost"}
                      /\ batch'[b] # "absent" \/ job'[b] # "absent" =>
                             request'[b] # "none" /\ storing'[b] = "kept"
    BY DEF KeptFirst
  <2>1. request[b] \in {"none", "inserted", "enqueued", "done"}
    BY DEF TypeOK
  <2>2. request[b] = "none" => batch[b] = "absent" /\ job[b] = "absent"
    BY DEF StoreInv, KeptFirst
  <2>3. request[b] # "none" => storing[b] \in {"kept", "lost"} /\ storing'[b] = storing[b]
    BY <1>3, <2>1 DEF StoreInv, KeptFirst
  <2> QED
    BY <1>1, <1>2, <2>1, <2>2, <2>3 DEF StoreInv, KeptFirst
<1>6. Files'
  BY <1>1, <1>3, StoreAssumption DEF StoreInv, StoreTypeOK, Files
<1> QED
  BY <1>4, <1>5, <1>6 DEF StoreInv
-----------------------------------------------------------------------------
(* Storing the file is invisible to the tables: whatever UploadJobs        *)
(* promises of uploads without files also holds of uploads with files.     *)
LEMMA StoreStepIsJobsStep == [StoreNext]_allVars => [Next]_vars
  BY DEF StoreNext, Store, OpenFile, WriteChunk, RejectUpload, KeepFile, InsertStored, FailStored,
         Beside, RestartStore, Next, Upload, allVars

(* FileStore implements UploadJobs (api_create_upload_batch around         *)
(* store_upload, enqueue_upload_job and submit_upload_preview_job).        *)
THEOREM StoreImplementsJobs == StoreSpec => Spec
  BY StoreStepIsJobsStep, PTL DEF StoreSpec, StoreInit, Spec

LEMMA StoreStep == StoreInv /\ IInv /\ [StoreNext]_allVars => StoreInv'
<1> SUFFICES ASSUME StoreInv, IInv, [StoreNext]_allVars
             PROVE  StoreInv'
  OBVIOUS
<1>1. CASE UNCHANGED allVars
  BY <1>1 DEF allVars, vars, dbVars, outageVars, storeVars, StoreInv, StoreTypeOK, KeptFirst, Files
<1> QED
  BY <1>1, StoreKeeps, InsertKeeps, FailKeeps, BesideKeeps, RestartKeeps DEF StoreNext, IInv

LEMMA StoreInvariant == StoreSpec => []StoreInv
  BY InitStoreInv, StoreStep, StoreImplementsJobs, Invariant, PTL DEF StoreSpec

(* store_upload: the job of a batch finds its file, whole and within the   *)
(* limit.                                                                  *)
THEOREM JobsFindTheirFile == StoreSpec => []BatchesHaveTheirFile
<1>1. StoreInv => BatchesHaveTheirFile
  BY DEF StoreInv, KeptFirst, Files, BatchesHaveTheirFile
<1> QED
  BY <1>1, StoreInvariant, PTL

(* store_upload removes what it has written when it raises: only a process *)
(* that stops in the middle leaves a file without an upload.               *)
THEOREM RejectedLeaveNoFile == StoreSpec => []NoFileLeftOver
<1>1. StoreInv => NoFileLeftOver
  BY StoreAssumption DEF StoreInv, StoreTypeOK, Files, NoFileLeftOver
<1> QED
  BY <1>1, StoreInvariant, PTL
=============================================================================
