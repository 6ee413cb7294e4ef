----------------------------- MODULE UploadJobs -----------------------------
(***************************************************************************)
(* Background processing of uploaded files: the upload request             *)
(* (app/routers/api.py), the one-thread worker pool and its job            *)
(* (app/services/jobs.py), and the users who confirm or delete a batch     *)
(* while the worker is at it.  One action is one database commit.  A       *)
(* restart loses the pool and the worker, and keeps what was committed;    *)
(* and any statement of the request or of the worker may fail, because     *)
(* another session holds SQLite's write lock for longer than the driver    *)
(* waits ("database is locked").                                           *)
(*                                                                         *)
(* What a row means is not modelled here (see Ledger): a file is the       *)
(* sequence of the statuses its rows get.                                  *)
(***************************************************************************)
EXTENDS Integers, Sequences, FiniteSets

CONSTANTS
    Batches,      \* upload batches
    Nobody,       \* the batch of an idle worker
    Kind,         \* upload_type of each batch: "imports" or "exports"
    RowsOf,       \* row_status each row of its file gets
    Broken,       \* batches whose file the parser gives up on
    ApiClients,   \* batches whose user calls the JSON routes
    Chunk,        \* rows between two progress commits (500 in the code)
    MaxOutages    \* bound on restarts and failed statements together

ASSUME JobsAssumption ==
    /\ Nobody \notin Batches
    /\ Kind \in [Batches -> {"imports", "exports"}]
    /\ RowsOf \in [Batches -> Seq({"new", "conflict", "error"})]
    /\ Broken \subseteq Batches
    /\ ApiClients \subseteq Batches
    /\ Chunk \in Nat \ {0}
    /\ MaxOutages \in Nat

VARIABLES
    request,   \* the upload request of a batch: "none", "inserted", "enqueued", "done"
    batch,     \* status of the upload_batches row, "absent" if there is none
    job,       \* status of the processing_jobs row, "absent" if there is none
    saved,     \* number of upload_preview_rows of the batch
    counted,   \* batches with new_count, ..., error_count set
    planned,   \* batches with a fingerprint and planned allocations
    confirmed, \* batches with confirmed_at set
    taken,     \* rows a confirmation found in the batch
    pool,      \* jobs submitted to the executor, by batch
    worker,    \* the batch the worker thread is at
    step,      \* where: "read", "plan", "finish"
    read,      \* rows of the file the worker has read
    outages,   \* restarts and failed statements so far
    stranded   \* history: batches whose request or job an outage has ended

dbVars     == <<batch, job, saved, counted, planned, confirmed, taken>>
workerVars == <<worker, step, read>>
outageVars == <<outages, stranded>>
vars       == <<request, dbVars, pool, workerVars, outageVars>>

NumRows(b) == Len(RowsOf[b])

HasRow(b, s) == \E i \in 1 .. NumRows(b) : RowsOf[b][i] = s

Init ==
    /\ request = [b \in Batches |-> "none"]
    /\ batch = [b \in Batches |-> "absent"]
    /\ job = [b \in Batches |-> "absent"]
    /\ saved = [b \in Batches |-> 0]
    /\ counted = {} /\ planned = {} /\ confirmed = {}
    /\ taken = [b \in Batches |-> 0]
    /\ pool = <<>>
    /\ worker = Nobody /\ step = "read" /\ read = 0
    /\ outages = 0 /\ stranded = {}
-----------------------------------------------------------------------------
(* The batches somebody is at: their request, the pool or the worker.      *)
Pooled == {pool[i] : i \in DOMAIN pool}
InHand == {b \in Batches : \/ request[b] \in {"inserted", "enqueued"}
                           \/ b \in Pooled
                           \/ b = worker}

(* A statement waits for another session's write lock and raises, or the   *)
(* process stops.                                                          *)
Outage == outages < MaxOutages /\ outages' = outages + 1

(* api_create_upload_batch: insert the batch, insert its job, submit it.   *)
InsertBatch(b) ==
    /\ request[b] = "none"
    /\ request' = [request EXCEPT ![b] = "inserted"]
    /\ batch' = [batch EXCEPT ![b] = "queued"]
    /\ UNCHANGED <<job, saved, counted, planned, confirmed, taken, pool, workerVars, outageVars>>

(* enqueue_upload_job finds the batch in the request's own session, where  *)
(* its status is "queued" already: only the job is written.                *)
EnqueueJob(b) ==
    /\ request[b] = "inserted"
    /\ request' = [request EXCEPT ![b] = "enqueued"]
    /\ job' = [job EXCEPT ![b] = "queued"]
    /\ UNCHANGED <<batch, saved, counted, planned, confirmed, taken, pool, workerVars, outageVars>>

SubmitJob(b) ==
    /\ request[b] = "enqueued"
    /\ request' = [request EXCEPT ![b] = "done"]
    /\ pool' = Append(pool, b)
    /\ UNCHANGED <<dbVars, workerVars, outageVars>>

(* A commit of the route raises, or the batch has been deleted since and   *)
(* the refresh after the commit raises: nobody catches it, and what was    *)
(* committed before stays as it is.                                        *)
RequestFails(b) ==
    /\ request[b] \in {"none", "inserted", "enqueued"}
    /\ \/ Outage /\ stranded' = stranded \cup {b}
       \/ request[b] # "none" /\ batch[b] = "absent" /\ UNCHANGED outageVars
    /\ request' = [request EXCEPT ![b] = "done"]
    /\ UNCHANGED <<dbVars, pool, workerVars>>
-----------------------------------------------------------------------------
(* Faulty_ definitions are plausible mistakes in the definition they       *)
(* precede; each shows that a property of this module can fail.            *)
Faulty_Idle == UNCHANGED workerVars

(* The function returns or raises: the thread is free for the next job.    *)
Idle == worker' = Nobody /\ step' = "read" /\ read' = 0

(* process_upload_preview_job: take the next job, note that it is being    *)
(* processed.  A job or batch deleted meanwhile makes it raise.            *)
TakeJob ==
    /\ worker = Nobody
    /\ pool # <<>>
    /\ pool' = Tail(pool)
    /\ LET b == Head(pool)
       IN  IF job[b] = "absent" \/ batch[b] = "absent"
           THEN Idle /\ UNCHANGED <<batch, job>>
           ELSE /\ worker' = b /\ step' = "read" /\ read' = 0
                /\ batch' = [batch EXCEPT ![b] = "processing"]
                /\ job' = [job EXCEPT ![b] = "processing"]
    /\ UNCHANGED <<request, saved, counted, planned, confirmed, taken, outageVars>>

Faulty_Alive == worker # Nobody

(* The worker's next UPDATE finds the row of its batch.                    *)
Alive == worker # Nobody /\ batch[worker] # "absent"

(* Rows written to the session by the time n rows have been read: an       *)
(* import row at a time, an export file only at the end.                   *)
RowsAdded(n) == IF Kind[worker] = "imports" THEN n ELSE saved[worker]

(* A progress commit after every Chunk rows.                               *)
CommitChunk ==
    /\ Alive
    /\ step = "read"
    /\ read + Chunk <= NumRows(worker)
    /\ read' = read + Chunk
    /\ saved' = [saved EXCEPT ![worker] = RowsAdded(read + Chunk)]
    /\ UNCHANGED <<request, batch, job, counted, planned, confirmed, taken, pool,
                   worker, step, outageVars>>

EndOfFile == step = "read" /\ read + Chunk > NumRows(worker) /\ worker \notin Broken

Faulty_RowsAtEnd == read
Faulty_RowsAgain == saved[worker] + NumRows(worker)

(* Every row of the file is in the session when the iterator is exhausted. *)
RowsAtEnd == NumRows(worker)

(* ImportPreviewAccumulator.finalize and the commit that ends the job.     *)
FinishImport ==
    /\ Alive
    /\ Kind[worker] = "imports"
    /\ EndOfFile
    /\ saved' = [saved EXCEPT ![worker] = RowsAtEnd]
    /\ counted' = counted \cup {worker}
    /\ batch' = [batch EXCEPT ![worker] = "review_ready"]
    /\ job' = [job EXCEPT ![worker] = "review_ready"]
    /\ Idle
    /\ UNCHANGED <<request, planned, confirmed, taken, pool, outageVars>>

(* The commit inside preview_exports: rows and counts, and a batch that is *)
(* review_ready before there is a plan to review.                          *)
PreviewExportRows ==
    /\ Alive
    /\ Kind[worker] = "exports"
    /\ EndOfFile
    /\ saved' = [saved EXCEPT ![worker] = RowsAtEnd]
    /\ counted' = counted \cup {worker}
    /\ batch' = [batch EXCEPT ![worker] = "review_ready"]
    /\ step' = "plan"
    /\ UNCHANGED <<request, job, planned, confirmed, taken, pool, worker, read, outageVars>>

(* The status is set to review_ready once more; that is written only if    *)
(* the session has just read another one.                                  *)
SetReviewReadyAgain ==
    batch' \in {batch, [batch EXCEPT ![worker] = "review_ready"]}

(* The commit of preview_export_run: fingerprint and planned allocations.  *)
SavePlan ==
    /\ Alive
    /\ step = "plan"
    /\ SetReviewReadyAgain
    /\ planned' = planned \cup {worker}
    /\ step' = "finish"
    /\ UNCHANGED <<request, job, saved, counted, confirmed, taken, pool, worker, read, outageVars>>

FinishExport ==
    /\ Alive
    /\ step = "finish"
    /\ SetReviewReadyAgain
    /\ job' = [job EXCEPT ![worker] = "review_ready"]
    /\ Idle
    /\ UNCHANGED <<request, saved, counted, planned, confirmed, taken, pool, outageVars>>

ParserRaises == step = "read" /\ worker \in Broken /\ read + Chunk > NumRows(worker)

Faulty_Recorded == "processing"

Recorded == "failed"

(* The parser or a statement inside the try raises: what is in the session *)
(* is rolled back, the failure is recorded.                                *)
FailJob ==
    /\ Alive
    /\ \/ ParserRaises /\ UNCHANGED outages
       \/ Outage
    /\ batch' = [batch EXCEPT ![worker] = Recorded]
    /\ job' = [job EXCEPT ![worker] = "failed"]
    /\ Idle
    /\ UNCHANGED <<request, saved, counted, planned, confirmed, taken, pool, stranded>>

(* The function is left without a record: the job cannot be read or marked *)
(* as processing, which is outside the try, or the failure cannot be       *)
(* written.                                                                *)
LoseJob ==
    /\ Outage
    /\ \/ /\ worker = Nobody /\ pool # <<>>
          /\ pool' = Tail(pool) /\ stranded' = stranded \cup {Head(pool)}
       \/ /\ Alive
          /\ pool' = pool /\ stranded' = stranded \cup {worker}
    /\ Idle
    /\ UNCHANGED <<request, dbVars>>

(* The batch has been deleted under the worker: its next commit raises,    *)
(* the session is rolled back and there is no job left to mark as failed.  *)
LoseBatch ==
    /\ worker # Nobody
    /\ batch[worker] = "absent"
    /\ Idle
    /\ UNCHANGED <<request, dbVars, pool, outageVars>>

Work ==
    \/ TakeJob
    \/ CommitChunk
    \/ FinishImport
    \/ PreviewExportRows
    \/ SavePlan
    \/ FinishExport
    \/ FailJob
    \/ LoseBatch
    \/ LoseJob
-----------------------------------------------------------------------------
Stamp(b) ==
    /\ confirmed' = confirmed \cup {b}
    /\ taken' = [taken EXCEPT ![b] = saved[b]]
    /\ batch' = [batch EXCEPT ![b] = "confirmed"]
    /\ UNCHANGED <<request, job, saved, counted, planned, pool, workerVars, outageVars>>

(* The counters of a batch are zero until the worker sets them.            *)
NoConflictCounted(b) ==
    b \in counted => ~HasRow(b, "conflict") /\ ~HasRow(b, "error")

(* confirm_batch: whatever rows the batch has by now.                      *)
ConfirmBatch(b) ==
    /\ batch[b] # "absent"
    /\ b \notin confirmed
    /\ Kind[b] = "imports" => NoConflictCounted(b)
    /\ Stamp(b)

(* confirm_match_run; that the inventory is the plan's is Ledger's matter. *)
ConfirmMatchRun(b) ==
    /\ batch[b] # "absent"
    /\ Kind[b] = "exports"
    /\ b \notin confirmed
    /\ ~(b \in counted /\ HasRow(b, "error"))
    /\ b \in planned
    /\ Stamp(b)

Faulty_OffersConfirm(b) == batch[b] # "failed" /\ b \notin confirmed

(* The review page shows its button for a review_ready batch only.         *)
OffersConfirm(b) == batch[b] = "review_ready" /\ b \notin confirmed

(* confirm_batch_page, reached through the button of the review page.      *)
ConfirmOnPage(b) ==
    /\ OffersConfirm(b)
    /\ IF Kind[b] = "imports" THEN ConfirmBatch(b) ELSE ConfirmMatchRun(b)

(* delete_unconfirmed_upload: the rows, the plan and the job go with it.   *)
DeleteBatch(b) ==
    /\ batch[b] # "absent"
    /\ b \notin confirmed
    /\ batch' = [batch EXCEPT ![b] = "absent"]
    /\ job' = [job EXCEPT ![b] = "absent"]
    /\ saved' = [saved EXCEPT ![b] = 0]
    /\ counted' = counted \ {b}
    /\ planned' = planned \ {b}
    /\ UNCHANGED <<request, confirmed, taken, pool, workerVars, outageVars>>

(* The process stops and starts again: nothing resubmits a job.            *)
Restart ==
    /\ Outage
    /\ stranded' = stranded \cup InHand
    /\ pool' = <<>>
    /\ Idle
    /\ request' = [b \in Batches |-> IF request[b] = "none" THEN "none" ELSE "done"]
    /\ UNCHANGED dbVars

Upload(b) == InsertBatch(b) \/ EnqueueJob(b) \/ SubmitJob(b) \/ RequestFails(b)

(* Whoever uploads, confirms or deletes a batch may do so on the pages; a  *)
(* client of the JSON routes may confirm it in any state.                  *)
Next ==
    \/ \E b \in Batches : Upload(b) \/ ConfirmOnPage(b) \/ DeleteBatch(b)
    \/ \E b \in ApiClients : ConfirmBatch(b) \/ ConfirmMatchRun(b)
    \/ Work
    \/ Restart

(* A request that has begun goes on, and the worker thread keeps running:  *)
(* each of their statements returns or raises.                             *)
Fairness ==
    /\ \A b \in Batches : WF_vars(request[b] # "none" /\ Upload(b))
    /\ WF_vars(Work)

Spec == Init /\ [][Next]_vars /\ Fairness
-----------------------------------------------------------------------------
BatchStatuses == {"absent", "queued", "processing", "review_ready", "failed", "confirmed"}

TypeOK ==
    /\ request \in [Batches -> {"none", "inserted", "enqueued", "done"}]
    /\ batch \in [Batches -> BatchStatuses]
    /\ job \in [Batches -> BatchStatuses \ {"confirmed"}]
    /\ saved \in [Batches -> Nat]
    /\ \A b \in Batches : saved[b] <= NumRows(b)
    /\ counted \subseteq Batches
    /\ planned \subseteq Batches
    /\ confirmed \subseteq Batches
    /\ taken \in [Batches -> Nat]
    /\ pool \in Seq(Batches)
    /\ worker \in Batches \cup {Nobody}
    /\ step \in {"read", "plan", "finish"}
    /\ read \in Nat
    /\ outages \in 0 .. MaxOutages
    /\ stranded \subseteq Batches

(* A job that ends well has stored every row of the file, the counts, and  *)
(* for an export file the plan, even if the process died in other jobs and *)
(* whatever users did to the batch meanwhile.                              *)
FinishedIsComplete ==
    \A b \in Batches : job[b] = "review_ready" =>
        /\ saved[b] = NumRows(b)
        /\ b \in counted
        /\ Kind[b] = "exports" => b \in planned

(* A deleted batch leaves no rows and no plan behind, though the worker    *)
(* may have been in the middle of it.                                      *)
NothingOutlivesDelete ==
    \A b \in Batches : batch[b] = "absent" =>
        saved[b] = 0 /\ b \notin counted \cup planned

(* README.md:14: a conflict blocks the whole import file.  What users of   *)
(* the review page have confirmed is the whole file, and none of its rows  *)
(* is in conflict, whatever clients do to other batches meanwhile.         *)
ConfirmedWhole ==
    \A b \in confirmed \ ApiClients : Kind[b] = "imports" =>
        taken[b] = NumRows(b) /\ ~HasRow(b, "conflict") /\ ~HasRow(b, "error")

(* The same claim as a client of the JSON routes meets it: a confirmation  *)
(* saves none of the rows of a file that has a conflict.                   *)
ConflictBlocksFile ==
    \A b \in confirmed : Kind[b] = "imports" /\ HasRow(b, "conflict") => taken[b] = 0

Unsettled(b) ==
    /\ batch[b] # "absent"
    /\ batch[b] \in {"queued", "processing"} \/ job[b] \in {"queued", "processing"}

(* A batch that is queued or being processed, or whose job is, is in       *)
(* somebody's hands, or an outage has struck its own request or job.  The  *)
(* code has nothing that looks for such batches: one that is dropped in    *)
(* another way, or an export file left without its plan, is never found.   *)
UnsettledIsInHand ==
    \A b \in Batches : Unsettled(b) => b \in InHand \cup stranded

(* Every upload is settled for good: neither its batch nor its job stays   *)
(* queued or processing for ever, also if its file is broken or the batch  *)
(* is deleted under the worker.  An outage strands only the batches it     *)
(* strikes: those behind a failed job in the pool, or uploaded after a     *)
(* restart, are processed.                                                 *)
EveryUploadSettles ==
    \A b \in Batches : <>[](Unsettled(b) => b \in stranded)
=============================================================================
