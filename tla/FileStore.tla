------------------------------ MODULE FileStore ------------------------------
(***************************************************************************)
(* The uploaded file on disk (app/services/file_storage.py) in front of    *)
(* the jobs of UploadJobs: api_create_upload_batch stores the file chunk   *)
(* by chunk, and only then inserts the batch whose job will read it.  The  *)
(* process may stop at any point; a file is never removed once its batch   *)
(* is there.                                                               *)
(*                                                                         *)
(* The route is an async function that awaits nothing: one upload at a     *)
(* time goes through it, while the worker thread and the handlers in the   *)
(* thread pool run beside it.                                              *)
(***************************************************************************)
EXTENDS UploadJobs

CONSTANTS
    Stream,     \* sizes of the chunks in which the file of each batch arrives
    MaxBytes,   \* MAX_UPLOAD_BYTES
    Flaky,      \* uploads whose stream or disk may fail
    NoFile      \* what is on disk when there is no file

ASSUME StoreAssumption ==
    /\ Stream \in [Batches -> Seq(Nat \ {0})]
    /\ MaxBytes \in Nat
    /\ Flaky \subseteq Batches
    /\ NoFile \notin Nat

VARIABLES
    storing,   \* store_upload of a batch: "none", "writing", "kept", "rejected", "lost"
    disk,      \* bytes in the file, or NoFile
    sent       \* chunks read from the stream

storeVars == <<storing, disk, sent>>
allVars   == <<vars, storeVars>>

StoreInit ==
    /\ Init
    /\ storing = [b \in Batches |-> "none"]
    /\ disk = [b \in Batches |-> NoFile]
    /\ sent = [b \in Batches |-> 0]
-----------------------------------------------------------------------------
(* The route has begun with b and has not yet answered.                    *)
InRoute(b) ==
    \/ storing[b] = "writing"
    \/ storing[b] = "kept" /\ request[b] \in {"none", "inserted", "enqueued"}

OpenFile(b) ==
    /\ storing[b] = "none"
    /\ \A c \in Batches : ~InRoute(c)
    /\ storing' = [storing EXCEPT ![b] = "writing"]
    /\ disk' = [disk EXCEPT ![b] = 0]
    /\ UNCHANGED <<vars, sent>>

NextChunk(b) == Stream[b][sent[b] + 1]

Faulty_Fits(b) == disk[b] <= MaxBytes

(* The size is checked with the chunk that has just been read, before it   *)
(* is written.                                                             *)
Fits(b) == disk[b] + NextChunk(b) <= MaxBytes

MoreToRead(b) == storing[b] = "writing" /\ sent[b] < Len(Stream[b])

WriteChunk(b) ==
    /\ MoreToRead(b)
    /\ Fits(b)
    /\ disk' = [disk EXCEPT ![b] = @ + NextChunk(b)]
    /\ sent' = [sent EXCEPT ![b] = @ + 1]
    /\ UNCHANGED <<vars, storing>>

Faulty_Discard(b) == storing' = [storing EXCEPT ![b] = "rejected"] /\ UNCHANGED disk

(* Unlink the file, remove its directory, and raise.                       *)
Discard(b) ==
    /\ storing' = [storing EXCEPT ![b] = "rejected"]
    /\ disk' = [disk EXCEPT ![b] = NoFile]

(* The file is too large, the stream or the disk fails, or nothing came.   *)
RejectUpload(b) ==
    /\ \/ MoreToRead(b) /\ (~Fits(b) \/ b \in Flaky)
       \/ storing[b] = "writing" /\ Stream[b] = <<>>
    /\ Discard(b)
    /\ UNCHANGED <<vars, sent>>

Faulty_Complete(b) == sent[b] >= 1

Complete(b) == sent[b] = Len(Stream[b]) /\ disk[b] > 0

KeepFile(b) ==
    /\ storing[b] = "writing"
    /\ Complete(b)
    /\ storing' = [storing EXCEPT ![b] = "kept"]
    /\ UNCHANGED <<vars, disk, sent>>

InsertStored(b) ==
    /\ storing[b] = "kept"
    /\ InsertBatch(b)
    /\ UNCHANGED storeVars

(* The route ends with an error.  If that was before its first commit, the *)
(* file stays without a batch.                                             *)
FailStored(b) ==
    /\ storing[b] = "kept"
    /\ RequestFails(b)
    /\ storing' = [storing EXCEPT ![b] = IF request[b] = "none" THEN "lost" ELSE "kept"]
    /\ UNCHANGED <<disk, sent>>

(* The process stops inside the route: nobody removes what was written.    *)
RestartStore ==
    /\ Restart
    /\ storing' = [b \in Batches |->
            IF storing[b] = "writing" \/ (storing[b] = "kept" /\ request[b] = "none")
            THEN "lost" ELSE storing[b]]
    /\ UNCHANGED <<disk, sent>>

Store(b) == OpenFile(b) \/ WriteChunk(b) \/ RejectUpload(b) \/ KeepFile(b)

(* The rest of UploadJobs does not touch the files.                        *)
Beside ==
    /\ \/ \E b \in Batches :
             EnqueueJob(b) \/ SubmitJob(b) \/ ConfirmOnPage(b) \/ DeleteBatch(b)
       \/ \E b \in ApiClients : ConfirmBatch(b) \/ ConfirmMatchRun(b)
       \/ Work
    /\ UNCHANGED storeVars

StoreNext ==
    \/ \E b \in Batches : Store(b) \/ InsertStored(b) \/ FailStored(b)
    \/ Beside
    \/ RestartStore

StoreSpec == StoreInit /\ [][StoreNext]_allVars /\ Fairness
-----------------------------------------------------------------------------
(* The job of a batch always finds its file, whole, not empty and within   *)
(* the limit: whatever was rejected, interrupted or deleted meanwhile.     *)
BatchesHaveTheirFile ==
    \A b \in Batches : batch[b] # "absent" \/ job[b] # "absent" =>
        sent[b] = Len(Stream[b]) /\ disk[b] \in 1 .. MaxBytes

(* A rejected upload leaves no file; unless there has been an outage,      *)
(* every file belongs to an upload that goes on or has been kept, and at   *)
(* no time is a file larger than the limit.                                *)
NoFileLeftOver ==
    \A b \in Batches : disk[b] # NoFile =>
        /\ disk[b] <= MaxBytes
        /\ storing[b] \in {"writing", "kept"} \/ outages > 0
=============================================================================
