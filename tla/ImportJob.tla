------------------------------ MODULE ImportJob ------------------------------
(***************************************************************************)
(* The background preview of a large import file                           *)
(* (ImportPreviewAccumulator, app/services/uploads.py).  It reads which    *)
(* lots exist, and which of them have been invalidated, before the first   *)
(* row; the rows are classified against that snapshot while others confirm *)
(* and invalidate files.                                                   *)
(*                                                                         *)
(* That the rows appear chunk by chunk, and may be deleted under the       *)
(* worker, is UploadJobs' matter: here they are classified in one step, at *)
(* any time after the snapshot.                                            *)
(***************************************************************************)
EXTENDS Ledger

VARIABLE
    snapshot    \* the file and the snapshot of a batch being processed, else <<>>

InJob(b) == snapshot[b] # <<>>

JobInit == snapshot = [b \in Batches |-> <<>>]

(* active_existing and invalidated_existing.                               *)
Standing(k) ==
    IF Active(k) THEN "active" ELSE IF owner[k] # NoBatch THEN "invalidated" ELSE "absent"

(* The batch is there from now on, though Ledger sees it only when its     *)
(* rows are: it cannot be confirmed before in a way that saves anything.   *)
TakeSnapshot(b, f) ==
    /\ kind[b] = "none" /\ ~InJob(b)
    /\ snapshot' = [snapshot EXCEPT ![b] = [file |-> f, lots |-> [k \in Keys |-> Standing(k)]]]
    /\ UNCHANGED vars

(* What row i of f may be called.  A lot that was active then is compared  *)
(* with the values it had at the last commit of the job, not with those it *)
(* has now: either answer is possible.                                     *)
JobStatuses(f, i, lots) ==
    IF ~f[i].ok \/ \E j \in 1 .. i - 1 : f[j].ok /\ f[j].key = f[i].key
    THEN {ClassifyImport(f, i)}
    ELSE CASE lots[f[i].key] = "active"      -> {"duplicate", "conflict"}
           [] lots[f[i].key] = "invalidated" -> {"reactivate"}
           [] lots[f[i].key] = "absent"      -> {"new"}

ClassifyRows(b) ==
    /\ InJob(b)
    /\ LET f == snapshot[b].file
       IN  \E cls \in [DOMAIN f -> {"new", "duplicate", "conflict", "error", "reactivate"}] :
             /\ \A i \in DOMAIN f : cls[i] \in JobStatuses(f, i, snapshot[b].lots)
             /\ NewBatch(b, "imports", f, cls)
    /\ snapshot' = [snapshot EXCEPT ![b] = <<>>]
    /\ UNCHANGED <<planned, fingerprint, plan>>

JobStep == \E b \in Batches : ClassifyRows(b) \/ \E f \in ImportFiles : TakeSnapshot(b, f)
-----------------------------------------------------------------------------
(* However old the snapshot its rows were classified with, a file that is  *)
(* confirmed takes over no lot that is in the inventory: while a lot is    *)
(* active, nothing changes where it came from and what was imported.       *)
ActiveLotsAreNotReplaced ==
    [][\A k \in ActiveLots : owner'[k] = owner[k] /\ lot'[k].import = lot[k].import]_<<vars, snapshot>>
=============================================================================
