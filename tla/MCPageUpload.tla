----------------------------- MODULE MCPageUpload -----------------------------
EXTENDS PageUpload, MCLedger

InUse(b) == kind[b] # "none" \/ InJob(b) \/ b \in Ours

(* LowestFreeBatch, but an id that is in use for something else is skipped. *)
LowestFreshBatch ==
    \A b, c \in Batches : b < c /\ ~InUse(c) /\ InUse(c)' => InUse(b)

HasError(f) == \E i \in DOMAIN f : ~f[i].ok

(* Files with errors are uploaded by the request only.                     *)
ErrorsOnPage ==
    /\ LowestFreshBatch
    /\ \A b \in Batches :
          /\ file'[b] # file[b] /\ HasError(file'[b]) => page' # page
          /\ snapshot'[b] # snapshot[b] /\ InJob(b)' => ~HasError(snapshot'[b].file)

(* Beside the request, others only upload, confirm and invalidate import   *)
(* files: enough for a request to fail half way.                           *)
OthersImport ==
    /\ LowestFreshBatch
    /\ UNCHANGED <<snapshot, reqStatus>>
    /\ \A b \in Batches : kind'[b] = "exports" => b = mine'.exports
    /\ \A b \in Batches : kind[b] # "none" /\ kind'[b] = "none" => page' # page
===============================================================================
