------------------------------ MODULE PageUpload ------------------------------
(***************************************************************************)
(* The upload page that imports, exports and matches in one request        *)
(* (upload_and_match_page, app/routers/pages.py), beside all the other     *)
(* users of the ledger and a background import.  The request is a series   *)
(* of five transactions.  If a preview or a confirmation raises ValueError *)
(* the page takes back what it has done so far; any other exception leaves *)
(* it as it is.                                                            *)
(***************************************************************************)
EXTENDS ImportJob, Reports

VARIABLES
    page,      \* where the request is, see PageSteps
    mine,      \* its import and its export batch
    unsaved    \* rows of the import file in the session that are not saved

pageVars == <<page, mine, unsaved>>
allVars  == <<vars, snapshot, pageVars>>

PageSteps == {"start", "imports previewed", "exports previewed", "imports confirmed",
              "exports confirmed", "discard exports", "discard imports",
              "answered", "rejected", "failed"}

PageInit ==
    /\ Init /\ JobInit
    /\ page = "start"
    /\ mine = [imports |-> NoBatch, exports |-> NoBatch]
    /\ unsaved = {}
-----------------------------------------------------------------------------
HasErrors(b) == \E i \in DOMAIN rowStatus'[b] : rowStatus'[b][i] = "error"

PagePreviewImports(b, f) ==
    /\ page = "start"
    /\ PreviewImports(b, f)
    /\ mine' = [mine EXCEPT !.imports = b]
    /\ page' = IF HasErrors(b) THEN "discard imports" ELSE "imports previewed"
    /\ UNCHANGED <<snapshot, unsaved>>

PagePreviewExports(b, f) ==
    /\ page = "imports previewed"
    /\ PreviewExports(b, f)
    /\ mine' = [mine EXCEPT !.exports = b]
    /\ page' = IF HasErrors(b) THEN "discard exports" ELSE "exports previewed"
    /\ UNCHANGED <<snapshot, unsaved>>

(* Rows of b that _reactivate_import_lot refuses now, and new rows whose   *)
(* key is taken.                                                           *)
NotReactivated(b) == {i \in RowsWith(b, "reactivate") : owner[file[b][i].key] \notin invalidated}
NotInserted(b) == {i \in RowsWith(b, "new") : owner[file[b][i].key] # NoBatch}

(* confirm_batch raises ValueError: the rows before the one that raised    *)
(* stay in the session.                                                    *)
ImportsRaise(b) ==
    \/ b \in confirmed
    \/ RowsWith(b, "conflict") # {}
    \/ NotReactivated(b) # {}

LeftInSession(b) ==
    IF b \in confirmed \/ RowsWith(b, "conflict") # {} THEN {}
    ELSE {[row |-> file[b][i], status |-> rowStatus[b][i]] :
              i \in {i \in RowsWith(b, "new") \cup RowsWith(b, "reactivate") :
                         \A j \in NotReactivated(b) : i < j}}

PageConfirmImports ==
    LET b == mine.imports
    IN  /\ page = "exports previewed"
        /\ \/ ConfirmImports(b) /\ page' = "imports confirmed" /\ unsaved' = {}
           \/ /\ kind[b] # "none" /\ ImportsRaise(b)
              /\ page' = "discard exports"
              /\ unsaved' = LeftInSession(b)
              /\ UNCHANGED vars
           \/ (* IntegrityError, or the batch is gone.                     *)
              /\ kind[b] = "none" \/ (~ImportsRaise(b) /\ NotInserted(b) # {})
              /\ page' = "failed"
              /\ UNCHANGED <<vars, unsaved>>
        /\ UNCHANGED <<snapshot, mine>>

PageConfirmExports ==
    LET b == mine.exports
    IN  /\ page = "imports confirmed"
        /\ \/ ConfirmExports(b) /\ page' = "exports confirmed"
           \/ /\ kind[b] # "none" /\ b \in confirmed
              /\ page' = "discard exports"
              /\ UNCHANGED vars
           \/ kind[b] = "none" /\ page' = "failed" /\ UNCHANGED vars
        /\ UNCHANGED <<snapshot, mine, unsaved>>

PageMatch ==
    /\ page = "exports confirmed"
    /\ RunMatching(AnyDate)
    /\ page' = "answered"
    /\ UNCHANGED <<snapshot, mine, unsaved>>
-----------------------------------------------------------------------------
(* The commit that deletes a batch also saves what the failed confirmation *)
(* left in the session: the route does not roll back.  A new row whose key *)
(* is taken by now breaks the unique constraint.                           *)
CanFlush == \A u \in unsaved : u.status = "new" => owner[u.row.key] = NoBatch

FlushUnsaved ==
    LET saved == {u.row.key : u \in unsaved}
        rowOf(k) == (CHOOSE u \in unsaved : u.row.key = k).row
    IN  /\ owner' = [k \in Keys |-> IF k \in saved THEN mine.imports ELSE owner[k]]
        /\ lot' = [k \in Keys |-> IF k \in saved THEN LotOf(rowOf(k)) ELSE lot[k]]
        /\ unsaved' = {}

Faulty_TakeBack(b) ==
    \/ b \in confirmed /\ UNCHANGED <<vars, unsaved>>
    \/ kind[b] # "none" /\ b \notin confirmed /\ CanFlush /\ DropBatch(b) /\ FlushUnsaved

(* _discard_direct_upload_batches, for one batch.  Bound: a request is not *)
(* followed if somebody else confirms one of its files while rows are left *)
(* in its session.                                                         *)
TakeBack(b) ==
    \/ b \in invalidated /\ UNCHANGED <<vars, unsaved>>
    \/ (InvalidateImports(b) \/ InvalidateExports(b)) /\ unsaved = {} /\ UNCHANGED unsaved
    \/ kind[b] # "none" /\ b \notin confirmed /\ CanFlush /\ DropBatch(b) /\ FlushUnsaved

(* The batch is gone, or what was left in the session cannot be saved.     *)
CannotTakeBack(b) ==
    /\ kind[b] = "none" \/ (b \notin confirmed /\ ~CanFlush)
    /\ page' = "failed"
    /\ UNCHANGED <<vars, unsaved>>

PageDiscard ==
    /\ \/ /\ page = "discard exports"
          /\ \/ TakeBack(mine.exports) /\ page' = "discard imports"
             \/ CannotTakeBack(mine.exports)
       \/ /\ page = "discard imports"
          /\ \/ TakeBack(mine.imports) /\ page' = "rejected"
             \/ CannotTakeBack(mine.imports)
    /\ UNCHANGED <<snapshot, mine>>

Request ==
    \/ \E b \in Batches :
          \/ \E f \in ImportFiles : PagePreviewImports(b, f)
          \/ \E f \in ExportFiles : PagePreviewExports(b, f)
    \/ PageConfirmImports
    \/ PageConfirmExports
    \/ PageMatch
    \/ PageDiscard

Ours == {mine.imports, mine.exports}

(* A batch id is used once: those of the request and of a running job are  *)
(* not given to another upload.                                            *)
FreshIds ==
    \A b \in Batches : kind[b] = "none" /\ kind'[b] # "none" => b \notin Ours /\ ~InJob(b)

Others ==
    \/ Next /\ FreshIds /\ UNCHANGED <<snapshot, pageVars>>
    \/ JobStep /\ (\A b \in Ours \ {NoBatch} : ~InJob(b)') /\ UNCHANGED pageVars

PageNext == (Request /\ FreshIds) \/ Others

PageSpec == PageInit /\ [][PageNext]_allVars

(* No confirmation of the page fails after it has begun to change lots.    *)
TidyNext == PageNext /\ unsaved' = {}

TidySpec == PageInit /\ [][TidyNext]_allVars
-----------------------------------------------------------------------------
(* A request that has been rejected has taken back both of its files,      *)
(* whatever others did with them meanwhile: nothing of them is live.       *)
RejectedIsTakenBack ==
    page = "rejected" =>
        \A b \in Ours : b \notin confirmed \ invalidated

(* pages.py:480 calls what the page does to its files on an error an       *)
(* automatic cancellation.  No lot of a cancelled file is in the inventory. *)
CancelledLeavesNoLots ==
    page = "rejected" => \A k \in ActiveLots : owner[k] # mine.imports
=============================================================================
