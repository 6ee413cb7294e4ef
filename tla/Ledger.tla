------------------------------- MODULE Ledger -------------------------------
(***************************************************************************)
(* The inventory ledger of the service layer: upload batches, import lots, *)
(* export requirements and the allocations between them                    *)
(* (app/services/uploads.py, app/services/matching.py, app/models.py).     *)
(* One action is one call of a service function in a transaction of its    *)
(* own; a call that raises leaves the database as it was and is not a      *)
(* step.                                                                   *)
(*                                                                         *)
(* The program offers two workflows over the same tables.                  *)
(*   workbench: preview_export_run -> confirm_match_run -> revert_match_run *)
(*   direct:    preview_exports -> confirm_batch -> run_matching           *)
(*              -> undo_export_matching or invalidate_confirmed_upload     *)
(* Spec lets a user mix them freely, CarefulSpec is the part in which the  *)
(* books balance: the direct workflow leaves reverted files alone.         *)
(***************************************************************************)
EXTENDS Fifo, Sequences

CONSTANTS
    Batches,       \* identifiers of upload batches
    NoBatch,       \* owner of a lot that does not exist
    Keys,          \* business keys: declaration, line, row, part, origin
    Parts,         \* normalised part numbers
    PartOf,        \* the part number in a key
    LotRank,       \* order of the keys by declaration, line and row number
    MaxRows,       \* bound on the rows of a file
    IdRank,        \* order of export requirements by origin and random id
    Dates,         \* acceptance and export dates, as numbers
    AnyDate,       \* run_matching without a date
    ImportFiles,   \* the import files that may be uploaded
    ExportFiles    \* the export files that may be uploaded

Rows == 1 .. MaxRows

(* An export requirement is created from one row of one batch.             *)
Reqs == Batches \X Rows

Pairs == Reqs \X Keys

(* A parsed row; ok is FALSE when normalize_*_row raises for it.           *)
ImportRows == {r \in [key : Keys, date : Dates, import : Nat \ {0},
                      remaining : Nat, ok : BOOLEAN] : r.remaining <= r.import}
ExportRows == [part : Parts, date : Dates, qty : Nat \ {0}, ok : BOOLEAN]

ASSUME BatchAssumption == NoBatch \notin Batches /\ IsFiniteSet(Batches)
ASSUME KeyAssumption ==
    /\ IsFiniteSet(Keys)
    /\ PartOf \in [Keys -> Parts]
    /\ LotRank \in [Keys -> Nat]
    /\ \A k, l \in Keys : LotRank[k] = LotRank[l] => k = l
ASSUME RowAssumption == MaxRows \in Nat
ASSUME RankAssumption ==
    /\ IdRank \in [Reqs -> Nat]
    /\ \A r, s \in Reqs : IdRank[r] = IdRank[s] => r = s
ASSUME DateAssumption == Dates \subseteq Nat /\ AnyDate \notin Dates
ASSUME FileAssumption ==
    /\ \A f \in ImportFiles : f \in Seq(ImportRows) /\ Len(f) <= MaxRows
    /\ \A f \in ExportFiles : f \in Seq(ExportRows) /\ Len(f) <= MaxRows

VARIABLES
    kind,        \* upload_type of a batch, "none" if there is no such batch
    status,      \* its status
    file,        \* payloads of its preview rows, in row order
    rowStatus,   \* their row_status
    planned,     \* batches with an inventory fingerprint and planned allocations
    fingerprint, \* the inventory a plan was made from
    plan,        \* quantities of the planned allocations
    confirmed, reverted, invalidated,  \* batches with the time stamp set
    owner,       \* upload_batch_id of the lot with a key, NoBatch if no lot
    lot,         \* accepted date and quantities of the lots
    reqStatus,   \* status of the export requirements, "absent" if not created
    alloc,       \* quantity of the export_allocations rows of a pair
    allocated    \* pairs that have such a row (it may have quantity 0)

batchVars == <<kind, status, file, rowStatus, planned, fingerprint, plan>>
stamps    == <<confirmed, reverted, invalidated>>
lotVars   == <<owner, lot>>
reqVars   == <<reqStatus, alloc, allocated>>
vars      == <<batchVars, stamps, lotVars, reqVars>>

Matchable == {"pending", "partial_matched", "insufficient_stock"}
-----------------------------------------------------------------------------
(* The inventory: lots whose batch has not been invalidated.               *)
Active(k)  == owner[k] # NoBatch /\ owner[k] \notin invalidated
ActiveLots == {k \in Keys : Active(k)}

(* What inventory_fingerprint hashes of every active lot (its import_qty   *)
(* is not part of it), and all the planner looks at.                       *)
Inventory == [k \in ActiveLots |-> [date |-> lot[k].date, used |-> lot[k].used,
                                    remaining |-> lot[k].remaining]]

NoLot == [date |-> 0, import |-> 0, used |-> 0, remaining |-> 0]

(* Faulty_ definitions are plausible mistakes in the definition they       *)
(* precede; each shows that a property of this module can fail.            *)
Faulty_LotOf(row) == [date |-> row.date, import |-> row.import,
                      used |-> 0, remaining |-> row.remaining]

(* A lot as an import row opens it: what the file says is already used is. *)
LotOf(row) == [date |-> row.date, import |-> row.import,
               used |-> row.import - row.remaining, remaining |-> row.remaining]

Faulty_OlderThan(inv, k, l) == LotRank[k] < LotRank[l]

(* FIFO order: acceptance date, then declaration, line and row number.     *)
OlderThan(inv, k, l) ==
    \/ inv[k].date < inv[l].date
    \/ inv[k].date = inv[l].date /\ LotRank[k] < LotRank[l]

OlderLots(inv) ==
    [l \in DOMAIN inv |->
        {k \in DOMAIN inv : PartOf[k] = PartOf[l] /\ OlderThan(inv, k, l)}]

Faulty_Balance(inv) ==
    [k \in DOMAIN inv |->
        IF \E l \in OlderLots(inv)[k] : inv[l].remaining > 0 THEN 0 ELSE inv[k].remaining]

Balance(inv) == [k \in DOMAIN inv |-> inv[k].remaining]

(* plan_export_rows: the rows with status "new", in row order.             *)
PlannableRows(f, cls) == {i \in DOMAIN f : cls[i] = "new"}

PlanOf(f, cls, inv) ==
    LET rows == PlannableRows(f, cls)
    IN  FifoTake([i \in rows |-> f[i].qty], Balance(inv),
                 [i \in rows |-> {j \in rows : j < i /\ f[j].part = f[i].part}],
                 OlderLots(inv),
                 {p \in rows \X DOMAIN inv : PartOf[p[2]] = f[p[1]].part})

(* What the allocations of a requirement add up to, and those against a    *)
(* lot by the requirements in S.                                           *)
MatchedQty(a, r) == Total([k \in Keys |-> a[<<r, k>>]], Keys)
DrawnQty(a, k, S) == Total([r \in S |-> a[<<r, k>>]], S)

RequiredQty(r) == file[r[1]][r[2]].qty
ReqPart(r)     == file[r[1]][r[2]].part
ReqDate(r)     == file[r[1]][r[2]].date

Created    == {r \in Reqs : reqStatus[r] # "absent"}
ReqsOf(b)  == {r \in Created : r[1] = b}

Faulty_GiveBack(l, n) == [l EXCEPT !.used = @ - n, !.remaining = @ + n]

(* used_qty stops at zero, remaining_qty does not stop at import_qty.      *)
GiveBack(l, n) == [l EXCEPT !.used = Nonneg(@ - n), !.remaining = @ + n]

(* Give back the units of the allocations of the requirements in S.        *)
Restored(S) == [k \in Keys |-> GiveBack(lot[k], DrawnQty(alloc, k, S))]

Faulty_DeleteAllocations(P) == UNCHANGED <<alloc, allocated>>

(* Delete the allocations in P.                                            *)
DeleteAllocations(P) ==
    /\ alloc' = [p \in Pairs |-> IF p \in P THEN 0 ELSE alloc[p]]
    /\ allocated' = allocated \ P
-----------------------------------------------------------------------------
Init ==
    /\ kind = [b \in Batches |-> "none"]
    /\ status = [b \in Batches |-> "none"]
    /\ file = [b \in Batches |-> <<>>]
    /\ rowStatus = [b \in Batches |-> <<>>]
    /\ planned = {}
    /\ fingerprint = [b \in Batches |-> <<>>]
    /\ plan = [b \in Batches |-> [p \in Rows \X Keys |-> 0]]
    /\ confirmed = {} /\ reverted = {} /\ invalidated = {}
    /\ owner = [k \in Keys |-> NoBatch]
    /\ lot = [k \in Keys |-> NoLot]
    /\ reqStatus = [r \in Reqs |-> "absent"]
    /\ alloc = [p \in Pairs |-> 0]
    /\ allocated = {}

(* _classify_import_for_preview and _classify_existing_import: the lot is  *)
(* compared with the row as it stands now, remaining_qty included.         *)
ClassifyExisting(row) ==
    IF Active(row.key)
    THEN IF /\ lot[row.key].date = row.date
            /\ lot[row.key].import = row.import
            /\ lot[row.key].remaining = row.remaining
         THEN "duplicate" ELSE "conflict"
    ELSE IF owner[row.key] # NoBatch THEN "reactivate" ELSE "new"

(* preview_imports: row i against the first valid row of the file with its *)
(* key (seen_payloads), else against the inventory.                        *)
ClassifyImport(f, i) ==
    LET seen == {j \in 1 .. i - 1 : f[j].ok /\ f[j].key = f[i].key}
    IN  IF ~f[i].ok THEN "error"
        ELSE IF seen = {} THEN ClassifyExisting(f[i])
        ELSE IF \E j \in seen : (\A m \in seen : j <= m) /\ f[j] = f[i]
             THEN "duplicate" ELSE "conflict"

ClassifyExport(row) == IF row.ok THEN "new" ELSE "error"

NewBatch(b, type, f, cls) ==
    /\ kind[b] = "none"
    /\ kind' = [kind EXCEPT ![b] = type]
    /\ status' = [status EXCEPT ![b] = "review_ready"]
    /\ file' = [file EXCEPT ![b] = f]
    /\ rowStatus' = [rowStatus EXCEPT ![b] = cls]
    /\ UNCHANGED <<stamps, lotVars, reqVars>>

PreviewImports(b, f) ==
    /\ NewBatch(b, "imports", f, [i \in DOMAIN f |-> ClassifyImport(f, i)])
    /\ UNCHANGED <<planned, fingerprint, plan>>

PreviewExports(b, f) ==
    /\ NewBatch(b, "exports", f, [i \in DOMAIN f |-> ClassifyExport(f[i])])
    /\ UNCHANGED <<planned, fingerprint, plan>>

(* The background preview: the plan and the fingerprint of the inventory   *)
(* it was made from are stored with the batch; the lots stay as they are.  *)
PreviewExportRun(b, f) ==
    LET cls == [i \in DOMAIN f |-> ClassifyExport(f[i])]
        takes == PlanOf(f, cls, Inventory)
    IN  /\ NewBatch(b, "exports", f, cls)
        /\ planned' = planned \cup {b}
        /\ fingerprint' = [fingerprint EXCEPT ![b] = Inventory]
        /\ plan' = [plan EXCEPT ![b] =
                [p \in Rows \X Keys |-> IF p \in DOMAIN takes THEN takes[p] ELSE 0]]

RowsWith(b, s) == {i \in DOMAIN rowStatus[b] : rowStatus[b][i] = s}

Confirm(b) ==
    /\ confirmed' = confirmed \cup {b}
    /\ status' = [status EXCEPT ![b] = "confirmed"]
    /\ UNCHANGED <<kind, file, rowStatus, planned, fingerprint, plan,
                   reverted, invalidated>>

Faulty_KeysFree(b) == \A i \in RowsWith(b, "new") : owner[file[b][i].key] = NoBatch

(* A "new" row whose key has been inserted meanwhile breaks the unique     *)
(* constraint, a "reactivate" row whose lot has been reactivated meanwhile *)
(* raises: nothing is saved.                                               *)
KeysFree(b) ==
    /\ \A i \in RowsWith(b, "new") : owner[file[b][i].key] = NoBatch
    /\ \A i \in RowsWith(b, "reactivate") : owner[file[b][i].key] \in invalidated

(* confirm_batch for an import file.                                       *)
ConfirmImports(b) ==
    LET rows == RowsWith(b, "new") \cup RowsWith(b, "reactivate")
        saved == {file[b][i].key : i \in rows}
        rowFor(k) == CHOOSE i \in rows : file[b][i].key = k
    IN  /\ kind[b] = "imports"
        /\ b \notin confirmed
        /\ b \notin invalidated
        /\ RowsWith(b, "conflict") = {} /\ RowsWith(b, "error") = {}
        /\ KeysFree(b)
        /\ owner' = [k \in Keys |-> IF k \in saved THEN b ELSE owner[k]]
        /\ lot' = [k \in Keys |-> IF k \in saved THEN LotOf(file[b][rowFor(k)]) ELSE lot[k]]
        /\ Confirm(b)
        /\ UNCHANGED reqVars

(* confirm_batch for an export file: its rows become pending requirements; *)
(* rows with errors are skipped.                                           *)
ConfirmExports(b) ==
    /\ kind[b] = "exports"
    /\ b \notin confirmed
    /\ b \notin invalidated
    /\ reqStatus' = [r \in Reqs |->
            IF r[1] = b /\ r[2] \in RowsWith(b, "new") THEN "pending" ELSE reqStatus[r]]
    /\ Confirm(b)
    /\ UNCHANGED <<lotVars, alloc, allocated>>

PlannedQty(b, i) == Total([k \in Keys |-> plan[b][<<i, k>>]], Keys)

Faulty_StillCurrent(b) == b \in planned

(* The stored fingerprint equals the fingerprint of the inventory now.     *)
StillCurrent(b) == b \in planned /\ fingerprint[b] = Inventory

(* confirm_match_run: apply the stored plan, provided the inventory is the *)
(* one it was made from.                                                   *)
ConfirmMatchRun(b) ==
    LET rows == RowsWith(b, "new")
        drawn(k) == Total([i \in rows |-> plan[b][<<i, k>>]], rows)
        mine(p) == p[1][1] = b /\ p[1][2] \in rows
    IN  /\ kind[b] = "exports"
        /\ b \notin confirmed
        /\ b \notin reverted
        /\ RowsWith(b, "error") = {}
        /\ StillCurrent(b)
        /\ \A k \in Keys : drawn(k) <= lot[k].remaining
        /\ lot' = [k \in Keys |-> [lot[k] EXCEPT !.remaining = @ - drawn(k),
                                                 !.used = @ + drawn(k)]]
        /\ reqStatus' = [r \in Reqs |->
                IF r[1] = b /\ r[2] \in rows
                THEN IF PlannedQty(b, r[2]) = file[b][r[2]].qty THEN "matched"
                     ELSE IF PlannedQty(b, r[2]) > 0 THEN "partial_matched"
                     ELSE "insufficient_stock"
                ELSE reqStatus[r]]
        /\ alloc' = [p \in Pairs |-> IF mine(p) THEN plan[b][<<p[1][2], p[2]>>] ELSE alloc[p]]
        /\ allocated' = allocated \cup
                {p \in Pairs : mine(p) /\ plan[b][<<p[1][2], p[2]>>] > 0}
        /\ Confirm(b)
        /\ UNCHANGED owner

(* run_matching: every matchable requirement of a batch that is not        *)
(* invalidated, in the order of date, part number, origin and id, is       *)
(* offered the active lots of its part number.                             *)
RunMatching(d) ==
    LET exports == {r \in Created :
                        /\ reqStatus[r] \in Matchable
                        /\ r[1] \notin invalidated
                        /\ d = AnyDate \/ ReqDate(r) = d}
        need == [r \in exports |-> Nonneg(RequiredQty(r) - MatchedQty(alloc, r))]
        before(r, s) == \/ ReqDate(r) < ReqDate(s)
                        \/ ReqDate(r) = ReqDate(s) /\ IdRank[r] < IdRank[s]
        sooner == [r \in exports |->
                      {s \in exports : before(s, r) /\ ReqPart(s) = ReqPart(r)}]
        fits == {p \in exports \X ActiveLots : PartOf[p[2]] = ReqPart(p[1])}
        takes == FifoTake(need, Balance(Inventory), sooner, OlderLots(Inventory), fits)
        newAlloc == [p \in Pairs |-> IF p \in fits THEN alloc[p] + takes[p] ELSE alloc[p]]
    IN  /\ alloc' = newAlloc
        /\ allocated' = allocated \cup
                Reached(need, Balance(Inventory), sooner, OlderLots(Inventory), fits)
        /\ lot' = [k \in Keys |->
                IF Active(k)
                THEN LET drawn == Total([r \in exports |-> takes[<<r, k>>]], exports)
                     IN  [lot[k] EXCEPT !.remaining = @ - drawn, !.used = @ + drawn]
                ELSE lot[k]]
        /\ reqStatus' = [r \in Reqs |->
                IF r \notin exports THEN reqStatus[r]
                ELSE IF MatchedQty(newAlloc, r) >= RequiredQty(r) THEN "matched"
                ELSE IF MatchedQty(newAlloc, r) > 0 THEN "partial_matched"
                ELSE "insufficient_stock"]
        /\ UNCHANGED <<batchVars, stamps, owner>>

(* undo_export_matching: any requirement, whatever its status.             *)
UndoMatching(r) ==
    /\ r \in Created
    /\ lot' = Restored({r})
    /\ DeleteAllocations({r} \X Keys)
    /\ reqStatus' = [reqStatus EXCEPT ![r] = "pending"]
    /\ UNCHANGED <<batchVars, stamps, owner>>

(* revert_match_run: the allocations stay in the table as history.         *)
RevertMatchRun(b) ==
    /\ kind[b] = "exports"
    /\ b \in confirmed
    /\ b \notin reverted
    /\ lot' = Restored(ReqsOf(b))
    /\ reqStatus' = [r \in Reqs |-> IF r \in ReqsOf(b) THEN "reverted" ELSE reqStatus[r]]
    /\ reverted' = reverted \cup {b}
    /\ status' = [status EXCEPT ![b] = "reverted"]
    /\ UNCHANGED <<kind, file, rowStatus, planned, fingerprint, plan, confirmed,
                   invalidated, owner, alloc, allocated>>

(* invalidate_confirmed_upload of an import file: the allocations against  *)
(* its lots are deleted and the statuses of their requirements recomputed  *)
(* from the allocations that remain.                                       *)
InvalidateImports(b) ==
    LET gone == {p \in allocated : owner[p[2]] = b}
        affected == {p[1] : p \in gone}
        left(r) == Total([k \in Keys |-> IF owner[k] = b THEN 0 ELSE alloc[<<r, k>>]], Keys)
    IN  /\ kind[b] = "imports"
        /\ b \in confirmed
        /\ b \notin invalidated
        /\ invalidated' = invalidated \cup {b}
        /\ DeleteAllocations(gone)
        /\ reqStatus' = [r \in Reqs |->
                IF r \notin affected THEN reqStatus[r]
                ELSE IF left(r) >= RequiredQty(r) THEN "matched"
                ELSE IF left(r) > 0 THEN "partial_matched"
                ELSE "pending"]
        /\ UNCHANGED <<batchVars, confirmed, reverted, lotVars>>

(* invalidate_confirmed_upload of an export file.                          *)
InvalidateExports(b) ==
    /\ kind[b] = "exports"
    /\ b \in confirmed
    /\ b \notin invalidated
    /\ invalidated' = invalidated \cup {b}
    /\ lot' = Restored(ReqsOf(b))
    /\ DeleteAllocations(ReqsOf(b) \X Keys)
    /\ reqStatus' = [r \in Reqs |-> IF r \in ReqsOf(b) THEN "invalidated" ELSE reqStatus[r]]
    /\ UNCHANGED <<batchVars, confirmed, reverted, owner>>

(* The batch, its rows and its plan are gone.                              *)
DropBatch(b) ==
    /\ kind' = [kind EXCEPT ![b] = "none"]
    /\ status' = [status EXCEPT ![b] = "none"]
    /\ file' = [file EXCEPT ![b] = <<>>]
    /\ rowStatus' = [rowStatus EXCEPT ![b] = <<>>]
    /\ planned' = planned \ {b}
    /\ fingerprint' = [fingerprint EXCEPT ![b] = <<>>]
    /\ plan' = [plan EXCEPT ![b] = [p \in Rows \X Keys |-> 0]]
    /\ UNCHANGED <<stamps, reqVars>>

(* delete_unconfirmed_upload.                                              *)
DeleteUnconfirmed(b) ==
    /\ kind[b] # "none"
    /\ b \notin confirmed
    /\ DropBatch(b)
    /\ UNCHANGED lotVars
-----------------------------------------------------------------------------
Preview ==
    \E b \in Batches :
        \/ \E f \in ImportFiles : PreviewImports(b, f)
        \/ \E f \in ExportFiles : PreviewExports(b, f)
        \/ \E f \in ExportFiles : PreviewExportRun(b, f)

Save ==
    \E b \in Batches :
        \/ ConfirmImports(b)
        \/ ConfirmExports(b)
        \/ ConfirmMatchRun(b)
        \/ DeleteUnconfirmed(b)

Match == \E d \in Dates \cup {AnyDate} : RunMatching(d)

Undo == \E r \in Reqs : UndoMatching(r)

Revert == \E b \in Batches : RevertMatchRun(b)

WithdrawImports == \E b \in Batches : InvalidateImports(b)

WithdrawExports == \E b \in Batches : InvalidateExports(b)

Next ==
    Preview \/ Save \/ Match \/ Undo \/ Revert \/ WithdrawImports \/ WithdrawExports

Spec == Init /\ [][Next]_vars

(* A reverted file has its units back and keeps its allocations.  Whoever  *)
(* neither undoes nor invalidates it, and does not match while one of its  *)
(* requirements has become matchable, is careful.                          *)
RevertedMatchable ==
    \E r \in Created : r[1] \in reverted /\ reqStatus[r] \in Matchable

CarefulNext ==
    \/ Preview \/ Save \/ Revert \/ WithdrawImports
    \/ ~RevertedMatchable /\ Match
    \/ \E r \in Reqs : r[1] \notin reverted /\ UndoMatching(r)
    \/ \E b \in Batches \ reverted : InvalidateExports(b)

CarefulSpec == Init /\ [][CarefulNext]_vars
-----------------------------------------------------------------------------
BatchKinds    == {"none", "imports", "exports"}
BatchStatuses == {"none", "review_ready", "confirmed", "reverted"}
RowStatuses   == {"new", "duplicate", "conflict", "error", "reactivate"}
ReqStatuses   == Matchable \cup {"absent", "matched", "reverted", "invalidated"}
LotStates     == [date : Nat, import : Nat, used : Nat, remaining : Nat]

TypeOK ==
    /\ kind \in [Batches -> BatchKinds]
    /\ status \in [Batches -> BatchStatuses]
    /\ DOMAIN file = Batches /\ DOMAIN rowStatus = Batches /\ DOMAIN fingerprint = Batches
    /\ \A b \in Batches :
          /\ kind[b] = "none" => file[b] = <<>>
          /\ kind[b] = "imports" => file[b] \in ImportFiles
          /\ kind[b] = "exports" => file[b] \in ExportFiles
          /\ rowStatus[b] \in [DOMAIN file[b] -> RowStatuses]
          /\ DOMAIN fingerprint[b] \subseteq Keys
    /\ planned \subseteq Batches
    /\ plan \in [Batches -> [Rows \X Keys -> Nat]]
    /\ confirmed \subseteq Batches
    /\ reverted \subseteq confirmed
    /\ invalidated \subseteq confirmed
    /\ owner \in [Keys -> confirmed \cup {NoBatch}]
    /\ lot \in [Keys -> LotStates]
    /\ reqStatus \in [Reqs -> ReqStatuses]
    /\ alloc \in [Pairs -> Nat]
    /\ allocated \subseteq Created \X Keys

(* No allocation refers to a lot or to a requirement of an invalidated     *)
(* batch: invalidation removes the allocations there are, and no later     *)
(* match run, stale plan or restore brings one back.                       *)
NoAllocationOnInvalidated ==
    \A p \in Pairs : p \in allocated \/ alloc[p] > 0 =>
        Active(p[2]) /\ p[1][1] \in confirmed \ invalidated

(* The status of a requirement tells what its allocations add up to, and   *)
(* they never exceed what it requires.                                     *)
StatusTellsAllocations ==
    \A r \in Created :
        LET matched == MatchedQty(alloc, r)
        IN  /\ matched <= RequiredQty(r)
            /\ reqStatus[r] = "matched" => matched = RequiredQty(r)
            /\ reqStatus[r] = "partial_matched" => 0 < matched /\ matched < RequiredQty(r)
            /\ reqStatus[r] \in {"pending", "insufficient_stock", "invalidated"}
                   => matched = 0

(* The row of the owning batch that gave an active lot its opening values. *)
OpeningRow(k) ==
    LET b == owner[k]
    IN  file[b][CHOOSE i \in RowsWith(b, "new") \cup RowsWith(b, "reactivate") :
                    file[b][i].key = k]

(* The books balance: what is used of a lot is what the import file said   *)
(* was used, plus the allocations of files that have not been reverted,    *)
(* and used and remaining add up to the imported quantity.                 *)
BooksBalance ==
    \A k \in ActiveLots :
        LET live == {r \in Created : r[1] \notin reverted}
        IN  /\ lot[k].import = OpeningRow(k).import
            /\ lot[k].used = OpeningRow(k).import - OpeningRow(k).remaining
                                + DrawnQty(alloc, k, live)
            /\ lot[k].used + lot[k].remaining = lot[k].import

(* Confirming a match run saves the plan the user has reviewed, and that   *)
(* plan is what the planner would answer for the inventory as it is now,   *)
(* whatever happened between the preview and the confirmation.             *)
ConfirmsWhatWasReviewed ==
    [][\A b \in Batches :
            /\ kind[b] = "exports" /\ b \in confirmed' \ confirmed
            /\ \E p \in allocated' : p[1][1] = b
        => LET takes == PlanOf(file[b], rowStatus[b], Inventory)
           IN  \A i \in Rows, k \in Keys :
                 /\ alloc'[<<<<b, i>>, k>>] = plan[b][<<i, k>>]
                 /\ plan[b][<<i, k>>] = IF <<i, k>> \in DOMAIN takes THEN takes[<<i, k>>] ELSE 0]_vars

(* First in, first out: a step that takes from a lot leaves nothing in an  *)
(* active lot of the same part number accepted on an earlier date.         *)
OldestFirst ==
    [][\A l \in ActiveLots :
            (\E r \in Reqs : alloc'[<<r, l>>] > alloc[<<r, l>>])
        => \A k \in ActiveLots :
              PartOf[k] = PartOf[l] /\ lot[k].date < lot[l].date => lot'[k].remaining = 0]_vars

(* A run that leaves a requirement short has emptied every active lot of   *)
(* its part number.                                                        *)
ShortOnlyWhenEmpty ==
    [][invalidated' = invalidated =>
        \A r \in Reqs :
            /\ reqStatus'[r] \in {"partial_matched", "insufficient_stock"}
            /\ reqStatus'[r] # reqStatus[r] \/ \E k \in Keys : alloc'[<<r, k>>] # alloc[<<r, k>>]
        => \A k \in ActiveLots :
              PartOf[k] = file[r[1]][r[2]].part => lot'[k].remaining = 0]_vars
-----------------------------------------------------------------------------
(* Claims of the documents and tests that the code does not keep.          *)

(* tests/test_workflows.py:166, "restores exact balances once": no lot is  *)
(* ever credited with more than was imported.                              *)
NoPhantomStock == \A k \in ActiveLots : lot[k].remaining <= lot[k].import

(* README.md:13: exactly the same import lot is skipped.  A row equal to   *)
(* the row that opened an active lot is classified as its duplicate.       *)
SameLotIsSkipped ==
    [][\A b \in Batches : kind[b] = "none" /\ kind'[b] = "imports" =>
        \A i \in DOMAIN file'[b] :
            LET row == file'[b][i]
            IN  row.ok /\ Active(row.key) /\ row = OpeningRow(row.key)
                    => rowStatus'[b][i] = "duplicate"]_vars
=============================================================================
