-------------------------- MODULE PageUploadProofs --------------------------
(***************************************************************************)
(* Theorems about the upload page and the background import beside all the *)
(* other users, for any number of batches, keys and files: Ledger's        *)
(* invariants hold although rows are classified with an old snapshot, the  *)
(* reports agree, what is confirmed was reviewed, allocation is first in,  *)
(* first out, no active lot is taken over, and a rejected request is taken *)
(* back.                                                                   *)
(*                                                                         *)
(* The argument: every step is one of Ledger, or classifies the rows of a  *)
(* job, and Ledger's invariants do not depend on what a row is called; and *)
(* a batch that is gone stays gone, since its id is not used again.        *)
(***************************************************************************)
EXTENDS PageUpload, BooksProofs

SnapshotOK ==
    /\ DOMAIN snapshot = Batches
    /\ \A b \in Batches : InJob(b) => snapshot[b].file \in ImportFiles

(* The request's batches, as far as it has come; no job has their ids.     *)
MineOK ==
    /\ mine \in [imports : Batches \cup {NoBatch}, exports : Batches \cup {NoBatch}]
    /\ page # "start" => mine.imports \in Batches
    /\ page \in {"exports previewed", "imports confirmed", "exports confirmed", "discard exports"}
          => mine.exports \in Batches
    /\ page \in {"start", "imports previewed"} => mine.exports = NoBatch
    /\ \A b \in Ours \ {NoBatch} : ~InJob(b)

Gone(b) == b \in invalidated \/ (b \notin confirmed /\ kind[b] = "none") \/ b = NoBatch

TakenBack ==
    /\ page \in {"discard imports", "rejected"} => Gone(mine.exports)
    /\ page = "rejected" => Gone(mine.imports)

PInv == IInv /\ SnapshotOK /\ MineOK /\ TakenBack /\ unsaved = {}
-----------------------------------------------------------------------------
(* What the steps of Ledger leave alone.                                   *)
StepFacts ==
    /\ invalidated \subseteq invalidated'
    /\ \A b \in Batches : b \in confirmed' => b \in confirmed \/ kind[b] # "none"
    /\ \A k \in ActiveLots : owner'[k] = owner[k] /\ lot'[k].import = lot[k].import

(* Balances change without the imported quantity.                          *)
LEMMA ImportKept ==
  ASSUME NEW l \in LotStates, NEW n
  PROVE  /\ [l EXCEPT !.used = Nonneg(@ - n), !.remaining = @ + n].import = l.import
         /\ [l EXCEPT !.remaining = @ - n, !.used = @ + n].import = l.import
  BY DEF LotStates

LEMMA RestoredImport ==
  ASSUME IInv, NEW S, lot' = Restored(S), NEW k \in Keys
  PROVE  lot'[k].import = lot[k].import
<1>1. lot[k] \in LotStates
  BY DEF IInv, TypeOK
<1>2. lot'[k] = GiveBack(lot[k], DrawnQty(alloc, k, S))
  BY DEF Restored
<1> QED
  BY <1>1, <1>2, ImportKept DEF GiveBack

LEMMA SaveFacts ==
  ASSUME IInv, NEW b \in Batches,
         ConfirmImports(b) \/ ConfirmExports(b) \/ ConfirmMatchRun(b) \/ DeleteUnconfirmed(b)
  PROVE  StepFacts
<1>1. \A k \in ActiveLots : k \in Keys /\ owner[k] # NoBatch /\ owner[k] \notin invalidated
  BY DEF ActiveLots, Active
<1>2. CASE ConfirmImports(b)
  <2> DEFINE rows == RowsWith(b, "new") \cup RowsWith(b, "reactivate")
             saved == {file[b][i].key : i \in rows}
             new(k) == LotOf(file[b][CHOOSE i \in rows : file[b][i].key = k])
  <2>1. /\ owner' = [k \in Keys |-> IF k \in saved THEN b ELSE owner[k]]
        /\ lot' = [k \in Keys |-> IF k \in saved THEN new(k) ELSE lot[k]]
        /\ Confirm(b) /\ KeysFree(b) /\ kind[b] = "imports"
    BY <1>2 DEF ConfirmImports
  <2>2. \A k \in ActiveLots : k \notin saved
    BY <1>1, <2>1 DEF KeysFree
  <2> HIDE DEF saved, new
  <2> QED
    BY <1>1, <2>1, <2>2 DEF StepFacts, Confirm
<1>3. CASE ConfirmExports(b)
  BY <1>1, <1>3 DEF StepFacts, ConfirmExports, Confirm, lotVars
<1>4. CASE ConfirmMatchRun(b)
  <2> DEFINE drawn(k) == Total([i \in RowsWith(b, "new") |-> plan[b][<<i, k>>]], RowsWith(b, "new"))
  <2>1. /\ lot' = [k \in Keys |-> [lot[k] EXCEPT !.remaining = @ - drawn(k),
                                                !.used = @ + drawn(k)]]
        /\ Confirm(b) /\ owner' = owner /\ kind[b] = "exports"
    BY <1>4 DEF ConfirmMatchRun
  <2> HIDE DEF drawn
  <2>2. \A k \in Keys : lot'[k].import = lot[k].import
    BY <2>1, ImportKept DEF IInv, TypeOK
  <2> QED
    BY <1>1, <2>1, <2>2 DEF StepFacts, Confirm
<1>5. CASE DeleteUnconfirmed(b)
  BY <1>1, <1>5 DEF StepFacts, DeleteUnconfirmed, DropBatch, lotVars, stamps
<1> QED
  BY <1>2, <1>3, <1>4, <1>5

LEMMA NextFacts ==
  ASSUME IInv, [Next]_vars
  PROVE  StepFacts
<1>1. \A k \in ActiveLots : k \in Keys
  BY DEF ActiveLots
<1>2. CASE Preview
  BY <1>2 DEF Preview, PreviewImports, PreviewExports, PreviewExportRun, NewBatch, StepFacts,
              stamps, lotVars
<1>3. CASE Save
  BY <1>3, SaveFacts DEF Save
<1>4. CASE Match
  <2>1. PICK d \in Dates \cup {AnyDate} : RunMatching(d)
    BY <1>4 DEF Match
  <2>2. UNCHANGED <<stamps, owner>>
    BY <2>1 DEF RunMatching
  <2> DEFINE E == {r \in Created : /\ reqStatus[r] \in Matchable
                                   /\ r[1] \notin invalidated
                                   /\ d = AnyDate \/ ReqDate(r) = d}
             need == [r \in E |-> Nonneg(RequiredQty(r) - MatchedQty(alloc, r))]
             sooner == [r \in E |-> {s \in E : Before(s, r) /\ ReqPart(s) = ReqPart(r)}]
             fits == {p \in E \X ActiveLots : PartOf[p[2]] = ReqPart(p[1])}
             takes == FifoTake(need, Balance(Inventory), sooner, OlderLots(Inventory), fits)
             drawn(k) == Total([r \in E |-> takes[<<r, k>>]], E)
  <2>3. lot' = [k \in Keys |->
                IF Active(k) THEN [lot[k] EXCEPT !.remaining = @ - drawn(k), !.used = @ + drawn(k)]
                ELSE lot[k]]
    BY <2>1 DEF RunMatching, Before
  <2> HIDE DEF drawn
  <2>4. \A k \in Keys : lot'[k].import = lot[k].import
    BY <2>3, ImportKept DEF IInv, TypeOK
  <2> QED
    BY <1>1, <2>2, <2>4 DEF StepFacts, stamps
<1>5. CASE Undo
  <2>1. PICK r \in Reqs : UndoMatching(r)
    BY <1>5 DEF Undo
  <2> QED
    BY <1>1, <2>1, RestoredImport DEF UndoMatching, StepFacts, stamps
<1>6. CASE Revert
  <2>1. PICK b \in Batches : RevertMatchRun(b)
    BY <1>6 DEF Revert
  <2> QED
    BY <1>1, <2>1, RestoredImport DEF RevertMatchRun, StepFacts
<1>7. CASE WithdrawImports
  BY <1>7 DEF WithdrawImports, InvalidateImports, StepFacts, lotVars
<1>8. CASE WithdrawExports
  <2>1. PICK b \in Batches : InvalidateExports(b)
    BY <1>8 DEF WithdrawExports
  <2> QED
    BY <1>1, <2>1, RestoredImport DEF InvalidateExports, StepFacts
<1>9. CASE UNCHANGED vars
  BY <1>9 DEF vars, stamps, lotVars, StepFacts
<1> QED
  BY <1>2, <1>3, <1>4, <1>5, <1>6, <1>7, <1>8, <1>9 DEF Next

(* A job calls the rows of its file what its snapshot says.                *)
LEMMA JobKeeps ==
  ASSUME IInv, SnapshotOK, NEW b \in Batches, ClassifyRows(b)
  PROVE  IInv' /\ StepFacts
<1> DEFINE f == snapshot[b].file
<1>1. f \in ImportFiles
  BY DEF ClassifyRows, SnapshotOK
<1>2. PICK cls \in [DOMAIN f -> RowStatuses] : NewBatch(b, "imports", f, cls)
  BY DEF ClassifyRows, RowStatuses
<1>3. UNCHANGED <<planned, fingerprint, plan>>
  BY DEF ClassifyRows
<1> HIDE DEF f
<1>4. TypeOK' /\ Origins' /\ RowsCarryUnits' /\ NoAllocationOnInvalidated'
  BY <1>1, <1>2, <1>3, NewBatchKeeps DEF IInv, TypeOK
<1>5. PlansAreAnswers'
  BY <1>2, <1>3 DEF IInv, TypeOK, NewBatch, PlansAreAnswers, PlanIsAnswer
<1>6. StepFacts
  BY <1>2 DEF NewBatch, StepFacts, stamps, lotVars
<1> QED
  BY <1>4, <1>5, <1>6 DEF IInv
-----------------------------------------------------------------------------
(* Without rows left in the session, taking back is a deletion or an       *)
(* invalidation of Ledger.                                                 *)
LEMMA TakeBackIsNext ==
  ASSUME PInv, NEW b \in Batches, TakeBack(b)
  PROVE  [Next]_vars /\ Gone(b)'
<1>1. CASE b \in invalidated /\ UNCHANGED <<vars, unsaved>>
  BY <1>1 DEF Gone, vars, stamps
<1>2. CASE InvalidateImports(b) \/ InvalidateExports(b)
  BY <1>2 DEF Next, WithdrawImports, WithdrawExports, InvalidateImports, InvalidateExports, Gone
<1>3. CASE kind[b] # "none" /\ b \notin confirmed /\ DropBatch(b) /\ FlushUnsaved
  <2>1. owner' = [k \in Keys |-> owner[k]] /\ lot' = [k \in Keys |-> lot[k]]
    BY <1>3 DEF FlushUnsaved, PInv
  <2>2. UNCHANGED lotVars
    BY <2>1 DEF lotVars, PInv, IInv, TypeOK
  <2>3. DeleteUnconfirmed(b)
    BY <1>3, <2>2 DEF DeleteUnconfirmed
  <2>4. kind'[b] = "none" /\ b \notin confirmed'
    BY <1>3 DEF DropBatch, stamps, PInv, IInv, TypeOK
  <2> QED
    BY <2>3, <2>4 DEF Next, Save, Gone
<1> QED
  BY <1>1, <1>2, <1>3 DEF TakeBack

LEMMA RequestIsNext ==
  ASSUME PInv, Request
  PROVE  [Next]_vars
<1>1. ASSUME NEW b \in Batches, NEW f \in ImportFiles, PagePreviewImports(b, f)
      PROVE  Next
  BY <1>1 DEF PagePreviewImports, Next, Preview
<1>2. ASSUME NEW b \in Batches, NEW f \in ExportFiles, PagePreviewExports(b, f)
      PROVE  Next
  BY <1>2 DEF PagePreviewExports, Next, Preview
<1>3. CASE PageConfirmImports
  <2>1. mine.imports \in Batches
    BY <1>3 DEF PageConfirmImports, PInv, MineOK
  <2> QED
    BY <1>3, <2>1 DEF PageConfirmImports, Next, Save
<1>4. CASE PageConfirmExports
  <2>1. mine.exports \in Batches
    BY <1>4 DEF PageConfirmExports, PInv, MineOK
  <2> QED
    BY <1>4, <2>1 DEF PageConfirmExports, Next, Save
<1>5. CASE PageMatch
  BY <1>5 DEF PageMatch, Next, Match
<1>6. CASE PageDiscard
  <2>1. page = "discard exports" => mine.exports \in Batches
    BY DEF PInv, MineOK
  <2>2. page = "discard imports" => mine.imports \in Batches
    BY DEF PInv, MineOK
  <2> QED
    BY <1>6, <2>1, <2>2, TakeBackIsNext DEF PageDiscard, CannotTakeBack
<1> QED
  BY <1>1, <1>2, <1>3, <1>4, <1>5, <1>6 DEF Request

LEMMA TidyIsNext ==
  ASSUME PInv, [TidyNext]_allVars
  PROVE  [Next]_vars \/ \E b \in Batches : ClassifyRows(b)
<1>1. CASE Request
  BY <1>1, RequestIsNext
<1>2. CASE JobStep
  BY <1>2 DEF JobStep, TakeSnapshot
<1>3. CASE Next \/ UNCHANGED allVars
  BY <1>3 DEF allVars
<1> QED
  BY <1>1, <1>2, <1>3 DEF TidyNext, PageNext, Others

LEMMA TidyFacts ==
  ASSUME PInv, [TidyNext]_allVars
  PROVE  IInv' /\ StepFacts
<1>1. CASE [Next]_vars
  BY <1>1, NextKeeps, NextFacts DEF PInv
<1>2. CASE \E b \in Batches : ClassifyRows(b)
  BY <1>2, JobKeeps DEF PInv
<1> QED
  BY <1>1, <1>2, TidyIsNext

(* Classifying the rows of an import file says nothing of requirements.    *)
LEMMA TidyKeepsReports ==
  ASSUME PInv, StatusTellsAllocations, MarkedWithFile, [TidyNext]_allVars
  PROVE  StatusTellsAllocations' /\ MarkedWithFile'
<1>1. CASE [Next]_vars
  BY <1>1, NextTold, NextMarked DEF PInv
<1>2. ASSUME NEW b \in Batches, ClassifyRows(b)
      PROVE  StatusTellsAllocations' /\ MarkedWithFile'
  <2>1. PICK cls : NewBatch(b, "imports", snapshot[b].file, cls)
    BY <1>2 DEF ClassifyRows
  <2>2. StatusTellsAllocations'
    BY <2>1, PreviewTold DEF PInv
  <2>3. MarkedWithFile'
    BY <2>1 DEF NewBatch, stamps, reqVars, MarkedWithFile, Created
  <2> QED
    BY <2>2, <2>3
<1> QED
  BY <1>1, <1>2, TidyIsNext

LEMMA MineKeeps ==
  ASSUME PInv, [TidyNext]_allVars
  PROVE  MineOK' /\ SnapshotOK'
<1>1. NoBatch \notin Batches
  BY BatchAssumption
<1>2. CASE Request /\ FreshIds
  <2>1. snapshot' = snapshot
    BY <1>2 DEF Request, PagePreviewImports, PagePreviewExports, PageConfirmImports,
                PageConfirmExports, PageMatch, PageDiscard
  <2>2. SnapshotOK' /\ \A b \in Batches : InJob(b)' = InJob(b)
    BY <2>1 DEF PInv, SnapshotOK, InJob
  <2>3. ASSUME NEW b \in Batches, NEW f, PagePreviewImports(b, f)
        PROVE  MineOK'
    <3>1. /\ mine' = [mine EXCEPT !.imports = b] /\ page = "start"
          /\ page' \in {"discard imports", "imports previewed"}
          /\ kind[b] = "none" /\ kind'[b] = "imports"
      BY <2>3 DEF PagePreviewImports, PreviewImports, NewBatch, PInv, IInv, TypeOK
    <3>2. ~InJob(b)
      BY <1>2, <3>1 DEF FreshIds
    <3>3. mine'.imports = b /\ mine'.exports = NoBatch
          /\ mine' \in [imports : Batches \cup {NoBatch}, exports : Batches \cup {NoBatch}]
      BY <3>1 DEF PInv, MineOK
    <3> QED
      BY <2>2, <3>1, <3>2, <3>3 DEF MineOK, Ours
  <2>4. ASSUME NEW b \in Batches, NEW f, PagePreviewExports(b, f)
        PROVE  MineOK'
    <3>1. /\ mine' = [mine EXCEPT !.exports = b] /\ page = "imports previewed"
          /\ page' \in {"discard exports", "exports previewed"}
          /\ kind[b] = "none" /\ kind'[b] = "exports"
      BY <2>4 DEF PagePreviewExports, PreviewExports, NewBatch, PInv, IInv, TypeOK
    <3>2. ~InJob(b)
      BY <1>2, <3>1 DEF FreshIds
    <3>3. mine'.exports = b /\ mine'.imports = mine.imports
          /\ mine' \in [imports : Batches \cup {NoBatch}, exports : Batches \cup {NoBatch}]
      BY <3>1 DEF PInv, MineOK
    <3> QED
      BY <2>2, <3>1, <3>2, <3>3 DEF PInv, MineOK, Ours
  <2>5. CASE PageConfirmImports \/ PageConfirmExports \/ PageMatch \/ PageDiscard
    <3>1. mine' = mine
      BY <2>5 DEF PageConfirmImports, PageConfirmExports, PageMatch, PageDiscard
    <3>2. /\ page \notin {"start", "imports previewed"}
          /\ page' \notin {"start", "imports previewed"}
          /\ page' \in {"imports confirmed", "exports confirmed", "discard exports"} =>
               page \in {"exports previewed", "imports confirmed"}
          /\ page' # "exports previewed"
      BY <2>5 DEF PageConfirmImports, PageConfirmExports, PageMatch, PageDiscard,
                  CannotTakeBack
    <3> QED
      BY <2>2, <3>1, <3>2 DEF PInv, MineOK, Ours
  <2> QED
    BY <1>2, <2>2, <2>3, <2>4, <2>5 DEF Request
<1>3. CASE (Next /\ UNCHANGED <<snapshot, pageVars>>) \/ UNCHANGED allVars
  BY <1>3 DEF PInv, MineOK, SnapshotOK, InJob, Ours, pageVars, allVars
<1>4. CASE JobStep /\ (\A b \in Ours \ {NoBatch} : ~InJob(b)') /\ UNCHANGED pageVars
  <2>1. MineOK'
    BY <1>4 DEF PInv, MineOK, Ours, pageVars
  <2>2. ASSUME NEW b \in Batches, NEW f \in ImportFiles, TakeSnapshot(b, f)
        PROVE  SnapshotOK'
    BY <2>2 DEF TakeSnapshot, PInv, SnapshotOK, InJob
  <2>3. ASSUME NEW b \in Batches, ClassifyRows(b)
        PROVE  SnapshotOK'
    BY <2>3 DEF ClassifyRows, PInv, SnapshotOK, InJob
  <2> QED
    BY <1>4, <2>1, <2>2, <2>3 DEF JobStep
<1> QED
  BY <1>2, <1>3, <1>4 DEF TidyNext, PageNext, Others

(* What is gone stays gone: its id is not used again.                      *)
LEMMA GoneStays ==
  ASSUME PInv, [TidyNext]_allVars, NEW b \in Ours, Gone(b)
  PROVE  Gone(b)'
<1>1. StepFacts /\ b \in Batches \cup {NoBatch}
  BY TidyFacts DEF Ours, PInv, MineOK
<1>2. CASE b \in Batches /\ b \notin confirmed /\ kind[b] = "none"
  <2>1. kind'[b] = "none"
    <3>1. ASSUME FreshIds PROVE kind'[b] = "none"
      BY <1>2, <3>1 DEF FreshIds
    <3>2. CASE JobStep
      <4>1. ASSUME NEW c \in Batches, ClassifyRows(c) PROVE c # b
        BY <1>1, <1>2, <4>1, BatchAssumption DEF ClassifyRows, PInv, MineOK, Ours
      <4>2. ASSUME NEW c \in Batches, ClassifyRows(c) PROVE kind'[b] = kind[b]
        BY <1>2, <4>1, <4>2 DEF ClassifyRows, NewBatch, PInv, IInv, TypeOK
      <4> QED
        BY <1>2, <3>2, <4>2 DEF JobStep, TakeSnapshot, vars, batchVars
    <3>3. CASE UNCHANGED allVars
      BY <1>2, <3>3 DEF allVars, vars, batchVars
    <3> QED
      BY <3>1, <3>2, <3>3 DEF TidyNext, PageNext, Others
  <2> QED
    BY <1>1, <1>2, <2>1 DEF StepFacts, Gone
<1>3. CASE b \in invalidated \/ b = NoBatch
  BY <1>1, <1>3 DEF StepFacts, Gone
<1> QED
  BY <1>1, <1>2, <1>3 DEF Gone

LEMMA TakenBackKeeps ==
  ASSUME PInv, [TidyNext]_allVars
  PROVE  TakenBack'
<1>1. CASE PageDiscard
  <2>1. mine' = mine
    BY <1>1 DEF PageDiscard
  <2>2. CASE page = "discard exports"
    <3>1. mine.exports \in Batches
      BY <2>2 DEF PInv, MineOK
    <3>2. /\ page' \in {"discard imports", "failed"}
          /\ page' = "discard imports" => TakeBack(mine.exports)
      BY <1>1, <2>2 DEF PageDiscard, CannotTakeBack
    <3>3. page' = "discard imports" => Gone(mine.exports)'
      <4> DEFINE b == mine.exports
      <4>1. b \in Batches
        BY <3>1
      <4>2. b' = b
        BY <2>1
      <4> QED
        BY <3>1, <3>2, <2>1, TakeBackIsNext DEF Gone
    <3> QED
      BY <3>2, <3>3 DEF TakenBack
  <2>3. CASE page = "discard imports"
    <3>1. mine.imports \in Batches
      BY <2>3 DEF PInv, MineOK
    <3>2. /\ page' \in {"rejected", "failed"}
          /\ page' = "rejected" => TakeBack(mine.imports)
      BY <1>1, <2>3 DEF PageDiscard, CannotTakeBack
    <3>3. page' = "rejected" => Gone(mine.imports)'
      BY <3>1, <3>2, <2>1, TakeBackIsNext DEF Gone
    <3>4. Gone(mine.exports)'
      BY <2>1, <2>3, GoneStays DEF PInv, TakenBack, Ours, Gone
    <3> QED
      BY <3>2, <3>3, <3>4 DEF TakenBack
  <2> QED
    BY <1>1, <2>2, <2>3 DEF PageDiscard
<1>2. CASE Request /\ ~PageDiscard
  <2>1. page' # "rejected"
    BY <1>2 DEF Request, PagePreviewImports, PagePreviewExports, PageConfirmImports,
                PageConfirmExports, PageMatch
  <2>2. page' = "discard imports" => mine'.exports = NoBatch
    BY <1>2 DEF Request, PagePreviewImports, PagePreviewExports, PageConfirmImports,
                PageConfirmExports, PageMatch, PInv, MineOK
  <2> QED
    BY <2>1, <2>2 DEF TakenBack, Gone
<1>3. CASE UNCHANGED pageVars
  BY <1>3, GoneStays DEF pageVars, PInv, TakenBack, Ours, Gone
<1> QED
  BY <1>1, <1>2, <1>3 DEF TidyNext, PageNext, Others, allVars

LEMMA PInitHolds == PageInit => PInv
<1> SUFFICES ASSUME PageInit PROVE PInv
  OBVIOUS
<1>1. IInv
  BY InitHolds DEF PageInit
<1>2. SnapshotOK
  BY DEF PageInit, JobInit, SnapshotOK, InJob
<1>3. MineOK /\ TakenBack /\ unsaved = {}
  BY DEF PageInit, MineOK, TakenBack, Ours
<1> QED
  BY <1>1, <1>2, <1>3 DEF PInv

LEMMA TidyKeeps == PInv /\ [TidyNext]_allVars => PInv'
<1> SUFFICES ASSUME PInv, [TidyNext]_allVars PROVE PInv'
  OBVIOUS
<1>1. unsaved' = {}
  BY DEF PInv, TidyNext, allVars, pageVars
<1> QED
  BY <1>1, TidyFacts, MineKeeps, TakenBackKeeps DEF PInv

(* Nor does it confirm a file, or give a requirement anything.             *)
LEMMA TidyAllocates ==
  ASSUME PInv, [TidyNext]_allVars
  PROVE  SavesReviewed /\ TakesOldest /\ ShortIfEmpty
<1>1. CASE [Next]_vars
  BY <1>1, StepSavesReviewed, StepTakesOldest, StepShortIfEmpty DEF PInv
<1>2. ASSUME NEW b \in Batches, ClassifyRows(b)
      PROVE  SavesReviewed /\ TakesOldest /\ ShortIfEmpty
  <2>1. UNCHANGED <<confirmed, invalidated, reqStatus, alloc>>
    BY <1>2 DEF ClassifyRows, NewBatch, stamps, reqVars
  <2>2. \A r \in Reqs, k \in Keys : alloc[<<r, k>>] \in Nat
    BY PairsOf DEF PInv, IInv, TypeOK
  <2>3. SavesReviewed /\ ShortIfEmpty
    BY <2>1 DEF SavesReviewed, SavesMatchRun, ShortIfEmpty
  <2>4. \A l \in ActiveLots, r \in Reqs : ~(alloc'[<<r, l>>] > alloc[<<r, l>>])
    BY <2>1, <2>2 DEF ActiveLots
  <2> QED
    BY <2>3, <2>4 DEF TakesOldest
<1> QED
  BY <1>1, <1>2, TidyIsNext
-----------------------------------------------------------------------------
(* The tables keep their types, and no invalidated file an allocation, with *)
(* the upload page and a background import beside all other users.         *)
THEOREM PageKeepsInvariants == TidySpec => [](TypeOK /\ NoAllocationOnInvalidated)
<1>1. PInv => TypeOK /\ NoAllocationOnInvalidated
  BY DEF PInv, IInv
<1> QED
  BY <1>1, PInitHolds, TidyKeeps, PTL DEF TidySpec

(* Beside them, too, a requirement's status tells what its allocations add *)
(* up to, and the reports agree.                                           *)
THEOREM PageKeepsReports == TidySpec => [](StatusTellsAllocations /\ ReportsAgree)
<1>1. PageInit => StatusTellsAllocations /\ MarkedWithFile
  BY InitTold, InitMarked DEF PageInit
<1>2. PInv /\ StatusTellsAllocations /\ MarkedWithFile => ReportsAgree
  BY ReportsFollow DEF PInv
<1> QED
  BY <1>1, <1>2, PInitHolds, TidyKeeps, TidyKeepsReports, PTL DEF TidySpec

(* Beside them a confirmed match run is still the one that was reviewed,   *)
(* whatever the request and the job have done since its preview.           *)
THEOREM PageConfirmsReview == TidySpec => ConfirmsWhatWasReviewed
<1>1. PInv /\ [TidyNext]_allVars => [SavesReviewed]_vars
  BY TidyAllocates
<1> QED
  BY <1>1, PInitHolds, TidyKeeps, PTL
     DEF TidySpec, ConfirmsWhatWasReviewed, SavesReviewed, SavesMatchRun, SavesThePlan

(* Allocation stays first in, first out, the page's match run included,    *)
(* and leaves a requirement short only of what is gone.                    *)
THEOREM PageAllocatesFifo == TidySpec => OldestFirst /\ ShortOnlyWhenEmpty
<1>1. PInv /\ [TidyNext]_allVars => [TakesOldest]_vars /\ [ShortIfEmpty]_vars
  BY TidyAllocates
<1> QED
  BY <1>1, PInitHolds, TidyKeeps, PTL
     DEF TidySpec, OldestFirst, ShortOnlyWhenEmpty, TakesOldest, ShortIfEmpty

(* However old the snapshot of ImportPreviewAccumulator and whatever page  *)
(* or client confirms its file, confirm_batch takes over no active lot.    *)
THEOREM ActiveLotsStay == TidySpec => ActiveLotsAreNotReplaced
<1> DEFINE Kept == \A k \in ActiveLots : owner'[k] = owner[k] /\ lot'[k].import = lot[k].import
<1>1. PInv /\ [TidyNext]_allVars => [Kept]_<<vars, snapshot>>
  BY TidyFacts DEF StepFacts
<1> QED
  BY <1>1, PInitHolds, TidyKeeps, PTL DEF TidySpec, ActiveLotsAreNotReplaced

(* When upload_and_match_page has answered with an error it has cancelled, *)
(* nothing of its two files is live, whatever others did meanwhile.        *)
THEOREM RejectionTakesBack == TidySpec => []RejectedIsTakenBack
<1>1. PInv => RejectedIsTakenBack
  <2> SUFFICES ASSUME PInv, page = "rejected", NEW b \in Ours
               PROVE  b \notin confirmed \ invalidated
    BY DEF RejectedIsTakenBack
  <2>1. Gone(b)
    BY DEF PInv, TakenBack, Ours
  <2>2. NoBatch \notin confirmed
    BY BatchAssumption DEF PInv, IInv, TypeOK
  <2> QED
    BY <2>1, <2>2 DEF Gone
<1> QED
  BY <1>1, PInitHolds, TidyKeeps, PTL DEF TidySpec
=============================================================================
