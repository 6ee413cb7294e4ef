# Verification of the import/export allocation system

This directory holds TLA+ models of the program in `src/`: a FastAPI application in which a
team uploads import and export files of a customs-refund business, allocates exported parts to
imported lots first in, first out, reviews and confirms the allocations, and takes them back.
The models are checked with TLC on small instances, and the main safety properties are proved
with TLAPS for every instance. Names of actions and state follow the Python source.

## The system

| Component | Source | State it keeps | Operations | Modelled in |
| --- | --- | --- | --- | --- |
| FIFO planner | `app/services/allocation_plans.py` | none (local balances) | `plan_export_rows` | `PlanLoop` |
| Matcher | `app/services/matching.py` | lots, requirements, allocations | `run_matching`, `allocate_export`, `undo_export_matching` | `MatchLoop`, `Ledger` |
| Upload batches and ledger | `app/services/uploads.py`, `app/models.py` | batches, preview rows, planned allocations, lots, requirements | `preview_imports`, `preview_exports`, `preview_export_run`, `confirm_batch`, `confirm_match_run`, `revert_match_run`, `delete_unconfirmed_upload`, `invalidate_confirmed_upload` | `Ledger`, `Sessions` |
| Background jobs | `app/services/jobs.py` | jobs, progress, an in-memory pool with one thread | `enqueue_upload_job`, `submit_upload_preview_job`, `process_upload_preview_job`, `ImportPreviewAccumulator` | `UploadJobs`, `ImportJob` |
| File storage | `app/services/file_storage.py` | files on disk | `store_upload` | `FileStore` |
| JSON routes | `app/routers/api.py` | a session per request | one service call each, in a transaction | `Ledger`, `UploadJobs`, `FileStore` |
| HTML pages | `app/routers/pages.py`, templates | a session per request | the same services; `upload_and_match_page` chains five of them | `PageUpload` |
| Database sessions | `app/db.py` | SQLite, `autoflush=False` | query, flush, commit | `Sessions`, `MatchLoop` |
| Reports, summaries | `app/services/reports.py`, `summaries.py` | none (read the tables) | result workbooks, inventory sheet, dashboard | `Reports` |
| Parsing | `app/services/parsing.py` | none | workbooks and CSV files to rows | an input |
| Login | `app/auth.py`, `app/main.py` | failure counters per client, session cookie | password check, throttle | no |

How they interact: a request handler opens a session, calls a service and commits. The upload
route stores the file, inserts a batch and a job and hands the job to a thread pool; the worker
thread opens its own session, reads the file, classifies its rows, plans an export file and commits
progress every 500 rows. Users meet the batch again on the review page (or through the JSON routes)
and confirm or delete it. The planner and the matcher compute the same kind of allocation in two
ways, one on plain values for a preview and one on the session's objects.

What is hard, and what has to hold (the full list, with lines, is `hazards` in `PROJECT.json`):

* *Planner and matcher.* Splits, shortages and several part numbers in one walk; in the matcher,
  queries that see the database as it was before the run while the objects they return carry what
  the run has already taken. No unit is handed out twice, no older stock is left behind, a row is
  short only of what is gone, statuses and balances agree with the allocations.
* *Ledger.* Two workflows (preview, confirm and revert a match run; confirm, match and undo) share
  the tables, and plans, previews and classifications are used long after they were made. No
  allocation refers to a withdrawn file, the books balance, what is saved is what was reviewed, and
  every report shows the same.
* *The upload page.* Five transactions in one request, with other users between them, and a
  clean-up when one of them raises. A rejected request leaves nothing live.
* *Jobs and files.* The worker, users who confirm or delete, a process that may stop and statements
  that may fail, interleave at every commit and between storing a file and inserting its batch. A
  finished job is complete, a deletion is final, nothing is saved of a half-read file, every batch has
  its file, every upload comes to an end unless its own request or job was struck.
* *Sessions.* Two requests read balances, change them in Python and write absolute values. No unit is
  drawn twice and none is lost.

## The modules

```
Fifo <- FifoService             closed form, and an allocator that answers with it
  ^ PlanLoop, MatchLoop         the two loops, shown to implement FifoService
  ^ Sessions                    preview, confirm, revert query by query, many sessions
  ^ Ledger <- Reports           every operation as a transaction; what users read of it
      ^ ImportJob               + background classification with an old snapshot
          ^ PageUpload          + the request of the upload page; all of it together
UploadJobs <- FileStore         jobs, commit by commit; + the file on disk in front of them
```

`Fifo` gives a first-in first-out allocation in closed form. Along the stock of a part number the
demands occupy consecutive intervals of units, and so do the lots; what a demand takes from a lot is
the overlap of the two intervals. There is no loop and no recursion in it: a sum of quantities is
the cardinality of the set of their units. Its `Sorted` is Python's `sorted` with a key that no two
elements share: an element's place is the number of those before it. `FifoService` is the abstract
specification of an allocator: one step answers a request with that allocation (`SafeSpec`), and under
fairness it does so eventually (`Spec`). `PlanLoop` is `plan_export_rows` step by
step, and `MatchLoop` is `run_matching` with `allocate_export` inside one session.

| PlanLoop | code (`allocation_plans.py`) |
| --- | --- |
| `available`, `needed`, `taken`, `after` | `available`, `needed`, the `PlannedAllocation`s, `remaining_qty_after` |
| `OrderedLots` | `sorted(lots, key=...)` |
| `SkipLot`, `TakeLot` | the body of the inner loop before and after its `continue` |
| `FinishExport` | `plans.append(...)`, the next row, the return |

| MatchLoop | code (`matching.py`) |
| --- | --- |
| `request`, `matchedBefore` | the database the session's queries see |
| `remaining`, `allocations`, `status` | the session's objects, not yet flushed |
| `AlreadyMatched`, `QueryLots` | `allocate_export` up to the candidate query |
| `AllocateLot`, `SetStatus`, `Commit` | its loop, its end, the commit of the run |

`Ledger` has the tables and one action for every service operation that changes them. An action is
a whole transaction: a call that raises changes nothing and is not a step. `RunMatching` and
`PreviewExportRun` use the closed form that the two loops implement, each with its own order of
rows. `Inventory` is what `inventory_fingerprint` hashes of every active lot.

| Ledger | code |
| --- | --- |
| `kind`, `status`, `file`, `rowStatus`, `confirmed`, `reverted`, `invalidated` | `UploadBatch`, `UploadPreviewRow` and the batch's time stamps |
| `planned`, `fingerprint`, `plan` | `inventory_fingerprint`, `PlannedAllocation` |
| `owner`, `lot` | `ImportLot` with `upload_batch_id` and quantities, by business key |
| `reqStatus`, `alloc`, `allocated` | `ExportRequirement.status`, `ExportAllocation` |
| `PreviewImports`, `PreviewExports`, `PreviewExportRun` | `uploads.py` functions of the same names |
| `ConfirmImports`, `ConfirmExports` | `confirm_batch` for the two kinds of files |
| `ConfirmMatchRun`, `RevertMatchRun` | `confirm_match_run`, `revert_match_run` |
| `InvalidateImports`, `InvalidateExports` | `invalidate_confirmed_upload` and its two helpers |
| `DeleteUnconfirmed` | `delete_unconfirmed_upload` |
| `RunMatching`, `UndoMatching` | `run_matching`, `undo_export_matching` |

`Reports` states, over `Ledger`'s tables, which rows and quantities the refund report, the workbook
of a run, the inventory sheet and the dashboard show. `ImportJob` adds the preview of a large file by
`ImportPreviewAccumulator`, which reads which lots exist before the first row (`TakeSnapshot`) and
classifies later (`ClassifyRows`). `PageUpload` adds one request of the upload page:

| PageUpload | code (`pages.py`) |
| --- | --- |
| `page`, `mine` | where `upload_and_match_page` is, its two batch ids |
| `unsaved` | objects a failed `confirm_batch` left in the request's session |
| `PagePreviewImports` ... `PageMatch` | its five calls, each with the outcomes that raise |
| `PageDiscard`, `TakeBack`, `FlushUnsaved` | `_discard_direct_upload_batches`, and what its commit also writes |

`Sessions` takes three operations apart into queries, flush and commit. SQLite begins a transaction with
the first statement that writes (the engine leaves the driver's default), so a query before it sees the
last commit and holds nothing; `lock` is the one writer. `confirm_match_run` flushes its first
requirement before it reads a lot; `revert_match_run` reads everything and writes in its commit.

| Sessions | code (`uploads.py`) |
| --- | --- |
| `ReadFingerprint`, `ReadLots`, `SavePlan` | `preview_export_run`: `inventory_fingerprint`, the query for the lots, its commit |
| `CheckFile`, `BeginToWrite` | `confirm_match_run` up to and including its first flush |
| `CommitConfirmation`, `RollBack` | its loop over the plan and its commit; an insufficient lot |
| `ReadFile`, `CommitRevert` | `revert_match_run`, its queries and its commit |
| `GiveUp` | "database is locked" |

`CheckFile` (the batch, then the lots of its fingerprint) and `ReadFile` (the file's requirements, their
allocations and lots) each merge several queries into one step: a commit that falls between two of these
queries is taken to come before or after all of them.

`UploadJobs` has the batch and job rows, the pool and the worker, and one action for every
database commit. An *outage* is a restart or a statement that raises, because another session has held the
write lock for longer than the driver waits (`GiveUp` of `Sessions` is the same error for a user's
request, which rolls back and changes nothing). It can strike anywhere:

| UploadJobs | code |
| --- | --- |
| `InsertBatch`, `EnqueueJob`, `SubmitJob` | `api_create_upload_batch` and `enqueue_upload_job`: two commits and the submission |
| `RequestFails` | one of those commits raises, or the batch is deleted before the refresh that follows |
| `TakeJob` ... `FinishExport` | `process_upload_preview_job`, commit by commit |
| `FailJob` | the parser or a statement inside the `try` raises, and the failure is recorded |
| `LoseJob` | the queries and the commit before the `try` raise (`jobs.py:46-55`), or the record of a failure cannot be written (`jobs.py:100`) |
| `LoseBatch` | the batch was deleted under the worker |
| `Restart` | pool, worker and requests are gone |

`stranded` is a history variable: the batches whose own request or job was ended by an outage without a
record. No action reads it. What a row means is left to `Ledger`; here a file is the sequence of the statuses
its rows get. Batches are confirmed on the review page, whose button is there only for a
`review_ready` batch (`batch_review.html:9-10`), except those of `ApiClients`, which may confirm in
any state, as the JSON routes and `/upload/confirm` let them. `FileStore` puts `store_upload` in front
of it, chunk by chunk: `OpenFile`, `WriteChunk`, `KeepFile`, and `RejectUpload` for a file that is too
large, empty, or whose stream fails. `FailStored` is `RequestFails` with the file: before the first commit
the file stays on disk without a batch.

`MC...` modules give the constants their values, `...Proofs` modules hold the proofs. Definitions
whose names begin with `Faulty_` are plausible mistakes in the definition that follows; with one of
them in its place, the property named in `mutants` of `PROJECT.json` fails, so that each property is
known to depend on the code it is about.

## Restricted specifications

Three properties do not hold of everything users can do. Each is checked and proved under a
specification that names what it excludes, and a run outside of it ends in a counterexample.

| Specification | Excludes | Outside of it |
| --- | --- | --- |
| `Ledger!CarefulSpec` | undoing or invalidating a reverted file, and matching while a requirement of one is matchable | `ledger_phantom_stock` |
| `PageUpload!TidySpec` | a confirmation of the page that raises after it has begun to change lots | `page_discard` |
| `Sessions!QuietSpec` | a commit of another session while a file is being reverted | `session_lost_update` |

## What the runs check

| Run | Question | Size |
| --- | --- | --- |
| `plan_loop` | does the planner compute the FIFO allocation, hand out nothing twice, explain every shortage, and write consistent balances? | all files of 2 rows and 3 lots over 2 part numbers, 2 dates, needs 1..3, balances 0..2 |
| `match_loop` | does the matcher, with its stale queries, do the same, and leave the rows `Ledger` assumes? | 2 requirements (partly matched before or not), 2 lots, needs 0..2, balances 0..3 |
| `ledger_all` | with both workflows, the request of the upload page and a background import mixed step by step: types, allocations only on live files, statuses, reports that agree, confirmation of what was reviewed, shortage only of what is gone, no active lot taken over, rejected requests taken back | 3 batches, 2 lots with different dates, 1-row export files and an import file, each also with a bad row, which only the request uploads |
| `ledger_careful` | do the books balance, does the dashboard add up, and is every taking oldest first? | 3 batches, 2-row export files, partly used lots, a lot imported twice with other values |
| `upload_jobs` | with files stored in chunks, page users, clients, a file that breaks off after rows were committed, an oversized and an empty one, deletions and an outage: whole files, complete jobs, final deletions, whole confirmations, no batch dropped, every upload settles | 6 uploads in a fixed order, 1 outage |
| `sessions` | do the lots agree with the allocations when requests run at the same time? | 10 sessions: 3 previews, 5 confirmations (two of one file, twice), 2 reverts; 2 lots |

Six more runs end in a counterexample and are described under Findings.

The bounds. A FIFO walk can go wrong at the boundary between two rows in one lot, between two lots
in one row, and when a row is not served or a lot is skipped; two rows and three lots have all of
these, in every order of dates. In `Ledger`, identifiers are finite: a deleted batch frees its
identifier. Three batches are an import file and two export files, or two import files with a shared
key and an export file, which is what any two operations need to meet; in `ledger_all` the request
takes two of them and meets a third. Quantities are large enough to split a row over the lots and to
leave a remainder. There is one part number: operations touch the lots of different part numbers
independently, and where one walk mixes them (`PlanLoop`, `MatchLoop`) there are two.
`MCIdRank` orders requirements against the row order, so that planner and
matcher disagree about who is first. `LowestFreeBatch` and `LowestFreshBatch` are action constraints
that name new batches in order: identifiers are interchangeable except for their place in `MCIdRank`.
`ErrorsOnPage`, in `ledger_all`, does the same and lets only the request upload files with bad rows.
`OnePairOfRows` allows one two-row file at a time. In `page_discard`, `OthersImport` keeps the other
users to import files. In `UploadJobs` a chunk is 2 rows instead of 500; one file ends in an incomplete
chunk, which holds its conflict, another is a multiple of a chunk, and the parser gives up on a third one
row after a chunk was committed (a statement that fails does the same to the others); `InOrder` fixes the
order in which uploads begin, not how they overlap. One outage, a restart or a failed statement, reaches
every point of the worker and of the route; two are too many states for TLC, and what is an invariant is
proved for any number. In `Sessions` the three files together need more than the two lots hold, so that plans become
stale and a lot becomes short. Deadlock is not checked: a user need not do anything, and a bounded
number of batches comes to an end.

Fairness. `PlanLoop` and `MatchLoop` are loops of a running function: weak fairness of the next
step. In `UploadJobs` an upload request that has committed its batch goes on and the worker thread keeps
running (`Work`), both weakly fair: each of their statements returns or raises. They may have to wait for
another session's lock, but no longer than the driver's timeout, after which they raise, and that is one
of the outcomes fairness allows (`RequestFails`, `FailJob`, `LoseJob`). Nothing is assumed of users, and
nothing of `Restart`. `EveryUploadSettles` says of each batch that from some time on neither it nor
its job is queued or processing, unless it is in `stranded`: an outage excuses the batch whose request or
job it ends, and no other. Those behind a lost job in the pool, those uploaded after a restart and those whose
failure was recorded must still settle. What is stranded stays so for ever (see Findings). The other
modules state no liveness: all their steps are somebody's decision.

## Findings

Run as counterexamples (`findings` in `PROJECT.json` quotes the texts):

* `match_loop_empty_row`: the candidate query filters `remaining_qty > 0` in a database the session
  has not flushed to, so a lot emptied by an earlier requirement of the run gets an allocation row of
  quantity 0.
* `ledger_phantom_stock`: `revert_match_run` credits the lots and keeps the allocations;
  `undo_export_matching` of one of the file's requirements credits them again, and a lot has more
  remaining than was imported.
* `ledger_same_lot_conflict`: an import row uploaded again unchanged is compared with the lot's
  current balance, so it is a conflict as soon as part of the lot has been used.
* `upload_partial_confirm`: `confirm_batch` ignores the status of the batch and the counters are zero
  until the worker ends; the chunks read so far are saved although a conflict follows.
* `page_discard`: after a confirmation that raised half way, the page deletes the batch in the same
  session without a rollback; the commit also writes the lots that were already added or reactivated,
  whose `upload_batch_id` now names no batch.
* `session_lost_update`: `revert_match_run` reads lots before it holds the write lock and commits
  absolute balances; a confirmation of another file in between is overwritten.

Seen while modelling and not run:

* `confirm_batch` saves export files that have rows with errors (`uploads.py:547`;
  `PRD_core_ops_workflow.md:150` forbids it, and the model's `ConfirmExports` has no such guard).
* The worker writes `processing` and `review_ready` over the status of a batch confirmed meanwhile
  (`jobs.py:55`, `85`), and an export batch is `review_ready` one commit before it has a plan
  (`uploads.py:439`).
* After a restart nothing resubmits or fails the jobs of the lost pool: their batches stay queued or
  processing for ever (`jobs.py:14`; `docs/superpowers/plans/2026-09-16-xlsm-replacement.md:73` names a
  "restart-safe failure state", line 77 "one persistent single-worker queue"). The same happens without a
  restart when "database is locked" is raised by the commit of the job (`jobs.py:25`), by the one that marks
  it as processing, which is outside the `try` (`jobs.py:55`), or by the one that records a failure
  (`jobs.py:100`). `UnsettledIsInHand` and `EveryUploadSettles` delimit this: these batches and no others.
* A batch that is deleted between the two commits of its upload request leaves a job row without a batch,
  which stays `queued` (`jobs.py:21`; the worker raises when it comes to it).
* Invalidating an import file sets requirements of a reverted file back to `pending`, and the next
  `run_matching` serves them (`uploads.py:917`).
* `preview_export_run` reads the fingerprint and the lots of the plan in two queries. After a commit in
  between the plan does not belong to its fingerprint; if that commit is later undone, it can be
  confirmed. The balances stay right (`LotsMatchAllocations`, with `Enough` checked again).
* Two sessions can confirm the same file: both read `confirmed_at` before either writes. The second one
  passes the fingerprint check only if it is made before the first one commits, and then saves the
  file a second time if the lots still suffice. `sessions` includes this: lots and allocations agree,
  though the file is saved twice.
* `PRD_core_ops_workflow.md:175-178` asks for equal origins, an import date before the export date and at
  most 360 days between them. The code matches by part number alone, which is what `README.md:22` and
  `tests/test_matching.py` say instead, and so do the models.
* With rows left in its session, the page's clean-up can also take over lots that another file has
  reactivated meanwhile.

## What is proved

The theorems hold for all constants that satisfy the assumptions named in the modules: finite sets
of batches, keys and sessions, files whose rows are well-typed and no longer than `MaxRows`, and
orders in which different lots and different requirements have different ranks. (Requirements are sorted by
an id last. The key of a lot is date, declaration, line and row: it leaves out part number and origin,
so two lots of one part number that differ only in origin tie and are served in the order the query
returns them. The models take one order for both allocators.) For the two loops: finitely many rows, at least one, and lots, numbered in the
order of the sort keys, and quantities that are natural numbers. The proofs use no other assumption.

`FifoProofs`. Totals are cardinalities, so sums are compared by inclusion and by injections, without
induction. `TakesFromLot` says that what all demands take from a lot is at most what it holds, and
`TakesForDemand` that what a demand gets from all lots is at most what it needs. The argument: map
the units taken to their positions in the stock. A demand's interval ends before the interval of a
later demand begins (`Consecutive`), so units of different demands have different positions, and all
positions lie within the lot; an injection into `1 .. n` gives the bound (`PackInto`). The converse
bound is `NoGap`: the demands leave no gap, so every unit before the end of a demand is somebody's
(`FillUp`). Two theorems follow: when a demand takes from a lot, all older lots it could have used
are given away (`OlderAreEmptied`), and so is every lot a demand could have used that gets less than
it needs (`ShortOfWhatIsGone`). For the loops there are `SortedFacts` (`Sorted` lists each element once,
in order; ranks replace the recursion of a sort) and `Meet` and `NoMeet`: where a row meets a lot of its
part number, the smaller of what both have left is the overlap of their intervals, and both go on with
what is left.

`PlanLoopProofs` and `MatchLoopProofs`. `PlanIsFifo` and `MatchIsFifo` are the safety half of the
refinement, `Spec => Service!SafeSpec`: whatever the rows, lots and dates, the loops answer with the
closed form, in what is one step of `FifoService`. On the way every invariant of the two runs is proved.
They are not inductive: a step that is told only what they say may take from any lot. The invariant `IInv`, which TLC checked on the two runs' instances before it was proved, adds above all
`Remains`: what the current row still needs is what the lots it has passed left of it, and what a lot
still has is what the rows that have been at it left of it. Its step is `Meet`. With it what has been
taken so far is the closed form, pair by pair (`TakenSoFar`, `AddedSoFar`), and what a row lacks at its
end is what the closed form does not give it, so that a shortage means empty lots (`RowsExplained`). The
matcher needs more. It only walks lots that had a balance when the run began, so its candidates have to
stay sorted and behind the lots already passed (`InOrder`), and the lots its query leaves out add
nothing (`PassedIsOlder`). An export that is satisfied before its last candidate, or needs nothing at all,
never comes to the lots behind: they lie outside of its interval or are empty (`NotReached`). `RowsSoFar`
says which pairs have a row, the rows of quantity 0 included, which is what `Ledger` assumes of a match
run (`RowsAreReached`), and `StatusSoFar` that statuses compare this run and earlier ones together.

`LedgerProofs`. `TypeCorrect` includes that no balance ever becomes negative; this is not visible in
`RunMatching`, which subtracts without a check, and rests on `TakesFromLot`. `InvalidationIsFinal` says
that an invalidated file never has allocations again, and `ConfirmsReview` that a confirmed match run is
the stored plan and the planner's answer for the inventory of that moment. None of the three is
inductive. The invariant `IInv` adds:

* `Origins`: requirements come from rows of confirmed export files, lots from import files. Without
  it, withdrawing an export file might leave a lot it owns, and `file[r[1]][r[2]]` might not exist.
* `RowsCarryUnits`: units are only allocated by rows that exist. Without it, deleting the rows of
  a file would not delete its quantities. For `RunMatching` it needs that whoever takes something is
  among the pairs the walk has reached (`TakersAreReached`).
* `PlansAreAnswers`: a stored plan is `PlanOf` of the stored rows and the stored fingerprint. With
  the fingerprint check this gives that a plan only takes from active lots (`PlanCovers`), which
  is why a stale plan cannot revive an invalidated file.

Also in `LedgerProofs`: `StatusIsTrue` follows from `IInv`: a match run adds to a requirement no more than it
lacks (`RunGives`, from `TakesForDemand`; `TotalSum` adds up what it had and what it gets), a plan gives
a row no more than it asks for (`PlannedFits`), and all three places that write a status compare the
same sum. `ReportsTellTheSame` adds `MarkedWithFile`: exactly the requirements of an invalidated file
are marked so. With it and `InvalidationIsFinal` the different joins of the reports select the same
allocations.

`BooksProofs`. `BooksAlwaysBalance`, of `CarefulSpec`: what is used of an active lot is what its row said
and the units held by files that are not reverted (`Held`). Each step changes a lot's balances by
what it adds to the units held (`BooksDrawn`) or takes from them (`BooksGivenBack`, where the stop of
`used_qty` at zero is shown never to act). `DashboardAlwaysAddsUp` adds this up over the lots; that the
units held per lot and the matched total of the dashboard count the same rows is `TotalByLot`, which
numbers the units of each lot. `OldestAlwaysFirst` and `ShortMeansEmpty`, of the unrestricted `Spec`: only
a match run and a confirmation give units away (`OthersOnlyTakeBack`), and each is a FIFO walk over
the inventory of that moment (`RunFacts`, `PlanFacts`), so that `OlderAreEmptied` and
`ShortOfWhatIsGone` apply.

`PageUploadProofs`, of `TidySpec`. Every step of the request is one of `Ledger`'s or changes no table
(`RequestIsNext`), and `Ledger`'s invariant never asks how a row was classified (`JobKeeps`), so types,
`NoAllocationOnInvalidated` (`PageKeepsInvariants`), statuses and reports (`PageKeepsReports`) carry
over, and so do what `LedgerProofs` and `BooksProofs` show of single steps: what is confirmed was reviewed
(`PageConfirmsReview`), taking is oldest first and short only of what is gone (`PageAllocatesFifo`).
`ActiveLotsStay`: an active lot keeps its file and its imported quantity, however old the snapshot
was; a new row needs a free key and a reactivated one an invalidated lot. `RejectionTakesBack` needs
`Gone`: a batch that is invalidated or deleted stays so, since ids are not used again (`GoneStays`).

`SessionsProofs`, of `QuietSpec`, any number of sessions. `BooksAgree` rests on `OneWriter` (who writes
holds the lock) for confirmations and on `RevertIsCurrent` (a revert's lots are still what it has
read, and what it gives back is live) for reverts. That reverts credit no requirement twice needs
`RevertedWithFile`; sums over sessions are split and joined by `TotalUnion`. `TypeCorrect` follows: no
balance becomes negative.

`UploadJobsProofs`. `TypeCorrect`, `JobsFinishComplete`, `DeleteIsFinal` and `OnlyOutagesStrand` hold for page
users and API clients, any number of batches and outages. `OnlyOutagesStrand` is the safety half of
`EveryUploadSettles`: nothing but an outage drops a batch that is not settled. `IInv` adds `Submitted` (a
batch is in the pool or with the worker only after its request is over, hence once), `HasJob` (a batch
that waits in the pool has its job), `Working` (the job the worker is at is `processing`) and `Progress`
(what is stored of the file goes with the worker's step).
`PagesConfirmWhole` is about page users and needs in addition that a batch with the button has all
its rows and counts, which is its own invariant `PageInv`.

Also in `UploadJobsProofs`, with files: `StoreImplementsJobs` is the refinement `StoreSpec => Spec`: each step is one of the
jobs' or a stutter, and the fairness is the same, so everything proved of `UploadJobs` holds with the
files in front. `JobsFindTheirFile` and `RejectedLeaveNoFile` rest on `KeptFirst` (nothing is in the
database before the file is kept) and `Files` (what is on disk in each state of the upload).

Only model-checked: liveness. These are `EveryUploadSettles`, and of the refinements of the two loops
(`ImplementsFifo`) the part that says an answer comes: both are about fairness and `ENABLED`, which are out
of the prover's reach. Every other property of a passing run is proved.

## Not modelled

Parsing and column mapping (a parsed row, good or bad, is an input; part numbers are normalised
ones), login and throttle, templates, schema migration, the demo script and deployment. Of the
tables: prices and duty amounts, HS code warnings, `match_status` of an allocation, and the lot status
`update_lot_status` derives from the balance. `process_job` in `jobs.py` and `read_stored_upload` are
never called by the program. Of the reports: headers, styles and columns that are copied; of the dashboard:
the status distribution and the list of warnings. In `Ledger`, concurrent transactions are serial;
`Sessions` interleaves preview, confirmation and reversal of match runs, and no other operation.
`PageUpload` follows one request, and not one whose files somebody else confirms while rows are left in its
session.

## Plan

1. `Sessions`: the direct workflow (`run_matching`, `undo_export_matching`) and invalidation, query by
   query, and the serial `Ledger` step as the abstract specification.
2. `ImportJob`: the accumulator row by row against `preview_imports`; the two agree while the
   inventory does not change.
3. `LoginThrottle`: failure window and lockout, a small module of its own.
4. Proofs: that an interleaved match run of `Sessions` is one step of the serial `Ledger`, once item 1
   states it.
