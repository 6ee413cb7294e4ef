------------------------------- MODULE Reports -------------------------------
(***************************************************************************)
(* What users read of the ledger: the workbook of a match run, the refund  *)
(* report, the inventory sheet and the totals of the dashboard             *)
(* (app/services/reports.py, app/services/summaries.py).  Reports change   *)
(* nothing; each is computed from the tables by queries of its own, and    *)
(* the properties say that what they show fits together.                   *)
(***************************************************************************)
EXTENDS Ledger

(* Requirements of files that have not been invalidated.                   *)
ShownReqs == {r \in Created : r[1] \notin invalidated}

(* What a report shows of a requirement: a row with a quantity for each    *)
(* lot it draws on, and the quantity of its NO MATCH row.                  *)
Shown(r, lots, shortage) ==
    [lots |-> [k \in lots |-> alloc[<<r, k>>]], shortage |-> shortage]

Shortage(r, lots) ==
    Nonneg(RequiredQty(r) - Total([k \in lots |-> alloc[<<r, k>>]], lots))

Faulty_JoinedLots(r) == {k \in Keys : Active(k) /\ alloc[<<r, k>>] = RequiredQty(r)}

(* The joins of allocation_rows: neither the import file nor the export    *)
(* file has been invalidated.                                              *)
JoinedLots(r) == {k \in Keys : <<r, k>> \in allocated /\ Active(k)}

(* allocation_rows has a NO MATCH row for a short requirement only if the  *)
(* status says that matching has left it short.                            *)
AllocationReport ==
    [r \in ShownReqs |->
        Shown(r, JoinedLots(r),
              IF reqStatus[r] \in {"partial_matched", "insufficient_stock"}
              THEN Shortage(r, JoinedLots(r)) ELSE 0)]

(* matching_run_workbook: every allocation of the file, and a NO MATCH row *)
(* for whatever is missing, without a look at the status or at the files   *)
(* the lots came from.                                                     *)
RunWorkbook(b) ==
    LET lots(r) == {k \in Keys : <<r, k>> \in allocated}
    IN  [r \in ReqsOf(b) |-> Shown(r, lots(r), Shortage(r, lots(r)))]

(* refund_report_xlsx: the workbook of the export file confirmed last, or  *)
(* the report of all allocations if there is none.  The order of the       *)
(* confirmations is not part of the ledger: any file may be the last.      *)
RefundReports ==
    LET exports == {b \in confirmed : kind[b] = "exports" /\ b \notin invalidated}
    IN  IF exports = {} THEN {AllocationReport} ELSE {RunWorkbook(b) : b \in exports}

(* The inventory sheet, and the columns the summaries add up, for the lots *)
(* of one part number.                                                     *)
LotsOf(part) == {k \in ActiveLots : PartOf[k] = part}

InventorySummary(part) ==
    LET lots == LotsOf(part)
    IN  [imported  |-> Total([k \in lots |-> lot[k].import], lots),
         exported  |-> Total([k \in lots |-> lot[k].used], lots),
         remaining |-> Total([k \in lots |-> lot[k].remaining], lots)]

Faulty_MatchedTotal ==
    LET rows == {p \in allocated : p[1][1] \notin reverted}
    IN  Total([p \in rows |-> alloc[p]], rows)

(* total_matched_qty of the dashboard: allocations of active lots, those   *)
(* of reverted files among them.                                           *)
MatchedTotal ==
    LET rows == {p \in allocated : Active(p[2])}
    IN  Total([p \in rows |-> alloc[p]], rows)

Dashboard ==
    [imported  |-> Total([k \in ActiveLots |-> lot[k].import], ActiveLots),
     matched   |-> MatchedTotal,
     remaining |-> Total([k \in ActiveLots |-> lot[k].remaining], ActiveLots)]
-----------------------------------------------------------------------------
(* The refund report accounts for the whole quantity of every requirement  *)
(* it shows, refers to lots of the inventory only, and its rows are those  *)
(* of the allocation report, though that report checks the import files    *)
(* and this one does not; the two differ only in the NO MATCH row of what  *)
(* has not been matched or has been reverted.                              *)
ReportsAgree ==
    \A report \in RefundReports : \A r \in DOMAIN report :
        LET mine == report[r]
            other == AllocationReport[r]
        IN  /\ mine.lots = other.lots
            /\ DOMAIN mine.lots \subseteq ActiveLots
            /\ Total(mine.lots, DOMAIN mine.lots) + mine.shortage = RequiredQty(r)
            /\ reqStatus[r] \notin {"pending", "reverted"} => mine.shortage = other.shortage

(* What the dashboard and the inventory page say adds up: what is imported *)
(* is used or remains, and what is gone was used when it was imported or   *)
(* is matched, once the matches of reverted files are taken out again.     *)
DashboardAddsUp ==
    LET opening == [k \in ActiveLots |-> OpeningRow(k).import - OpeningRow(k).remaining]
        undone == {p \in allocated : p[1][1] \in reverted}
    IN  /\ \A part \in Parts :
              LET sum == InventorySummary(part)
              IN  sum.imported = sum.exported + sum.remaining
        /\ Dashboard.imported - Dashboard.remaining =
              Total(opening, ActiveLots) + Dashboard.matched
                - Total([p \in undone |-> alloc[p]], undone)
=============================================================================
