------------------------------ MODULE MatchLoop -----------------------------
(***************************************************************************)
(* run_matching and allocate_export (app/services/matching.py) step by     *)
(* step, inside one database session.                                      *)
(*                                                                         *)
(* The session does not flush before a query (app/db.py, autoflush=False): *)
(* the two queries of allocate_export see the database as it was when the  *)
(* run began, while the lot objects they return are the session's own and  *)
(* already carry what earlier exports of the same run have taken.          *)
(***************************************************************************)
EXTENDS Fifo, FiniteSetsExt, Sequences

CONSTANTS Demands, Lots, Parts, Dates, Needs, Balances, Unanswered,
          Matched              \* what earlier runs may have matched of a row

ASSUME MatchAssumption ==
    /\ Demands \subseteq Nat /\ Demands # {} /\ IsFiniteSet(Demands)
    /\ Lots \subseteq Nat /\ IsFiniteSet(Lots)
    /\ Dates \subseteq Nat
    /\ Needs \subseteq Nat
    /\ Balances \subseteq Nat
    /\ Matched \subseteq Nat

VARIABLES request,     \* the exports and lots the run finds in the database
          matchedBefore, \* sum of the allocations an export has in it
          remaining,   \* remaining_qty of the lot objects of the session
          row,         \* position in the list of matchable exports
          candidates,  \* result of the query for the current export
          required,    \* what the current export still needs
          allocations, \* ExportAllocation objects added to the session
          status,      \* status of the export objects
          pc           \* "query", "walk", "commit", "done"

vars == <<request, matchedBefore, remaining, row, candidates, required,
          allocations, status, pc>>

AllocationRow == [export : Demands, lot : Lots, qty : Nat, after : Nat]

(* Quantity added for each pair: what the commit makes of the session.     *)
AddedQty ==
    [p \in Demands \X Lots |->
        LET rows == {i \in DOMAIN allocations :
                        /\ allocations[i].export = p[1]
                        /\ allocations[i].lot = p[2]}
        IN  Total([i \in rows |-> allocations[i].qty], rows)]

Service == INSTANCE FifoService WITH
              answer <- IF pc = "done" THEN AddedQty ELSE Unanswered

(* order_by(export_date, part_number, origin, id), as the demands' numbers *)
OrderedExports == Sorted([e \in Demands |-> {d \in Demands : d < e}])

Export == OrderedExports[row]

(* required_qty of an export: its outstanding need and what was matched.   *)
RequiredQty(e) == request.need[e] + matchedBefore[e]

Init ==
    /\ request \in Service!Requests
    /\ matchedBefore \in [Demands -> Matched]
    /\ \A e \in Demands : RequiredQty(e) > 0
    /\ remaining = request.avail
    /\ row = 1
    /\ candidates = <<>>
    /\ required = 0
    /\ allocations = <<>>
    /\ status = [e \in Demands |->
                    IF matchedBefore[e] > 0 THEN "partial_matched" ELSE "pending"]
    /\ pc = "query"

NextExport ==
    IF row < Len(OrderedExports)
    THEN row' = row + 1 /\ pc' = "query"
    ELSE row' = row /\ pc' = "commit"

(* existing_matched covers the whole row: another run has matched it since *)
(* this run listed the matchable exports.  No candidates are read.         *)
AlreadyMatched ==
    /\ pc = "query"
    /\ RequiredQty(Export) - matchedBefore[Export] <= 0
    /\ status' = [status EXCEPT ![Export] = "matched"]
    /\ NextExport
    /\ UNCHANGED <<request, matchedBefore, remaining, candidates, required, allocations>>

(* Faulty_ definitions are plausible mistakes in the definition they       *)
(* precede; each shows that a property of this module can fail.            *)
Faulty_HasBalance(l) == remaining[l] > 0

HasBalance(l) == request.avail[l] > 0

Faulty_FifoOrder(S) == Sorted([l \in S |-> {m \in S : m < l}])

FifoOrder(S) ==
    Sorted([l \in S |-> {m \in S : Service!OlderThan(request, m, l)}])

(* The candidate query filters and sorts by the values in the database.    *)
QueryLots ==
    /\ pc = "query"
    /\ RequiredQty(Export) - matchedBefore[Export] > 0
    /\ required' = RequiredQty(Export) - matchedBefore[Export]
    /\ candidates' = FifoOrder({l \in Lots : request.holds[l] = request.wants[Export]
                                             /\ HasBalance(l)})
    /\ pc' = "walk"
    /\ UNCHANGED <<request, matchedBefore, remaining, row, allocations, status>>

Faulty_MatchedFrom(lot) == Min({required, request.avail[lot]})

MatchedFrom(lot) == Min({required, remaining[lot]})

Faulty_BalanceAfter(lot) == request.avail[lot] - MatchedFrom(lot)

BalanceAfter(lot) == remaining[lot] - MatchedFrom(lot)

(* One turn of "for lot in candidates", on the session's lot object.       *)
AllocateLot ==
    /\ pc = "walk"
    /\ candidates # <<>>
    /\ required > 0
    /\ LET lot == Head(candidates)
       IN  /\ remaining' = [remaining EXCEPT ![lot] = BalanceAfter(lot)]
           /\ required' = required - MatchedFrom(lot)
           /\ allocations' = Append(allocations,
                [export |-> Export, lot |-> lot, qty |-> MatchedFrom(lot),
                 after |-> BalanceAfter(lot)])
    /\ candidates' = Tail(candidates)
    /\ UNCHANGED <<request, matchedBefore, row, status, pc>>

Faulty_TotalMatched(e) == request.need[e] - required

TotalMatched(e) == RequiredQty(e) - required

SetStatus ==
    /\ pc = "walk"
    /\ candidates = <<>> \/ required <= 0
    /\ status' = [status EXCEPT ![Export] =
                    IF required = 0 THEN "matched"
                    ELSE IF TotalMatched(Export) > 0 THEN "partial_matched"
                    ELSE "insufficient_stock"]
    /\ NextExport
    /\ UNCHANGED <<request, matchedBefore, remaining, candidates, required, allocations>>

Commit ==
    /\ pc = "commit"
    /\ pc' = "done"
    /\ UNCHANGED <<request, matchedBefore, remaining, row, candidates, required,
                   allocations, status>>

Next == AlreadyMatched \/ QueryLots \/ AllocateLot \/ SetStatus \/ Commit

Spec == Init /\ [][Next]_vars /\ WF_vars(Next)

-----------------------------------------------------------------------------
TypeOK ==
    /\ request \in Service!Requests
    /\ matchedBefore \in [Demands -> Matched]
    /\ remaining \in [Lots -> Nat]
    /\ row \in DOMAIN OrderedExports
    /\ candidates \in Seq(Lots)
    /\ required \in Nat
    /\ allocations \in Seq(AllocationRow)
    /\ status \in [Demands -> {"pending", "partial_matched", "matched",
                               "insufficient_stock"}]
    /\ pc \in {"query", "walk", "commit", "done"}

MatchedNow(e) == Total([l \in Lots |-> AddedQty[<<e, l>>]], Lots)

(* Although every query reads balances from before the run, the lots of    *)
(* the session never give away more than they held: the balance of a lot   *)
(* and the rows added against it always add up to what it started with.    *)
NothingMatchedTwice ==
    \A l \in Lots : remaining[l] + Total([e \in Demands |-> AddedQty[<<e, l>>]], Demands)
                        = request.avail[l]

(* When the run commits, the status of every export tells the truth about  *)
(* its allocations, earlier runs' included.                                *)
StatusTellsTotal ==
    pc = "done" => \A e \in Demands :
        /\ status[e] = "matched" <=> MatchedNow(e) + matchedBefore[e] = RequiredQty(e)
        /\ status[e] = "insufficient_stock" <=> MatchedNow(e) + matchedBefore[e] = 0

(* The allocation rows a run leaves, empty ones included, are those of the *)
(* closed form Ledger uses.                                                *)
RowsAreTheReached ==
    pc = "done" =>
        {<<allocations[i].export, allocations[i].lot>> : i \in DOMAIN allocations}
            = Reached(request.need, request.avail, Service!Sooner(request),
                      Service!Older(request), Service!Fits(request))

(* README.md:23: only lots whose remaining quantity is above zero are      *)
(* used.  Here: a row that takes from a lot takes something.               *)
OnlyPositiveBalances ==
    \A i \in DOMAIN allocations : allocations[i].qty > 0

(* The session's loop implements the one-step FIFO service, and it ends.   *)
ImplementsFifo == Service!Spec
=============================================================================
