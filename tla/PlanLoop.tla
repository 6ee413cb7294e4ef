------------------------------ MODULE PlanLoop ------------------------------
(***************************************************************************)
(* plan_export_rows (app/services/allocation_plans.py) step by step: the   *)
(* in-memory planner behind the export preview.  For each export row, in   *)
(* row order, it walks the lots sorted by (acceptance date, declaration,   *)
(* line, row), skips empty lots and lots of other part numbers, and takes  *)
(* min(needed, remaining) from the others until nothing is needed.         *)
(***************************************************************************)
EXTENDS Fifo, FiniteSetsExt, Sequences

CONSTANTS Demands, Lots, Parts, Dates, Needs, Balances, Unanswered

ASSUME PlanAssumption ==
    /\ Demands \subseteq Nat /\ Demands # {} /\ IsFiniteSet(Demands)
    /\ Lots \subseteq Nat /\ IsFiniteSet(Lots)
    /\ Dates \subseteq Nat
    /\ Needs \subseteq Nat
    /\ Balances \subseteq Nat

VARIABLES request,     \* the input: see FifoService!Requests
          available,   \* dict lot id -> quantity not yet planned
          row,         \* position in exports
          pos,         \* position in ordered_lots
          needed,      \* what the current row still needs
          taken,       \* the PlannedAllocations so far: quantity per pair
          after,       \* and their remaining_qty_after
          shortage,    \* shortage_qty of the finished rows
          finished     \* plans returned

vars == <<request, available, row, pos, needed, taken, after, shortage, finished>>

Service == INSTANCE FifoService WITH
              answer <- IF finished THEN taken ELSE Unanswered

Pairs == Demands \X Lots

OrderedExports == Sorted([e \in Demands |-> {d \in Demands : d < e}])

(* Faulty_ definitions are plausible mistakes in the definition they       *)
(* precede; each shows that a property of this module can fail.            *)
Faulty_OrderedLots == Sorted([l \in Lots |-> {m \in Lots : m < l}])

(* sorted(lots, key=(import_accepted_date, declaration, line, row))        *)
OrderedLots ==
    Sorted([l \in Lots |-> {m \in Lots : Service!OlderThan(request, m, l)}])

Init ==
    /\ request \in Service!Requests
    /\ available = [l \in Lots |-> Nonneg(request.avail[l])]
    /\ row = 1
    /\ pos = 1
    /\ needed = Nonneg(request.need[OrderedExports[1]])
    /\ taken = [p \in Pairs |-> 0]
    /\ after = [p \in Pairs |-> 0]
    /\ shortage = [e \in Demands |-> 0]
    /\ finished = FALSE

Export == OrderedExports[row]
Lot    == OrderedLots[pos]

Faulty_Walking == ~finished /\ pos < Len(OrderedLots) /\ needed # 0

(* The inner loop is still running: lots are left and something is needed. *)
Walking == ~finished /\ pos <= Len(OrderedLots) /\ needed # 0

(* "continue": the lot is empty, or holds another part number.             *)
SkipLot ==
    /\ Walking
    /\ \/ available[Lot] <= 0
       \/ request.holds[Lot] # request.wants[Export]
    /\ pos' = pos + 1
    /\ UNCHANGED <<request, available, row, needed, taken, after, shortage, finished>>

Faulty_Quantity == needed

Quantity == Min({needed, available[Lot]})

Faulty_AvailableAfter == available[Lot]

AvailableAfter == available[Lot] - Quantity

Faulty_RecordedAfter == available[Lot]

(* remaining_qty_after is read back from the dict the loop has updated.    *)
RecordedAfter == available'[Lot]

TakeLot ==
    /\ Walking
    /\ available[Lot] > 0
    /\ request.holds[Lot] = request.wants[Export]
    /\ available' = [available EXCEPT ![Lot] = AvailableAfter]
    /\ needed' = needed - Quantity
    /\ taken' = [taken EXCEPT ![<<Export, Lot>>] = Quantity]
    /\ after' = [after EXCEPT ![<<Export, Lot>>] = RecordedAfter]
    /\ pos' = pos + 1
    /\ UNCHANGED <<request, row, shortage, finished>>

Faulty_Shortfall == request.need[Export]

Shortfall == needed

(* plans.append(...) and on to the next row, or return.                    *)
FinishExport ==
    /\ ~finished
    /\ ~Walking
    /\ shortage' = [shortage EXCEPT ![Export] = Shortfall]
    /\ IF row < Len(OrderedExports)
       THEN /\ row' = row + 1
            /\ pos' = 1
            /\ needed' = Nonneg(request.need[OrderedExports[row + 1]])
            /\ UNCHANGED finished
       ELSE /\ finished' = TRUE
            /\ UNCHANGED <<row, pos, needed>>
    /\ UNCHANGED <<request, available, taken, after>>

Next == SkipLot \/ TakeLot \/ FinishExport

Spec == Init /\ [][Next]_vars /\ WF_vars(Next)

-----------------------------------------------------------------------------
TakenFrom(l) == Total([e \in Demands |-> taken[<<e, l>>]], Demands)
TakenFor(e)  == Total([l \in Lots |-> taken[<<e, l>>]], Lots)

TypeOK ==
    /\ request \in Service!Requests
    /\ available \in [Lots -> Nat]
    /\ row \in DOMAIN OrderedExports
    /\ pos \in 1 .. Len(OrderedLots) + 1
    /\ needed \in Nat
    /\ taken \in [Pairs -> Nat]
    /\ after \in [Pairs -> Nat]
    /\ shortage \in [Demands -> Nat]
    /\ finished \in BOOLEAN

(* At every point of the loop what is still available of a lot and what    *)
(* the rows have taken from it add up to its balance: the planner hands    *)
(* out no unit twice, whatever the order of dates and part numbers.        *)
NothingPlannedTwice == \A l \in Lots : available[l] + TakenFrom(l) = request.avail[l]

(* A finished plan says of each row how much is allocated and how much is  *)
(* short, and the two add up to what the row requires (shortage_qty is     *)
(* what the NO MATCH line of the result shows).                            *)
ShortageExplained ==
    finished => \A e \in Demands : TakenFor(e) + shortage[e] = request.need[e]

(* A row is short only of a part number of which nothing is left.          *)
ShortOnlyWhenEmpty ==
    finished => \A e \in Demands : shortage[e] > 0 =>
        \A l \in Lots : request.holds[l] = request.wants[e] => available[l] = 0

(* remaining_qty_after of a planned allocation is the balance minus what   *)
(* this row and the rows before it take from the lot: the numbers the      *)
(* reviewer sees form one consistent statement of account.                 *)
BalanceAfterAddsUp ==
    \A p \in Pairs : taken[p] > 0 =>
        after[p] = request.avail[p[2]]
                   - Total([e \in Demands |-> taken[<<e, p[2]>>]],
                           {e \in Demands : e <= p[1]})

(* The loop implements the one-step FIFO service, and it returns.          *)
ImplementsFifo == Service!Spec
=============================================================================
