-------------------------------- MODULE Fifo --------------------------------
(***************************************************************************)
(* First-in first-out allocation of demands to lots, in closed form.       *)
(*                                                                         *)
(* Both allocators of the program, plan_export_rows and                    *)
(* allocate_export, walk the demands in one order and, for each of them,   *)
(* the lots of its part number from the oldest to the youngest, taking     *)
(* min(needed, available) from each.  Seen along the part number's stock,  *)
(* the demands occupy consecutive intervals of units and so do the lots:   *)
(* what demand e takes from lot l is the length of the overlap of the two  *)
(* intervals.  PlanLoop and MatchLoop check that the loops compute exactly *)
(* this; Ledger uses it as the effect of one call.                         *)
(*                                                                         *)
(* A sum of quantities is the number of the units it counts, so that no    *)
(* definition here is recursive; sorting, too, is put in terms of numbers  *)
(* of elements, instead of the library's recursive SetToSortSeq, for the   *)
(* proofs about the two loops.                                             *)
(***************************************************************************)
EXTENDS Integers, FiniteSets

(* The individual units of the quantities q[x], x in S, and their number.  *)
Units(q, S) == UNION {{x} \X (1 .. q[x]) : x \in S}

Total(q, S) == Cardinality(Units(q, S))

Nonneg(n) == IF n > 0 THEN n ELSE 0

(* The number of units common to a .. a+m-1 and b .. b+n-1.                *)
Overlap(a, m, b, n) ==
    LET start == IF a >= b THEN a ELSE b
        end   == IF a + m <= b + n THEN a + m ELSE b + n
    IN  Nonneg(end - start)

(* The elements that before is defined on, sorted: before[x] is the set of *)
(* those that come before x.                                               *)
Sorted(before) ==
    [i \in 1 .. Cardinality(DOMAIN before) |->
        CHOOSE x \in DOMAIN before : Cardinality(before[x]) = i - 1]

(***************************************************************************)
(* sooner[e]: the demands for e's part number served before e.             *)
(* older[l]:  the lots of l's part number used before l.                   *)
(* fits:      the pairs <<e, l>> with equal part numbers.                  *)
(***************************************************************************)
FifoTake(need, avail, sooner, older, fits) ==
    [p \in (DOMAIN need) \X (DOMAIN avail) |->
        IF p \in fits
        THEN Overlap(Total(need, sooner[p[1]]), need[p[1]],
                     Total(avail, older[p[2]]), avail[p[2]])
        ELSE 0]

(* The pairs <<e, l>> such that e still wants something when the walk      *)
(* reaches the nonempty lot l, whatever earlier demands have left of it.   *)
Reached(need, avail, sooner, older, fits) ==
    {p \in fits :
        /\ need[p[1]] > 0
        /\ avail[p[2]] > 0
        /\ Total(need, sooner[p[1]]) + need[p[1]] > Total(avail, older[p[2]])}
=============================================================================
