----------------------------- MODULE MCPlanLoop -----------------------------
(* Two rows, three lots, two part numbers, two dates: rows of the same and *)
(* of different part numbers, lots in and out of number order, a lot split *)
(* between rows and a row split over lots, and shortages.                  *)
EXTENDS PlanLoop

MCDemands == 1 .. 2
MCLots == 1 .. 3
MCDates == 1 .. 2
MCNeeds == 1 .. 3
MCBalances == 0 .. 2
=============================================================================
