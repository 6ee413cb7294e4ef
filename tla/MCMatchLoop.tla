----------------------------- MODULE MCMatchLoop ----------------------------
(* Two exports against two lots, so that the second export meets lots    *)
(* the first has emptied in the same session, and exports that earlier     *)
(* runs have matched in part.                                              *)
EXTENDS MatchLoop

MCDemands == 1 .. 2
MCLots == 1 .. 2
MCDates == 1 .. 2
MCNeeds == 0 .. 2
MCBalances == 0 .. 3
MCMatched == 0 .. 1
=============================================================================
