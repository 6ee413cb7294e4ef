----------------------------- MODULE MCSessions -----------------------------
EXTENDS Sessions

MCLotRank == [l \in Lots |-> IF l = "old" THEN 1 ELSE 2]
MCStock == [l \in Lots |-> IF l = "old" THEN 2 ELSE 3]
MCNeed == [f \in Files |-> CASE f = "f" -> 1 [] f = "g" -> 2 [] f = "h" -> 4]

Do(op, file) == [op |-> op, file |-> file]

(* Three files are previewed, confirmed and reverted; f and g are confirmed *)
(* by two users at once.                                                   *)
MCTask ==
    [s \in Sessions |->
        CASE s = "p1" -> Do("preview", "f")
          [] s = "p2" -> Do("preview", "g")
          [] s = "p3" -> Do("preview", "h")
          [] s \in {"c1", "c2"} -> Do("confirm", "f")
          [] s \in {"c3", "c4"} -> Do("confirm", "g")
          [] s = "c5" -> Do("confirm", "h")
          [] s = "r1" -> Do("revert", "f")
          [] s = "r2" -> Do("revert", "g")]
=============================================================================
