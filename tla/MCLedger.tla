------------------------------ MODULE MCLedger ------------------------------
EXTENDS Reports

ImportRow(k, d, n, m) == [key |-> k, date |-> d, import |-> n, remaining |-> m, ok |-> TRUE]
ExportRow(part, d, n) == [part |-> part, date |-> d, qty |-> n, ok |-> TRUE]

MCBatches == 1 .. 3
MCKeys == {"k1", "k2"}
FourBatches == 1 .. 4
MCDates == 1 .. 2
MCPartOf == [k \in Keys |-> "p"]
MCLotRank == [k \in Keys |-> IF k = "k1" THEN 1 ELSE 2]

(* Against the row order within a batch, so that the two workflows serve   *)
(* the rows of one file in different orders.                               *)
MCIdRank == [r \in Batches \X (1 .. MaxRows) |-> (5 - r[1]) * MaxRows - r[2]]

(* One file opens both lots, the younger one first, one of them partly     *)
(* used; the other imports the first lot again with other values.          *)
TwoLots == <<ImportRow("k1", 2, 2, 1), ImportRow("k2", 1, 1, 1)>>
OtherLot == ImportRow("k1", 1, 2, 2)
BadRow == [ImportRow("k2", 1, 1, 1) EXCEPT !.ok = FALSE]

OneRow == <<ExportRow("p", 1, 2)>>

MixedImportFiles == {TwoLots}
OverlappingImportFiles == {TwoLots, <<ImportRow("k2", 1, 1, 1)>>}
PageImportFiles == {TwoLots, <<OtherLot, BadRow>>}
MixedExportFiles == {OneRow}
RowAndError == <<ExportRow("p", 1, 2), [ExportRow("p", 1, 1) EXCEPT !.ok = FALSE]>>
PageExportFiles == {OneRow, RowAndError}

(* A file of two rows, which the two workflows serve in opposite orders,   *)
(* beside a file of one.                                                   *)
PairOfRows == <<ExportRow("p", 1, 2), ExportRow("p", 1, 1)>>
CarefulImportFiles == {TwoLots, <<OtherLot>>}
CarefulExportFiles == {<<ExportRow("p", 2, 1)>>, PairOfRows}

(* Batch identifiers are interchangeable but for IdRank: a new batch takes *)
(* the lowest free one.                                                    *)
LowestFreeBatch ==
    \A b, c \in Batches : b < c /\ kind[c] = "none" /\ kind'[c] # "none" => kind[b] # "none"

(* Bound: one file of two rows at a time.                                  *)
OnePairOfRows ==
    LowestFreeBatch /\ \A b, c \in Batches : file'[b] = PairOfRows /\ file'[c] = PairOfRows => b = c
=============================================================================
