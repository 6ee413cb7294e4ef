---------------------------- MODULE BooksProofs ----------------------------
(***************************************************************************)
(* The books balance for any files, orders and mix of operations, as long  *)
(* as the direct workflow leaves reverted files alone; and allocation is   *)
(* first in, first out whatever users do.                                  *)
(*                                                                         *)
(* The argument for the books: what is used of an active lot is what its   *)
(* row said was used and its units held by files that are not reverted.    *)
(* Every step changes a lot's balances by what it adds to, or takes from,  *)
(* the units held.  The argument for the order is FifoProofs': the units   *)
(* demanded leave no gap in the stock.                                     *)
(***************************************************************************)
EXTENDS LedgerProofs

(* The units of lot k that requirement r holds, and all units held.        *)
Share(r, k) == IF r[1] \in reverted THEN 0 ELSE alloc[<<r, k>>]
Held(k) == Total([r \in Reqs |-> Share(r, k)], Reqs)

(* Lot l was opened by the row, and h units of it are held.                *)
Balances(l, row, h) ==
    /\ row.import \in Nat /\ row.remaining \in Nat /\ row.remaining <= row.import
    /\ l.import = row.import
    /\ l.used = row.import - row.remaining + h
    /\ l.used + l.remaining = l.import

Books == \A k \in ActiveLots : Balances(lot[k], OpeningRow(k), Held(k))

LEMMA PairsOf == \A r \in Reqs, k \in Keys : <<r, k>> \in Pairs
BY DEF Pairs

LEMMA ShareType ==
  ASSUME TypeOK, NEW k \in Keys
  PROVE  /\ \A r \in Reqs : Share(r, k) \in Nat
         /\ Quantities([r \in Reqs |-> Share(r, k)], Reqs)
         /\ Held(k) \in Nat
<1>1. \A r \in Reqs : Share(r, k) \in Nat
  BY PairsOf DEF TypeOK, Share
<1>2. Quantities([r \in Reqs |-> Share(r, k)], Reqs)
  BY <1>1, FiniteTables DEF Quantities
<1> QED
  BY <1>1, <1>2, TotalType DEF Held

(* Only requirements hold units.                                           *)
LEMMA HeldIsDrawn ==
  ASSUME IInv, NEW k \in Keys
  PROVE  Held(k) = DrawnQty(alloc, k, {r \in Created : r[1] \notin reverted})
<1> DEFINE live == {r \in Created : r[1] \notin reverted}
           all == [r \in Reqs |-> Share(r, k)]
           some == [r \in live |-> alloc[<<r, k>>]]
<1>1. live \subseteq Reqs
  BY DEF Created
<1>2. \A r \in live : all[r] = some[r]
  BY <1>1 DEF Share
<1>3. \A r \in Reqs \ live : all[r] = 0
  BY CreatedFacts DEF Share
<1> HIDE DEF all, some, live
<1>4. Total(all, Reqs) = Total(some, live)
  BY <1>1, <1>2, <1>3, TotalSupport
<1> QED
  BY <1>4 DEF Held, DrawnQty, all, some, live

LEMMA BooksSay == IInv /\ Books => BooksBalance
<1> SUFFICES ASSUME IInv, Books, NEW k \in ActiveLots
             PROVE  LET live == {r \in Created : r[1] \notin reverted}
                    IN  /\ lot[k].import = OpeningRow(k).import
                        /\ lot[k].used = OpeningRow(k).import - OpeningRow(k).remaining
                                            + DrawnQty(alloc, k, live)
                        /\ lot[k].used + lot[k].remaining = lot[k].import
  BY DEF BooksBalance
<1>1. k \in Keys
  BY DEF ActiveLots
<1> QED
  BY <1>1, HeldIsDrawn DEF Books, Balances
-----------------------------------------------------------------------------
(* The file that opened a lot is kept.                                     *)
FilesKept ==
    \A b \in confirmed : file'[b] = file[b] /\ rowStatus'[b] = rowStatus[b]

LEMMA FilesStay ==
  ASSUME IInv, [Next]_vars
  PROVE  FilesKept
<1>1. CASE Preview
  BY <1>1 DEF Preview, PreviewImports, PreviewExports, PreviewExportRun, NewBatch,
              IInv, TypeOK, Origins, FilesKept
<1>2. CASE Save
  <2>1. ASSUME NEW b \in Batches, DeleteUnconfirmed(b)
        PROVE  FilesKept
    BY <2>1 DEF DeleteUnconfirmed, DropBatch, IInv, TypeOK, FilesKept
  <2> QED
    BY <1>2, <2>1 DEF Save, ConfirmImports, ConfirmExports, ConfirmMatchRun, Confirm, FilesKept
<1>3. CASE Match \/ Undo \/ WithdrawImports \/ WithdrawExports
  BY <1>3 DEF Match, Undo, WithdrawImports, WithdrawExports, RunMatching, UndoMatching,
              InvalidateImports, InvalidateExports, batchVars, FilesKept
<1>4. CASE Revert
  BY <1>4 DEF Revert, RevertMatchRun, FilesKept
<1>5. CASE UNCHANGED vars
  BY <1>5 DEF vars, batchVars, FilesKept
<1> QED
  BY <1>1, <1>2, <1>3, <1>4, <1>5 DEF Next

LEMMA OpeningStays ==
  ASSUME IInv, FilesKept, NEW k \in ActiveLots, owner'[k] = owner[k]
  PROVE  OpeningRow(k)' = OpeningRow(k)
<1>1. owner[k] \in confirmed
  BY DEF ActiveLots, Active, IInv, TypeOK
<1> DEFINE b == owner[k]
<1>2. /\ owner'[k] = b /\ file'[b] = file[b] /\ rowStatus'[b] = rowStatus[b]
  BY <1>1 DEF FilesKept
<1>3. OpeningRow(k)' =
        file'[b][CHOOSE i \in {i \in DOMAIN rowStatus'[b] : rowStatus'[b][i] = "new"}
                            \cup {i \in DOMAIN rowStatus'[b] : rowStatus'[b][i] = "reactivate"} :
                     file'[b][i].key = k]
  BY <1>2 DEF OpeningRow, RowsWith
<1>4. OpeningRow(k) =
        file[b][CHOOSE i \in {i \in DOMAIN rowStatus[b] : rowStatus[b][i] = "new"}
                           \cup {i \in DOMAIN rowStatus[b] : rowStatus[b][i] = "reactivate"} :
                    file[b][i].key = k]
  BY DEF OpeningRow, RowsWith
<1> HIDE DEF b
<1> QED
  BY <1>2, <1>3, <1>4

(* A lot a step leaves alone.                                              *)
LEMMA BooksKept ==
  ASSUME IInv, Books, FilesKept, NEW k \in ActiveLots,
         owner'[k] = owner[k], lot'[k] = lot[k],
         \A r \in Reqs : Share(r, k)' = Share(r, k)
  PROVE  Balances(lot[k], OpeningRow(k), Held(k))'
<1>1. Held(k)' = Held(k)
  BY DEF Held
<1> QED
  BY <1>1, OpeningStays DEF Books, Balances

(* A lot of which requirements get what g says.                            *)
LEMMA BooksDrawn ==
  ASSUME IInv, Books, FilesKept, NEW k \in ActiveLots, owner'[k] = owner[k],
         NEW g \in [Reqs -> Nat], NEW n, n = Total(g, Reqs),
         lot'[k] = [lot[k] EXCEPT !.remaining = @ - n, !.used = @ + n],
         \A r \in Reqs : Share(r, k)' = Share(r, k) + g[r]
  PROVE  Balances(lot[k], OpeningRow(k), Held(k))'
<1> DEFINE q == [r \in Reqs |-> Share(r, k)]
<1>1. k \in Keys
  BY DEF ActiveLots
<1>2. Quantities(q, Reqs) /\ Quantities(g, Reqs)
  BY <1>1, ShareType, FiniteTables DEF IInv, Quantities
<1>3. [r \in Reqs |-> Share(r, k)'] = [r \in Reqs |-> q[r] + g[r]]
  OBVIOUS
<1>4. Held(k)' = Total([r \in Reqs |-> q[r] + g[r]], Reqs)
  BY <1>3 DEF Held
<1>5. Held(k) = Total(q, Reqs)
  BY DEF Held
<1> HIDE DEF q
<1>6. Held(k)' = Held(k) + n
  BY <1>2, <1>4, <1>5, TotalSum
<1>7. Held(k) \in Nat /\ n \in Nat
  BY <1>1, <1>2, ShareType, TotalType DEF IInv
<1>8. lot[k] \in LotStates
  BY <1>1 DEF IInv, TypeOK
<1>9. /\ lot'[k].import = lot[k].import /\ lot'[k].used = lot[k].used + n
      /\ lot'[k].remaining = lot[k].remaining - n
      /\ lot[k].import \in Nat /\ lot[k].used \in Nat /\ lot[k].remaining \in Nat
  BY <1>8 DEF LotStates
<1>10. Balances(lot[k], OpeningRow(k), Held(k)) /\ OpeningRow(k)' = OpeningRow(k)
  BY OpeningStays DEF Books
<1> QED
  BY <1>6, <1>7, <1>9, <1>10 DEF Balances

(* A lot that gets back what the requirements in S held.                   *)
LEMMA BooksGivenBack ==
  ASSUME IInv, Books, FilesKept, NEW k \in ActiveLots, owner'[k] = owner[k],
         NEW S \in SUBSET Reqs, lot' = Restored(S),
         \A r \in S : r[1] \notin reverted /\ Share(r, k)' = 0,
         \A r \in Reqs \ S : Share(r, k)' = Share(r, k)
  PROVE  Balances(lot[k], OpeningRow(k), Held(k))'
<1> DEFINE q == [r \in Reqs |-> Share(r, k)']
           g == [r \in Reqs |-> IF r \in S THEN alloc[<<r, k>>] ELSE 0]
           s == [r \in S |-> alloc[<<r, k>>]]
           n == DrawnQty(alloc, k, S)
<1>1. k \in Keys
  BY DEF ActiveLots
<1>2. \A r \in Reqs : q[r] \in Nat /\ g[r] \in Nat /\ Share(r, k) = q[r] + g[r]
  <2> SUFFICES ASSUME NEW r \in Reqs
               PROVE  q[r] \in Nat /\ g[r] \in Nat /\ Share(r, k) = q[r] + g[r]
    OBVIOUS
  <2>1. Share(r, k) \in Nat /\ alloc[<<r, k>>] \in Nat
    BY <1>1, ShareType, PairsOf DEF IInv, TypeOK
  <2>2. CASE r \in S
    <3>1. q[r] = 0 /\ g[r] = alloc[<<r, k>>] /\ Share(r, k) = alloc[<<r, k>>]
      BY <2>2 DEF Share
    <3> QED
      BY <2>1, <3>1
  <2>3. CASE r \notin S
    <3>1. q[r] = Share(r, k) /\ g[r] = 0
      BY <2>3
    <3> QED
      BY <2>1, <3>1
  <2> QED
    BY <2>2, <2>3
<1>3. Quantities(q, Reqs) /\ Quantities(g, Reqs)
  BY <1>2, FiniteTables DEF Quantities
<1>4. Held(k) = Total([r \in Reqs |-> q[r] + g[r]], Reqs)
  <2>1. [r \in Reqs |-> Share(r, k)] = [r \in Reqs |-> q[r] + g[r]]
    BY <1>2
  <2> QED
    BY <2>1 DEF Held
<1>5. Held(k)' = Total(q, Reqs)
  BY DEF Held
<1>6. n = Total(s, S)
  BY DEF DrawnQty
<1>7. /\ \A r \in S : g[r] = s[r]
      /\ \A r \in Reqs \ S : g[r] = 0
  OBVIOUS
<1> HIDE DEF q, g, s
<1>8. Total(g, Reqs) = n
  BY <1>6, <1>7, TotalSupport
<1> HIDE DEF n
<1>9. Held(k) = Held(k)' + n
  BY <1>3, <1>4, <1>5, <1>8, TotalSum
<1>10. Held(k)' \in Nat /\ n \in Nat
  BY <1>3, <1>5, <1>8, TotalType
<1>11. lot[k] \in LotStates /\ lot'[k] = GiveBack(lot[k], n)
  BY <1>1 DEF IInv, TypeOK, Restored, n
<1>12. /\ lot'[k].import = lot[k].import /\ lot'[k].used = Nonneg(lot[k].used - n)
       /\ lot'[k].remaining = lot[k].remaining + n
       /\ lot[k].import \in Nat /\ lot[k].used \in Nat /\ lot[k].remaining \in Nat
  BY <1>11 DEF LotStates, GiveBack
<1>13. Balances(lot[k], OpeningRow(k), Held(k)) /\ OpeningRow(k)' = OpeningRow(k)
  BY OpeningStays DEF Books
<1>14. lot[k].used >= n
  BY <1>9, <1>10, <1>13 DEF Balances
<1> QED
  BY <1>9, <1>10, <1>12, <1>13, <1>14 DEF Balances, Nonneg
-----------------------------------------------------------------------------
(* Steps that change neither lots, nor stamps, nor allocations.            *)
LEMMA UnmovedBooks ==
  ASSUME IInv, Books, FilesKept, UNCHANGED <<owner, lot, alloc, reverted, invalidated>>
  PROVE  Books'
<1>1. \A k \in ActiveLots' : k \in ActiveLots
  BY DEF ActiveLots, Active
<1>2. ASSUME NEW k \in ActiveLots'
      PROVE  Balances(lot[k], OpeningRow(k), Held(k))'
  BY <1>1, BooksKept DEF Share
<1> QED
  BY <1>2 DEF Books

LEMMA ConfirmImportsBooks ==
  ASSUME IInv, Books, FilesKept, NEW b \in Batches, ConfirmImports(b)
  PROVE  Books'
<1> DEFINE rows == RowsWith(b, "new") \cup RowsWith(b, "reactivate")
           saved == {file[b][i].key : i \in rows}
           rowFor(k) == CHOOSE i \in rows : file[b][i].key = k
<1>1. /\ kind[b] = "imports" /\ KeysFree(b)
      /\ owner' = [k \in Keys |-> IF k \in saved THEN b ELSE owner[k]]
      /\ lot' = [k \in Keys |-> IF k \in saved THEN LotOf(file[b][rowFor(k)]) ELSE lot[k]]
      /\ UNCHANGED <<file, rowStatus, reverted, invalidated, alloc>>
  BY DEF ConfirmImports, Confirm, reqVars
<1>2. file[b] \in ImportFiles /\ rows \subseteq DOMAIN file[b]
  BY <1>1 DEF IInv, TypeOK, RowsWith
<1>3. ASSUME NEW k \in ActiveLots', k \in saved
      PROVE  Balances(lot[k], OpeningRow(k), Held(k))'
  <2>1. k \in Keys
    BY DEF ActiveLots
  <2>2. PICK j \in rows : file[b][j].key = k
    BY <1>3
  <2>3. ~Active(k)
    BY <1>1, <2>2 DEF KeysFree, Active
  <2>4. ASSUME NEW r \in Reqs PROVE alloc[<<r, k>>] = 0
    <3>1. <<r, k>> \in Pairs /\ alloc[<<r, k>>] \in Nat
      BY <2>1, PairsOf DEF IInv, TypeOK
    <3>2. ~(alloc[<<r, k>>] > 0)
      BY <2>3, <3>1 DEF IInv, NoAllocationOnInvalidated
    <3> QED
      BY <3>1, <3>2
  <2>5. Held(k)' = 0
    <3> DEFINE q == [r \in Reqs |-> Share(r, k)']
    <3>1. \A r \in Reqs : q[r] = 0
      BY <1>1, <2>4 DEF Share
    <3> HIDE DEF q
    <3>2. Total(q, Reqs) = 0
      BY <3>1, TotalZero
    <3> QED
      BY <3>2 DEF Held, q
  <2> DEFINE row == file[b][rowFor(k)]
  <2>6. rowFor(k) \in rows
    BY <2>2
  <2>7. row \in ImportRows
    BY <1>2, <2>6, FileRows
  <2>8. lot'[k] = LotOf(row) /\ owner'[k] = b
    BY <1>1, <1>3, <2>1
  <2>9. OpeningRow(k)' = row
    <3>1. RowsWith(b, "new")' = RowsWith(b, "new")
          /\ RowsWith(b, "reactivate")' = RowsWith(b, "reactivate")
      BY <1>1 DEF RowsWith
    <3>2. OpeningRow(k)' =
            file'[b][CHOOSE i \in RowsWith(b, "new")' \cup RowsWith(b, "reactivate")' :
                         file'[b][i].key = k]
      BY <2>8 DEF OpeningRow, RowsWith
    <3> QED
      BY <1>1, <3>1, <3>2
  <2> HIDE DEF row
  <2> QED
    BY <2>5, <2>7, <2>8, <2>9 DEF Balances, LotOf, ImportRows
<1>4. ASSUME NEW k \in ActiveLots', k \notin saved
      PROVE  Balances(lot[k], OpeningRow(k), Held(k))'
  <2>1. k \in ActiveLots /\ owner'[k] = owner[k] /\ lot'[k] = lot[k]
    BY <1>1, <1>4 DEF ActiveLots, Active
  <2> QED
    BY <1>1, <2>1, BooksKept DEF Share
<1> QED
  BY <1>3, <1>4 DEF Books

(* The plan is for the rows of one file: sums over its rows are sums over  *)
(* its requirements.                                                       *)
LEMMA TotalOfFile ==
  ASSUME NEW q, NEW b, NEW R, Quantities([i \in R |-> q[<<b, i>>]], R)
  PROVE  Total([i \in R |-> q[<<b, i>>]], R) = Total(q, {b} \X R)
<1> DEFINE s == [i \in R |-> q[<<b, i>>]]
           U == Units(q, {b} \X R)
           f == [u \in Units(s, R) |-> <<<<b, u[1]>>, u[2]>>]
<1>1. \A u \in Units(s, R) : u[1] \in R /\ u[2] \in 1 .. s[u[1]] /\ u = <<u[1], u[2]>>
  <2> SUFFICES ASSUME NEW u \in Units(s, R)
               PROVE  u[1] \in R /\ u[2] \in 1 .. s[u[1]] /\ u = <<u[1], u[2]>>
    OBVIOUS
  <2>1. PICK i \in R : \E j \in 1 .. s[i] : u = <<i, j>>
    BY UnitsIn
  <2> QED
    BY <2>1
<1>2. f \in [Units(s, R) -> U]
  <2> SUFFICES ASSUME NEW u \in Units(s, R) PROVE <<<<b, u[1]>>, u[2]>> \in U
    OBVIOUS
  <2>1. <<b, u[1]>> \in {b} \X R /\ u[2] \in 1 .. q[<<b, u[1]>>]
    BY <1>1
  <2> QED
    BY <2>1, UnitsIn
<1>3. ASSUME NEW u \in Units(s, R), NEW v \in Units(s, R), f[u] = f[v]
      PROVE  u = v
  BY <1>1, <1>3
<1>4. ASSUME NEW w \in U
      PROVE  \E u \in Units(s, R) : f[u] = w
  <2>1. PICK x \in {b} \X R : \E j \in 1 .. q[x] : w = <<x, j>>
    BY UnitsIn
  <2>2. PICK j \in 1 .. q[x] : w = <<x, j>>
    BY <2>1
  <2>3. PICK i \in R : x = <<b, i>>
    BY <2>1
  <2>4. j \in 1 .. s[i]
    BY <2>2, <2>3
  <2>5. <<i, j>> \in Units(s, R)
    BY <2>4, UnitsIn
  <2>6. f[<<i, j>>] = w
    BY <2>2, <2>3, <2>5
  <2> QED
    BY <2>5, <2>6
<1>5. f \in Bijection(Units(s, R), U)
  BY <1>2, <1>3, <1>4 DEF Bijection, Injection, Surjection, IsInjective
<1>6. IsFiniteSet(Units(s, R))
  BY TotalType
<1> HIDE DEF f, s, U
<1>7. Cardinality(U) = Cardinality(Units(s, R))
  BY <1>5, <1>6, FS_Bijection DEF ExistsBijection
<1> QED
  BY <1>7 DEF Total, U, s

LEMMA ConfirmMatchRunBooks ==
  ASSUME IInv, Books, FilesKept, NEW b \in Batches, ConfirmMatchRun(b)
  PROVE  Books'
<1> DEFINE rows == RowsWith(b, "new")
           drawn(k) == Total([i \in rows |-> plan[b][<<i, k>>]], rows)
           mine(p) == p[1][1] = b /\ p[1][2] \in rows
<1>1. /\ kind[b] = "exports" /\ b \notin confirmed /\ b \notin reverted
      /\ lot' = [k \in Keys |-> [lot[k] EXCEPT !.remaining = @ - drawn(k), !.used = @ + drawn(k)]]
      /\ alloc' = [p \in Pairs |-> IF mine(p) THEN plan[b][<<p[1][2], p[2]>>] ELSE alloc[p]]
      /\ UNCHANGED <<owner, reverted, invalidated>>
  BY DEF ConfirmMatchRun, Confirm
<1>2. rows \subseteq Rows
  <2>1. rows \subseteq DOMAIN file[b] /\ file[b] \in ExportFiles
    BY <1>1 DEF RowsWith, IInv, TypeOK
  <2> QED
    BY <2>1, FileRows
<1>3. plan[b] \in [Rows \X Keys -> Nat]
  BY DEF IInv, TypeOK
<1> HIDE DEF rows
<1>4. ASSUME NEW k \in ActiveLots'
      PROVE  Balances(lot[k], OpeningRow(k), Held(k))'
  <2> DEFINE g == [r \in Reqs |-> IF r \in {b} \X rows THEN plan[b][<<r[2], k>>] ELSE 0]
             s == [i \in rows |-> plan[b][<<i, k>>]]
             t == [i \in rows |-> g[<<b, i>>]]
  <2>1. k \in Keys /\ k \in ActiveLots /\ owner'[k] = owner[k]
    BY <1>1 DEF ActiveLots, Active
  <2>2. {b} \X rows \subseteq Reqs
    BY <1>2 DEF Reqs
  <2>3. g \in [Reqs -> Nat]
    BY <1>2, <1>3, <2>1
  <2>4. Total(g, Reqs) = drawn(k)
    <3>1. s = t
      BY <2>2
    <3>2. Quantities(t, rows)
      BY <1>2, <2>2, <2>3, FiniteTables, FS_Subset DEF Quantities
    <3>3. Total(t, rows) = Total(g, {b} \X rows)
      <4> HIDE DEF g
      <4> QED
        BY <3>2, TotalOfFile
    <3>4. \A r \in Reqs \ ({b} \X rows) : g[r] = 0
      OBVIOUS
    <3>5. drawn(k) = Total(s, rows)
      OBVIOUS
    <3> HIDE DEF g, s, t, drawn
    <3>6. Total(g, Reqs) = Total(g, {b} \X rows)
      BY <2>2, <3>4, TotalSupport
    <3> QED
      BY <3>1, <3>3, <3>5, <3>6
  <2>5. ASSUME NEW r \in Reqs
        PROVE  Share(r, k)' = Share(r, k) + g[r]
    <3>1. <<r, k>> \in Pairs /\ alloc[<<r, k>>] \in Nat
      BY <2>1, PairsOf DEF IInv, TypeOK
    <3>2. CASE r \in {b} \X rows
      <4>1. r[1] = b /\ r[2] \in rows /\ r \notin Created
        BY <1>1, <3>2, CreatedFacts
      <4>2. alloc[<<r, k>>] = 0
        BY <2>1, <4>1, CreatedFacts
      <4>3. alloc'[<<r, k>>] = plan[b][<<r[2], k>>] /\ g[r] = plan[b][<<r[2], k>>]
        BY <1>1, <3>1, <3>2, <4>1
      <4>4. g[r] \in Nat /\ b \notin reverted /\ reverted' = reverted
        BY <1>1, <2>3
      <4>5. Share(r, k)' = g[r] /\ Share(r, k) = 0
        BY <4>1, <4>2, <4>3, <4>4 DEF Share
      <4> HIDE DEF g
      <4> QED
        BY <4>4, <4>5
    <3>3. CASE r \notin {b} \X rows
      <4>1. ~(r[1] = b /\ r[2] \in rows)
        BY <3>3 DEF Reqs
      <4>2. alloc'[<<r, k>>] = alloc[<<r, k>>] /\ g[r] = 0 /\ reverted' = reverted
        BY <1>1, <3>1, <3>3, <4>1
      <4>3. Share(r, k)' = Share(r, k) /\ Share(r, k) \in Nat
        BY <3>1, <4>2 DEF Share
      <4> HIDE DEF g
      <4> QED
        BY <4>2, <4>3
    <3> QED
      BY <3>2, <3>3
  <2>6. lot'[k] = [lot[k] EXCEPT !.remaining = @ - drawn(k), !.used = @ + drawn(k)]
    BY <1>1, <2>1
  <2> HIDE DEF g, drawn
  <2> QED
    BY <2>1, <2>3, <2>4, <2>5, <2>6, BooksDrawn
<1> QED
  BY <1>4 DEF Books

(* No requirement of a reverted file is served.                            *)
LEMMA MatchBooks ==
  ASSUME IInv, Books, FilesKept, NEW d, RunMatching(d), ~RevertedMatchable
  PROVE  Books'
<1>1. UNCHANGED <<owner, reverted, invalidated>>
  BY DEF RunMatching, stamps
<1>2. Served(d) \subseteq Reqs /\ \A r \in Served(d) : r[1] \notin reverted
  BY DEF Served, Created, RevertedMatchable
<1>3. ASSUME NEW k \in ActiveLots'
      PROVE  Balances(lot[k], OpeningRow(k), Held(k))'
  <2> DEFINE g == [r \in Reqs |-> IF r \in Served(d) THEN Given(d)[<<r, k>>] ELSE 0]
             s == [r \in Served(d) |-> Given(d)[<<r, k>>]]
             n == Total(s, Served(d))
  <2>1. k \in Keys /\ k \in ActiveLots /\ owner'[k] = owner[k]
    BY <1>1 DEF ActiveLots, Active
  <2>2. g \in [Reqs -> Nat]
    BY <2>1, RunFacts
  <2>3. Total(g, Reqs) = n
    <3>1. /\ \A r \in Served(d) : g[r] = s[r]
          /\ \A r \in Reqs \ Served(d) : g[r] = 0
      BY <1>2
    <3> HIDE DEF g, s
    <3> QED
      BY <1>2, <3>1, TotalSupport
  <2>4. ASSUME NEW r \in Reqs
        PROVE  Share(r, k)' = Share(r, k) + g[r]
    <3>1. alloc[<<r, k>>] \in Nat /\ reverted' = reverted
      BY <1>1, <2>1, PairsOf DEF IInv, TypeOK
    <3>2. CASE r \in Served(d)
      <4>1. alloc'[<<r, k>>] = alloc[<<r, k>>] + Given(d)[<<r, k>>]
        <5>1. CASE <<r, k>> \in Fitting(d)
          BY <2>1, <5>1, RunAllocates
        <5>2. CASE <<r, k>> \notin Fitting(d)
          <6>1. Given(d)[<<r, k>>] = 0
            BY <2>1, <3>2, <5>2, RunFacts
          <6>2. alloc'[<<r, k>>] = alloc[<<r, k>>]
            BY <2>1, <5>2, RunAllocates
          <6> QED
            BY <3>1, <6>1, <6>2
        <5> QED
          BY <5>1, <5>2
      <4>2. r[1] \notin reverted /\ g[r] = Given(d)[<<r, k>>]
        BY <1>2, <3>2
      <4> HIDE DEF g
      <4> QED
        BY <3>1, <4>1, <4>2 DEF Share
    <3>3. CASE r \notin Served(d)
      <4>1. <<r, k>> \notin Fitting(d) /\ g[r] = 0
        BY <3>3, RunFacts
      <4>2. alloc'[<<r, k>>] = alloc[<<r, k>>]
        BY <2>1, <4>1, RunAllocates
      <4>3. Share(r, k)' = Share(r, k) /\ Share(r, k) \in Nat
        BY <3>1, <4>2 DEF Share
      <4> HIDE DEF g
      <4> QED
        BY <4>1, <4>3
    <3> QED
      BY <3>2, <3>3
  <2>5. lot'[k] = [lot[k] EXCEPT !.remaining = @ - n, !.used = @ + n]
    BY <2>1, RunChanges
  <2> HIDE DEF g, n
  <2> QED
    BY <2>1, <2>2, <2>3, <2>4, <2>5, BooksDrawn
<1> QED
  BY <1>3 DEF Books

LEMMA UndoBooks ==
  ASSUME IInv, Books, FilesKept, NEW r \in Reqs, UndoMatching(r), r[1] \notin reverted
  PROVE  Books'
<1>1. /\ lot' = Restored({r})
      /\ alloc' = [p \in Pairs |-> IF p \in {r} \X Keys THEN 0 ELSE alloc[p]]
      /\ UNCHANGED <<owner, reverted, invalidated>>
  BY DEF UndoMatching, DeleteAllocations, stamps
<1>2. ASSUME NEW k \in ActiveLots'
      PROVE  Balances(lot[k], OpeningRow(k), Held(k))'
  <2>1. k \in Keys /\ k \in ActiveLots /\ owner'[k] = owner[k]
    BY <1>1 DEF ActiveLots, Active
  <2>2. \A s \in Reqs : alloc'[<<s, k>>] = IF s = r THEN 0 ELSE alloc[<<s, k>>]
    BY <1>1, <2>1, PairsOf
  <2> QED
    BY <1>1, <2>1, <2>2, BooksGivenBack DEF Share
<1> QED
  BY <1>2 DEF Books

LEMMA RevertBooks ==
  ASSUME IInv, Books, FilesKept, NEW b \in Batches, RevertMatchRun(b)
  PROVE  Books'
<1>1. /\ b \notin reverted /\ lot' = Restored(ReqsOf(b))
      /\ reverted' = reverted \cup {b}
      /\ UNCHANGED <<owner, alloc, invalidated>>
  BY DEF RevertMatchRun
<1>2. ReqsOf(b) \subseteq Reqs /\ \A r \in Reqs : r \in ReqsOf(b) <=> r \in Created /\ r[1] = b
  BY DEF ReqsOf, Created
<1>3. ASSUME NEW k \in ActiveLots'
      PROVE  Balances(lot[k], OpeningRow(k), Held(k))'
  <2>1. k \in Keys /\ k \in ActiveLots /\ owner'[k] = owner[k]
    BY <1>1 DEF ActiveLots, Active
  <2>2. \A r \in ReqsOf(b) : r[1] \notin reverted /\ Share(r, k)' = 0
    BY <1>1, <1>2 DEF Share
  <2>3. ASSUME NEW r \in Reqs \ ReqsOf(b)
        PROVE  Share(r, k)' = Share(r, k)
    <3>1. CASE r[1] = b
      <4>1. alloc[<<r, k>>] = 0
        BY <1>2, <2>1, <3>1, CreatedFacts
      <4> QED
        BY <1>1, <4>1 DEF Share
    <3>2. CASE r[1] # b
      BY <1>1, <3>2 DEF Share
    <3> QED
      BY <3>1, <3>2
  <2> QED
    BY <1>1, <1>2, <2>1, <2>2, <2>3, BooksGivenBack
<1> QED
  BY <1>3 DEF Books

LEMMA InvalidateExportsBooks ==
  ASSUME IInv, Books, FilesKept, NEW b \in Batches \ reverted, InvalidateExports(b)
  PROVE  Books'
<1>1. /\ kind[b] = "exports" /\ lot' = Restored(ReqsOf(b))
      /\ alloc' = [p \in Pairs |-> IF p \in ReqsOf(b) \X Keys THEN 0 ELSE alloc[p]]
      /\ invalidated' = invalidated \cup {b}
      /\ UNCHANGED <<owner, reverted>>
  BY DEF InvalidateExports, DeleteAllocations
<1>2. ReqsOf(b) \subseteq Reqs /\ \A r \in ReqsOf(b) : r[1] = b
  BY DEF ReqsOf, Created
<1>3. ASSUME NEW k \in ActiveLots'
      PROVE  Balances(lot[k], OpeningRow(k), Held(k))'
  <2>1. k \in Keys /\ k \in ActiveLots /\ owner'[k] = owner[k]
    BY <1>1 DEF ActiveLots, Active
  <2>2. \A r \in Reqs : alloc'[<<r, k>>] = IF r \in ReqsOf(b) THEN 0 ELSE alloc[<<r, k>>]
    BY <1>1, <2>1, PairsOf
  <2> QED
    BY <1>1, <1>2, <2>1, <2>2, BooksGivenBack DEF Share
<1> QED
  BY <1>3 DEF Books

(* The lots of the file leave the inventory, and only what they gave is    *)
(* deleted.                                                                *)
LEMMA InvalidateImportsBooks ==
  ASSUME IInv, Books, FilesKept, NEW b \in Batches, InvalidateImports(b)
  PROVE  Books'
<1> DEFINE gone == {p \in allocated : owner[p[2]] = b}
<1>1. /\ alloc' = [p \in Pairs |-> IF p \in gone THEN 0 ELSE alloc[p]]
      /\ invalidated' = invalidated \cup {b}
      /\ UNCHANGED <<owner, lot, reverted>>
  BY DEF InvalidateImports, DeleteAllocations, lotVars
<1>2. ASSUME NEW k \in ActiveLots'
      PROVE  Balances(lot[k], OpeningRow(k), Held(k))'
  <2>1. k \in Keys /\ k \in ActiveLots /\ owner[k] # b
    BY <1>1 DEF ActiveLots, Active
  <2>2. \A r \in Reqs : alloc'[<<r, k>>] = alloc[<<r, k>>]
    BY <1>1, <2>1, PairsOf
  <2> QED
    BY <1>1, <2>1, <2>2, BooksKept DEF Share
<1> QED
  BY <1>2 DEF Books

LEMMA CarefulIsNext == CarefulNext => Next
BY DEF CarefulNext, Next, Undo, WithdrawExports

LEMMA InitBooks == Init => Books
BY DEF Init, Books, ActiveLots, Active

LEMMA CarefulBooks == IInv /\ Books /\ [CarefulNext]_vars => Books'
<1> SUFFICES ASSUME IInv, Books, [CarefulNext]_vars PROVE Books'
  OBVIOUS
<1>1. FilesKept
  BY FilesStay, CarefulIsNext
<1>2. CASE Preview
  BY <1>1, <1>2, UnmovedBooks
  DEF Preview, PreviewImports, PreviewExports, PreviewExportRun, NewBatch, stamps, lotVars, reqVars
<1>3. CASE Save
  <2>1. ASSUME NEW b \in Batches, ConfirmExports(b) \/ DeleteUnconfirmed(b)
        PROVE  Books'
    BY <1>1, <2>1, UnmovedBooks
    DEF ConfirmExports, Confirm, DeleteUnconfirmed, DropBatch, stamps, lotVars, reqVars
  <2> QED
    BY <1>1, <1>3, <2>1, ConfirmImportsBooks, ConfirmMatchRunBooks DEF Save
<1>4. CASE Match /\ ~RevertedMatchable
  BY <1>1, <1>4, MatchBooks DEF Match
<1>5. ASSUME NEW r \in Reqs, r[1] \notin reverted, UndoMatching(r)
      PROVE  Books'
  BY <1>1, <1>5, UndoBooks
<1>6. CASE Revert
  BY <1>1, <1>6, RevertBooks DEF Revert
<1>7. CASE WithdrawImports
  BY <1>1, <1>7, InvalidateImportsBooks DEF WithdrawImports
<1>8. ASSUME NEW b \in Batches \ reverted, InvalidateExports(b)
      PROVE  Books'
  BY <1>1, <1>8, InvalidateExportsBooks
<1>9. CASE UNCHANGED vars
  BY <1>1, <1>9, UnmovedBooks DEF vars, stamps, lotVars, reqVars
<1> QED
  BY <1>2, <1>3, <1>4, <1>5, <1>6, <1>7, <1>8, <1>9 DEF CarefulNext
-----------------------------------------------------------------------------
(* However files are confirmed, matched, undone, reverted and withdrawn,   *)
(* what is used of a lot is what its import file said and what files that  *)
(* are not reverted hold of it; reverted files are left alone.             *)
THEOREM BooksAlwaysBalance == CarefulSpec => []BooksBalance
<1>1. IInv /\ [CarefulNext]_vars => IInv'
  BY NextKeeps, CarefulIsNext
<1> QED
  BY <1>1, InitHolds, InitBooks, CarefulBooks, BooksSay, PTL DEF CarefulSpec
-----------------------------------------------------------------------------
(* The order of one run of the matcher.                                    *)

(* A lot whose units are all given away has nothing left.                  *)
LEMMA RunEmpties ==
  ASSUME IInv, NEW d, RunMatching(d), NEW k \in ActiveLots,
         Total([r \in Served(d) |-> Given(d)[<<r, k>>]], Served(d)) = Balance(Inventory)[k]
  PROVE  lot'[k].remaining = 0
<1> DEFINE n == Total([r \in Served(d) |-> Given(d)[<<r, k>>]], Served(d))
<1>1. lot'[k] = [lot[k] EXCEPT !.remaining = @ - n, !.used = @ + n]
  BY RunChanges
<1>2. n = lot[k].remaining
  BY DEF Balance, Inventory
<1>3. lot[k] \in LotStates
  BY InventoryType DEF IInv, TypeOK
<1> HIDE DEF n
<1> QED
  BY <1>1, <1>2, <1>3 DEF LotStates

LEMMA RunOldestFirst ==
  ASSUME IInv, NEW d, RunMatching(d), NEW r \in Reqs, NEW l \in ActiveLots, NEW k \in ActiveLots,
         alloc'[<<r, l>>] > alloc[<<r, l>>],
         PartOf[k] = PartOf[l], lot[k].date < lot[l].date
  PROVE  lot'[k].remaining = 0
<1>1. k \in Keys /\ l \in Keys /\ alloc[<<r, l>>] \in Nat
  BY InventoryType, PairsOf DEF IInv, TypeOK
<1>2. <<r, l>> \in Fitting(d)
  BY <1>1, RunAllocates
<1>3. alloc'[<<r, l>>] = alloc[<<r, l>>] + Given(d)[<<r, l>>]
  BY <1>1, <1>2, RunAllocates
<1>4. r \in Served(d) /\ PartOf[l] = ReqPart(r)
  BY <1>2, RunFacts
<1>5. Given(d)[<<r, l>>] \in Nat /\ Given(d)[<<r, l>>] > 0
  <2>1. Given(d)[<<r, l>>] \in Nat
    BY <1>4, RunFacts
  <2> QED
    BY <1>1, <1>3, <2>1
<1>6. k \in OlderLots(Inventory)[l]
  BY DEF OlderLots, OlderThan, Inventory
<1>7. \A s \in Served(d) : ReqPart(s) = ReqPart(r) => <<s, k>> \in Fitting(d)
  BY <1>4, RunFacts
<1>8. \A s \in Sooner(d)[r] : <<s, k>> \in Fitting(d)
  BY <1>4, <1>7 DEF Sooner
<1>9. Total([s \in Served(d) |-> Given(d)[<<s, k>>]], Served(d)) = Balance(Inventory)[k]
  <2> DEFINE need == Lacking(d)
             avail == Balance(Inventory)
             sooner == Sooner(d)
             older == OlderLots(Inventory)
             fits == Fitting(d)
  <2>1. /\ FifoInput(need, avail, sooner, older, fits)
        /\ DOMAIN need = Served(d) /\ DOMAIN avail = ActiveLots
    BY RunFacts
  <2>2. Given(d) = FifoTake(need, avail, sooner, older, fits)
    BY DEF Given
  <2>3. <<r, k>> \in fits /\ \A s \in sooner[r] : <<s, k>> \in fits
    BY <1>4, <1>7, <1>8
  <2> HIDE DEF need, avail, sooner, older, fits
  <2>4. Total([s \in DOMAIN need |-> FifoTake(need, avail, sooner, older, fits)[<<s, k>>]],
              DOMAIN need) = avail[k]
    <3>1. /\ r \in DOMAIN need /\ l \in DOMAIN avail /\ k \in older[l]
          /\ FifoTake(need, avail, sooner, older, fits)[<<r, l>>] > 0
      BY <1>4, <1>5, <1>6, <2>1, <2>2 DEF older
    <3> QED
      BY <2>1, <2>3, <3>1, OlderAreEmptied
  <2> QED
    BY <2>1, <2>2, <2>4 DEF avail
<1> QED
  BY <1>9, RunEmpties

LEMMA RunShortWhenEmpty ==
  ASSUME IInv, NEW d, RunMatching(d), NEW r \in Reqs, NEW k \in ActiveLots,
         reqStatus'[r] \in {"partial_matched", "insufficient_stock"},
         reqStatus'[r] # reqStatus[r] \/ \E l \in Keys : alloc'[<<r, l>>] # alloc[<<r, l>>],
         PartOf[k] = ReqPart(r)
  PROVE  lot'[k].remaining = 0
<1>1. r \in Served(d)
  <2>1. ASSUME r \notin Served(d), NEW l \in Keys
        PROVE  alloc'[<<r, l>>] = alloc[<<r, l>>]
    BY <2>1, RunFacts, RunAllocates
  <2> QED
    BY <2>1, RunChanges
<1> DEFINE given == Total([l \in ActiveLots |-> Given(d)[<<r, l>>]], ActiveLots)
<1>2. /\ given \in Nat
      /\ MatchedQty(alloc', r) = MatchedQty(alloc, r) + given
  BY <1>1, RunGives
<1>3. RequiredQty(r) \in Nat /\ MatchedQty(alloc, r) \in Nat
  BY <1>1, RunFacts, CreatedFacts, MatchedType DEF IInv, TypeOK
<1>4. MatchedQty(alloc', r) < RequiredQty(r)
  <2>1. reqStatus'[r] = IF MatchedQty(alloc', r) >= RequiredQty(r) THEN "matched"
                        ELSE IF MatchedQty(alloc', r) > 0 THEN "partial_matched"
                        ELSE "insufficient_stock"
    BY <1>1, RunChanges
  <2>2. ~(MatchedQty(alloc', r) >= RequiredQty(r))
    BY <2>1
  <2> HIDE DEF given
  <2> QED
    BY <1>2, <1>3, <2>2
<1>5. given < Lacking(d)[r]
  <2>1. Lacking(d)[r] = Nonneg(RequiredQty(r) - MatchedQty(alloc, r))
    BY <1>1 DEF Lacking
  <2> HIDE DEF given
  <2> QED
    BY <1>2, <1>3, <1>4, <2>1 DEF Nonneg
<1>6. <<r, k>> \in Fitting(d) /\ \A s \in Sooner(d)[r] : <<s, k>> \in Fitting(d)
  <2>1. \A s \in Sooner(d)[r] : s \in Served(d) /\ ReqPart(s) = ReqPart(r)
    BY <1>1 DEF Sooner
  <2> QED
    BY <1>1, <2>1, RunFacts
<1>7. \A l \in OlderLots(Inventory)[k] : <<r, l>> \in Fitting(d)
  <2>1. \A l \in OlderLots(Inventory)[k] : l \in ActiveLots /\ PartOf[l] = PartOf[k]
    BY DEF OlderLots, Inventory
  <2> QED
    BY <1>1, <2>1, RunFacts
<1>8. Total([s \in Served(d) |-> Given(d)[<<s, k>>]], Served(d)) = Balance(Inventory)[k]
  BY <1>1, <1>5, <1>6, <1>7, RunFacts, ShortOfWhatIsGone DEF Given
<1> QED
  BY <1>8, RunEmpties
-----------------------------------------------------------------------------
(* The order of a plan that is confirmed.                                  *)

(* A current plan is the FIFO answer for the inventory as it is now.       *)
LEMMA PlanFacts ==
  ASSUME IInv, NEW b \in Batches, StillCurrent(b)
  PROVE  LET rows == RowsWith(b, "new")
             need == PlanNeed(file[b], rowStatus[b])
             sooner == PlanSooner(file[b], rowStatus[b])
             fits == PlanFits(file[b], rowStatus[b], ActiveLots)
             takes == FifoTake(need, Balance(Inventory), sooner, OlderLots(Inventory), fits)
         IN  /\ DOMAIN need = rows /\ DOMAIN Balance(Inventory) = ActiveLots
             /\ FifoInput(need, Balance(Inventory), sooner, OlderLots(Inventory), fits)
             /\ rows \subseteq Rows /\ ActiveLots \subseteq Keys
             /\ \A i \in rows : need[i] = file[b][i].qty
             /\ \A i \in rows : \A j \in sooner[i] : j \in rows /\ file[b][j].part = file[b][i].part
             /\ \A i \in rows, k \in ActiveLots :
                   /\ PartOf[k] = file[b][i].part => <<i, k>> \in fits
                   /\ <<i, k>> \in fits => PartOf[k] = file[b][i].part
                   /\ plan[b][<<i, k>>] = takes[<<i, k>>]
                   /\ takes[<<i, k>>] > 0 => <<i, k>> \in fits
             /\ \A i \in rows, k \in Keys \ ActiveLots : plan[b][<<i, k>>] = 0
<1> DEFINE rows == RowsWith(b, "new")
           f == file[b]
           cls == rowStatus[b]
           need == PlanNeed(f, cls)
           sooner == PlanSooner(f, cls)
           fits == PlanFits(f, cls, ActiveLots)
           takes == FifoTake(need, Balance(Inventory), sooner, OlderLots(Inventory), fits)
<1>1. /\ kind[b] = "exports" /\ fingerprint[b] = Inventory /\ PlanIsAnswer(b)
  BY DEF StillCurrent, IInv, PlansAreAnswers
<1>2. f \in ExportFiles /\ rowStatus[b] \in [DOMAIN f -> RowStatuses]
  BY <1>1 DEF IInv, TypeOK
<1>3. ActiveLots \in SUBSET Keys /\ Inventory \in [ActiveLots -> InventoryStates]
  BY InventoryType DEF IInv
<1>4. rows = PlannableRows(f, cls) /\ rows \subseteq DOMAIN f
  BY <1>2 DEF PlannableRows, RowsWith
<1>5. rows \subseteq Rows
  BY <1>2, <1>4, FileRows
<1>6. /\ DOMAIN need = rows /\ DOMAIN Balance(Inventory) = ActiveLots
      /\ FifoInput(need, Balance(Inventory), sooner, OlderLots(Inventory), fits)
      /\ PlanOf(f, cls, Inventory) = takes
  <2> HIDE DEF rows, f, cls
  <2> QED
    BY <1>2, <1>3, <1>4, PlanIsFifo
<1>7. /\ \A i \in rows : need[i] = f[i].qty
      /\ \A i \in rows : \A j \in sooner[i] : j \in rows /\ f[j].part = f[i].part
  BY <1>4 DEF PlanNeed, PlanSooner
<1>8. \A i \in rows, k \in ActiveLots : <<i, k>> \in fits <=> PartOf[k] = f[i].part
  BY <1>4 DEF PlanFits
<1>9. DOMAIN takes = rows \X ActiveLots /\ \A p \in DOMAIN takes : p \notin fits => takes[p] = 0
  BY <1>6 DEF FifoTake
<1>10. \A i \in rows, k \in Keys :
          plan[b][<<i, k>>] = IF <<i, k>> \in DOMAIN takes THEN takes[<<i, k>>] ELSE 0
  BY <1>1, <1>5, <1>6 DEF PlanIsAnswer
<1> HIDE DEF rows, f, cls, need, sooner, fits, takes
<1>11. \A i \in rows, k \in ActiveLots :
          /\ plan[b][<<i, k>>] = takes[<<i, k>>]
          /\ <<i, k>> \notin fits => takes[<<i, k>>] = 0
  BY <1>3, <1>9, <1>10
<1>12. \A i \in rows, k \in Keys \ ActiveLots : plan[b][<<i, k>>] = 0
  BY <1>9, <1>10
<1>13. \A i \in rows, k \in ActiveLots : takes[<<i, k>>] > 0 => <<i, k>> \in fits
  BY <1>11
<1> QED
  BY <1>3, <1>5, <1>6, <1>7, <1>8, <1>11, <1>12, <1>13 DEF rows, f, cls, need, sooner, fits, takes

(* A lot whose units are all planned has nothing left.                     *)
LEMMA PlanEmpties ==
  ASSUME IInv, NEW b \in Batches, ConfirmMatchRun(b), NEW k \in ActiveLots,
         Total([i \in RowsWith(b, "new") |-> plan[b][<<i, k>>]], RowsWith(b, "new"))
             = Balance(Inventory)[k]
  PROVE  lot'[k].remaining = 0
<1> DEFINE n == Total([i \in RowsWith(b, "new") |-> plan[b][<<i, k>>]], RowsWith(b, "new"))
<1>1. k \in Keys /\ lot[k] \in LotStates
  BY InventoryType DEF IInv, TypeOK
<1>2. lot'[k] = [lot[k] EXCEPT !.remaining = @ - n, !.used = @ + n]
  BY <1>1 DEF ConfirmMatchRun
<1>3. n = lot[k].remaining
  BY DEF Balance, Inventory
<1> HIDE DEF n
<1> QED
  BY <1>1, <1>2, <1>3 DEF LotStates

(* What a confirmation does to one allocation.                             *)
LEMMA ConfirmAllocates ==
  ASSUME IInv, NEW b \in Batches, ConfirmMatchRun(b), NEW r \in Reqs, NEW k \in Keys
  PROVE  alloc'[<<r, k>>] = IF r[1] = b /\ r[2] \in RowsWith(b, "new")
                            THEN plan[b][<<r[2], k>>] ELSE alloc[<<r, k>>]
<1>1. <<r, k>> \in Pairs
  BY PairsOf
<1>2. alloc' = [p \in Pairs |-> IF p[1][1] = b /\ p[1][2] \in RowsWith(b, "new")
                                THEN plan[b][<<p[1][2], p[2]>>] ELSE alloc[p]]
  BY DEF ConfirmMatchRun
<1> HIDE DEF Pairs, RowsWith
<1> QED
  BY <1>1, <1>2

LEMMA PlanOldestFirst ==
  ASSUME IInv, NEW b \in Batches, ConfirmMatchRun(b),
         NEW r \in Reqs, NEW l \in ActiveLots, NEW k \in ActiveLots,
         alloc'[<<r, l>>] > alloc[<<r, l>>],
         PartOf[k] = PartOf[l], lot[k].date < lot[l].date
  PROVE  lot'[k].remaining = 0
<1> DEFINE rows == RowsWith(b, "new")
           need == PlanNeed(file[b], rowStatus[b])
           avail == Balance(Inventory)
           sooner == PlanSooner(file[b], rowStatus[b])
           older == OlderLots(Inventory)
           fits == PlanFits(file[b], rowStatus[b], ActiveLots)
           takes == FifoTake(need, avail, sooner, older, fits)
<1>1. StillCurrent(b) /\ k \in Keys /\ l \in Keys
  BY InventoryType DEF ConfirmMatchRun, IInv
<1>2. /\ DOMAIN need = rows /\ DOMAIN avail = ActiveLots
      /\ FifoInput(need, avail, sooner, older, fits)
      /\ rows \subseteq Rows /\ ActiveLots \subseteq Keys
      /\ \A i \in rows : need[i] = file[b][i].qty
      /\ \A i \in rows : \A j \in sooner[i] : j \in rows /\ file[b][j].part = file[b][i].part
      /\ \A i \in rows, m \in ActiveLots :
            /\ PartOf[m] = file[b][i].part => <<i, m>> \in fits
            /\ <<i, m>> \in fits => PartOf[m] = file[b][i].part
            /\ plan[b][<<i, m>>] = takes[<<i, m>>]
            /\ takes[<<i, m>>] > 0 => <<i, m>> \in fits
      /\ \A i \in rows, m \in Keys \ ActiveLots : plan[b][<<i, m>>] = 0
  BY <1>1, PlanFacts
<1>3. k \in older[l]
  BY DEF OlderLots, OlderThan, Inventory
<1>4. alloc[<<r, l>>] \in Nat
  BY <1>1, PairsOf DEF IInv, TypeOK
<1> DEFINE i == r[2]
<1>5. r[1] = b /\ i \in rows /\ alloc'[<<r, l>>] = plan[b][<<i, l>>]
  BY <1>1, <1>4, ConfirmAllocates
<1> HIDE DEF rows, need, avail, sooner, older, fits, takes, i
<1>6. takes[<<i, l>>] > 0
  <2>1. plan[b][<<i, l>>] = takes[<<i, l>>] /\ takes[<<i, l>>] \in Nat
    BY <1>2, <1>5, PairFacts DEF takes
  <2> QED
    BY <1>4, <1>5, <2>1
<1>7. <<i, k>> \in fits /\ \A j \in sooner[i] : <<j, k>> \in fits
  <2>1. PartOf[l] = file[b][i].part
    BY <1>2, <1>5, <1>6
  <2> QED
    BY <1>2, <1>5, <2>1
<1> QED
  <2>1. Total([j \in DOMAIN need |-> takes[<<j, k>>]], DOMAIN need) = avail[k]
    BY <1>2, <1>3, <1>5, <1>6, <1>7, OlderAreEmptied DEF takes
  <2>2. [j \in rows |-> plan[b][<<j, k>>]] = [j \in rows |-> takes[<<j, k>>]]
    BY <1>2
  <2>3. Total([j \in rows |-> plan[b][<<j, k>>]], rows) = avail[k]
    BY <1>2, <2>1, <2>2
  <2> QED
    BY <2>3, PlanEmpties DEF rows, avail

LEMMA PlanShortWhenEmpty ==
  ASSUME IInv, NEW b \in Batches, ConfirmMatchRun(b), NEW r \in Reqs, NEW k \in ActiveLots,
         reqStatus'[r] \in {"partial_matched", "insufficient_stock"},
         reqStatus'[r] # reqStatus[r] \/ \E l \in Keys : alloc'[<<r, l>>] # alloc[<<r, l>>],
         PartOf[k] = ReqPart(r)
  PROVE  lot'[k].remaining = 0
<1> DEFINE rows == RowsWith(b, "new")
           need == PlanNeed(file[b], rowStatus[b])
           avail == Balance(Inventory)
           sooner == PlanSooner(file[b], rowStatus[b])
           older == OlderLots(Inventory)
           fits == PlanFits(file[b], rowStatus[b], ActiveLots)
           takes == FifoTake(need, avail, sooner, older, fits)
           i == r[2]
           given == [l \in Keys |-> plan[b][<<i, l>>]]
           taken == [l \in ActiveLots |-> takes[<<i, l>>]]
<1>1. StillCurrent(b) /\ k \in Keys
  BY InventoryType DEF ConfirmMatchRun, IInv
<1>2. /\ DOMAIN need = rows /\ DOMAIN avail = ActiveLots
      /\ FifoInput(need, avail, sooner, older, fits)
      /\ rows \subseteq Rows /\ ActiveLots \subseteq Keys
      /\ \A h \in rows : need[h] = file[b][h].qty
      /\ \A h \in rows : \A j \in sooner[h] : j \in rows /\ file[b][j].part = file[b][h].part
      /\ \A h \in rows, m \in ActiveLots :
            /\ PartOf[m] = file[b][h].part => <<h, m>> \in fits
            /\ <<h, m>> \in fits => PartOf[m] = file[b][h].part
            /\ plan[b][<<h, m>>] = takes[<<h, m>>]
            /\ takes[<<h, m>>] > 0 => <<h, m>> \in fits
      /\ \A h \in rows, m \in Keys \ ActiveLots : plan[b][<<h, m>>] = 0
  BY <1>1, PlanFacts
<1>3. reqStatus'[r] = IF r[1] = b /\ i \in rows
                      THEN IF PlannedQty(b, i) = file[b][i].qty THEN "matched"
                           ELSE IF PlannedQty(b, i) > 0 THEN "partial_matched"
                           ELSE "insufficient_stock"
                      ELSE reqStatus[r]
  BY DEF ConfirmMatchRun
<1>4. r[1] = b /\ i \in rows
  <2>1. ASSUME ~(r[1] = b /\ i \in rows), NEW l \in Keys
        PROVE  alloc'[<<r, l>>] = alloc[<<r, l>>]
    BY <2>1, ConfirmAllocates
  <2> QED
    BY <1>3, <2>1
<1>5. PlannedQty(b, i) \in Nat /\ need[i] \in Nat /\ PlannedQty(b, i) < need[i]
  <2>1. PlannedQty(b, i) # file[b][i].qty
    BY <1>3, <1>4
  <2>2. /\ file[b][i].qty \in Nat
        /\ PlannedQty(b, i) \in Nat /\ PlannedQty(b, i) <= file[b][i].qty
    BY <1>1, <1>4, PlannedFits
  <2> QED
    BY <1>2, <1>4, <2>1, <2>2
<1>6. PlannedQty(b, i) = Total(given, Keys)
  BY DEF PlannedQty
<1> HIDE DEF rows, need, avail, sooner, older, fits, takes, i
<1>7. /\ \A l \in ActiveLots : given[l] = taken[l]
      /\ \A l \in Keys \ ActiveLots : given[l] = 0
  BY <1>2, <1>4
<1> HIDE DEF given, taken
<1>8. Total(taken, ActiveLots) < need[i]
  <2>1. Total(given, Keys) = Total(taken, ActiveLots)
    BY <1>2, <1>7, TotalSupport
  <2> QED
    BY <1>5, <1>6, <2>1
<1>9. <<i, k>> \in fits /\ \A j \in sooner[i] : <<j, k>> \in fits
  <2>1. PartOf[k] = file[b][i].part
    BY <1>4 DEF ReqPart, i
  <2> QED
    BY <1>2, <1>4, <2>1
<1>10. \A l \in older[k] : <<i, l>> \in fits
  <2>1. \A l \in older[k] : l \in ActiveLots /\ PartOf[l] = PartOf[k]
    BY DEF OlderLots, Inventory, older
  <2>2. PartOf[k] = file[b][i].part
    BY <1>4 DEF ReqPart, i
  <2> QED
    BY <1>2, <1>4, <2>1, <2>2
<1> QED
  <2>1. Total([j \in DOMAIN need |-> takes[<<j, k>>]], DOMAIN need) = avail[k]
    <3>1. Total([l \in DOMAIN avail |-> takes[<<i, l>>]], DOMAIN avail) < need[i]
      BY <1>2, <1>8 DEF taken
    <3> QED
      BY <1>2, <1>4, <1>9, <1>10, <3>1, ShortOfWhatIsGone DEF takes
  <2>2. [j \in rows |-> plan[b][<<j, k>>]] = [j \in rows |-> takes[<<j, k>>]]
    BY <1>2
  <2>3. Total([j \in rows |-> plan[b][<<j, k>>]], rows) = avail[k]
    BY <1>2, <2>1, <2>2
  <2> QED
    BY <2>3, PlanEmpties DEF rows, avail
-----------------------------------------------------------------------------
(* Only a match run and the confirmation of a plan give units away: any    *)
(* other step deletes allocations or leaves them alone, and leaves a       *)
(* requirement as it is unless it becomes pending or reverted or a file is *)
(* invalidated.                                                            *)
OnlyTakesBack ==
    /\ \A p \in Pairs : alloc'[p] = alloc[p] \/ alloc'[p] = 0
    /\ invalidated' = invalidated => \A r \in Reqs :
          \/ reqStatus'[r] \in {"pending", "reverted"}
          \/ /\ reqStatus'[r] = reqStatus[r]
             /\ \A k \in Keys : alloc'[<<r, k>>] = alloc[<<r, k>>]

LEMMA OthersOnlyTakeBack ==
  ASSUME IInv, [Next]_vars
  PROVE  \/ \E d \in Dates \cup {AnyDate} : RunMatching(d)
         \/ \E b \in Batches : ConfirmMatchRun(b)
         \/ OnlyTakesBack
<1>1. UNCHANGED reqVars => OnlyTakesBack
  BY DEF reqVars, OnlyTakesBack
<1>2. CASE Preview
  BY <1>1, <1>2 DEF Preview, PreviewImports, PreviewExports, PreviewExportRun, NewBatch
<1>3. ASSUME NEW b \in Batches, ConfirmImports(b) \/ DeleteUnconfirmed(b)
      PROVE  OnlyTakesBack
  BY <1>1, <1>3 DEF ConfirmImports, DeleteUnconfirmed, DropBatch
<1>4. ASSUME NEW b \in Batches, ConfirmExports(b)
      PROVE  OnlyTakesBack
  BY <1>4 DEF ConfirmExports, OnlyTakesBack
<1>5. ASSUME NEW q \in Reqs, UndoMatching(q)
      PROVE  OnlyTakesBack
  <2>1. /\ alloc' = [p \in Pairs |-> IF p \in {q} \X Keys THEN 0 ELSE alloc[p]]
        /\ reqStatus' = [reqStatus EXCEPT ![q] = "pending"]
    BY <1>5 DEF UndoMatching, DeleteAllocations
  <2>2. reqStatus'[q] = "pending" /\ \A r \in Reqs \ {q} : reqStatus'[r] = reqStatus[r]
    BY <2>1 DEF IInv, TypeOK
  <2>3. \A r \in Reqs \ {q}, k \in Keys : alloc'[<<r, k>>] = alloc[<<r, k>>]
    BY <2>1, PairsOf
  <2> QED
    BY <2>1, <2>2, <2>3 DEF OnlyTakesBack
<1>6. CASE Revert
  BY <1>6 DEF Revert, RevertMatchRun, OnlyTakesBack
<1>7. ASSUME NEW b \in Batches, InvalidateImports(b) \/ InvalidateExports(b)
      PROVE  OnlyTakesBack
  <2>1. invalidated' # invalidated
    BY <1>7 DEF InvalidateImports, InvalidateExports
  <2>2. \A p \in Pairs : alloc'[p] = alloc[p] \/ alloc'[p] = 0
    BY <1>7 DEF InvalidateImports, InvalidateExports, DeleteAllocations
  <2> QED
    BY <2>1, <2>2 DEF OnlyTakesBack
<1>8. CASE UNCHANGED vars
  BY <1>1, <1>8 DEF vars
<1>9. CASE Save
  <2>1. PICK b \in Batches : \/ ConfirmImports(b) \/ ConfirmExports(b)
                             \/ ConfirmMatchRun(b) \/ DeleteUnconfirmed(b)
    BY <1>9 DEF Save
  <2> QED
    BY <1>3, <1>4, <2>1
<1>10. CASE Undo \/ WithdrawImports \/ WithdrawExports
  BY <1>5, <1>7, <1>10 DEF Undo, WithdrawImports, WithdrawExports
<1>11. CASE Match
  BY <1>11 DEF Match
<1> QED
  BY <1>2, <1>6, <1>8, <1>9, <1>10, <1>11 DEF Next

(* One step of OldestFirst, and one step of ShortOnlyWhenEmpty.            *)
TakesOldest ==
    \A l \in ActiveLots :
            (\E r \in Reqs : alloc'[<<r, l>>] > alloc[<<r, l>>])
        => \A k \in ActiveLots :
              PartOf[k] = PartOf[l] /\ lot[k].date < lot[l].date => lot'[k].remaining = 0

ShortIfEmpty ==
    invalidated' = invalidated =>
        \A r \in Reqs :
            /\ reqStatus'[r] \in {"partial_matched", "insufficient_stock"}
            /\ reqStatus'[r] # reqStatus[r] \/ \E k \in Keys : alloc'[<<r, k>>] # alloc[<<r, k>>]
        => \A k \in ActiveLots :
              PartOf[k] = file[r[1]][r[2]].part => lot'[k].remaining = 0

LEMMA StepTakesOldest == IInv /\ [Next]_vars => TakesOldest
<1> SUFFICES ASSUME IInv, [Next]_vars,
                    NEW l \in ActiveLots, NEW r \in Reqs, alloc'[<<r, l>>] > alloc[<<r, l>>],
                    NEW k \in ActiveLots, PartOf[k] = PartOf[l], lot[k].date < lot[l].date
             PROVE  lot'[k].remaining = 0
  BY DEF TakesOldest
<1>1. <<r, l>> \in Pairs /\ alloc[<<r, l>>] \in Nat
  BY InventoryType, PairsOf DEF IInv, TypeOK
<1>2. ~(alloc'[<<r, l>>] = alloc[<<r, l>>] \/ alloc'[<<r, l>>] = 0)
  BY <1>1
<1>3. \/ \E d \in Dates \cup {AnyDate} : RunMatching(d)
      \/ \E b \in Batches : ConfirmMatchRun(b)
  BY <1>1, <1>2, OthersOnlyTakeBack DEF OnlyTakesBack
<1> QED
  BY <1>3, RunOldestFirst, PlanOldestFirst

LEMMA StepShortIfEmpty == IInv /\ [Next]_vars => ShortIfEmpty
<1> SUFFICES ASSUME IInv, [Next]_vars, invalidated' = invalidated, NEW r \in Reqs,
                    reqStatus'[r] \in {"partial_matched", "insufficient_stock"},
                    \/ reqStatus'[r] # reqStatus[r]
                    \/ \E k \in Keys : alloc'[<<r, k>>] # alloc[<<r, k>>],
                    NEW k \in ActiveLots, PartOf[k] = ReqPart(r)
             PROVE  lot'[k].remaining = 0
  BY DEF ShortIfEmpty, ReqPart
<1>1. \/ \E d \in Dates \cup {AnyDate} : RunMatching(d)
      \/ \E b \in Batches : ConfirmMatchRun(b)
  BY OthersOnlyTakeBack DEF OnlyTakesBack
<1> QED
  BY <1>1, RunShortWhenEmpty, PlanShortWhenEmpty

(* No step takes from a lot while an active lot of the same part number    *)
(* accepted earlier has anything left, in a run or in a confirmed plan.    *)
THEOREM OldestAlwaysFirst == Spec => OldestFirst
<1>1. IInv /\ [Next]_vars => [TakesOldest]_vars
  BY StepTakesOldest
<1> QED
  BY <1>1, InitHolds, NextKeeps, PTL DEF Spec, OldestFirst, TakesOldest

(* A requirement that a step leaves short found every active lot of its    *)
(* part number, or left it, empty.                                         *)
THEOREM ShortMeansEmpty == Spec => ShortOnlyWhenEmpty
<1>1. IInv /\ [Next]_vars => [ShortIfEmpty]_vars
  BY StepShortIfEmpty
<1> QED
  BY <1>1, InitHolds, NextKeeps, PTL DEF Spec, ShortOnlyWhenEmpty, ShortIfEmpty
-----------------------------------------------------------------------------
(* The totals of the dashboard.                                            *)

(* What pairs hold, added up lot by lot: the units of a lot are numbered,  *)
(* whatever requirement they belong to.                                    *)
LEMMA TotalByLot ==
  ASSUME NEW R, NEW K, NEW a, IsFiniteSet(R), IsFiniteSet(K),
         \A r \in R, k \in K : a[<<r, k>>] \in Nat
  PROVE  Total(a, R \X K)
             = Total([k \in K |-> Total([r \in R |-> a[<<r, k>>]], R)], K)
<1> DEFINE row(k) == [r \in R |-> a[<<r, k>>]]
           g == [k \in K |-> Total(row(k), R)]
           nth(k) == CHOOSE h : h \in Bijection(1 .. g[k], Units(row(k), R))
           F == [v \in Units(g, K) |-> <<<<nth(v[1])[v[2]][1], v[1]>>, nth(v[1])[v[2]][2]>>]
<1>1. \A k \in K : Quantities(row(k), R) /\ g[k] \in Nat
  <2>1. \A k \in K : Quantities(row(k), R)
    BY DEF Quantities
  <2>2. \A k \in K : g[k] = Total(row(k), R)
    OBVIOUS
  <2> HIDE DEF row, g
  <2> QED
    BY <2>1, <2>2, TotalType
<1>2. ASSUME NEW k \in K
      PROVE  nth(k) \in Bijection(1 .. g[k], Units(row(k), R))
  <2>1. g[k] = Total(row(k), R)
    OBVIOUS
  <2> HIDE DEF g, row
  <2>2. IsFiniteSet(Units(row(k), R))
    BY <1>1, TotalType
  <2>3. ExistsBijection(1 .. g[k], Units(row(k), R))
    BY <2>1, <2>2, FS_CardinalityType DEF Total
  <2> QED
    BY <2>3 DEF ExistsBijection
<1>3. \A r \in R, k \in K : row(k)[r] = a[<<r, k>>]
  OBVIOUS
<1> HIDE DEF row, g, nth
<1>4. ASSUME NEW v \in Units(g, K)
      PROVE  /\ v[1] \in K /\ v[2] \in 1 .. g[v[1]] /\ v = <<v[1], v[2]>>
             /\ nth(v[1])[v[2]] \in Units(row(v[1]), R)
  <2>1. PICK k \in K : \E n \in 1 .. g[k] : v = <<k, n>>
    BY UnitsIn
  <2>2. v[1] \in K /\ v[2] \in 1 .. g[v[1]] /\ v = <<v[1], v[2]>>
    BY <2>1
  <2> QED
    BY <1>2, <2>2 DEF Bijection, Injection, Surjection
<1>5. ASSUME NEW k \in K, NEW u \in Units(row(k), R)
      PROVE  u[1] \in R /\ u[2] \in 1 .. a[<<u[1], k>>] /\ u = <<u[1], u[2]>>
  <2>1. PICK r \in R : \E m \in 1 .. row(k)[r] : u = <<r, m>>
    BY UnitsIn
  <2> QED
    BY <1>3, <2>1
<1>6. F \in [Units(g, K) -> Units(a, R \X K)]
  <2> SUFFICES ASSUME NEW v \in Units(g, K)
               PROVE  <<<<nth(v[1])[v[2]][1], v[1]>>, nth(v[1])[v[2]][2]>> \in Units(a, R \X K)
    OBVIOUS
  <2> DEFINE u == nth(v[1])[v[2]]
  <2>1. v[1] \in K /\ u[1] \in R /\ u[2] \in 1 .. a[<<u[1], v[1]>>]
    BY <1>4, <1>5
  <2>2. <<u[1], v[1]>> \in R \X K
    BY <2>1
  <2> QED
    BY <2>1, <2>2, UnitsIn
<1>7. ASSUME NEW v \in Units(g, K), NEW w \in Units(g, K), F[v] = F[w]
      PROVE  v = w
  <2>1. v[1] = w[1] /\ nth(v[1])[v[2]][1] = nth(w[1])[w[2]][1]
                   /\ nth(v[1])[v[2]][2] = nth(w[1])[w[2]][2]
    BY <1>7
  <2>2. nth(v[1])[v[2]] = nth(w[1])[w[2]]
    BY <1>4, <1>5, <2>1
  <2>3. v[2] = w[2]
    <3> DEFINE k == v[1]
    <3>1. k \in K /\ v[2] \in 1 .. g[k] /\ w[2] \in 1 .. g[k] /\ nth(k)[v[2]] = nth(k)[w[2]]
      BY <1>4, <2>1, <2>2
    <3> HIDE DEF k
    <3>2. \A i, j \in 1 .. g[k] : nth(k)[i] = nth(k)[j] => i = j
      BY <1>2, <3>1 DEF Bijection, Injection, IsInjective
    <3> QED
      BY <3>1, <3>2
  <2> QED
    BY <1>4, <2>1, <2>3
<1>8. ASSUME NEW z \in Units(a, R \X K)
      PROVE  \E v \in Units(g, K) : F[v] = z
  <2>1. PICK p \in R \X K : \E m \in 1 .. a[p] : z = <<p, m>>
    BY UnitsIn
  <2>2. PICK r \in R, k \in K : p = <<r, k>>
    OBVIOUS
  <2>3. PICK m \in 1 .. a[<<r, k>>] : z = <<<<r, k>>, m>>
    BY <2>1, <2>2
  <2>4. <<r, m>> \in Units(row(k), R)
    BY <1>3, <2>3, UnitsIn
  <2>5. PICK n \in 1 .. g[k] : nth(k)[n] = <<r, m>>
    BY <1>2, <2>4 DEF Bijection, Surjection
  <2>6. <<k, n>> \in Units(g, K)
    BY UnitsIn
  <2>7. F[<<k, n>>] = z
    BY <2>3, <2>5, <2>6
  <2> QED
    BY <2>6, <2>7
<1>9. Quantities(g, K) /\ g = [k \in K |-> Total([r \in R |-> a[<<r, k>>]], R)]
  BY <1>1 DEF Quantities, g, row
<1>10. IsFiniteSet(Units(g, K))
  BY <1>9, TotalType
<1>11. F \in Bijection(Units(g, K), Units(a, R \X K))
  <2> HIDE DEF F
  <2> QED
    BY <1>6, <1>7, <1>8 DEF Bijection, Injection, Surjection, IsInjective
<1>12. Cardinality(Units(a, R \X K)) = Cardinality(Units(g, K))
  <2> HIDE DEF F
  <2> QED
    BY <1>10, <1>11, FS_Bijection DEF ExistsBijection
<1> QED
  BY <1>9, <1>12 DEF Total

(* The units held, allocated and given back, lot by lot and in total.      *)
LEMMA MatchedIsHeld ==
  ASSUME IInv
  PROVE  LET held == [k \in ActiveLots |-> Held(k)]
             undone == {p \in allocated : p[1][1] \in reverted}
             back == Total([p \in undone |-> alloc[p]], undone)
         IN  /\ Total(held, ActiveLots) \in Nat /\ back \in Nat
             /\ MatchedTotal = Total(held, ActiveLots) + back
<1> DEFINE S == Reqs \X ActiveLots
           all == [p \in S |-> alloc[p]]
           live == [p \in S |-> IF p[1][1] \in reverted THEN 0 ELSE alloc[p]]
           back == [p \in S |-> IF p[1][1] \in reverted THEN alloc[p] ELSE 0]
           undone == {p \in allocated : p[1][1] \in reverted}
           rows == {p \in allocated : Active(p[2])}
           held == [k \in ActiveLots |-> Held(k)]
<1>1. /\ IsFiniteSet(Reqs) /\ IsFiniteSet(ActiveLots) /\ IsFiniteSet(S)
      /\ ActiveLots \subseteq Keys
  <2>1. IsFiniteSet(Reqs) /\ IsFiniteSet(ActiveLots) /\ ActiveLots \subseteq Keys
    BY FiniteTables, FS_Subset DEF ActiveLots
  <2> QED
    BY <2>1, FS_Product
<1>2. \A p \in S : p \in Pairs /\ alloc[p] \in Nat /\ (p \notin allocated => alloc[p] = 0)
  <2>1. S \subseteq Pairs
    BY <1>1 DEF Pairs
  <2>2. \A p \in Pairs : alloc[p] \in Nat /\ (p \notin allocated => alloc[p] = 0)
    BY DEF IInv, TypeOK, RowsCarryUnits
  <2> QED
    BY <2>1, <2>2
<1>3. rows = allocated /\ allocated \subseteq S
  <2>1. allocated \subseteq Reqs \X Keys /\ allocated \subseteq Pairs
    BY DEF IInv, TypeOK, Created, Pairs
  <2>2. \A p \in allocated : Active(p[2])
    BY <2>1 DEF IInv, NoAllocationOnInvalidated
  <2> QED
    BY <2>1, <2>2 DEF ActiveLots
<1>4. Quantities(live, S) /\ Quantities(back, S)
  BY <1>1, <1>2 DEF Quantities
<1>5. all = [p \in S |-> live[p] + back[p]]
  <2>1. \A p \in S : alloc[p] = live[p] + back[p]
    BY <1>2
  <2> QED
    BY <2>1
<1>6. Total(all, S) = MatchedTotal
  <2>1. MatchedTotal = Total([p \in rows |-> alloc[p]], rows)
    BY DEF MatchedTotal
  <2>2. /\ \A p \in rows : all[p] = [q \in rows |-> alloc[q]][p]
        /\ \A p \in S \ rows : all[p] = 0
    BY <1>2, <1>3
  <2> HIDE DEF all, rows, S
  <2> QED
    BY <1>3, <2>1, <2>2, TotalSupport
<1>7. Total(back, S) = Total([p \in undone |-> alloc[p]], undone)
  <2>1. /\ \A p \in undone : back[p] = [q \in undone |-> alloc[q]][p]
        /\ \A p \in S \ undone : back[p] = 0
    BY <1>2, <1>3
  <2>2. undone \subseteq S
    BY <1>3
  <2> HIDE DEF back, undone, S
  <2> QED
    BY <2>1, <2>2, TotalSupport
<1>8. Total(live, S) = Total(held, ActiveLots)
  <2>1. \A r \in Reqs, k \in ActiveLots : live[<<r, k>>] = Share(r, k)
    BY DEF Share
  <2>2. \A r \in Reqs, k \in ActiveLots : live[<<r, k>>] \in Nat
    BY <1>1, <2>1, ShareType DEF IInv
  <2>3. held = [k \in ActiveLots |-> Total([r \in Reqs |-> live[<<r, k>>]], Reqs)]
    <3>1. ASSUME NEW k \in ActiveLots
          PROVE  Held(k) = Total([r \in Reqs |-> live[<<r, k>>]], Reqs)
      <4>1. [r \in Reqs |-> Share(r, k)] = [r \in Reqs |-> live[<<r, k>>]]
        BY <2>1
      <4> QED
        BY <4>1 DEF Held
    <3> QED
      BY <3>1
  <2> HIDE DEF live, held
  <2>4. Total(live, Reqs \X ActiveLots)
           = Total([k \in ActiveLots |-> Total([r \in Reqs |-> live[<<r, k>>]], Reqs)], ActiveLots)
    <3> HIDE DEF S
    <3> QED
      BY <1>1, <2>2, TotalByLot
  <2> QED
    BY <2>3, <2>4
<1> HIDE DEF S, all, live, back, undone, rows, held
<1>9. Total(all, S) = Total(live, S) + Total(back, S)
  BY <1>4, <1>5, TotalSum
<1>10. Total(live, S) \in Nat /\ Total(back, S) \in Nat
  BY <1>4, TotalType
<1> QED
  BY <1>6, <1>7, <1>8, <1>9, <1>10 DEF undone, held

LEMMA DashboardTellsBooks == IInv /\ Books => DashboardAddsUp
<1> SUFFICES ASSUME IInv, Books PROVE DashboardAddsUp
  OBVIOUS
<1> DEFINE import == [k \in ActiveLots |-> lot[k].import]
           remaining == [k \in ActiveLots |-> lot[k].remaining]
           opening == [k \in ActiveLots |-> OpeningRow(k).import - OpeningRow(k).remaining]
           held == [k \in ActiveLots |-> Held(k)]
           undone == {p \in allocated : p[1][1] \in reverted}
           gone == [k \in ActiveLots |-> opening[k] + held[k]]
           back == Total([p \in undone |-> alloc[p]], undone)
<1>1. /\ IsFiniteSet(ActiveLots) /\ ActiveLots \subseteq Keys
      /\ \A k \in ActiveLots : lot[k] \in LotStates
  BY FiniteTables, FS_Subset DEF ActiveLots, IInv, TypeOK
<1>2. ASSUME NEW k \in ActiveLots
      PROVE  /\ import[k] \in Nat /\ remaining[k] \in Nat /\ lot[k].used \in Nat
             /\ opening[k] \in Nat /\ held[k] \in Nat
             /\ lot[k].used = opening[k] + held[k]
             /\ import[k] = lot[k].used + remaining[k]
  <2>1. Held(k) \in Nat /\ Balances(lot[k], OpeningRow(k), Held(k))
    BY <1>1, ShareType DEF IInv, Books
  <2>2. lot[k].import \in Nat /\ lot[k].remaining \in Nat /\ lot[k].used \in Nat
    BY <1>1 DEF LotStates
  <2> QED
    BY <2>1, <2>2 DEF Balances
<1>3. \A part \in Parts : LET sum == InventorySummary(part)
                         IN  sum.imported = sum.exported + sum.remaining
  <2> SUFFICES ASSUME NEW part \in Parts
               PROVE  LET sum == InventorySummary(part)
                      IN  sum.imported = sum.exported + sum.remaining
    OBVIOUS
  <2> DEFINE lots == LotsOf(part)
             i == [k \in lots |-> lot[k].import]
             u == [k \in lots |-> lot[k].used]
             m == [k \in lots |-> lot[k].remaining]
  <2>1. lots \subseteq ActiveLots /\ IsFiniteSet(lots)
    BY <1>1, FS_Subset DEF LotsOf
  <2>2. Quantities(u, lots) /\ Quantities(m, lots)
    BY <1>2, <2>1 DEF Quantities
  <2>3. i = [k \in lots |-> u[k] + m[k]]
    BY <1>2, <2>1
  <2>4. /\ InventorySummary(part).imported = Total(i, lots)
        /\ InventorySummary(part).exported = Total(u, lots)
        /\ InventorySummary(part).remaining = Total(m, lots)
    BY DEF InventorySummary
  <2> HIDE DEF i, u, m, lots
  <2> QED
    BY <2>2, <2>3, <2>4, TotalSum
<1>4. /\ Dashboard.imported = Total(import, ActiveLots)
      /\ Dashboard.matched = MatchedTotal
      /\ Dashboard.remaining = Total(remaining, ActiveLots)
  BY DEF Dashboard
<1>5. /\ Quantities(opening, ActiveLots) /\ Quantities(held, ActiveLots)
      /\ Quantities(gone, ActiveLots) /\ Quantities(remaining, ActiveLots)
  BY <1>1, <1>2 DEF Quantities
<1>6. import = [k \in ActiveLots |-> gone[k] + remaining[k]]
  BY <1>2
<1>7. back \in Nat /\ MatchedTotal = Total(held, ActiveLots) + back
  BY MatchedIsHeld
<1>8. Total(gone, ActiveLots) = Total(opening, ActiveLots) + Total(held, ActiveLots)
  <2> HIDE DEF opening, held
  <2> QED
    BY <1>5, TotalSum
<1>9. Total(import, ActiveLots) = Total(gone, ActiveLots) + Total(remaining, ActiveLots)
  <2> HIDE DEF gone, remaining, import
  <2> QED
    BY <1>5, <1>6, TotalSum
<1>10. DashboardAddsUp <=>
         /\ \A part \in Parts : LET sum == InventorySummary(part)
                               IN  sum.imported = sum.exported + sum.remaining
         /\ Dashboard.imported - Dashboard.remaining
               = Total(opening, ActiveLots) + Dashboard.matched - back
  BY DEF DashboardAddsUp
<1> HIDE DEF import, remaining, opening, held, undone, gone, back
<1>11. /\ Total(opening, ActiveLots) \in Nat /\ Total(held, ActiveLots) \in Nat
       /\ Total(remaining, ActiveLots) \in Nat
  BY <1>5, TotalType
<1>12. Dashboard.imported - Dashboard.remaining
           = Total(opening, ActiveLots) + Dashboard.matched - back
  BY <1>4, <1>7, <1>8, <1>9, <1>11
<1> QED
  BY <1>3, <1>10, <1>12

(* The totals of the dashboard and of the inventory page add up, as long   *)
(* as reverted files are left alone.                                       *)
THEOREM DashboardAlwaysAddsUp == CarefulSpec => []DashboardAddsUp
<1>1. IInv /\ [CarefulNext]_vars => IInv'
  BY NextKeeps, CarefulIsNext
<1> QED
  BY <1>1, InitHolds, InitBooks, CarefulBooks, DashboardTellsBooks, PTL DEF CarefulSpec
=============================================================================
