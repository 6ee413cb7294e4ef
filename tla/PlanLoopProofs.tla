--------------------------- MODULE PlanLoopProofs ---------------------------
(***************************************************************************)
(* The planner's loop, for any rows, lots and part numbers: it hands out   *)
(* no unit twice, explains every shortage, writes consistent balances, and *)
(* returns what FifoService promises.                                      *)
(*                                                                         *)
(* The argument: what the current row still needs is what the lots it has  *)
(* passed have left of it, and what a lot still has is what the rows that  *)
(* have been at it have left of it (Remains).  Where a row meets a lot of  *)
(* its part number, both sides are known, and the smaller one is the       *)
(* overlap of the closed form (Meet).                                      *)
(***************************************************************************)
EXTENDS PlanLoop, FifoProofs

(* Where a demand and a lot begin in the stock of their part number.       *)
Begins(e) == Total(request.need, Service!Sooner(request)[e])
Starts(l) == Total(request.avail, Service!Older(request)[l])

(* The rows that are finished, the lots the current row has passed, and    *)
(* the pairs the walk has been at.                                         *)
Served == {d \in Demands : d < Export \/ (finished /\ d = Export)}
Seen == Until(OrderedLots, pos)
Walked(e, l) == e \in Served \/ (e = Export /\ l \in Seen)

(* What the current row has passed of its part number's stock, and which   *)
(* rows have been at a lot of theirs.                                      *)
Passed == {m \in Seen : request.holds[m] = request.wants[Export]}
Callers(l) == {d \in Demands : request.wants[d] = request.holds[l] /\ Walked(d, l)}

(* What is left of the row and of every lot.                               *)
Remains ==
    /\ needed = Left(Begins(Export), request.need[Export], Total(request.avail, Passed))
    /\ \A l \in Lots :
          available[l] = Left(Starts(l), request.avail[l], Total(request.need, Callers(l)))

(* What has been taken is the closed form, as far as the walk has come.    *)
TakenSoFar ==
    \A e \in Demands, l \in Lots :
        taken[<<e, l>>] = IF Walked(e, l) THEN Service!Allocation(request)[<<e, l>>] ELSE 0

RowAddsUp == TakenFor(Export) + needed = request.need[Export]

RowsExplained ==
    \A e \in Served :
        /\ TakenFor(e) + shortage[e] = request.need[e]
        /\ shortage[e] > 0 =>
              \A l \in Lots : request.holds[l] = request.wants[e] => available[l] = 0

AllServed == finished => Served = Demands

IInv ==
    /\ TypeOK
    /\ AllServed
    /\ Remains
    /\ TakenSoFar
    /\ NothingPlannedTwice
    /\ BalanceAfterAddsUp
    /\ RowAddsUp
    /\ RowsExplained
-----------------------------------------------------------------------------
(* The request.                                                            *)

LEMMA RequestFacts ==
  ASSUME request \in Service!Requests
  PROVE  /\ \A e \in Demands : request.need[e] \in Nat
         /\ \A l \in Lots : request.avail[l] \in Nat /\ request.date[l] \in Nat
         /\ DOMAIN request.need = Demands /\ DOMAIN request.avail = Lots
         /\ \A S \in SUBSET Demands : Quantities(request.need, S)
         /\ \A S \in SUBSET Lots : Quantities(request.avail, S)
<1>1. /\ request.need \in [Demands -> Needs] /\ request.avail \in [Lots -> Balances]
      /\ request.date \in [Lots -> Dates]
  BY DEF Service!Requests
<1>2. /\ Needs \subseteq Nat /\ Balances \subseteq Nat /\ Dates \subseteq Nat
      /\ IsFiniteSet(Demands) /\ IsFiniteSet(Lots)
  BY PlanAssumption
<1>3. \A S \in SUBSET Demands : Quantities(request.need, S)
  BY <1>1, <1>2, FS_Subset DEF Quantities
<1>4. \A S \in SUBSET Lots : Quantities(request.avail, S)
  BY <1>1, <1>2, FS_Subset DEF Quantities
<1> QED
  BY <1>1, <1>2, <1>3, <1>4

(* The order the code sorts the lots by.                                   *)
LotsBefore == [l \in Lots |-> {m \in Lots : Service!OlderThan(request, m, l)}]

LEMMA LotOrder ==
  ASSUME request \in Service!Requests
  PROVE  StrictOrder(LotsBefore) /\ DOMAIN LotsBefore = Lots /\ OrderedLots = Sorted(LotsBefore)
<1>1. /\ \A l \in Lots : request.date[l] \in Nat
      /\ Lots \subseteq Nat /\ IsFiniteSet(Lots)
  BY RequestFacts, PlanAssumption
<1>2. DOMAIN LotsBefore = Lots /\ OrderedLots = Sorted(LotsBefore)
      /\ \A l \in Lots : LotsBefore[l] \subseteq Lots
  BY DEF LotsBefore, OrderedLots
<1>3. \A l, m \in Lots :
         m \in LotsBefore[l] <=> (request.date[m] < request.date[l]
                                    \/ (request.date[m] = request.date[l] /\ m < l))
  BY DEF LotsBefore, Service!OlderThan
<1>4. StrictOrder(LotsBefore)
  BY <1>1, <1>2, <1>3, InDateOrder
<1> QED
  BY <1>2, <1>4

LEMMA SoonerOlder ==
  ASSUME request \in Service!Requests
  PROVE  /\ \A e \in Demands :
               /\ Service!Sooner(request)[e]
                     = {d \in Demands : d < e /\ request.wants[d] = request.wants[e]}
               /\ Begins(e) \in Nat
         /\ \A l \in Lots :
               /\ Service!Older(request)[l]
                     = {m \in LotsBefore[l] : request.holds[m] = request.holds[l]}
               /\ Starts(l) \in Nat
<1>1. \A e \in Demands : Service!Sooner(request)[e]
                            = {d \in Demands : d < e /\ request.wants[d] = request.wants[e]}
  BY DEF Service!Sooner
<1>2. \A l \in Lots : Service!Older(request)[l]
                         = {m \in LotsBefore[l] : request.holds[m] = request.holds[l]}
  BY DEF Service!Older, LotsBefore
<1>3. ASSUME NEW e \in Demands PROVE Begins(e) \in Nat
  <2>1. Quantities(request.need, Service!Sooner(request)[e])
    BY <1>1, RequestFacts
  <2> QED
    BY <2>1, TotalType DEF Begins
<1>4. ASSUME NEW l \in Lots PROVE Starts(l) \in Nat
  <2>1. Quantities(request.avail, Service!Older(request)[l])
    <3>1. Service!Older(request)[l] \subseteq Lots
      BY DEF Service!Older
    <3> QED
      BY <3>1, RequestFacts
  <2> QED
    BY <2>1, TotalType DEF Starts
<1> QED
  BY <1>1, <1>2, <1>3, <1>4

(* The operators of Fifo, seen through FifoService, are the same.          *)
LEMMA SameTotal ==
  ASSUME NEW q, NEW S
  PROVE  Service!Total(q, S) = Total(q, S)
<1>1. Service!Units(q, S) = Units(q, S)
  BY Zenon DEF Service!Units, Units
<1>2. Service!Cardinality(Units(q, S)) = Cardinality(Units(q, S))
  BY DEF Service!Cardinality, Cardinality
<1> QED
  BY <1>1, <1>2 DEF Service!Total, Total

LEMMA SameOverlap ==
  ASSUME NEW a, NEW m, NEW b, NEW n
  PROVE  Service!Overlap(a, m, b, n) = Overlap(a, m, b, n)
BY DEF Service!Overlap, Overlap, Service!Nonneg, Nonneg

LEMMA PairValue ==
  ASSUME NEW e \in Demands, NEW l \in Lots, request \in Service!Requests
  PROVE  /\ request.wants[e] = request.holds[l] =>
               Service!Allocation(request)[<<e, l>>]
                  = Overlap(Begins(e), request.need[e], Starts(l), request.avail[l])
         /\ request.wants[e] # request.holds[l] => Service!Allocation(request)[<<e, l>>] = 0
<1>1. DOMAIN request.need = Demands /\ DOMAIN request.avail = Lots
  BY RequestFacts
<1>2. <<e, l>> \in Service!Fits(request) <=> request.wants[e] = request.holds[l]
  BY DEF Service!Fits
<1> DEFINE a == Begins(e)
           b == Starts(l)
<1>3. a = Service!Total(request.need, Service!Sooner(request)[e])
      /\ b = Service!Total(request.avail, Service!Older(request)[l])
  BY SameTotal DEF Begins, Starts
<1>4. Service!Allocation(request)[<<e, l>>]
         = IF <<e, l>> \in Service!Fits(request)
           THEN Service!Overlap(a, request.need[e], b, request.avail[l])
           ELSE 0
  <2> HIDE DEF a, b
  <2> QED
    BY <1>1, <1>3 DEF Service!Allocation, Service!FifoTake
<1> QED
  BY <1>2, <1>4, SameOverlap
-----------------------------------------------------------------------------
(* Where the walk is.                                                      *)

LEMMA RowFacts ==
  /\ DOMAIN OrderedExports = 1 .. Len(OrderedExports) /\ Len(OrderedExports) \in Nat \ {0}
  /\ \A i \in DOMAIN OrderedExports : OrderedExports[i] \in Demands
  /\ {d \in Demands : d < OrderedExports[1]} = {}
  /\ \A i \in DOMAIN OrderedExports :
        {d \in Demands : d < OrderedExports[i]} \cup {OrderedExports[i]}
            = IF i < Len(OrderedExports)
              THEN {d \in Demands : d < OrderedExports[i + 1]} ELSE Demands
<1>1. Demands \subseteq Nat /\ IsFiniteSet(Demands) /\ Demands # {}
  BY PlanAssumption
<1> DEFINE b == [e \in Demands |-> {d \in Demands : d < e}]
<1>2. OrderedExports = Sorted(b) /\ DOMAIN b = Demands
      /\ \A e \in Demands : b[e] = Lower(Demands, e)
  BY DEF OrderedExports, Lower
<1> HIDE DEF b
<1>3. StepsThrough(Demands, OrderedExports)
  BY <1>1, <1>2, InNumberOrder
<1> QED
  BY <1>3 DEF StepsThrough, Lower

LEMMA LotFacts ==
  ASSUME TypeOK
  PROVE  /\ Len(OrderedLots) \in Nat /\ Seen \subseteq Lots
         /\ \A l \in Lots : l \notin Seen => Seen \subseteq LotsBefore[l]
         /\ pos > Len(OrderedLots) => Seen = Lots
         /\ Until(OrderedLots, 1) = {}
<1>1. StrictOrder(LotsBefore) /\ DOMAIN LotsBefore = Lots /\ OrderedLots = Sorted(LotsBefore)
  BY LotOrder DEF TypeOK
<1>2. Len(OrderedLots) = Cardinality(Lots) /\ Cardinality(Lots) \in Nat
  BY <1>1, SortedFacts
<1>3. pos \in 1 .. Cardinality(Lots) + 1
  BY <1>2 DEF TypeOK
<1>4. /\ Until(OrderedLots, 1) = {} /\ Until(OrderedLots, Cardinality(Lots) + 1) = Lots
      /\ Until(OrderedLots, pos) \subseteq Lots
      /\ \A l \in Lots : l \notin Until(OrderedLots, pos)
                            => Until(OrderedLots, pos) \subseteq LotsBefore[l]
  BY <1>1, <1>3, UntilFacts
<1>5. pos > Len(OrderedLots) => pos = Cardinality(Lots) + 1
  BY <1>2, <1>3
<1> QED
  BY <1>2, <1>4, <1>5 DEF Seen

LEMMA AtLot ==
  ASSUME TypeOK, pos <= Len(OrderedLots)
  PROVE  /\ Lot \in Lots /\ Lot \notin Seen /\ LotsBefore[Lot] = Seen
         /\ Until(OrderedLots, pos + 1) = Seen \cup {Lot}
<1>1. StrictOrder(LotsBefore) /\ DOMAIN LotsBefore = Lots /\ OrderedLots = Sorted(LotsBefore)
  BY LotOrder DEF TypeOK
<1>2. Len(OrderedLots) = Cardinality(Lots) /\ Cardinality(Lots) \in Nat
  BY <1>1, SortedFacts
<1>3. pos \in 1 .. Cardinality(Lots)
  BY <1>2 DEF TypeOK
<1> QED
  BY <1>1, <1>3, UntilNext DEF Seen, Lot

(* The next lot for the same row.                                          *)
LEMMA NextLot ==
  ASSUME TypeOK, Walking, pos' = pos + 1, UNCHANGED <<request, row, finished>>
  PROVE  /\ Export \in Demands /\ Lot \in Lots /\ Export' = Export
         /\ Seen' = Seen \cup {Lot} /\ Served' = Served /\ Export \notin Served
         /\ ~Walked(Export, Lot)
         /\ \A d, l : Walked(d, l)' <=> Walked(d, l) \/ (d = Export /\ l = Lot)
<1>1. Export \in Demands /\ Export' = Export
  BY RowFacts DEF TypeOK, Export
<1>2. OrderedLots' = OrderedLots
  BY DEF OrderedLots, Service!OlderThan
<1>3. Lot \in Lots /\ Lot \notin Seen /\ Until(OrderedLots, pos + 1) = Seen \cup {Lot}
  BY AtLot DEF Walking
<1>4. Seen' = Seen \cup {Lot}
  BY <1>2, <1>3 DEF Seen
<1>5. Served' = Served /\ Export \notin Served
  <2>1. Export \in Nat /\ ~finished
    BY <1>1, PlanAssumption DEF Walking
  <2> QED
    BY <1>1, <2>1 DEF Served
<1> QED
  BY <1>1, <1>3, <1>4, <1>5 DEF Walked

(* The next row, or the return.                                            *)
LEMMA NextRow ==
  ASSUME TypeOK, FinishExport
  PROVE  /\ Export \in Demands /\ Served' = Served \cup {Export} /\ Export \notin Served
         /\ Export' \in Demands
         /\ \A d, l : Walked(d, l)' <=> d \in Served \cup {Export}
         /\ finished' => Served' = Demands /\ Export' = Export /\ Seen' = Seen
         /\ ~finished' => Seen' = {} /\ Served' = {d \in Demands : d < Export'}
                          /\ Export' \notin Served'
<1>1. Export \in Demands /\ ~finished /\ Export \in Nat
  BY RowFacts, PlanAssumption DEF TypeOK, Export, FinishExport
<1>2. OrderedLots' = OrderedLots
  BY DEF OrderedLots, Service!OlderThan, FinishExport
<1>3. Served = {d \in Demands : d < Export} /\ Export \notin Served
  BY <1>1 DEF Served
<1>4. row \in 1 .. Len(OrderedExports) /\ Len(OrderedExports) \in Nat
  BY RowFacts DEF TypeOK
<1>5. CASE row < Len(OrderedExports)
  <2>1. row' = row + 1 /\ pos' = 1 /\ finished' = finished
    BY <1>5 DEF FinishExport
  <2>2. Export' = OrderedExports[row + 1] /\ row + 1 \in DOMAIN OrderedExports
    BY <1>4, <1>5, <2>1, RowFacts DEF Export
  <2>3. Export' \in Demands
    BY <2>2, RowFacts
  <2>4. {d \in Demands : d < Export'} = Served \cup {Export}
    BY <1>3, <1>4, <1>5, <2>2, RowFacts DEF Export
  <2>5. Served' = {d \in Demands : d < Export'}
    BY <1>1, <2>1 DEF Served
  <2>6. Seen' = {}
    BY <1>2, <2>1, LotFacts DEF Seen
  <2>7. Export' \notin Served'
    BY <2>3, <2>5, PlanAssumption
  <2> QED
    BY <1>1, <1>3, <2>1, <2>3, <2>4, <2>5, <2>6, <2>7 DEF Walked
<1>6. CASE ~(row < Len(OrderedExports))
  <2>1. finished' = TRUE /\ row' = row /\ pos' = pos
    BY <1>6 DEF FinishExport
  <2>2. Export' = Export /\ Seen' = Seen
    BY <1>2, <2>1 DEF Export, Seen
  <2>3. Served \cup {Export} = Demands
    BY <1>3, <1>4, <1>6, RowFacts DEF Export
  <2>4. Served' = Served \cup {Export}
    BY <1>1, <1>3, <2>1, <2>2 DEF Served
  <2> QED
    BY <1>1, <1>3, <2>1, <2>2, <2>3, <2>4 DEF Walked
<1> QED
  BY <1>5, <1>6
-----------------------------------------------------------------------------
(* A row at a lot.                                                         *)

Fitting == request.holds[Lot] = request.wants[Export]
Smaller == IF needed <= available[Lot] THEN needed ELSE available[Lot]

(* What the row takes from the lot; nothing, if the loop skips it.         *)
Met == IF Fitting THEN Smaller ELSE 0

LEMMA PartsOf ==
  ASSUME TypeOK, Walking
  PROVE  /\ Export \in Demands /\ Lot \in Lots /\ ~finished
         /\ Fitting => /\ Passed = Service!Older(request)[Lot]
                       /\ Callers(Lot) = Service!Sooner(request)[Export]
<1>1. Export \in Demands /\ ~finished
  BY RowFacts DEF TypeOK, Export, Walking
<1>2. Lot \in Lots /\ Lot \notin Seen /\ LotsBefore[Lot] = Seen
  BY AtLot DEF Walking
<1>3. request \in Service!Requests
  BY DEF TypeOK
<1>4. ASSUME Fitting PROVE Passed = Service!Older(request)[Lot]
  BY <1>2, <1>3, <1>4, SoonerOlder DEF Fitting, Passed
<1>5. ASSUME Fitting PROVE Callers(Lot) = Service!Sooner(request)[Export]
  <2>1. Callers(Lot) = {d \in Demands : request.wants[d] = request.wants[Export] /\ Walked(d, Lot)}
    BY <1>5 DEF Callers, Fitting
  <2>2. \A d \in Demands : Walked(d, Lot) <=> d < Export
    BY <1>1, <1>2 DEF Walked, Served
  <2>3. Service!Sooner(request)[Export]
           = {d \in Demands : d < Export /\ request.wants[d] = request.wants[Export]}
    BY <1>1, <1>3, SoonerOlder
  <2> QED
    BY <2>1, <2>2, <2>3
<1> QED
  BY <1>1, <1>2, <1>4, <1>5

(* Two quantities meet.                                                    *)
LEMMA Meeting ==
  ASSUME TypeOK, Remains, Walking
  PROVE  /\ Met \in Nat /\ Met <= needed /\ Met <= available[Lot]
         /\ Met = Service!Allocation(request)[<<Export, Lot>>]
         /\ Fitting =>
               /\ needed - Met = Left(Begins(Export), request.need[Export],
                                      Starts(Lot) + request.avail[Lot])
               /\ available[Lot] - Met = Left(Starts(Lot), request.avail[Lot],
                                              Begins(Export) + request.need[Export])
<1> DEFINE a == Begins(Export)
           n == request.need[Export]
           b == Starts(Lot)
           m == request.avail[Lot]
<1>1. /\ Export \in Demands /\ Lot \in Lots
      /\ Fitting => /\ Passed = Service!Older(request)[Lot]
                    /\ Callers(Lot) = Service!Sooner(request)[Export]
  BY PartsOf
<1>2. request \in Service!Requests /\ needed \in Nat /\ available[Lot] \in Nat
  BY <1>1 DEF TypeOK
<1>3. a \in Nat /\ n \in Nat /\ b \in Nat /\ m \in Nat
  BY <1>1, <1>2, SoonerOlder, RequestFacts
<1>4. CASE Fitting
  <2>1. needed = Left(a, n, b) /\ available[Lot] = Left(b, m, a)
    BY <1>1, <1>4 DEF Remains, Begins, Starts
  <2>2. Met = IF needed <= available[Lot] THEN needed ELSE available[Lot]
    BY <1>4 DEF Met, Smaller
  <2>3. Service!Allocation(request)[<<Export, Lot>>] = Overlap(a, n, b, m)
    BY <1>1, <1>2, <1>4, PairValue DEF Fitting
  <2> HIDE DEF a, n, b, m
  <2> DEFINE met == Met
  <2>4. met = IF Left(a, n, b) <= Left(b, m, a) THEN Left(a, n, b) ELSE Left(b, m, a)
    BY <2>1, <2>2
  <2> HIDE DEF met
  <2>5. /\ met = Overlap(a, n, b, m)
        /\ Left(a, n, b) - met = Left(a, n, b + m)
        /\ Left(b, m, a) - met = Left(b, m, a + n)
    BY <1>3, <2>4, Meet
  <2>6. /\ Met = Overlap(a, n, b, m)
        /\ needed - Met = Left(a, n, b + m)
        /\ available[Lot] - Met = Left(b, m, a + n)
    BY <2>1, <2>5 DEF met
  <2>7. Met \in Nat /\ Met <= needed /\ Met <= available[Lot]
    BY <1>2, <2>2
  <2> QED
    BY <2>3, <2>6, <2>7 DEF a, n, b, m
<1>5. CASE ~Fitting
  BY <1>1, <1>2, <1>5, PairValue DEF Met, Fitting
<1> QED
  BY <1>4, <1>5

(* A step of the inner loop, whether it skips the lot or not.              *)
Turn ==
    /\ Walking
    /\ pos' = pos + 1
    /\ needed' = needed - Met
    /\ available' = [available EXCEPT ![Lot] = available[Lot] - Met]
    /\ taken' = [taken EXCEPT ![<<Export, Lot>>] = Met]
    /\ UNCHANGED <<request, row, finished, shortage>>

LEMMA SmallerIsMin ==
  ASSUME NEW a \in Nat, NEW b \in Nat
  PROVE  Min({a, b}) = IF a <= b THEN a ELSE b
BY DEF Min

LEMMA EveryTurn ==
  ASSUME IInv, SkipLot \/ TakeLot
  PROVE  Turn
<1>1. TypeOK /\ Remains /\ TakenSoFar /\ Walking
  BY DEF IInv, SkipLot, TakeLot
<1>2. Export \in Demands /\ Lot \in Lots
  BY <1>1, PartsOf
<1>3. needed \in Nat /\ available[Lot] \in Nat /\ available \in [Lots -> Nat]
      /\ taken \in [Pairs -> Nat] /\ <<Export, Lot>> \in Pairs
  BY <1>1, <1>2 DEF TypeOK, Pairs
<1>4. CASE SkipLot
  <2>1. Met = 0
    BY <1>3, <1>4 DEF SkipLot, Met, Fitting, Smaller
  <2>2. taken[<<Export, Lot>>] = 0
    <3>1. Lot \notin Seen
      BY <1>1, AtLot DEF Walking
    <3>2. Export \notin Served
      BY <1>1, <1>2, PlanAssumption DEF Served, Walking
    <3> QED
      BY <1>1, <1>2, <3>1, <3>2 DEF TakenSoFar, Walked
  <2>3. available' = [available EXCEPT ![Lot] = available[Lot] - Met]
        /\ taken' = [taken EXCEPT ![<<Export, Lot>>] = Met]
    BY <1>3, <1>4, <2>1, <2>2 DEF SkipLot
  <2>4. needed' = needed - Met
    BY <1>3, <1>4, <2>1 DEF SkipLot
  <2>5. pos' = pos + 1 /\ UNCHANGED <<request, row, finished, shortage>>
    BY <1>4 DEF SkipLot
  <2> QED
    BY <1>1, <2>3, <2>4, <2>5 DEF Turn
<1>5. CASE TakeLot
  <2>1. Quantity = Smaller
    BY <1>3, SmallerIsMin DEF Quantity, Smaller
  <2>2. Met = Quantity
    BY <1>5, <2>1 DEF TakeLot, Met, Fitting
  <2> QED
    BY <1>1, <1>5, <2>2 DEF TakeLot, Turn, AvailableAfter
<1> QED
  BY <1>4, <1>5

LEMMA TurnRemains ==
  ASSUME TypeOK, Remains, Turn
  PROVE  Remains'
<1>1. /\ Walking /\ pos' = pos + 1 /\ UNCHANGED <<request, row, finished>>
      /\ needed' = needed - Met
      /\ available' = [available EXCEPT ![Lot] = available[Lot] - Met]
  BY DEF Turn
<1>2. /\ Export \in Demands /\ Lot \in Lots /\ Export' = Export
      /\ Seen' = Seen \cup {Lot} /\ ~Walked(Export, Lot)
      /\ \A d, l : Walked(d, l)' <=> Walked(d, l) \/ (d = Export /\ l = Lot)
  BY <1>1, NextLot
<1>3. request' = request /\ request \in Service!Requests /\ available \in [Lots -> Nat]
      /\ needed \in Nat
  BY <1>1 DEF TypeOK
<1>4. /\ Begins(Export)' = Begins(Export)
      /\ \A l \in Lots : Starts(l)' = Starts(l)
  BY <1>2, <1>3 DEF Begins, Starts, Service!Sooner, Service!Older, Service!OlderThan
<1>5. /\ Fitting => Passed' = Passed \cup {Lot}
      /\ ~Fitting => Passed' = Passed
  BY <1>2, <1>3 DEF Passed, Fitting
<1>6. \A l \in Lots :
         /\ l = Lot /\ Fitting => Callers(l)' = Callers(l) \cup {Export} /\ Export \notin Callers(l)
         /\ ~(l = Lot /\ Fitting) => Callers(l)' = Callers(l)
  BY <1>2, <1>3 DEF Callers, Fitting
<1>7. Met \in Nat
      /\ (Fitting =>
            /\ needed - Met = Left(Begins(Export), request.need[Export],
                                   Starts(Lot) + request.avail[Lot])
            /\ available[Lot] - Met = Left(Starts(Lot), request.avail[Lot],
                                           Begins(Export) + request.need[Export]))
  BY <1>1, Meeting
<1>8. Fitting => Passed = Service!Older(request)[Lot] /\ Callers(Lot) = Service!Sooner(request)[Export]
  BY <1>1, PartsOf
<1>9. needed' = Left(Begins(Export)', request'.need[Export'], Total(request'.avail, Passed'))
  <2>1. CASE Fitting
    <3>1. Lot \notin Passed /\ Passed \subseteq Lots
      BY <1>1, AtLot, LotFacts DEF Passed, Walking
    <3>2. Quantities(request.avail, Passed) /\ request.avail[Lot] \in Nat
      BY <1>2, <1>3, <3>1, RequestFacts
    <3>3. Total(request.avail, Passed \cup {Lot}) = Total(request.avail, Passed) + request.avail[Lot]
      BY <3>1, <3>2, TotalAdd
    <3>4. Total(request.avail, Passed') = Starts(Lot) + request.avail[Lot]
      BY <1>5, <1>8, <2>1, <3>3 DEF Starts
    <3> QED
      BY <1>1, <1>2, <1>3, <1>4, <1>7, <2>1, <3>4
  <2>2. CASE ~Fitting
    <3>1. Met = 0
      BY <2>2 DEF Met
    <3> QED
      BY <1>1, <1>2, <1>3, <1>4, <1>5, <2>2, <3>1 DEF Remains
  <2> QED
    BY <2>1, <2>2
<1>10. ASSUME NEW l \in Lots
       PROVE  available'[l] = Left(Starts(l)', request'.avail[l], Total(request'.need, Callers(l)'))
  <2>1. CASE l = Lot /\ Fitting
    <3>1. Export \notin Callers(Lot) /\ Callers(Lot) \subseteq Demands
      BY <1>6, <2>1 DEF Callers
    <3>2. Quantities(request.need, Callers(Lot)) /\ request.need[Export] \in Nat
      BY <1>2, <1>3, <3>1, RequestFacts
    <3>3. Total(request.need, Callers(Lot) \cup {Export})
             = Total(request.need, Callers(Lot)) + request.need[Export]
      BY <3>1, <3>2, TotalAdd
    <3>4. Total(request.need, Callers(l)') = Begins(Export) + request.need[Export]
      <4>1. Callers(l)' = Callers(Lot) \cup {Export}
        BY <1>6, <2>1
      <4>2. Total(request.need, Callers(Lot)) = Begins(Export)
        BY <1>8, <2>1 DEF Begins
      <4> QED
        BY <3>3, <4>1, <4>2
    <3>5. available'[l] = available[Lot] - Met
      BY <1>1, <1>2, <1>3, <2>1
    <3>6. Starts(l)' = Starts(Lot) /\ request'.avail[l] = request.avail[Lot]
          /\ request'.need = request.need
      BY <1>3, <1>4, <2>1
    <3> QED
      BY <1>7, <2>1, <3>4, <3>5, <3>6
  <2>2. CASE ~(l = Lot /\ Fitting)
    <3>1. available'[l] = available[l]
      <4>1. l = Lot => Met = 0
        BY <2>2 DEF Met
      <4> QED
        BY <1>1, <1>2, <1>3, <4>1
    <3> QED
      BY <1>3, <1>4, <1>6, <2>2, <3>1 DEF Remains
  <2> QED
    BY <2>1, <2>2
<1> QED
  BY <1>9, <1>10 DEF Remains

LEMMA TurnTaken ==
  ASSUME TypeOK, Remains, TakenSoFar, Turn
  PROVE  TakenSoFar'
<1>1. /\ Walking /\ pos' = pos + 1 /\ UNCHANGED <<request, row, finished>>
      /\ taken' = [taken EXCEPT ![<<Export, Lot>>] = Met]
  BY DEF Turn
<1>2. /\ Export \in Demands /\ Lot \in Lots
      /\ \A d, l : Walked(d, l)' <=> Walked(d, l) \/ (d = Export /\ l = Lot)
  BY <1>1, NextLot
<1>3. Met = Service!Allocation(request)[<<Export, Lot>>]
  BY <1>1, Meeting
<1>4. request' = request /\ taken \in [Pairs -> Nat]
  BY <1>1 DEF TypeOK
<1> SUFFICES ASSUME NEW e \in Demands, NEW l \in Lots
             PROVE  taken'[<<e, l>>]
                      = IF Walked(e, l)' THEN Service!Allocation(request)[<<e, l>>] ELSE 0
  BY <1>4 DEF TakenSoFar
<1>5. <<e, l>> \in Pairs /\ taken[<<e, l>>]
         = IF Walked(e, l) THEN Service!Allocation(request)[<<e, l>>] ELSE 0
  BY DEF TakenSoFar, Pairs
<1>6. CASE e = Export /\ l = Lot
  BY <1>1, <1>2, <1>3, <1>4, <1>5, <1>6
<1>7. CASE ~(e = Export /\ l = Lot)
  <2>1. taken'[<<e, l>>] = taken[<<e, l>>]
    BY <1>1, <1>4, <1>5, <1>7
  <2> QED
    BY <1>2, <1>5, <1>7, <2>1
<1> QED
  BY <1>6, <1>7

LEMMA TakenType ==
  ASSUME TypeOK
  PROVE  /\ \A l \in Lots : TakenFrom(l) \in Nat
         /\ \A e \in Demands : TakenFor(e) \in Nat
         /\ \A l \in Lots : Quantities([e \in Demands |-> taken[<<e, l>>]], Demands)
         /\ \A e \in Demands : Quantities([l \in Lots |-> taken[<<e, l>>]], Lots)
<1>1. \A e \in Demands, l \in Lots : taken[<<e, l>>] \in Nat
  BY DEF TypeOK, Pairs
<1>2. \A l \in Lots : Quantities([e \in Demands |-> taken[<<e, l>>]], Demands)
  BY <1>1, PlanAssumption DEF Quantities
<1>3. \A e \in Demands : Quantities([l \in Lots |-> taken[<<e, l>>]], Lots)
  BY <1>1, PlanAssumption DEF Quantities
<1> QED
  BY <1>2, <1>3, TotalType DEF TakenFrom, TakenFor

LEMMA TurnTotals ==
  ASSUME TypeOK, Remains, TakenSoFar, Turn
  PROVE  /\ \A l \in Lots : TakenFrom(l)' = TakenFrom(l) + (IF l = Lot THEN Met ELSE 0)
         /\ \A e \in Demands : TakenFor(e)' = TakenFor(e) + (IF e = Export THEN Met ELSE 0)
<1>1. /\ Walking /\ pos' = pos + 1 /\ UNCHANGED <<request, row, finished>>
      /\ taken' = [taken EXCEPT ![<<Export, Lot>>] = Met]
  BY DEF Turn
<1>2. Export \in Demands /\ Lot \in Lots /\ ~Walked(Export, Lot)
  BY <1>1, NextLot
<1>3. taken[<<Export, Lot>>] = 0 /\ Met \in Nat
  BY <1>1, <1>2, Meeting DEF TakenSoFar
<1>4. \A e \in Demands, l \in Lots :
         /\ taken'[<<e, l>>] = IF e = Export /\ l = Lot THEN Met ELSE taken[<<e, l>>]
         /\ taken[<<e, l>>] \in Nat
  <2> SUFFICES ASSUME NEW e \in Demands, NEW l \in Lots
               PROVE  /\ taken'[<<e, l>>] = IF e = Export /\ l = Lot THEN Met ELSE taken[<<e, l>>]
                      /\ taken[<<e, l>>] \in Nat
    OBVIOUS
  <2>1. taken \in [Pairs -> Nat] /\ <<e, l>> \in Pairs
    BY DEF TypeOK, Pairs
  <2> QED
    BY <1>1, <2>1
<1>5. ASSUME NEW l \in Lots
      PROVE  TakenFrom(l)' = TakenFrom(l) + (IF l = Lot THEN Met ELSE 0)
  <2> DEFINE q == [e \in Demands |-> taken[<<e, l>>]]
             r == [e \in Demands |-> taken'[<<e, l>>]]
  <2>1. TakenFrom(l) = Total(q, Demands) /\ TakenFrom(l)' = Total(r, Demands)
        /\ Total(q, Demands) \in Nat /\ Quantities(q, Demands)
    BY TakenType DEF TakenFrom
  <2>2. \A e \in Demands : r[e] = IF e = Export /\ l = Lot THEN Met ELSE q[e]
    BY <1>4
  <2>3. l = Lot => q[Export] = 0
    BY <1>2, <1>3
  <2> HIDE DEF q, r
  <2>4. CASE l = Lot
    <3>1. r[Export] = Met /\ \A e \in Demands : e # Export => r[e] = q[e]
      BY <1>2, <2>2, <2>4
    <3>2. Total(r, Demands) = Total(q, Demands) + r[Export]
      BY <1>2, <1>3, <2>1, <2>3, <2>4, <3>1, TotalRaise
    <3> QED
      BY <2>1, <2>4, <3>1, <3>2
  <2>5. CASE l # Lot
    <3>1. Total(r, Demands) = Total(q, Demands)
      BY <2>2, <2>5, TotalSame
    <3> QED
      BY <2>1, <2>5, <3>1
  <2> QED
    BY <2>4, <2>5
<1>6. ASSUME NEW e \in Demands
      PROVE  TakenFor(e)' = TakenFor(e) + (IF e = Export THEN Met ELSE 0)
  <2> DEFINE q == [l \in Lots |-> taken[<<e, l>>]]
             r == [l \in Lots |-> taken'[<<e, l>>]]
  <2>1. TakenFor(e) = Total(q, Lots) /\ TakenFor(e)' = Total(r, Lots)
        /\ Total(q, Lots) \in Nat /\ Quantities(q, Lots)
    BY TakenType DEF TakenFor
  <2>2. \A l \in Lots : r[l] = IF e = Export /\ l = Lot THEN Met ELSE q[l]
    BY <1>4
  <2>3. e = Export => q[Lot] = 0
    BY <1>2, <1>3
  <2> HIDE DEF q, r
  <2>4. CASE e = Export
    <3>1. r[Lot] = Met /\ \A l \in Lots : l # Lot => r[l] = q[l]
      BY <1>2, <2>2, <2>4
    <3>2. Total(r, Lots) = Total(q, Lots) + r[Lot]
      BY <1>2, <1>3, <2>1, <2>3, <2>4, <3>1, TotalRaise
    <3> QED
      BY <2>1, <2>4, <3>1, <3>2
  <2>5. CASE e # Export
    <3>1. Total(r, Lots) = Total(q, Lots)
      BY <2>2, <2>5, TotalSame
    <3> QED
      BY <2>1, <2>5, <3>1
  <2> QED
    BY <2>4, <2>5
<1> QED
  BY <1>5, <1>6

LEMMA TurnAddsUp ==
  ASSUME TypeOK, Remains, TakenSoFar, NothingPlannedTwice, RowAddsUp, RowsExplained, Turn
  PROVE  NothingPlannedTwice' /\ RowAddsUp' /\ RowsExplained'
<1>1. /\ Walking /\ pos' = pos + 1 /\ UNCHANGED <<request, row, finished, shortage>>
      /\ needed' = needed - Met
      /\ available' = [available EXCEPT ![Lot] = available[Lot] - Met]
  BY DEF Turn
<1>2. Export \in Demands /\ Lot \in Lots /\ Export' = Export
      /\ Served' = Served /\ Export \notin Served
  BY <1>1, NextLot
<1>3. Met \in Nat /\ Met <= available[Lot]
  BY <1>1, Meeting
<1>4. available \in [Lots -> Nat] /\ needed \in Nat /\ request' = request
      /\ request \in Service!Requests
  BY <1>1 DEF TypeOK
<1>5. /\ \A l \in Lots : TakenFrom(l)' = TakenFrom(l) + (IF l = Lot THEN Met ELSE 0)
      /\ \A e \in Demands : TakenFor(e)' = TakenFor(e) + (IF e = Export THEN Met ELSE 0)
  BY TurnTotals
<1>6. \A l \in Lots : TakenFrom(l) \in Nat
      /\ available'[l] = (IF l = Lot THEN available[l] - Met ELSE available[l])
      /\ available[l] \in Nat
  BY <1>1, <1>2, <1>4, TakenType
<1>7. \A e \in Demands : TakenFor(e) \in Nat
  BY TakenType
<1>8. NothingPlannedTwice'
  <2> SUFFICES ASSUME NEW l \in Lots PROVE available'[l] + TakenFrom(l)' = request.avail[l]
    BY <1>4 DEF NothingPlannedTwice
  <2>1. available[l] + TakenFrom(l) = request.avail[l]
    BY DEF NothingPlannedTwice
  <2> QED
    BY <1>3, <1>5, <1>6, <2>1
<1>9. RowAddsUp'
  <2>1. TakenFor(Export) + needed = request.need[Export]
    BY DEF RowAddsUp
  <2>2. TakenFor(Export)' = TakenFor(Export) + Met
    <3>1. TakenFor(Export)' = Total([l \in Lots |-> taken'[<<Export, l>>]], Lots)
      BY <1>2 DEF TakenFor
    <3> DEFINE e == Export
    <3>2. e \in Demands /\ e = Export
      BY <1>2
    <3> HIDE DEF e
    <3>3. Total([l \in Lots |-> taken'[<<e, l>>]], Lots) = TakenFor(e) + Met
      BY <1>5, <3>2 DEF TakenFor
    <3> QED
      BY <3>1, <3>2, <3>3
  <2> QED
    BY <1>1, <1>2, <1>3, <1>4, <1>7, <2>1, <2>2 DEF RowAddsUp
<1>10. RowsExplained'
  <2> SUFFICES ASSUME NEW e \in Served
               PROVE  /\ TakenFor(e)' + shortage[e] = request.need[e]
                      /\ shortage[e] > 0 =>
                            \A l \in Lots : request.holds[l] = request.wants[e] => available'[l] = 0
    BY <1>1, <1>2, <1>4 DEF RowsExplained
  <2>1. e \in Demands /\ e # Export
    BY <1>2 DEF Served
  <2>2. TakenFor(e)' = TakenFor(e)
    BY <1>5, <1>7, <2>1
  <2>3. \A l \in Lots : available[l] = 0 => available'[l] = 0
    BY <1>3, <1>6
  <2> QED
    BY <2>2, <2>3 DEF RowsExplained
<1> QED
  BY <1>8, <1>9, <1>10

(* The balances that are written down.                                     *)
UpTo(e) == {d \in Demands : d <= e}
AccountOf(e, l) ==
    taken[<<e, l>>] > 0 =>
        after[<<e, l>>] = request.avail[l] - Total([d \in Demands |-> taken[<<d, l>>]], UpTo(e))

LEMMA Accounts ==
  BalanceAfterAddsUp <=> \A e \in Demands, l \in Lots : AccountOf(e, l)
<1>1. ASSUME BalanceAfterAddsUp, NEW e \in Demands, NEW l \in Lots
      PROVE  AccountOf(e, l)
  <2>1. <<e, l>> \in Pairs /\ <<e, l>>[1] = e /\ <<e, l>>[2] = l
    BY DEF Pairs
  <2> QED
    BY <1>1, <2>1 DEF BalanceAfterAddsUp, AccountOf, UpTo
<1>2. ASSUME \A e \in Demands, l \in Lots : AccountOf(e, l), NEW p \in Pairs, taken[p] > 0
      PROVE  after[p] = request.avail[p[2]]
                   - Total([e \in Demands |-> taken[<<e, p[2]>>]], {e \in Demands : e <= p[1]})
  <2>1. PICK e \in Demands, l \in Lots : p = <<e, l>>
    BY DEF Pairs
  <2>2. AccountOf(e, l)
    BY <1>2
  <2>3. p[1] = e /\ p[2] = l
    BY <2>1
  <2> QED
    BY <1>2, <2>1, <2>2, <2>3 DEF AccountOf, UpTo
<1> QED
  BY <1>1, <1>2 DEF BalanceAfterAddsUp

LEMMA AccountsAfter ==
  ASSUME \A e \in Demands, l \in Lots :
            taken'[<<e, l>>] > 0 =>
               after'[<<e, l>>] = request'.avail[l]
                                  - Total([d \in Demands |-> taken'[<<d, l>>]], UpTo(e))
  PROVE  BalanceAfterAddsUp'
<1> SUFFICES ASSUME NEW p \in Pairs, taken'[p] > 0
             PROVE  after'[p] = request'.avail[p[2]]
                      - Total([e \in Demands |-> taken'[<<e, p[2]>>]], {e \in Demands : e <= p[1]})
  BY DEF BalanceAfterAddsUp
<1>1. PICK e \in Demands, l \in Lots : p = <<e, l>>
  BY DEF Pairs
<1>2. p[1] = e /\ p[2] = l
  BY <1>1
<1> QED
  BY <1>1, <1>2 DEF UpTo

LEMMA TurnBalance ==
  ASSUME TypeOK, Remains, TakenSoFar, BalanceAfterAddsUp,
         TakenSoFar', NothingPlannedTwice', TakeLot, Turn
  PROVE  BalanceAfterAddsUp'
<1>1. /\ Walking /\ pos' = pos + 1 /\ UNCHANGED <<request, row, finished>>
      /\ taken' = [taken EXCEPT ![<<Export, Lot>>] = Met]
      /\ after' = [after EXCEPT ![<<Export, Lot>>] = available'[Lot]]
  BY DEF Turn, TakeLot, RecordedAfter
<1>2. /\ Export \in Demands /\ Lot \in Lots /\ Export' = Export /\ Served' = Served
      /\ \A d, l : Walked(d, l)' <=> Walked(d, l) \/ (d = Export /\ l = Lot)
  BY <1>1, NextLot
<1>3. /\ taken \in [Pairs -> Nat] /\ after \in [Pairs -> Nat] /\ available' \in [Lots -> Nat]
      /\ request' = request /\ Demands \subseteq Nat /\ request \in Service!Requests
  <2>1. available' = [available EXCEPT ![Lot] = available[Lot] - Met]
    BY DEF Turn
  <2>2. Met \in Nat /\ Met <= available[Lot]
    BY <1>1, Meeting
  <2>3. available \in [Lots -> Nat]
    BY DEF TypeOK
  <2> QED
    BY <1>1, <1>2, <2>1, <2>2, <2>3, PlanAssumption DEF TypeOK
<1> SUFFICES ASSUME NEW e \in Demands, NEW l \in Lots, taken'[<<e, l>>] > 0
             PROVE  after'[<<e, l>>] = request.avail[l]
                       - Total([d \in Demands |-> taken'[<<d, l>>]], UpTo(e))
  BY <1>3, AccountsAfter
<1> DEFINE q == [d \in Demands |-> taken[<<d, l>>]]
           r == [d \in Demands |-> taken'[<<d, l>>]]
<1>4. <<e, l>> \in Pairs /\ UpTo(e) \subseteq Demands
  BY DEF Pairs, UpTo
<1>5. CASE e = Export /\ l = Lot
  <2>1. after'[<<e, l>>] = available'[l]
    BY <1>1, <1>3, <1>4, <1>5
  <2>2. available'[l] + Total(r, Demands) = request.avail[l]
    BY <1>3 DEF NothingPlannedTwice, TakenFrom
  <2>3. \A d \in Demands \ UpTo(e) : r[d] = 0
    <3> SUFFICES ASSUME NEW d \in Demands, d \notin UpTo(e) PROVE taken'[<<d, l>>] = 0
      OBVIOUS
    <3>1. e \in Nat /\ d \in Nat /\ d > e
      BY <1>3 DEF UpTo
    <3>2. ~(d = Export) /\ d \notin Served
      BY <1>1, <1>5, <3>1 DEF Served, Walking
    <3>3. ~(Walked(d, l)')
      BY <1>2, <3>2 DEF Walked
    <3> QED
      BY <3>3 DEF TakenSoFar
  <2>4. Total(r, Demands) = Total(r, UpTo(e))
    <3> HIDE DEF r
    <3> QED
      BY <1>4, <2>3, TotalSupport
  <2>5. Total(r, Demands) \in Nat
    <3>1. \A d \in Demands : r[d] \in Nat
      <4> SUFFICES ASSUME NEW d \in Demands PROVE taken'[<<d, l>>] \in Nat
        OBVIOUS
      <4>1. Met \in Nat
        BY <1>1, Meeting
      <4>2. <<d, l>> \in Pairs
        BY DEF Pairs
      <4> QED
        BY <1>1, <1>3, <4>1, <4>2
    <3> HIDE DEF r
    <3>2. Quantities(r, Demands)
      BY <3>1, PlanAssumption DEF Quantities
    <3> QED
      BY <3>2, TotalType
  <2>6. available'[l] \in Nat
    BY <1>3
  <2> HIDE DEF r
  <2>7. after'[<<e, l>>] = request.avail[l] - Total(r, UpTo(e))
    BY <2>1, <2>2, <2>4, <2>5, <2>6
  <2> QED
    BY <2>7 DEF r
<1>6. CASE ~(e = Export /\ l = Lot)
  <2>1. taken'[<<e, l>>] = taken[<<e, l>>] /\ after'[<<e, l>>] = after[<<e, l>>]
    BY <1>1, <1>3, <1>4, <1>6
  <2>2. after[<<e, l>>] = request.avail[l] - Total(q, UpTo(e))
    BY <2>1, Accounts DEF AccountOf
  <2>3. Walked(e, l)
    BY <2>1, <1>3, <1>4 DEF TakenSoFar
  <2>4. \A d \in UpTo(e) : r[d] = q[d]
    <3> SUFFICES ASSUME NEW d \in UpTo(e) PROVE taken'[<<d, l>>] = taken[<<d, l>>]
      BY DEF UpTo
    <3>1. d \in Demands /\ d \in Nat /\ e \in Nat /\ d <= e /\ <<d, l>> \in Pairs
      BY <1>3 DEF UpTo, Pairs
    <3>2. ~(d = Export /\ l = Lot)
      <4> SUFFICES ASSUME d = Export, l = Lot PROVE FALSE
        OBVIOUS
      <4>1. e \in Served
        BY <1>6, <2>3 DEF Walked
      <4>2. e < Export
        BY <1>1, <4>1 DEF Served, Walking
      <4> QED
        BY <3>1, <4>2
    <3> QED
      BY <1>1, <1>3, <3>1, <3>2
  <2>5. Total(r, UpTo(e)) = Total(q, UpTo(e))
    <3> HIDE DEF q, r
    <3> QED
      BY <2>4, TotalSame
  <2> QED
    BY <2>1, <2>2, <2>5
<1> QED
  BY <1>5, <1>6
-----------------------------------------------------------------------------
(* The end of a row.                                                       *)

(* A row that ends before a lot of its part number needs nothing of it.    *)
LEMMA NotReached ==
  ASSUME TypeOK, Remains, FinishExport,
         NEW l \in Lots, l \notin Seen, request.holds[l] = request.wants[Export]
  PROVE  /\ Service!Allocation(request)[<<Export, l>>] = 0
         /\ Left(Starts(l), request.avail[l], Begins(Export) + request.need[Export])
               = Left(Starts(l), request.avail[l], Begins(Export))
         /\ Callers(l) = Service!Sooner(request)[Export]
<1>1. Export \in Demands /\ Export \notin Served /\ ~finished
  BY NextRow DEF FinishExport
<1>2. request \in Service!Requests
  BY DEF TypeOK
<1>3. needed = 0
  <2>1. ~(pos > Len(OrderedLots)) /\ Len(OrderedLots) \in Nat
    BY LotFacts
  <2>2. pos \in Nat
    BY <2>1 DEF TypeOK
  <2> QED
    BY <1>1, <2>1, <2>2 DEF FinishExport, Walking
<1>4. Passed \subseteq Service!Older(request)[l] /\ Service!Older(request)[l] \subseteq Lots
  <2>1. Seen \subseteq LotsBefore[l]
    BY LotFacts
  <2>2. Service!Older(request)[l] = {m \in LotsBefore[l] : request.holds[m] = request.holds[l]}
    BY <1>2, SoonerOlder
  <2> QED
    BY <2>1, <2>2 DEF Passed, LotsBefore
<1>5. Total(request.avail, Passed) <= Starts(l) /\ Total(request.avail, Passed) \in Nat
  <2>1. Quantities(request.avail, Service!Older(request)[l]) /\ Quantities(request.avail, Passed)
    BY <1>2, <1>4, RequestFacts
  <2>2. \A m \in Passed : request.avail[m] \in Nat /\ request.avail[m] <= request.avail[m]
    BY <1>2, <1>4, RequestFacts
  <2> QED
    BY <1>4, <2>1, <2>2, TotalMonotone, TotalType DEF Starts
<1>6. Callers(l) = Service!Sooner(request)[Export]
  <2>1. \A d \in Demands : Walked(d, l) <=> d < Export
    BY <1>1 DEF Walked, Served
  <2>2. Service!Sooner(request)[Export]
           = {d \in Demands : d < Export /\ request.wants[d] = request.wants[Export]}
    BY <1>1, <1>2, SoonerOlder
  <2> QED
    BY <2>1, <2>2 DEF Callers
<1> DEFINE a == Begins(Export)
           n == request.need[Export]
           b == Starts(l)
           m == request.avail[l]
           g == Total(request.avail, Passed)
<1>7. a \in Nat /\ n \in Nat /\ b \in Nat /\ m \in Nat /\ g \in Nat /\ g <= b
  BY <1>1, <1>2, <1>5, SoonerOlder, RequestFacts
<1>8. Left(a, n, g) = 0
  BY <1>3 DEF Remains
<1>9. Service!Allocation(request)[<<Export, l>>] = Overlap(a, n, b, m)
  BY <1>1, <1>2, PairValue
<1> HIDE DEF a, n, b, m, g
<1>10. Overlap(a, n, b, m) = 0 /\ Left(b, m, a + n) = Left(b, m, a)
  BY <1>7, <1>8, NoMeet
<1> QED
  BY <1>6, <1>9, <1>10 DEF a, n, b, m

LEMMA FinishTaken ==
  ASSUME TypeOK, Remains, TakenSoFar, FinishExport
  PROVE  TakenSoFar'
<1>1. /\ Export \in Demands
      /\ \A d, l : Walked(d, l)' <=> d \in Served \cup {Export}
  BY NextRow
<1>2. taken' = taken /\ request' = request /\ request \in Service!Requests
  BY DEF FinishExport, TypeOK
<1> SUFFICES ASSUME NEW e \in Demands, NEW l \in Lots
             PROVE  taken[<<e, l>>]
                      = IF Walked(e, l)' THEN Service!Allocation(request)[<<e, l>>] ELSE 0
  BY <1>2 DEF TakenSoFar
<1>3. taken[<<e, l>>] = IF Walked(e, l) THEN Service!Allocation(request)[<<e, l>>] ELSE 0
  BY DEF TakenSoFar
<1>4. CASE Walked(e, l) \/ e # Export
  BY <1>1, <1>3, <1>4 DEF Walked
<1>5. CASE ~Walked(e, l) /\ e = Export
  <2>1. l \notin Seen
    BY <1>5 DEF Walked
  <2>2. Service!Allocation(request)[<<Export, l>>] = 0
    BY <1>1, <1>2, <2>1, NotReached, PairValue
  <2> QED
    BY <1>1, <1>3, <1>5, <2>2
<1> QED
  BY <1>4, <1>5

LEMMA FinishRemains ==
  ASSUME TypeOK, Remains, FinishExport
  PROVE  Remains'
<1>1. /\ Export \in Demands /\ Export \notin Served /\ Export' \in Demands
      /\ \A d, l : Walked(d, l)' <=> d \in Served \cup {Export}
      /\ finished' => Export' = Export /\ Seen' = Seen
      /\ ~(finished') => Seen' = {}
  BY NextRow
<1>2. request' = request /\ available' = available /\ request \in Service!Requests
  BY DEF FinishExport, TypeOK
<1>3. needed' = Left(Begins(Export'), request.need[Export'],
                     Total(request.avail, {m \in Seen' : request.holds[m] = request.wants[Export']}))
  <2>1. CASE finished'
    <3>1. needed' = needed
      BY <2>1 DEF FinishExport
    <3> QED
      BY <1>1, <2>1, <3>1 DEF Remains, Passed
  <2>2. CASE ~(finished')
    <3>1. needed' = Nonneg(request.need[Export'])
      BY <1>2, <2>2 DEF FinishExport, Export
    <3>2. {m \in Seen' : request.holds[m] = request.wants[Export']} = {}
      BY <1>1, <2>2
    <3>3. Total(request.avail, {}) = 0
      BY TotalZero
    <3> DEFINE a == Begins(Export')
               n == request.need[Export']
    <3>4. a \in Nat /\ n \in Nat
      BY <1>1, <1>2, SoonerOlder, RequestFacts
    <3> HIDE DEF a, n
    <3>5. Left(a, n, 0) = n /\ Nonneg(n) = n
      BY <3>4 DEF Left, Nonneg
    <3> QED
      BY <3>1, <3>2, <3>3, <3>5 DEF a, n
  <2> QED
    BY <2>1, <2>2
<1>4. ASSUME NEW l \in Lots
      PROVE  available[l] = Left(Starts(l), request.avail[l], Total(request.need, Callers(l)'))
  <2>1. available[l] = Left(Starts(l), request.avail[l], Total(request.need, Callers(l)))
    BY DEF Remains
  <2>2. Callers(l)' = {d \in Demands : request.wants[d] = request.holds[l]
                                         /\ d \in Served \cup {Export}}
    BY <1>1, <1>2 DEF Callers
  <2>3. CASE l \in Seen \/ request.holds[l] # request.wants[Export]
    <3>1. Callers(l)' = Callers(l)
      BY <2>2, <2>3 DEF Callers, Walked
    <3> QED
      BY <2>1, <3>1
  <2>4. CASE l \notin Seen /\ request.holds[l] = request.wants[Export]
    <3>1. Callers(l)' = Callers(l) \cup {Export} /\ Export \notin Callers(l)
          /\ Callers(l) \subseteq Demands
      BY <1>1, <2>2, <2>4 DEF Callers, Walked
    <3>2. Quantities(request.need, Callers(l)) /\ request.need[Export] \in Nat
      BY <1>1, <1>2, <3>1, RequestFacts
    <3>3. Total(request.need, Callers(l) \cup {Export})
             = Total(request.need, Callers(l)) + request.need[Export]
      BY <3>1, <3>2, TotalAdd
    <3>4. /\ Callers(l) = Service!Sooner(request)[Export]
          /\ Left(Starts(l), request.avail[l], Begins(Export) + request.need[Export])
                = Left(Starts(l), request.avail[l], Begins(Export))
      BY <2>4, NotReached
    <3>5. Total(request.need, Callers(l)) = Begins(Export)
      BY <3>4 DEF Begins
    <3> QED
      BY <2>1, <3>1, <3>3, <3>4, <3>5
  <2> QED
    BY <2>3, <2>4
<1> QED
  BY <1>2, <1>3, <1>4 DEF Remains, Begins, Starts, Passed

LEMMA FinishAddsUp ==
  ASSUME TypeOK, Remains, TakenSoFar, RowAddsUp, RowsExplained, FinishExport
  PROVE  RowAddsUp' /\ RowsExplained'
<1>1. /\ Export \in Demands /\ Export \notin Served /\ Export' \in Demands
      /\ Served' = Served \cup {Export}
      /\ finished' => Export' = Export
      /\ ~(finished') => Export' \notin Served'
  BY NextRow
<1>2. request' = request /\ available' = available /\ taken' = taken
      /\ request \in Service!Requests /\ needed \in Nat /\ ~finished
      /\ shortage \in [Demands -> Nat]
      /\ shortage' = [shortage EXCEPT ![Export] = needed]
  BY DEF FinishExport, TypeOK, Shortfall
<1>3. RowAddsUp'
  <2>1. CASE finished'
    BY <1>1, <1>2, <2>1 DEF RowAddsUp, TakenFor, FinishExport
  <2>2. CASE ~(finished')
    <3>1. needed' = Nonneg(request.need[Export'])
      BY <1>2, <2>2 DEF FinishExport, Export
    <3>2. request.need[Export'] \in Nat
      BY <1>1, <1>2, RequestFacts
    <3>3. \A l \in Lots : taken[<<Export', l>>] = 0
      BY <1>1, <2>2 DEF TakenSoFar, Walked
    <3>4. Total([l \in Lots |-> taken[<<Export', l>>]], Lots) = 0
      BY <3>3, TotalZero
    <3> QED
      BY <1>2, <3>1, <3>2, <3>4 DEF RowAddsUp, TakenFor, Nonneg
  <2> QED
    BY <2>1, <2>2
<1>4. ASSUME needed > 0, NEW l \in Lots, request.holds[l] = request.wants[Export]
      PROVE  available[l] = 0
  <2> DEFINE a == Begins(Export)
             n == request.need[Export]
             b == Starts(l)
             m == request.avail[l]
             g == Total(request.avail, Passed)
             c == Total(request.need, Callers(l))
  <2>1. Seen = Lots
    <3>1. pos > Len(OrderedLots)
      <4>1. Len(OrderedLots) \in Nat
        BY LotFacts
      <4>2. pos \in Nat
        BY <4>1 DEF TypeOK
      <4> QED
        BY <1>2, <1>4, <4>1, <4>2 DEF FinishExport, Walking
    <3> QED
      BY <3>1, LotFacts
  <2>2. a \in Nat /\ n \in Nat /\ b \in Nat /\ m \in Nat
    BY <1>1, <1>2, SoonerOlder, RequestFacts
  <2>3. g \in Nat /\ b + m <= g
    <3> DEFINE O == Service!Older(request)[l]
    <3>1. O = {k \in LotsBefore[l] : request.holds[k] = request.holds[l]}
      BY <1>2, SoonerOlder
    <3>2. LotsBefore[l] \subseteq Lots /\ l \notin LotsBefore[l]
      BY <1>2, LotOrder DEF StrictOrder
    <3>3. O \subseteq Lots /\ l \notin O /\ O \cup {l} \subseteq Passed /\ Passed \subseteq Lots
      BY <1>4, <2>1, <3>1, <3>2 DEF Passed
    <3>4. b = Total(request.avail, O)
      BY DEF Starts
    <3> HIDE DEF O
    <3>5. Quantities(request.avail, O) /\ Quantities(request.avail, Passed)
      BY <1>2, <3>3, RequestFacts
    <3>6. Total(request.avail, O \cup {l}) = b + m
      BY <2>2, <3>3, <3>4, <3>5, TotalAdd
    <3>7. \A k \in O \cup {l} : request.avail[k] \in Nat /\ request.avail[k] <= request.avail[k]
      BY <1>2, <3>3, RequestFacts
    <3> QED
      BY <3>3, <3>5, <3>6, <3>7, TotalMonotone, TotalType
  <2>4. c \in Nat /\ a + n <= c
    <3> DEFINE O == Service!Sooner(request)[Export]
    <3>1. O = {d \in Demands : d < Export /\ request.wants[d] = request.wants[Export]}
      BY <1>1, <1>2, SoonerOlder
    <3>2. O \cup {Export} \subseteq Callers(l) /\ Callers(l) \subseteq Demands
          /\ O \subseteq Demands /\ Export \notin O
      BY <1>1, <1>4, <2>1, <3>1, PlanAssumption DEF Callers, Walked, Served
    <3>3. a = Total(request.need, O)
      BY DEF Begins
    <3> HIDE DEF O
    <3>4. Quantities(request.need, O) /\ Quantities(request.need, Callers(l))
      BY <1>2, <3>2, RequestFacts
    <3>5. Total(request.need, O \cup {Export}) = a + n
      <4>1. Export \notin O /\ Quantities(request.need, O) /\ request.need[Export] \in Nat
        BY <2>2, <3>2, <3>4
      <4>2. Total(request.need, O \cup {Export}) = Total(request.need, O) + request.need[Export]
        BY <4>1, TotalAdd
      <4> QED
        BY <3>3, <4>2
    <3>6. \A k \in O \cup {Export} : request.need[k] \in Nat /\ request.need[k] <= request.need[k]
      BY <1>1, <1>2, <3>2, RequestFacts
    <3> QED
      BY <3>2, <3>4, <3>5, <3>6, TotalMonotone, TotalType
  <2>5. Left(a, n, g) # 0 /\ available[l] = Left(b, m, c)
    BY <1>4 DEF Remains
  <2> HIDE DEF a, n, b, m, g, c
  <2>6. ~(g >= a + n)
    BY <2>2, <2>3, <2>5, LeftType
  <2>7. c >= b + m
    BY <2>2, <2>3, <2>4, <2>6
  <2> QED
    BY <2>2, <2>4, <2>5, <2>7, LeftType
<1>5. RowsExplained'
  <2> SUFFICES ASSUME NEW e \in Served \cup {Export}
               PROVE  /\ TakenFor(e) + shortage'[e] = request.need[e]
                      /\ shortage'[e] > 0 =>
                            \A l \in Lots : request.holds[l] = request.wants[e] => available[l] = 0
    BY <1>1, <1>2 DEF RowsExplained, TakenFor
  <2>1. CASE e = Export
    BY <1>1, <1>2, <1>4, <2>1 DEF RowAddsUp
  <2>2. CASE e # Export
    <3>1. e \in Served /\ e \in Demands /\ shortage'[e] = shortage[e]
      BY <1>2, <2>2 DEF Served
    <3> QED
      BY <3>1 DEF RowsExplained
  <2> QED
    BY <2>1, <2>2
<1> QED
  BY <1>3, <1>5
-----------------------------------------------------------------------------
(* The inductive invariant.                                                *)

LEMMA InitType == Init => TypeOK
<1> SUFFICES ASSUME Init PROVE TypeOK
  OBVIOUS
<1>1. request \in Service!Requests
  BY DEF Init
<1>2. \A n \in Nat : Nonneg(n) \in Nat
  BY DEF Nonneg
<1>3. available \in [Lots -> Nat]
  BY <1>1, <1>2, RequestFacts DEF Init
<1>4. row \in DOMAIN OrderedExports /\ OrderedExports[1] \in Demands
  BY RowFacts DEF Init
<1>5. needed \in Nat
  BY <1>1, <1>2, <1>4, RequestFacts DEF Init
<1>6. pos \in 1 .. Len(OrderedLots) + 1
  <2>1. Len(OrderedLots) \in Nat
    BY <1>1, LotOrder, SortedFacts
  <2> QED
    BY <2>1 DEF Init
<1> QED
  BY <1>1, <1>3, <1>4, <1>5, <1>6 DEF Init, TypeOK

LEMMA InitIInv == Init => IInv
<1> SUFFICES ASSUME Init PROVE IInv
  OBVIOUS
<1>1. TypeOK
  BY InitType
<1>2. request \in Service!Requests /\ ~finished
  BY DEF Init
<1>3. Export = OrderedExports[1] /\ Export \in Demands
  BY RowFacts DEF Init, Export
<1>4. Served = {} /\ Seen = {}
  <2>1. {d \in Demands : d < OrderedExports[1]} = {}
    BY RowFacts
  <2>2. Until(OrderedLots, 1) = {}
    BY <1>1, LotFacts
  <2> QED
    BY <1>2, <1>3, <2>1, <2>2 DEF Init, Served, Seen
<1>5. Passed = {} /\ \A l \in Lots : Callers(l) = {}
  BY <1>4 DEF Passed, Callers, Walked
<1>6. \A q : Total(q, {}) = 0
  BY TotalZero
<1>7. \A a, n \in Nat : Nonneg(n) = n /\ Left(a, n, 0) = n
  BY DEF Nonneg, Left
<1>8. Remains
  <2>1. Begins(Export) \in Nat /\ request.need[Export] \in Nat
    BY <1>2, <1>3, SoonerOlder, RequestFacts
  <2>2. needed = Left(Begins(Export), request.need[Export], Total(request.avail, Passed))
    BY <1>3, <1>5, <1>6, <1>7, <2>1 DEF Init
  <2>3. ASSUME NEW l \in Lots
        PROVE  available[l] = Left(Starts(l), request.avail[l], Total(request.need, Callers(l)))
    <3>1. Starts(l) \in Nat /\ request.avail[l] \in Nat
      BY <1>2, SoonerOlder, RequestFacts
    <3> QED
      BY <1>5, <1>6, <1>7, <3>1 DEF Init
  <2> QED
    BY <2>2, <2>3 DEF Remains
<1>9. \A e \in Demands, l \in Lots : taken[<<e, l>>] = 0
  BY DEF Init, Pairs
<1>10. (\A l \in Lots : TakenFrom(l) = 0) /\ (\A e \in Demands : TakenFor(e) = 0)
  BY <1>9, TotalZero DEF TakenFrom, TakenFor
<1>11. TakenSoFar
  BY <1>4, <1>9 DEF TakenSoFar, Walked
<1>12. NothingPlannedTwice
  <2> SUFFICES ASSUME NEW l \in Lots PROVE available[l] + TakenFrom(l) = request.avail[l]
    BY DEF NothingPlannedTwice
  <2>1. available[l] = Nonneg(request.avail[l]) /\ request.avail[l] \in Nat
    BY <1>2, RequestFacts DEF Init
  <2> QED
    BY <1>10, <2>1 DEF Nonneg
<1>13. RowAddsUp
  <2>1. needed = Nonneg(request.need[Export]) /\ request.need[Export] \in Nat
    BY <1>2, <1>3, RequestFacts DEF Init
  <2> QED
    BY <1>3, <1>10, <2>1 DEF Nonneg, RowAddsUp
<1>14. BalanceAfterAddsUp
  BY DEF Init, BalanceAfterAddsUp
<1> QED
  BY <1>1, <1>2, <1>4, <1>8, <1>11, <1>12, <1>13, <1>14
     DEF IInv, RowsExplained, AllServed

LEMMA TurnType ==
  ASSUME IInv, SkipLot \/ TakeLot
  PROVE  TypeOK'
<1>1. TypeOK /\ Remains /\ Turn
  BY EveryTurn DEF IInv
<1>2. /\ Walking /\ pos' = pos + 1 /\ UNCHANGED <<request, row, finished, shortage>>
      /\ needed' = needed - Met
      /\ available' = [available EXCEPT ![Lot] = available[Lot] - Met]
      /\ taken' = [taken EXCEPT ![<<Export, Lot>>] = Met]
  BY <1>1 DEF Turn
<1>3. Export \in Demands /\ Lot \in Lots /\ Met \in Nat /\ Met <= needed /\ Met <= available[Lot]
  BY <1>1, <1>2, PartsOf, Meeting
<1>4. available' \in [Lots -> Nat] /\ needed' \in Nat /\ taken' \in [Pairs -> Nat]
  <2>1. available \in [Lots -> Nat] /\ needed \in Nat /\ taken \in [Pairs -> Nat]
    BY <1>1 DEF TypeOK
  <2>2. needed - Met \in Nat /\ available[Lot] - Met \in Nat
    BY <1>3, <2>1
  <2> QED
    BY <1>2, <1>3, <2>1, <2>2
<1>5. after' \in [Pairs -> Nat]
  <2>1. available'[Lot] \in Nat /\ after \in [Pairs -> Nat]
    BY <1>1, <1>3, <1>4 DEF TypeOK
  <2> QED
    BY <2>1 DEF SkipLot, TakeLot, RecordedAfter
<1>6. pos' \in 1 .. Len(OrderedLots) + 1 /\ OrderedLots' = OrderedLots
  <2>1. Len(OrderedLots) \in Nat /\ pos \in 1 .. Len(OrderedLots) + 1
    BY <1>1, LotFacts DEF TypeOK
  <2>2. OrderedLots' = OrderedLots
    BY <1>2 DEF OrderedLots, Service!OlderThan
  <2> QED
    BY <1>2, <2>1, <2>2 DEF Walking
<1> QED
  BY <1>1, <1>2, <1>4, <1>5, <1>6 DEF TypeOK

LEMMA FinishType ==
  ASSUME TypeOK, FinishExport
  PROVE  TypeOK'
<1>1. UNCHANGED <<request, available, taken, after>> /\ Export \in Demands /\ Export' \in Demands
  BY NextRow DEF FinishExport
<1>2. OrderedLots' = OrderedLots /\ Len(OrderedLots) \in Nat
  BY <1>1, LotFacts DEF OrderedLots, Service!OlderThan
<1>3. shortage' \in [Demands -> Nat]
  BY <1>1 DEF FinishExport, Shortfall, TypeOK
<1>4. CASE row < Len(OrderedExports)
  <2>1. row' = row + 1 /\ pos' = 1 /\ needed' = Nonneg(request.need[Export'])
        /\ finished' = finished
    BY <1>4 DEF FinishExport, Export
  <2>2. row' \in DOMAIN OrderedExports
    BY <1>4, <2>1, RowFacts DEF TypeOK
  <2>3. needed' \in Nat
    <3>1. request.need[Export'] \in Nat
      BY <1>1, RequestFacts DEF TypeOK
    <3> QED
      BY <2>1, <3>1 DEF Nonneg
  <2> QED
    BY <1>1, <1>2, <1>3, <2>1, <2>2, <2>3 DEF TypeOK
<1>5. CASE ~(row < Len(OrderedExports))
  BY <1>1, <1>2, <1>3, <1>5 DEF FinishExport, TypeOK
<1> QED
  BY <1>4, <1>5

LEMMA NextIInv == IInv /\ [Next]_vars => IInv'
<1> SUFFICES ASSUME IInv, [Next]_vars PROVE IInv'
  OBVIOUS
<1> USE DEF IInv
<1>1. CASE SkipLot \/ TakeLot
  <2>1. Turn /\ TypeOK'
    BY <1>1, EveryTurn, TurnType
  <2>2. Remains' /\ TakenSoFar' /\ NothingPlannedTwice' /\ RowAddsUp' /\ RowsExplained'
    BY <2>1, TurnRemains, TurnTaken, TurnAddsUp
  <2>3. BalanceAfterAddsUp'
    <3>1. CASE SkipLot
      BY <3>1 DEF SkipLot, BalanceAfterAddsUp
    <3>2. CASE TakeLot
      BY <2>1, <2>2, <3>2, TurnBalance
    <3> QED
      BY <1>1, <3>1, <3>2
  <2>4. AllServed'
    BY <2>1 DEF Turn, Walking, AllServed
  <2> QED
    BY <2>1, <2>2, <2>3, <2>4
<1>2. CASE FinishExport
  <2>1. TypeOK' /\ TakenSoFar' /\ Remains' /\ RowAddsUp' /\ RowsExplained'
    BY <1>2, FinishType, FinishTaken, FinishRemains, FinishAddsUp
  <2>2. NothingPlannedTwice' /\ BalanceAfterAddsUp'
    BY <1>2 DEF FinishExport, NothingPlannedTwice, TakenFrom, BalanceAfterAddsUp
  <2>3. AllServed'
    BY <1>2, NextRow DEF AllServed
  <2> QED
    BY <2>1, <2>2, <2>3
<1>3. CASE UNCHANGED vars
  <2> USE <1>3 DEF vars
  <2>1. TypeOK'
    BY DEF TypeOK, OrderedLots, Service!OlderThan
  <2>2. OrderedLots' = OrderedLots /\ Export' = Export
    BY DEF OrderedLots, Service!OlderThan, Export
  <2>3. Served' = Served /\ Seen' = Seen /\ Passed' = Passed
    BY <2>2 DEF Served, Seen, Passed
  <2>4. \A d, l : Walked(d, l)' <=> Walked(d, l)
    BY <2>2, <2>3 DEF Walked
  <2>5. Remains'
    BY <2>2, <2>3, <2>4 DEF Remains, Begins, Starts, Callers
  <2>6. TakenSoFar'
    BY <2>4 DEF TakenSoFar
  <2>7. NothingPlannedTwice' /\ BalanceAfterAddsUp' /\ RowAddsUp' /\ RowsExplained' /\ AllServed'
    BY <2>2, <2>3
       DEF NothingPlannedTwice, TakenFrom, BalanceAfterAddsUp, RowAddsUp, TakenFor,
           RowsExplained, AllServed
  <2> QED
    BY <2>1, <2>5, <2>6, <2>7
<1> QED
  BY <1>1, <1>2, <1>3 DEF Next

LEMMA Inductive == Spec => []IInv
BY InitIInv, NextIInv, PTL DEF Spec
-----------------------------------------------------------------------------
(* The planner keeps its variables in their types: no quantity of a plan,  *)
(* of a lot or of a shortage is ever negative.                             *)
THEOREM PlanTypes == Spec => []TypeOK
<1>1. IInv => TypeOK
  BY DEF IInv
<1> QED
  BY <1>1, Inductive, PTL

(* plan_export_rows hands out no unit of a lot twice: what the dict of     *)
(* available quantities still holds of a lot and what the plans so far     *)
(* take from it are its balance, in the middle of the loop too.            *)
THEOREM NoUnitTwice == Spec => []NothingPlannedTwice
<1>1. IInv => NothingPlannedTwice
  BY DEF IInv
<1> QED
  BY <1>1, Inductive, PTL

(* Of each row the returned plan says what is allocated and what is short, *)
(* and they add up to what the row requires.                               *)
THEOREM ShortageIsTheRest == Spec => []ShortageExplained
<1>1. IInv => ShortageExplained
  BY DEF IInv, AllServed, RowsExplained, ShortageExplained
<1> QED
  BY <1>1, Inductive, PTL

(* The plan reports a shortage only where the lots of the part number are  *)
(* used up, at the end of all rows: FIFO never withholds stock.            *)
THEOREM ShortMeansEmpty == Spec => []ShortOnlyWhenEmpty
<1>1. IInv => ShortOnlyWhenEmpty
  BY DEF IInv, AllServed, RowsExplained, ShortOnlyWhenEmpty
<1> QED
  BY <1>1, Inductive, PTL

(* The remaining_qty_after of every planned allocation is the balance of   *)
(* the lot less what this row and the rows before it take: the order the   *)
(* reviewer reads the rows in is the order the account was kept in.        *)
THEOREM AccountIsConsistent == Spec => []BalanceAfterAddsUp
<1>1. IInv => BalanceAfterAddsUp
  BY DEF IInv
<1> QED
  BY <1>1, Inductive, PTL
-----------------------------------------------------------------------------
(* The loop implements the service.                                        *)

LEMMA AnswerIsFifo ==
  ASSUME IInv, IInv', FinishExport, finished'
  PROVE  taken' = Service!Allocation(request)
<1>1. request' = request /\ taken' \in [Pairs -> Nat] /\ request \in Service!Requests
  BY DEF IInv, TypeOK, FinishExport
<1>2. Served' = Demands
  BY DEF IInv, AllServed
<1>3. \A e \in Demands, l \in Lots : taken'[<<e, l>>] = Service!Allocation(request)[<<e, l>>]
  BY <1>1, <1>2 DEF IInv, TakenSoFar, Walked
<1>4. DOMAIN request.need = Demands /\ DOMAIN request.avail = Lots
  BY <1>1, RequestFacts
<1> DEFINE A == Service!Allocation(request)
<1>5. A = [p \in Pairs |-> A[p]]
  BY <1>4 DEF Service!Allocation, Service!FifoTake, Pairs
<1> HIDE DEF A
<1>6. \A p \in Pairs : taken'[p] = A[p]
  BY <1>3 DEF A, Pairs
<1>7. taken' = A
  BY <1>1, <1>5, <1>6
<1> QED
  BY <1>7 DEF A

(* Whatever the rows, lots, dates and part numbers, the loop answers a     *)
(* request with the closed-form FIFO allocation, and with nothing else:    *)
(* the two nested loops are one step of FifoService.                       *)
THEOREM PlanIsFifo == Spec => Service!SafeSpec
<1> DEFINE answer == IF finished THEN taken ELSE Unanswered
<1>1. Init => Service!Init
  BY DEF Init, Service!Init
<1>2. IInv /\ IInv' /\ [Next]_vars => [Service!Answer]_<<request, answer>>
  <2> SUFFICES ASSUME IInv, IInv', [Next]_vars
               PROVE  Service!Answer \/ UNCHANGED <<request, answer>>
    OBVIOUS
  <2>1. CASE SkipLot \/ TakeLot
    BY <2>1 DEF SkipLot, TakeLot, Walking
  <2>2. CASE FinishExport
    <3>1. CASE finished'
      BY <2>2, <3>1, AnswerIsFifo DEF FinishExport, Service!Answer
    <3>2. CASE ~(finished')
      BY <2>2, <3>2 DEF FinishExport
    <3> QED
      BY <3>1, <3>2
  <2>3. CASE UNCHANGED vars
    BY <2>3 DEF vars
  <2> QED
    BY <2>1, <2>2, <2>3 DEF Next
<1> QED
  BY <1>1, <1>2, Inductive, PTL DEF Spec, Service!SafeSpec
=============================================================================
