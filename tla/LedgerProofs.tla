---------------------------- MODULE LedgerProofs ----------------------------
(***************************************************************************)
(* Theorems about Ledger, for any batches, keys, files, orders and mix of  *)
(* operations: the type invariant, that invalidated files keep no          *)
(* allocations, that a confirmation saves the plan that was reviewed, and  *)
(* that the status of a requirement tells what its allocations add up to,  *)
(* so that all reports agree.                                              *)
(*                                                                         *)
(* The argument for the status: a FIFO walk gives a demand no more than it *)
(* needs, so that a plan, or a run on top of what is allocated already,    *)
(* never exceeds the required quantity; what the code then compares is the *)
(* sum itself.  Everything else leaves the allocations of a requirement    *)
(* alone, or deletes all of them, or recomputes the status from those that *)
(* remain.  Of the reports, one goes by the status and another by the sum. *)
(***************************************************************************)
EXTENDS Reports, FifoProofs

(* A confirmed batch exists; requirements come from rows of confirmed      *)
(* export files and lots from import files.                                *)
Origins ==
    /\ \A b \in confirmed : kind[b] # "none"
    /\ \A r \in Created : /\ r[1] \in confirmed
                          /\ kind[r[1]] = "exports"
                          /\ r[2] \in DOMAIN file[r[1]]
    /\ \A k \in Keys : owner[k] # NoBatch => kind[owner[k]] = "imports"

(* Units are only allocated by rows that are there.                        *)
RowsCarryUnits == \A p \in Pairs : alloc[p] > 0 => p \in allocated

(* A stored plan is the planner's answer for the stored fingerprint.       *)
PlanIsAnswer(b) ==
    LET takes == PlanOf(file[b], rowStatus[b], fingerprint[b])
    IN  \A i \in Rows, k \in Keys :
            plan[b][<<i, k>>] = IF <<i, k>> \in DOMAIN takes THEN takes[<<i, k>>] ELSE 0

PlansAreAnswers == \A b \in planned : kind[b] = "exports" /\ PlanIsAnswer(b)

IInv ==
    /\ TypeOK
    /\ Origins
    /\ RowsCarryUnits
    /\ PlansAreAnswers
    /\ NoAllocationOnInvalidated
-----------------------------------------------------------------------------
(* Files and sums.                                                         *)

LEMMA FileRows ==
  /\ \A f \in ImportFiles : DOMAIN f \subseteq Rows /\ \A i \in DOMAIN f : f[i] \in ImportRows
  /\ \A f \in ExportFiles : DOMAIN f \subseteq Rows /\ \A i \in DOMAIN f : f[i] \in ExportRows
<1>1. ASSUME NEW f \in ImportFiles
      PROVE  DOMAIN f \subseteq Rows /\ \A i \in DOMAIN f : f[i] \in ImportRows
  <2>1. f \in Seq(ImportRows) /\ Len(f) <= MaxRows /\ Len(f) \in Nat /\ MaxRows \in Nat
    BY FileAssumption, RowAssumption
  <2>2. DOMAIN f = 1 .. Len(f)
    BY <2>1
  <2> QED
    BY <2>1, <2>2 DEF Rows
<1>2. ASSUME NEW f \in ExportFiles
      PROVE  DOMAIN f \subseteq Rows /\ \A i \in DOMAIN f : f[i] \in ExportRows
  <2>1. f \in Seq(ExportRows) /\ Len(f) <= MaxRows /\ Len(f) \in Nat /\ MaxRows \in Nat
    BY FileAssumption, RowAssumption
  <2>2. DOMAIN f = 1 .. Len(f)
    BY <2>1
  <2> QED
    BY <2>1, <2>2 DEF Rows
<1> QED
  BY <1>1, <1>2

LEMMA FiniteTables == IsFiniteSet(Rows) /\ IsFiniteSet(Reqs) /\ IsFiniteSet(Keys)
<1>1. IsFiniteSet(Rows)
  BY RowAssumption, FS_Interval DEF Rows
<1>2. IsFiniteSet(Batches) /\ IsFiniteSet(Keys)
  BY BatchAssumption, KeyAssumption
<1>3. IsFiniteSet(Batches \X Rows)
  BY <1>1, <1>2, FS_Product
<1> QED
  BY <1>1, <1>2, <1>3 DEF Reqs

LEMMA DrawnType ==
  ASSUME NEW a \in [Pairs -> Nat], NEW k \in Keys, NEW S \in SUBSET Reqs
  PROVE  DrawnQty(a, k, S) \in Nat
<1>1. Quantities([r \in S |-> a[<<r, k>>]], S)
  <2>1. IsFiniteSet(S)
    BY FiniteTables, FS_Subset
  <2>2. \A r \in S : <<r, k>> \in Pairs
    BY DEF Pairs
  <2> QED
    BY <2>1, <2>2 DEF Quantities
<1> QED
  BY <1>1, TotalType DEF DrawnQty

LEMMA MatchedType ==
  ASSUME NEW a \in [Pairs -> Nat], NEW r \in Reqs
  PROVE  MatchedQty(a, r) \in Nat
<1>1. Quantities([k \in Keys |-> a[<<r, k>>]], Keys)
  <2>1. \A k \in Keys : <<r, k>> \in Pairs
    BY DEF Pairs
  <2> QED
    BY <2>1, FiniteTables DEF Quantities
<1> QED
  BY <1>1, TotalType DEF MatchedQty

LEMMA RestoredType ==
  ASSUME TypeOK, NEW S \in SUBSET Reqs
  PROVE  Restored(S) \in [Keys -> LotStates]
<1> SUFFICES ASSUME NEW k \in Keys
             PROVE  GiveBack(lot[k], DrawnQty(alloc, k, S)) \in LotStates
  BY DEF Restored
<1>1. lot[k] \in LotStates /\ DrawnQty(alloc, k, S) \in Nat
  BY DrawnType DEF TypeOK
<1>2. \A l \in LotStates, n \in Nat : GiveBack(l, n) \in LotStates
  <2> SUFFICES ASSUME NEW l \in LotStates, NEW n \in Nat
               PROVE  GiveBack(l, n) \in LotStates
    OBVIOUS
  <2>1. Nonneg(l.used - n) \in Nat /\ l.remaining + n \in Nat
    BY DEF LotStates, Nonneg
  <2> QED
    BY <2>1 DEF LotStates, GiveBack
<1> QED
  BY <1>1, <1>2
-----------------------------------------------------------------------------
(* The two FIFO walks are over strict orders.                              *)

InventoryStates == [date : Nat, used : Nat, remaining : Nat]

LEMMA InventoryType ==
  ASSUME TypeOK
  PROVE  ActiveLots \subseteq Keys /\ Inventory \in [ActiveLots -> InventoryStates]
<1>1. \A k \in ActiveLots : k \in Keys /\ lot[k] \in LotStates
  BY DEF TypeOK, ActiveLots
<1> QED
  BY <1>1 DEF Inventory, InventoryStates, LotStates

LEMMA LotsOrdered ==
  ASSUME NEW K \in SUBSET Keys, NEW inv \in [K -> InventoryStates]
  PROVE  /\ DOMAIN Balance(inv) = K
         /\ Ordered(Balance(inv), OlderLots(inv))
         /\ \A k, l \in K : k # l /\ PartOf[k] = PartOf[l]
               => k \in OlderLots(inv)[l] \/ l \in OlderLots(inv)[k]
<1>1. /\ IsFiniteSet(K)
      /\ \A k \in K : inv[k].date \in Nat /\ inv[k].remaining \in Nat /\ LotRank[k] \in Nat
      /\ \A k, l \in K : LotRank[k] = LotRank[l] => k = l
  BY FiniteTables, FS_Subset, KeyAssumption DEF InventoryStates
<1>2. DOMAIN Balance(inv) = K /\ \A k \in K : Balance(inv)[k] \in Nat
  BY <1>1 DEF Balance
<1>3. \A k, l \in K : k \in OlderLots(inv)[l] <=> PartOf[k] = PartOf[l] /\ OlderThan(inv, k, l)
  BY DEF OlderLots
<1>4. \A l \in K : OlderLots(inv)[l] \subseteq K
  BY DEF OlderLots
<1>5. \A l \in K : l \notin OlderLots(inv)[l]
  BY <1>1, <1>3 DEF OlderThan
<1>6. \A j, k, l \in K : OlderThan(inv, j, k) /\ OlderThan(inv, k, l) => OlderThan(inv, j, l)
  BY <1>1 DEF OlderThan
<1>7. \A l \in K : \A k \in OlderLots(inv)[l] : OlderLots(inv)[k] \subseteq OlderLots(inv)[l]
  BY <1>3, <1>4, <1>6
<1>8. \A k, l \in K : k # l => OlderThan(inv, k, l) \/ OlderThan(inv, l, k)
  BY <1>1 DEF OlderThan
<1>9. \A k, l \in K : k # l /\ PartOf[k] = PartOf[l]
               => k \in OlderLots(inv)[l] \/ l \in OlderLots(inv)[k]
  BY <1>3, <1>8
<1>10. Ordered(Balance(inv), OlderLots(inv))
  BY <1>1, <1>2, <1>4, <1>5, <1>7 DEF Ordered, Quantities
<1> QED
  BY <1>2, <1>9, <1>10

LEMMA PlanDomain ==
  ASSUME NEW f, NEW cls, NEW inv
  PROVE  \A i, k : <<i, k>> \in DOMAIN PlanOf(f, cls, inv)
                     => i \in PlannableRows(f, cls) /\ k \in DOMAIN inv
BY DEF PlanOf, FifoTake, Balance

(* What plan_export_rows computes with: what the rows ask for, who comes   *)
(* before whom, and which row may have which of the lots K.                *)
PlanNeed(f, cls) == [i \in PlannableRows(f, cls) |-> f[i].qty]
PlanSooner(f, cls) ==
    [i \in PlannableRows(f, cls) |->
        {j \in PlannableRows(f, cls) : j < i /\ f[j].part = f[i].part}]
PlanFits(f, cls, K) == {p \in PlannableRows(f, cls) \X K : PartOf[p[2]] = f[p[1]].part}

LEMMA PlanIsFifo ==
  ASSUME NEW f \in ExportFiles, NEW cls, NEW K \in SUBSET Keys,
         NEW inv \in [K -> InventoryStates]
  PROVE  /\ DOMAIN PlanNeed(f, cls) = PlannableRows(f, cls) /\ DOMAIN Balance(inv) = K
         /\ FifoInput(PlanNeed(f, cls), Balance(inv), PlanSooner(f, cls), OlderLots(inv),
                      PlanFits(f, cls, K))
         /\ PlanOf(f, cls, inv) = FifoTake(PlanNeed(f, cls), Balance(inv), PlanSooner(f, cls),
                                           OlderLots(inv), PlanFits(f, cls, K))
<1> DEFINE rows == PlannableRows(f, cls)
           need == PlanNeed(f, cls)
           sooner == PlanSooner(f, cls)
           fits == PlanFits(f, cls, K)
<1>1. /\ rows \subseteq Rows /\ IsFiniteSet(rows) /\ \A i \in rows : i \in Nat
      /\ \A i \in rows : f[i] \in ExportRows
  <2>1. rows \subseteq DOMAIN f
    BY DEF PlannableRows
  <2>2. rows \subseteq Rows /\ \A i \in rows : f[i] \in ExportRows
    BY <2>1, FileRows
  <2>3. IsFiniteSet(rows)
    BY <2>2, FiniteTables, FS_Subset
  <2>4. \A i \in rows : i \in Nat
    BY <2>2, RowAssumption DEF Rows
  <2> QED
    BY <2>2, <2>3, <2>4
<1>2. Ordered(need, sooner)
  <2>1. Quantities(need, rows)
    BY <1>1 DEF Quantities, ExportRows, PlanNeed
  <2>2. \A i \in rows : /\ sooner[i] \subseteq rows /\ i \notin sooner[i]
                        /\ \A j \in sooner[i] : sooner[j] \subseteq sooner[i]
    <3>1. \A i \in rows : sooner[i] = {j \in rows : j < i /\ f[j].part = f[i].part}
      BY DEF PlanSooner
    <3> HIDE DEF sooner, rows
    <3> QED
      BY <1>1, <3>1
  <2>3. DOMAIN need = rows
    BY DEF PlanNeed
  <2> HIDE DEF need, sooner, rows
  <2> QED
    BY <2>1, <2>2, <2>3 DEF Ordered
<1>3. DOMAIN inv = K /\ DOMAIN Balance(inv) = K /\ Ordered(Balance(inv), OlderLots(inv))
  BY LotsOrdered
<1>4. \A d, e \in rows : \A l \in K :
          <<d, l>> \in fits /\ <<e, l>> \in fits /\ d # e
            => d \in sooner[e] \/ e \in sooner[d]
  BY <1>1 DEF PlanFits, PlanSooner
<1>5. \A e \in rows : \A k, l \in K :
          <<e, k>> \in fits /\ <<e, l>> \in fits /\ k # l
            => k \in OlderLots(inv)[l] \/ l \in OlderLots(inv)[k]
  BY LotsOrdered DEF PlanFits
<1>6. FifoInput(need, Balance(inv), sooner, OlderLots(inv), fits)
  <2>1. DOMAIN need = rows /\ fits \subseteq rows \X K
    BY DEF PlanNeed, PlanFits
  <2> HIDE DEF need, fits, sooner, rows
  <2> QED
    BY <1>2, <1>3, <1>4, <1>5, <2>1 DEF FifoInput
<1>7. PlanOf(f, cls, inv) = FifoTake(need, Balance(inv), sooner, OlderLots(inv), fits)
  BY <1>3 DEF PlanOf, PlanNeed, PlanSooner, PlanFits
<1>8. DOMAIN need = rows
  BY DEF PlanNeed
<1> QED
  BY <1>3, <1>6, <1>7, <1>8

(* What a plan gives to the rows of a file, in row order: no row gets more *)
(* than it asks for.                                                       *)
LEMMA PlanTypes ==
  ASSUME NEW f \in ExportFiles, NEW cls, NEW K \in SUBSET Keys,
         NEW inv \in [K -> InventoryStates]
  PROVE  LET takes == PlanOf(f, cls, inv)
         IN  /\ DOMAIN takes = PlannableRows(f, cls) \X K
             /\ \A p \in DOMAIN takes : takes[p] \in Nat
             /\ \A i \in PlannableRows(f, cls) :
                   Total([k \in K |-> takes[<<i, k>>]], K) <= f[i].qty
<1> DEFINE rows == PlannableRows(f, cls)
           need == PlanNeed(f, cls)
           sooner == PlanSooner(f, cls)
           fits == PlanFits(f, cls, K)
<1>1. /\ DOMAIN need = rows /\ DOMAIN Balance(inv) = K
      /\ FifoInput(need, Balance(inv), sooner, OlderLots(inv), fits)
      /\ PlanOf(f, cls, inv) = FifoTake(need, Balance(inv), sooner, OlderLots(inv), fits)
  BY PlanIsFifo
<1>2. \A i \in rows : need[i] = f[i].qty
  BY DEF PlanNeed
<1> HIDE DEF need, fits, sooner, rows
<1>3. DOMAIN FifoTake(need, Balance(inv), sooner, OlderLots(inv), fits) = rows \X K
  BY <1>1 DEF FifoTake
<1>4. \A p \in rows \X K : FifoTake(need, Balance(inv), sooner, OlderLots(inv), fits)[p] \in Nat
  BY <1>1, PairFacts
<1>5. ASSUME NEW i \in rows
      PROVE  Total([k \in K |-> PlanOf(f, cls, inv)[<<i, k>>]], K) <= f[i].qty
  BY <1>1, <1>2, TakesForDemand
<1> QED
  BY <1>1, <1>3, <1>4, <1>5 DEF rows

(* The requirements of a match run, in its order.                          *)
LEMMA RequirementFacts ==
  ASSUME TypeOK, Origins, NEW r \in Created
  PROVE  /\ r \in Reqs /\ r[1] \in confirmed /\ kind[r[1]] = "exports"
         /\ RequiredQty(r) \in Nat \ {0} /\ ReqDate(r) \in Nat
<1>1. /\ r \in Reqs /\ r[1] \in confirmed /\ r[1] \in Batches /\ kind[r[1]] = "exports"
      /\ r[2] \in DOMAIN file[r[1]]
  BY DEF Created, Origins, TypeOK
<1>2. file[r[1]] \in ExportFiles
  BY <1>1 DEF TypeOK
<1>3. file[r[1]][r[2]] \in ExportRows
  BY <1>1, <1>2, FileRows
<1> QED
  BY <1>1, <1>3, DateAssumption DEF ExportRows, RequiredQty, ReqDate

Before(r, s) == \/ ReqDate(r) < ReqDate(s)
                \/ ReqDate(r) = ReqDate(s) /\ IdRank[r] < IdRank[s]

LEMMA MatchIsFifo ==
  ASSUME TypeOK, Origins, NEW E \in SUBSET Created
  PROVE  LET need == [r \in E |-> Nonneg(RequiredQty(r) - MatchedQty(alloc, r))]
             sooner == [r \in E |-> {s \in E : Before(s, r) /\ ReqPart(s) = ReqPart(r)}]
             fits == {p \in E \X ActiveLots : PartOf[p[2]] = ReqPart(p[1])}
         IN  /\ DOMAIN need = E /\ DOMAIN Balance(Inventory) = ActiveLots
             /\ FifoInput(need, Balance(Inventory), sooner, OlderLots(Inventory), fits)
<1> DEFINE need == [r \in E |-> Nonneg(RequiredQty(r) - MatchedQty(alloc, r))]
           sooner == [r \in E |-> {s \in E : Before(s, r) /\ ReqPart(s) = ReqPart(r)}]
           fits == {p \in E \X ActiveLots : PartOf[p[2]] = ReqPart(p[1])}
<1>1. /\ \A r \in E : r \in Reqs /\ RequiredQty(r) \in Nat /\ ReqDate(r) \in Nat
      /\ \A r \in E : IdRank[r] \in Nat
      /\ \A r, s \in E : IdRank[r] = IdRank[s] => r = s
  BY RequirementFacts, RankAssumption
<1>2. IsFiniteSet(E)
  BY <1>1, FiniteTables, FS_Subset
<1>3. Quantities(need, E)
  <2>1. ASSUME NEW r \in E PROVE Nonneg(RequiredQty(r) - MatchedQty(alloc, r)) \in Nat
    <3>1. alloc \in [Pairs -> Nat] /\ r \in Reqs
      BY <1>1 DEF TypeOK
    <3>2. MatchedQty(alloc, r) \in Nat
      BY <3>1, MatchedType
    <3> QED
      BY <1>1, <3>2 DEF Nonneg
  <2> QED
    BY <1>2, <2>1 DEF Quantities
<1>4. \A r \in E : sooner[r] \subseteq E /\ r \notin sooner[r]
  BY <1>1 DEF Before
<1>5. \A q, r, s \in E : Before(q, r) /\ Before(r, s) => Before(q, s)
  BY <1>1 DEF Before
<1>6. \A r \in E : \A s \in sooner[r] : sooner[s] \subseteq sooner[r]
  BY <1>5
<1>7. Ordered(need, sooner)
  BY <1>3, <1>4, <1>6 DEF Ordered
<1>8. \A r, s \in E : r # s => Before(r, s) \/ Before(s, r)
  BY <1>1 DEF Before
<1>9. \A d, e \in E : \A l \in ActiveLots :
          <<d, l>> \in fits /\ <<e, l>> \in fits /\ d # e
            => d \in sooner[e] \/ e \in sooner[d]
  BY <1>8
<1>10. /\ DOMAIN Balance(Inventory) = ActiveLots
       /\ Ordered(Balance(Inventory), OlderLots(Inventory))
       /\ \A k, l \in ActiveLots : k # l /\ PartOf[k] = PartOf[l]
             => k \in OlderLots(Inventory)[l] \/ l \in OlderLots(Inventory)[k]
  BY InventoryType, LotsOrdered
<1>11. \A e \in E : \A k, l \in ActiveLots :
          <<e, k>> \in fits /\ <<e, l>> \in fits /\ k # l
            => k \in OlderLots(Inventory)[l] \/ l \in OlderLots(Inventory)[k]
  BY <1>10
<1>12. DOMAIN need = E /\ fits \subseteq E \X ActiveLots
  OBVIOUS
<1> HIDE DEF need, sooner, fits
<1>13. FifoInput(need, Balance(Inventory), sooner, OlderLots(Inventory), fits)
  BY <1>7, <1>9, <1>10, <1>11, <1>12 DEF FifoInput
<1> QED
  BY <1>10, <1>12, <1>13 DEF need, sooner, fits

(* Whoever takes something is among the pairs the walk has reached.        *)
LEMMA TakersAreReached ==
  ASSUME NEW need, NEW avail, NEW sooner, NEW older, NEW fits,
         FifoInput(need, avail, sooner, older, fits),
         NEW p \in (DOMAIN need) \X (DOMAIN avail),
         FifoTake(need, avail, sooner, older, fits)[p] > 0
  PROVE  p \in Reached(need, avail, sooner, older, fits)
<1> DEFINE dem == DemandBegins(need, sooner, p[1])
           first == LotBegins(avail, older, p[2])
           take == FifoTake(need, avail, sooner, older, fits)[p]
<1>1. p = <<p[1], p[2]>> /\ p[1] \in DOMAIN need /\ p[2] \in DOMAIN avail
  OBVIOUS
<1>2. /\ dem \in Nat /\ first \in Nat /\ need[p[1]] \in Nat /\ avail[p[2]] \in Nat
      /\ take \in Nat
  BY <1>1, PairFacts
<1>3. 1 \in 1 .. take
  BY <1>2
<1>4. PICK begin \in Nat : /\ p \in fits /\ begin >= dem /\ begin >= first
                           /\ begin + 1 <= dem + need[p[1]]
                           /\ begin + 1 <= first + avail[p[2]]
  BY <1>1, <1>3, PairFacts
<1>5. need[p[1]] > 0 /\ avail[p[2]] > 0 /\ dem + need[p[1]] > first
  BY <1>2, <1>4
<1> QED
  BY <1>4, <1>5 DEF Reached, DemandBegins, LotBegins
-----------------------------------------------------------------------------
(* Every action keeps the invariant.                                       *)

LEMMA MatchKeeps ==
  ASSUME IInv, NEW d, RunMatching(d)
  PROVE  IInv'
<1> DEFINE E == {r \in Created : /\ reqStatus[r] \in Matchable
                                 /\ r[1] \notin invalidated
                                 /\ d = AnyDate \/ ReqDate(r) = d}
           need == [r \in E |-> Nonneg(RequiredQty(r) - MatchedQty(alloc, r))]
           sooner == [r \in E |-> {s \in E : Before(s, r) /\ ReqPart(s) = ReqPart(r)}]
           fits == {p \in E \X ActiveLots : PartOf[p[2]] = ReqPart(p[1])}
           takes == FifoTake(need, Balance(Inventory), sooner, OlderLots(Inventory), fits)
           reached == Reached(need, Balance(Inventory), sooner, OlderLots(Inventory), fits)
           drawn(k) == Total([r \in E |-> takes[<<r, k>>]], E)
<1>1. /\ alloc' = [p \in Pairs |-> IF p \in fits THEN alloc[p] + takes[p] ELSE alloc[p]]
      /\ allocated' = allocated \cup reached
  BY DEF RunMatching, Before
<1>2. lot' = [k \in Keys |->
                IF Active(k) THEN [lot[k] EXCEPT !.remaining = @ - drawn(k), !.used = @ + drawn(k)]
                ELSE lot[k]]
  BY DEF RunMatching, Before
<1>3. /\ DOMAIN reqStatus' = Reqs
      /\ \A r \in Reqs : IF r \notin E THEN reqStatus'[r] = reqStatus[r]
                         ELSE reqStatus'[r] \in Matchable \cup {"matched"}
  BY DEF RunMatching, Before, Matchable
<1>4. reqStatus' = [r \in Reqs |-> reqStatus'[r]]
  BY DEF RunMatching
<1>5. UNCHANGED <<batchVars, stamps, owner>>
  BY DEF RunMatching
<1>6. TypeOK /\ Origins
  BY DEF IInv
<1>7. E \subseteq Created
  OBVIOUS
<1>8. /\ DOMAIN need = E /\ DOMAIN Balance(Inventory) = ActiveLots
      /\ FifoInput(need, Balance(Inventory), sooner, OlderLots(Inventory), fits)
  BY <1>6, <1>7, MatchIsFifo
<1>9. fits \subseteq E \X ActiveLots
  OBVIOUS
<1> HIDE DEF need, sooner, fits
<1>10. /\ reached \subseteq fits
       /\ \A p \in E \X ActiveLots : takes[p] \in Nat /\ (takes[p] > 0 => p \in reached)
  <2>1. reached \subseteq fits
    BY DEF Reached
  <2>2. \A p \in E \X ActiveLots : takes[p] \in Nat
    BY <1>8, PairFacts
  <2>3. \A p \in E \X ActiveLots : takes[p] > 0 => p \in reached
    BY <1>8, TakersAreReached
  <2> QED
    BY <2>1, <2>2, <2>3
<1>11. \A k \in ActiveLots : drawn(k) \in Nat /\ drawn(k) <= lot[k].remaining
  <2> SUFFICES ASSUME NEW k \in ActiveLots
               PROVE  drawn(k) \in Nat /\ drawn(k) <= lot[k].remaining
    OBVIOUS
  <2>1. drawn(k) \in Nat /\ drawn(k) <= Balance(Inventory)[k]
    BY <1>8, TakesFromLot
  <2>2. Balance(Inventory)[k] = lot[k].remaining
    BY DEF Balance, Inventory
  <2> QED
    BY <2>1, <2>2
<1> HIDE DEF takes, reached, drawn
<1>12. Created' = Created
  BY <1>3, <1>7 DEF Created, Matchable
<1>13. \A k \in Keys : Active(k) <=> k \in ActiveLots
  BY DEF ActiveLots
<1>14. lot' \in [Keys -> LotStates]
  <2>1. ASSUME NEW k \in ActiveLots
        PROVE  [lot[k] EXCEPT !.remaining = @ - drawn(k), !.used = @ + drawn(k)] \in LotStates
    <3>1. lot[k] \in LotStates
      BY <1>6 DEF TypeOK, ActiveLots
    <3>2. /\ lot[k].remaining - drawn(k) \in Nat /\ lot[k].used + drawn(k) \in Nat
      BY <1>11, <3>1 DEF LotStates
    <3> QED
      BY <3>1, <3>2 DEF LotStates
  <2>2. \A k \in Keys : lot[k] \in LotStates
    BY <1>6 DEF TypeOK
  <2> QED
    BY <1>2, <1>13, <2>1, <2>2
<1>15. /\ alloc' \in [Pairs -> Nat]
       /\ \A p \in Pairs : alloc'[p] > 0 => p \in allocated'
  <2>1. \A p \in Pairs : alloc[p] \in Nat /\ (alloc[p] > 0 => p \in allocated)
    BY DEF IInv, TypeOK, RowsCarryUnits
  <2> QED
    BY <1>1, <1>9, <1>10, <2>1
<1>16. allocated' \subseteq Created \X Keys
  <2>1. ActiveLots \subseteq Keys
    BY DEF ActiveLots
  <2>2. allocated \subseteq Created \X Keys
    BY <1>6 DEF TypeOK
  <2> QED
    BY <1>1, <1>7, <1>9, <1>10, <2>1, <2>2
<1>17. TypeOK'
  <2>1. reqStatus' \in [Reqs -> ReqStatuses]
    BY <1>3, <1>4, <1>6 DEF TypeOK, ReqStatuses
  <2> QED
    BY <1>5, <1>6, <1>12, <1>14, <1>15, <1>16, <2>1
    DEF TypeOK, batchVars, stamps
<1>18. Origins'
  BY <1>5, <1>6, <1>12 DEF Origins, batchVars, stamps
<1>19. RowsCarryUnits'
  BY <1>15 DEF RowsCarryUnits
<1>20. PlansAreAnswers'
  BY <1>5 DEF IInv, PlansAreAnswers, PlanIsAnswer, batchVars
<1>21. NoAllocationOnInvalidated'
  <2>1. \A p \in allocated : Active(p[2]) /\ p[1][1] \in confirmed \ invalidated
    BY <1>6 DEF IInv, NoAllocationOnInvalidated, TypeOK, Pairs, Created
  <2>2. \A p \in fits : Active(p[2]) /\ p[1][1] \in confirmed \ invalidated
    BY <1>6, <1>9, RequirementFacts DEF ActiveLots
  <2>3. \A p \in allocated' : Active(p[2]) /\ p[1][1] \in confirmed \ invalidated
    BY <1>1, <1>10, <2>1, <2>2
  <2>4. \A k : Active(k)' <=> Active(k)
    BY <1>5 DEF Active, stamps
  <2> QED
    BY <1>5, <1>15, <2>3, <2>4 DEF NoAllocationOnInvalidated, stamps
<1> QED
  BY <1>17, <1>18, <1>19, <1>20, <1>21 DEF IInv

LEMMA EmptyFile == \A S : <<>> \in [{} -> S]
OBVIOUS

LEMMA InitHolds == Init => IInv
<1> SUFFICES ASSUME Init PROVE IInv
  OBVIOUS
<1>1. /\ \A b \in Batches : kind[b] = "none" /\ file[b] = <<>> /\ rowStatus[b] = <<>>
                            /\ fingerprint[b] = <<>>
      /\ DOMAIN <<>> = {}
  BY DEF Init
<1>2. Created = {}
  BY DEF Init, Created
<1>3. TypeOK
  <2>1. \A b \in Batches : rowStatus[b] \in [DOMAIN file[b] -> RowStatuses]
    BY <1>1, EmptyFile
  <2>2. kind \in [Batches -> BatchKinds] /\ status \in [Batches -> BatchStatuses]
    BY DEF Init, BatchKinds, BatchStatuses
  <2>3. /\ plan \in [Batches -> [Rows \X Keys -> Nat]]
        /\ lot \in [Keys -> LotStates] /\ reqStatus \in [Reqs -> ReqStatuses]
        /\ alloc \in [Pairs -> Nat] /\ owner \in [Keys -> confirmed \cup {NoBatch}]
    BY DEF Init, LotStates, NoLot, ReqStatuses
  <2>4. planned = {} /\ confirmed = {} /\ reverted = {} /\ invalidated = {} /\ allocated = {}
    BY DEF Init
  <2> QED
    BY <1>1, <2>1, <2>2, <2>3, <2>4 DEF TypeOK, Init
<1>4. Origins
  BY <1>2 DEF Init, Origins
<1>5. RowsCarryUnits /\ PlansAreAnswers /\ NoAllocationOnInvalidated
  BY DEF Init, RowsCarryUnits, PlansAreAnswers, NoAllocationOnInvalidated
<1> QED
  BY <1>3, <1>4, <1>5 DEF IInv

(* What the previews have in common.                                       *)
LEMMA NewBatchKeeps ==
  ASSUME IInv, NEW b \in Batches, NEW type \in {"imports", "exports"}, NEW f, NEW cls,
         NewBatch(b, type, f, cls),
         type = "imports" => f \in ImportFiles,
         type = "exports" => f \in ExportFiles,
         cls \in [DOMAIN f -> RowStatuses],
         planned' \subseteq Batches, plan' \in [Batches -> [Rows \X Keys -> Nat]],
         DOMAIN fingerprint' = Batches,
         \A c \in Batches : DOMAIN fingerprint'[c] \subseteq Keys
  PROVE  TypeOK' /\ Origins' /\ RowsCarryUnits' /\ NoAllocationOnInvalidated'
<1> USE DEF IInv, NewBatch, stamps, lotVars, reqVars
<1>1. b \notin confirmed /\ kind[b] = "none"
  BY DEF Origins
<1>2. \A c \in Batches : IF c = b
         THEN kind'[c] = type /\ file'[c] = f /\ rowStatus'[c] = cls /\ status'[c] = "review_ready"
         ELSE kind'[c] = kind[c] /\ file'[c] = file[c] /\ rowStatus'[c] = rowStatus[c]
              /\ status'[c] = status[c]
  <2>1. /\ DOMAIN kind = Batches /\ DOMAIN status = Batches
        /\ DOMAIN file = Batches /\ DOMAIN rowStatus = Batches
    BY DEF TypeOK
  <2> QED
    BY <2>1
<1>3. Created' = Created
  BY DEF Created
<1>4. TypeOK'
  <2>1. kind' \in [Batches -> BatchKinds] /\ status' \in [Batches -> BatchStatuses]
    BY DEF TypeOK, BatchKinds, BatchStatuses
  <2>2. \A c \in Batches :
          /\ kind'[c] = "none" => file'[c] = <<>>
          /\ kind'[c] = "imports" => file'[c] \in ImportFiles
          /\ kind'[c] = "exports" => file'[c] \in ExportFiles
          /\ rowStatus'[c] \in [DOMAIN file'[c] -> RowStatuses]
    BY <1>2 DEF TypeOK
  <2>3. DOMAIN file' = Batches /\ DOMAIN rowStatus' = Batches
    BY DEF TypeOK
  <2> QED
    BY <1>3, <2>1, <2>2, <2>3 DEF TypeOK
<1>5. Origins'
  BY <1>1, <1>2, <1>3 DEF Origins, TypeOK
<1>6. RowsCarryUnits' /\ NoAllocationOnInvalidated'
  BY DEF RowsCarryUnits, NoAllocationOnInvalidated, Active
<1> QED
  BY <1>4, <1>5, <1>6

LEMMA PreviewImportsKeeps ==
  ASSUME IInv, NEW b \in Batches, NEW f \in ImportFiles, PreviewImports(b, f)
  PROVE  IInv'
<1> DEFINE cls == [i \in DOMAIN f |-> ClassifyImport(f, i)]
<1>1. NewBatch(b, "imports", f, cls) /\ UNCHANGED <<planned, fingerprint, plan>>
  BY DEF PreviewImports
<1>2. cls \in [DOMAIN f -> RowStatuses]
  BY DEF ClassifyImport, ClassifyExisting, RowStatuses
<1> HIDE DEF cls
<1>3. TypeOK' /\ Origins' /\ RowsCarryUnits' /\ NoAllocationOnInvalidated'
  BY <1>1, <1>2, NewBatchKeeps DEF IInv, TypeOK
<1>4. PlansAreAnswers'
  BY <1>1 DEF IInv, TypeOK, NewBatch, PlansAreAnswers, PlanIsAnswer
<1> QED
  BY <1>3, <1>4 DEF IInv

LEMMA PreviewExportsKeeps ==
  ASSUME IInv, NEW b \in Batches, NEW f \in ExportFiles, PreviewExports(b, f)
  PROVE  IInv'
<1> DEFINE cls == [i \in DOMAIN f |-> ClassifyExport(f[i])]
<1>1. NewBatch(b, "exports", f, cls) /\ UNCHANGED <<planned, fingerprint, plan>>
  BY DEF PreviewExports
<1>2. cls \in [DOMAIN f -> RowStatuses]
  BY DEF ClassifyExport, RowStatuses
<1> HIDE DEF cls
<1>3. TypeOK' /\ Origins' /\ RowsCarryUnits' /\ NoAllocationOnInvalidated'
  BY <1>1, <1>2, NewBatchKeeps DEF IInv, TypeOK
<1>4. PlansAreAnswers'
  BY <1>1 DEF IInv, TypeOK, NewBatch, PlansAreAnswers, PlanIsAnswer
<1> QED
  BY <1>3, <1>4 DEF IInv

LEMMA PreviewExportRunKeeps ==
  ASSUME IInv, NEW b \in Batches, NEW f \in ExportFiles, PreviewExportRun(b, f)
  PROVE  IInv'
<1> DEFINE cls == [i \in DOMAIN f |-> ClassifyExport(f[i])]
           takes == PlanOf(f, cls, Inventory)
           stored == [p \in Rows \X Keys |-> IF p \in DOMAIN takes THEN takes[p] ELSE 0]
<1>1. /\ NewBatch(b, "exports", f, cls)
      /\ planned' = planned \cup {b}
      /\ fingerprint' = [fingerprint EXCEPT ![b] = Inventory]
      /\ plan' = [plan EXCEPT ![b] = stored]
  BY DEF PreviewExportRun
<1>2. cls \in [DOMAIN f -> RowStatuses]
  BY DEF ClassifyExport, RowStatuses
<1> HIDE DEF cls
<1>3. Inventory \in [ActiveLots -> InventoryStates] /\ ActiveLots \subseteq Keys
  BY InventoryType DEF IInv
<1>4. \A p \in DOMAIN takes : takes[p] \in Nat
  BY <1>3, PlanTypes
<1>5. stored \in [Rows \X Keys -> Nat]
  BY <1>4
<1>6. \A i \in Rows, k \in Keys :
         stored[<<i, k>>] = IF <<i, k>> \in DOMAIN takes THEN takes[<<i, k>>] ELSE 0
  OBVIOUS
<1> HIDE DEF stored
<1>7. plan \in [Batches -> [Rows \X Keys -> Nat]] /\ DOMAIN fingerprint = Batches
      /\ (\A c \in Batches : DOMAIN fingerprint[c] \subseteq Keys) /\ planned \subseteq Batches
  BY DEF IInv, TypeOK
<1>8. /\ planned' \subseteq Batches /\ plan' \in [Batches -> [Rows \X Keys -> Nat]]
      /\ DOMAIN fingerprint' = Batches /\ fingerprint'[b] = Inventory /\ plan'[b] = stored
      /\ \A c \in Batches : c # b => fingerprint'[c] = fingerprint[c] /\ plan'[c] = plan[c]
  BY <1>1, <1>5, <1>7
<1>9. \A c \in Batches : DOMAIN fingerprint'[c] \subseteq Keys
  BY <1>3, <1>7, <1>8
<1>10. TypeOK' /\ Origins' /\ RowsCarryUnits' /\ NoAllocationOnInvalidated'
  BY <1>1, <1>2, <1>8, <1>9, NewBatchKeeps
<1>11. /\ file'[b] = f /\ rowStatus'[b] = cls /\ kind'[b] = "exports"
       /\ \A c \in Batches : c # b => /\ file'[c] = file[c] /\ rowStatus'[c] = rowStatus[c]
                                      /\ kind'[c] = kind[c]
  BY <1>1 DEF NewBatch, IInv, TypeOK
<1>12. PlansAreAnswers'
  <2>1. PlanIsAnswer(b)'
    BY <1>6, <1>8, <1>11 DEF PlanIsAnswer
  <2>2. \A c \in planned : c # b => kind'[c] = "exports" /\ PlanIsAnswer(c)'
    BY <1>7, <1>8, <1>11 DEF IInv, PlansAreAnswers, PlanIsAnswer
  <2> QED
    BY <1>1, <1>11, <2>1, <2>2 DEF PlansAreAnswers
<1> QED
  BY <1>10, <1>12 DEF IInv

LEMMA ConfirmImportsKeeps ==
  ASSUME IInv, NEW b \in Batches, ConfirmImports(b)
  PROVE  IInv'
<1> DEFINE rows == RowsWith(b, "new") \cup RowsWith(b, "reactivate")
           saved == {file[b][i].key : i \in rows}
           rowFor(k) == CHOOSE i \in rows : file[b][i].key = k
<1>1. /\ kind[b] = "imports" /\ b \notin invalidated /\ b \notin confirmed
      /\ owner' = [k \in Keys |-> IF k \in saved THEN b ELSE owner[k]]
      /\ lot' = [k \in Keys |-> IF k \in saved THEN LotOf(file[b][rowFor(k)]) ELSE lot[k]]
      /\ Confirm(b) /\ UNCHANGED reqVars
  BY DEF ConfirmImports
<1>2. b # NoBatch
  BY BatchAssumption
<1>3. \A k \in saved : LotOf(file[b][rowFor(k)]) \in LotStates
  <2> SUFFICES ASSUME NEW k \in saved PROVE LotOf(file[b][rowFor(k)]) \in LotStates
    OBVIOUS
  <2>1. rowFor(k) \in rows
    OBVIOUS
  <2>2. rows \subseteq DOMAIN file[b] /\ file[b] \in ImportFiles
    BY <1>1 DEF RowsWith, IInv, TypeOK
  <2>3. file[b][rowFor(k)] \in ImportRows
    BY <2>1, <2>2, FileRows
  <2>4. \A row \in ImportRows : row.import - row.remaining \in Nat
    BY DEF ImportRows
  <2> QED
    BY <2>3, <2>4, DateAssumption DEF ImportRows, LotOf, LotStates
<1> HIDE DEF rows, saved, rowFor
<1>4. /\ confirmed' = confirmed \cup {b}
      /\ UNCHANGED <<kind, file, rowStatus, planned, fingerprint, plan, reverted, invalidated>>
      /\ status' = [status EXCEPT ![b] = "confirmed"]
  BY <1>1 DEF Confirm
<1>5. TypeOK'
  <2>1. owner' \in [Keys -> confirmed' \cup {NoBatch}] /\ lot' \in [Keys -> LotStates]
    BY <1>1, <1>3, <1>4 DEF IInv, TypeOK
  <2>2. status' \in [Batches -> BatchStatuses]
    BY <1>4 DEF IInv, TypeOK, BatchStatuses
  <2>3. Created' = Created
    BY <1>1 DEF Created, reqVars
  <2> QED
    BY <1>1, <1>4, <2>1, <2>2, <2>3 DEF IInv, TypeOK, reqVars
<1>6. Origins'
  BY <1>1, <1>4 DEF IInv, Origins, Created, reqVars
<1>7. RowsCarryUnits' /\ PlansAreAnswers'
  BY <1>1, <1>4 DEF IInv, RowsCarryUnits, PlansAreAnswers, PlanIsAnswer, reqVars
<1>8. NoAllocationOnInvalidated'
  <2>1. \A k \in Keys : Active(k) => Active(k)'
    BY <1>1, <1>2, <1>4 DEF Active
  <2>2. \A p \in Pairs : p[2] \in Keys
    BY DEF Pairs
  <2> QED
    BY <1>1, <1>4, <2>1, <2>2 DEF IInv, NoAllocationOnInvalidated, reqVars
<1> QED
  BY <1>5, <1>6, <1>7, <1>8 DEF IInv

LEMMA ConfirmExportsKeeps ==
  ASSUME IInv, NEW b \in Batches, ConfirmExports(b)
  PROVE  IInv'
<1>1. /\ kind[b] = "exports" /\ b \notin confirmed
      /\ reqStatus' = [r \in Reqs |->
            IF r[1] = b /\ r[2] \in RowsWith(b, "new") THEN "pending" ELSE reqStatus[r]]
      /\ UNCHANGED <<lotVars, alloc, allocated>>
  BY DEF ConfirmExports
<1>2. /\ confirmed' = confirmed \cup {b}
      /\ UNCHANGED <<kind, file, rowStatus, planned, fingerprint, plan, reverted, invalidated>>
      /\ status' = [status EXCEPT ![b] = "confirmed"]
  BY DEF Confirm, ConfirmExports
<1>3. /\ Created \subseteq Created'
      /\ \A r \in Created' :
            r \in Created \/ (r \in Reqs /\ r[1] = b /\ r[2] \in RowsWith(b, "new"))
  BY <1>1 DEF Created
<1>4. RowsWith(b, "new") \subseteq DOMAIN file[b]
  BY DEF RowsWith, IInv, TypeOK
<1>5. TypeOK'
  <2>1. reqStatus' \in [Reqs -> ReqStatuses]
    BY <1>1 DEF IInv, TypeOK, ReqStatuses, Matchable
  <2>2. status' \in [Batches -> BatchStatuses]
    BY <1>2 DEF IInv, TypeOK, BatchStatuses
  <2>3. owner' \in [Keys -> confirmed' \cup {NoBatch}]
    BY <1>1, <1>2 DEF IInv, TypeOK, lotVars
  <2> QED
    BY <1>1, <1>2, <1>3, <2>1, <2>2, <2>3 DEF IInv, TypeOK, lotVars
<1>6. Origins'
  BY <1>1, <1>2, <1>3, <1>4 DEF IInv, Origins, lotVars
<1>7. RowsCarryUnits' /\ PlansAreAnswers'
  BY <1>1, <1>2 DEF IInv, RowsCarryUnits, PlansAreAnswers, PlanIsAnswer
<1>8. NoAllocationOnInvalidated'
  BY <1>1, <1>2 DEF IInv, NoAllocationOnInvalidated, Active, lotVars
<1> QED
  BY <1>5, <1>6, <1>7, <1>8 DEF IInv

(* The rows a plan allocates for are the new rows of its file, and the     *)
(* lots it takes from are those of its fingerprint.                        *)
LEMMA PlanCovers ==
  ASSUME IInv, NEW b \in Batches, StillCurrent(b), NEW i \in Rows, NEW k \in Keys,
         plan[b][<<i, k>>] > 0
  PROVE  i \in RowsWith(b, "new") /\ k \in ActiveLots
<1>1. /\ b \in planned /\ fingerprint[b] = Inventory /\ kind[b] = "exports"
      /\ PlanIsAnswer(b)
  BY DEF StillCurrent, IInv, PlansAreAnswers
<1>2. /\ file[b] \in ExportFiles /\ rowStatus[b] \in [DOMAIN file[b] -> RowStatuses]
      /\ Inventory \in [ActiveLots -> InventoryStates] /\ ActiveLots \subseteq Keys
  BY <1>1, InventoryType DEF IInv, TypeOK
<1> DEFINE takes == PlanOf(file[b], rowStatus[b], Inventory)
<1>3. \A j, l : <<j, l>> \in DOMAIN takes
                   => j \in PlannableRows(file[b], rowStatus[b]) /\ l \in DOMAIN Inventory
  BY PlanDomain
<1>4. plan[b][<<i, k>>] = IF <<i, k>> \in DOMAIN takes THEN takes[<<i, k>>] ELSE 0
  BY <1>1 DEF PlanIsAnswer
<1> HIDE DEF takes
<1>5. <<i, k>> \in DOMAIN takes
  <2>1. <<i, k>> \notin DOMAIN takes => plan[b][<<i, k>>] = 0
    BY <1>4
  <2> QED
    BY <2>1
<1>6. i \in PlannableRows(file[b], rowStatus[b]) /\ k \in ActiveLots
  BY <1>3, <1>5 DEF Inventory
<1> QED
  BY <1>2, <1>6 DEF PlannableRows, RowsWith

LEMMA ConfirmMatchRunKeeps ==
  ASSUME IInv, NEW b \in Batches, ConfirmMatchRun(b)
  PROVE  IInv'
<1> DEFINE rows == RowsWith(b, "new")
           drawn(k) == Total([i \in rows |-> plan[b][<<i, k>>]], rows)
           mine(p) == p[1][1] = b /\ p[1][2] \in rows
<1>1. /\ kind[b] = "exports" /\ b \notin confirmed /\ StillCurrent(b)
      /\ \A k \in Keys : drawn(k) <= lot[k].remaining
      /\ lot' = [k \in Keys |-> [lot[k] EXCEPT !.remaining = @ - drawn(k), !.used = @ + drawn(k)]]
      /\ UNCHANGED owner
  BY DEF ConfirmMatchRun
<1>2. /\ alloc' = [p \in Pairs |-> IF mine(p) THEN plan[b][<<p[1][2], p[2]>>] ELSE alloc[p]]
      /\ allocated' = allocated \cup {p \in Pairs : mine(p) /\ plan[b][<<p[1][2], p[2]>>] > 0}
  BY DEF ConfirmMatchRun
<1>3. /\ reqStatus' = [r \in Reqs |-> reqStatus'[r]]
      /\ \A r \in Reqs : IF r[1] = b /\ r[2] \in rows
                         THEN reqStatus'[r] \in Matchable \cup {"matched"}
                         ELSE reqStatus'[r] = reqStatus[r]
  BY DEF ConfirmMatchRun, Matchable
<1>4. /\ confirmed' = confirmed \cup {b}
      /\ UNCHANGED <<kind, file, rowStatus, planned, fingerprint, plan, reverted, invalidated>>
      /\ status' = [status EXCEPT ![b] = "confirmed"]
  BY DEF Confirm, ConfirmMatchRun
<1>5. /\ rows \subseteq DOMAIN file[b] /\ rows \subseteq Rows /\ IsFiniteSet(rows)
  <2>1. rows \subseteq DOMAIN file[b] /\ file[b] \in ExportFiles
    BY <1>1 DEF RowsWith, IInv, TypeOK
  <2>2. rows \subseteq Rows
    BY <2>1, FileRows
  <2> QED
    BY <2>1, <2>2, FiniteTables, FS_Subset
<1>6. plan[b] \in [Rows \X Keys -> Nat]
  BY DEF IInv, TypeOK
<1>7. \A k \in Keys : drawn(k) \in Nat
  <2> SUFFICES ASSUME NEW k \in Keys PROVE drawn(k) \in Nat
    OBVIOUS
  <2>1. Quantities([i \in rows |-> plan[b][<<i, k>>]], rows)
    BY <1>5, <1>6 DEF Quantities
  <2> QED
    BY <2>1, TotalType
<1>8. \A p \in Pairs : mine(p) /\ plan[b][<<p[1][2], p[2]>>] > 0
         => p[2] \in ActiveLots
  <2> SUFFICES ASSUME NEW p \in Pairs, mine(p), plan[b][<<p[1][2], p[2]>>] > 0
               PROVE  p[2] \in ActiveLots
    OBVIOUS
  <2>1. p[1][2] \in Rows /\ p[2] \in Keys
    BY DEF Pairs, Reqs
  <2> QED
    BY <1>1, <2>1, PlanCovers
<1>9. \A p \in Pairs : mine(p) => p[1] \in Reqs /\ p[2] \in Keys /\ p[1][2] \in Rows
  BY DEF Pairs, Reqs
<1> HIDE DEF drawn, rows
<1>10. Created \subseteq Created' /\ \A r \in Created' : r \in Created \/ (r \in Reqs /\ r[1] = b /\ r[2] \in rows)
  BY <1>3 DEF Created, Matchable
<1>11. \A r \in Reqs : r[1] = b /\ r[2] \in rows => r \in Created'
  BY <1>3 DEF Created, Matchable
<1>12. /\ alloc' \in [Pairs -> Nat]
       /\ \A p \in Pairs : alloc'[p] > 0 => p \in allocated'
  <2>1. \A p \in Pairs : mine(p) => plan[b][<<p[1][2], p[2]>>] \in Nat
    BY <1>6, <1>9
  <2>2. \A p \in Pairs : alloc[p] \in Nat /\ (alloc[p] > 0 => p \in allocated)
    BY DEF IInv, TypeOK, RowsCarryUnits
  <2> QED
    BY <1>2, <2>1, <2>2
<1>13. lot' \in [Keys -> LotStates]
  <2>1. ASSUME NEW k \in Keys
        PROVE  [lot[k] EXCEPT !.remaining = @ - drawn(k), !.used = @ + drawn(k)] \in LotStates
    <3>1. lot[k] \in LotStates
      BY DEF IInv, TypeOK
    <3>2. drawn(k) \in Nat /\ drawn(k) <= lot[k].remaining
      BY <1>1, <1>7
    <3>3. lot[k].remaining - drawn(k) \in Nat /\ lot[k].used + drawn(k) \in Nat
      BY <3>1, <3>2 DEF LotStates
    <3> QED
      BY <3>1, <3>3 DEF LotStates
  <2> QED
    BY <1>1, <2>1
<1>14. TypeOK'
  <2>1. reqStatus' \in [Reqs -> ReqStatuses]
    BY <1>3 DEF IInv, TypeOK, ReqStatuses
  <2>2. status' \in [Batches -> BatchStatuses]
    BY <1>4 DEF IInv, TypeOK, BatchStatuses
  <2>3. owner' \in [Keys -> confirmed' \cup {NoBatch}]
    BY <1>1, <1>4 DEF IInv, TypeOK
  <2>4. allocated' \subseteq Created' \X Keys
    BY <1>2, <1>9, <1>10, <1>11 DEF IInv, TypeOK, Pairs
  <2> QED
    BY <1>4, <1>12, <1>13, <2>1, <2>2, <2>3, <2>4 DEF IInv, TypeOK
<1>15. Origins'
  BY <1>1, <1>4, <1>5, <1>10 DEF IInv, Origins
<1>16. RowsCarryUnits' /\ PlansAreAnswers'
  BY <1>4, <1>12 DEF IInv, RowsCarryUnits, PlansAreAnswers, PlanIsAnswer
<1>17. NoAllocationOnInvalidated'
  <2>1. \A k \in Keys : Active(k)' <=> Active(k)
    BY <1>1, <1>4 DEF Active
  <2>2. b \notin invalidated
    BY <1>1 DEF IInv, TypeOK
  <2>3. \A p \in allocated' : p \in Pairs
    BY <1>2 DEF IInv, TypeOK, Pairs, Created
  <2>4. \A p \in allocated : Active(p[2]) /\ p[1][1] \in confirmed \ invalidated
    BY DEF IInv, NoAllocationOnInvalidated, TypeOK, Pairs, Created
  <2>5. \A p \in allocated' : Active(p[2]) /\ p[1][1] \in confirmed' \ invalidated
    BY <1>2, <1>4, <1>8, <2>2, <2>4 DEF ActiveLots
  <2>6. \A p \in Pairs : p[2] \in Keys
    BY DEF Pairs
  <2> QED
    BY <1>4, <1>12, <2>1, <2>5, <2>6 DEF NoAllocationOnInvalidated
<1> QED
  BY <1>14, <1>15, <1>16, <1>17 DEF IInv

(* What the operations that delete allocations have in common.             *)
LEMMA DeletionFacts ==
  ASSUME TypeOK, RowsCarryUnits, NEW P, DeleteAllocations(P)
  PROVE  /\ alloc' \in [Pairs -> Nat]
         /\ allocated' = allocated \ P
         /\ RowsCarryUnits'
<1>1. /\ alloc' = [p \in Pairs |-> IF p \in P THEN 0 ELSE alloc[p]]
      /\ allocated' = allocated \ P
  BY DEF DeleteAllocations
<1> QED
  BY <1>1 DEF TypeOK, RowsCarryUnits

(* Every allocation row is between a confirmed file and an active lot.     *)
LEMMA RowsAreActive ==
  ASSUME IInv, NEW p \in allocated
  PROVE  /\ p \in Pairs /\ p[1] \in Created /\ p[2] \in Keys /\ Active(p[2])
         /\ p[1][1] \in confirmed \ invalidated
<1>1. p \in Created \X Keys
  BY DEF IInv, TypeOK
<1>2. p \in Pairs /\ p[1] \in Created /\ p[2] \in Keys
  BY <1>1 DEF Pairs, Created
<1> QED
  BY <1>2 DEF IInv, NoAllocationOnInvalidated

LEMMA UndoKeeps ==
  ASSUME IInv, NEW r \in Reqs, UndoMatching(r)
  PROVE  IInv'
<1>1. /\ r \in Created /\ lot' = Restored({r}) /\ DeleteAllocations({r} \X Keys)
      /\ reqStatus' = [reqStatus EXCEPT ![r] = "pending"]
      /\ UNCHANGED <<batchVars, stamps, owner>>
  BY DEF UndoMatching
<1>2. lot' \in [Keys -> LotStates]
  BY <1>1, RestoredType DEF IInv
<1>3. alloc' \in [Pairs -> Nat] /\ allocated' \subseteq allocated /\ RowsCarryUnits'
  BY <1>1, DeletionFacts DEF IInv
<1>4. Created' = Created /\ reqStatus' \in [Reqs -> ReqStatuses]
  BY <1>1 DEF IInv, TypeOK, Created, ReqStatuses, Matchable
<1>5. TypeOK'
  BY <1>1, <1>2, <1>3, <1>4 DEF IInv, TypeOK, batchVars, stamps
<1>6. Origins' /\ PlansAreAnswers'
  BY <1>1, <1>4 DEF IInv, Origins, PlansAreAnswers, PlanIsAnswer, batchVars, stamps
<1>7. NoAllocationOnInvalidated'
  BY <1>1, <1>3, RowsAreActive DEF RowsCarryUnits, NoAllocationOnInvalidated, Active, stamps
<1> QED
  BY <1>3, <1>5, <1>6, <1>7 DEF IInv

LEMMA RevertKeeps ==
  ASSUME IInv, NEW b \in Batches, RevertMatchRun(b)
  PROVE  IInv'
<1>1. /\ b \in confirmed /\ lot' = Restored(ReqsOf(b))
      /\ reqStatus' = [r \in Reqs |-> IF r \in ReqsOf(b) THEN "reverted" ELSE reqStatus[r]]
      /\ reverted' = reverted \cup {b}
      /\ status' = [status EXCEPT ![b] = "reverted"]
      /\ UNCHANGED <<kind, file, rowStatus, planned, fingerprint, plan, confirmed,
                     invalidated, owner, alloc, allocated>>
  BY DEF RevertMatchRun
<1>2. ReqsOf(b) \subseteq Created /\ ReqsOf(b) \subseteq Reqs
  BY DEF ReqsOf, Created
<1>3. lot' \in [Keys -> LotStates]
  BY <1>1, <1>2, RestoredType DEF IInv
<1>4. Created' = Created /\ reqStatus' \in [Reqs -> ReqStatuses]
  BY <1>1, <1>2 DEF IInv, TypeOK, Created, ReqStatuses
<1>5. status' \in [Batches -> BatchStatuses]
  BY <1>1 DEF IInv, TypeOK, BatchStatuses
<1>6. TypeOK'
  BY <1>1, <1>3, <1>4, <1>5 DEF IInv, TypeOK
<1>7. Origins' /\ RowsCarryUnits' /\ PlansAreAnswers'
  BY <1>1, <1>4 DEF IInv, Origins, RowsCarryUnits, PlansAreAnswers, PlanIsAnswer
<1>8. NoAllocationOnInvalidated'
  BY <1>1 DEF IInv, NoAllocationOnInvalidated, Active
<1> QED
  BY <1>6, <1>7, <1>8 DEF IInv

LEMMA InvalidateImportsKeeps ==
  ASSUME IInv, NEW b \in Batches, InvalidateImports(b)
  PROVE  IInv'
<1> DEFINE gone == {p \in allocated : owner[p[2]] = b}
           affected == {p[1] : p \in gone}
<1>1. /\ kind[b] = "imports" /\ b \in confirmed
      /\ invalidated' = invalidated \cup {b}
      /\ DeleteAllocations(gone)
      /\ UNCHANGED <<batchVars, confirmed, reverted, lotVars>>
  BY DEF InvalidateImports
<1>2. /\ reqStatus' = [r \in Reqs |-> reqStatus'[r]]
      /\ \A r \in Reqs : IF r \notin affected THEN reqStatus'[r] = reqStatus[r]
            ELSE reqStatus'[r] \in {"matched", "partial_matched", "pending"}
  BY DEF InvalidateImports
<1>3. affected \subseteq Created
  BY RowsAreActive
<1>4. /\ alloc' \in [Pairs -> Nat] /\ allocated' = allocated \ gone /\ RowsCarryUnits'
  BY <1>1, DeletionFacts DEF IInv
<1>5. \A p \in allocated' : p \in allocated /\ owner[p[2]] # b
  BY <1>4
<1> HIDE DEF gone, affected
<1>6. Created' = Created /\ reqStatus' \in [Reqs -> ReqStatuses]
  BY <1>2, <1>3 DEF IInv, TypeOK, Created, ReqStatuses, Matchable
<1>7. TypeOK'
  BY <1>1, <1>4, <1>5, <1>6 DEF IInv, TypeOK, batchVars, lotVars
<1>8. Origins' /\ PlansAreAnswers'
  BY <1>1, <1>6 DEF IInv, Origins, PlansAreAnswers, PlanIsAnswer, batchVars, lotVars
<1>9. NoAllocationOnInvalidated'
  <2>1. ASSUME NEW p \in allocated'
        PROVE  p \in Pairs /\ Active(p[2])' /\ p[1][1] \in confirmed' \ invalidated'
    <3>1. /\ p \in Pairs /\ p[1] \in Created /\ Active(p[2]) /\ owner[p[2]] # b
          /\ p[1][1] \in confirmed \ invalidated
      BY <1>5, RowsAreActive
    <3>2. p[1][1] # b
      BY <1>1, <3>1 DEF IInv, Origins
    <3> QED
      BY <1>1, <3>1, <3>2 DEF Active, lotVars
  <2> QED
    BY <1>4, <2>1 DEF RowsCarryUnits, NoAllocationOnInvalidated
<1> QED
  BY <1>4, <1>7, <1>8, <1>9 DEF IInv

LEMMA InvalidateExportsKeeps ==
  ASSUME IInv, NEW b \in Batches, InvalidateExports(b)
  PROVE  IInv'
<1>1. /\ kind[b] = "exports" /\ b \in confirmed
      /\ invalidated' = invalidated \cup {b}
      /\ lot' = Restored(ReqsOf(b))
      /\ DeleteAllocations(ReqsOf(b) \X Keys)
      /\ reqStatus' = [r \in Reqs |-> IF r \in ReqsOf(b) THEN "invalidated" ELSE reqStatus[r]]
      /\ UNCHANGED <<batchVars, confirmed, reverted, owner>>
  BY DEF InvalidateExports
<1>2. /\ ReqsOf(b) \subseteq Created /\ ReqsOf(b) \subseteq Reqs
      /\ \A r \in Created : r[1] = b => r \in ReqsOf(b)
  BY DEF ReqsOf, Created
<1>3. lot' \in [Keys -> LotStates]
  BY <1>1, <1>2, RestoredType DEF IInv
<1>4. /\ alloc' \in [Pairs -> Nat] /\ allocated' = allocated \ (ReqsOf(b) \X Keys)
      /\ RowsCarryUnits'
  BY <1>1, DeletionFacts DEF IInv
<1>5. Created' = Created /\ reqStatus' \in [Reqs -> ReqStatuses]
  BY <1>1, <1>2 DEF IInv, TypeOK, Created, ReqStatuses
<1>6. TypeOK'
  BY <1>1, <1>3, <1>4, <1>5 DEF IInv, TypeOK, batchVars
<1>7. Origins' /\ PlansAreAnswers'
  BY <1>1, <1>5 DEF IInv, Origins, PlansAreAnswers, PlanIsAnswer, batchVars
<1>8. NoAllocationOnInvalidated'
  <2>1. ASSUME NEW p \in allocated'
        PROVE  p \in Pairs /\ Active(p[2])' /\ p[1][1] \in confirmed' \ invalidated'
    <3>1. /\ p \in Pairs /\ p[1] \in Created /\ p[2] \in Keys /\ Active(p[2])
          /\ p[1][1] \in confirmed \ invalidated /\ p \notin ReqsOf(b) \X Keys
      BY <1>4, RowsAreActive
    <3>2. p[1][1] # b
      BY <1>2, <3>1 DEF Pairs
    <3>3. owner[p[2]] # b
      BY <1>1, <3>1 DEF IInv, Origins, Active
    <3> QED
      BY <1>1, <3>1, <3>2, <3>3 DEF Active
  <2> QED
    BY <1>4, <2>1 DEF RowsCarryUnits, NoAllocationOnInvalidated
<1> QED
  BY <1>4, <1>6, <1>7, <1>8 DEF IInv

LEMMA DeleteKeeps ==
  ASSUME IInv, NEW b \in Batches, DeleteUnconfirmed(b)
  PROVE  IInv'
<1>1. /\ b \notin confirmed
      /\ planned' = planned \ {b}
      /\ UNCHANGED <<stamps, lotVars, reqVars>>
  BY DEF DeleteUnconfirmed, DropBatch
<1>2. /\ kind' \in [Batches -> BatchKinds] /\ status' \in [Batches -> BatchStatuses]
      /\ DOMAIN file' = Batches /\ DOMAIN rowStatus' = Batches /\ DOMAIN fingerprint' = Batches
      /\ plan' \in [Batches -> [Rows \X Keys -> Nat]]
  BY DEF DeleteUnconfirmed, DropBatch, IInv, TypeOK, BatchKinds, BatchStatuses
<1>3. /\ kind'[b] = "none" /\ file'[b] = <<>> /\ rowStatus'[b] = <<>> /\ fingerprint'[b] = <<>>
      /\ \A c \in Batches : c # b =>
            /\ kind'[c] = kind[c] /\ file'[c] = file[c] /\ rowStatus'[c] = rowStatus[c]
            /\ fingerprint'[c] = fingerprint[c] /\ plan'[c] = plan[c]
  BY DEF DeleteUnconfirmed, DropBatch, IInv, TypeOK
<1>4. Created' = Created /\ \A r \in Created : r[1] # b
  BY <1>1 DEF Created, IInv, Origins, reqVars
<1>5. TypeOK'
  <2>1. /\ DOMAIN file'[b] = {} /\ DOMAIN fingerprint'[b] = {}
        /\ rowStatus'[b] \in [DOMAIN file'[b] -> RowStatuses]
    BY <1>3, EmptyFile
  <2>2. \A c \in Batches :
          /\ kind'[c] = "none" => file'[c] = <<>>
          /\ kind'[c] = "imports" => file'[c] \in ImportFiles
          /\ kind'[c] = "exports" => file'[c] \in ExportFiles
          /\ rowStatus'[c] \in [DOMAIN file'[c] -> RowStatuses]
          /\ DOMAIN fingerprint'[c] \subseteq Keys
    BY <1>3, <2>1 DEF IInv, TypeOK
  <2> QED
    BY <1>1, <1>2, <1>4, <2>2 DEF IInv, TypeOK, stamps, lotVars, reqVars
<1>6. Origins'
  BY <1>1, <1>3, <1>4 DEF IInv, TypeOK, Origins, stamps, lotVars
<1>7. PlansAreAnswers'
  BY <1>1, <1>3 DEF IInv, TypeOK, PlansAreAnswers, PlanIsAnswer
<1>8. RowsCarryUnits' /\ NoAllocationOnInvalidated'
  BY <1>1 DEF IInv, RowsCarryUnits, NoAllocationOnInvalidated, Active, stamps, lotVars, reqVars
<1> QED
  BY <1>5, <1>6, <1>7, <1>8 DEF IInv

LEMMA NextKeeps == IInv /\ [Next]_vars => IInv'
<1> SUFFICES ASSUME IInv, [Next]_vars PROVE IInv'
  OBVIOUS
<1>1. CASE Preview
  BY <1>1, PreviewImportsKeeps, PreviewExportsKeeps, PreviewExportRunKeeps DEF Preview
<1>2. CASE Save
  BY <1>2, ConfirmImportsKeeps, ConfirmExportsKeeps, ConfirmMatchRunKeeps, DeleteKeeps DEF Save
<1>3. CASE Match
  BY <1>3, MatchKeeps DEF Match
<1>4. CASE Undo
  BY <1>4, UndoKeeps DEF Undo
<1>5. CASE Revert
  BY <1>5, RevertKeeps DEF Revert
<1>6. CASE WithdrawImports
  BY <1>6, InvalidateImportsKeeps DEF WithdrawImports
<1>7. CASE WithdrawExports
  BY <1>7, InvalidateExportsKeeps DEF WithdrawExports
<1>8. CASE UNCHANGED vars
  <2> USE <1>8 DEF vars, batchVars, stamps, lotVars, reqVars
  <2>1. Created' = Created
    BY DEF Created
  <2>2. TypeOK'
    BY <2>1 DEF IInv, TypeOK
  <2>3. Origins'
    BY <2>1 DEF IInv, Origins
  <2>4. RowsCarryUnits' /\ PlansAreAnswers'
    BY DEF IInv, RowsCarryUnits, PlansAreAnswers, PlanIsAnswer
  <2>5. NoAllocationOnInvalidated'
    BY DEF IInv, NoAllocationOnInvalidated, Active
  <2> QED
    BY <2>2, <2>3, <2>4, <2>5 DEF IInv
<1> QED
  BY <1>1, <1>2, <1>3, <1>4, <1>5, <1>6, <1>7, <1>8 DEF Next
-----------------------------------------------------------------------------
(* The tables keep their types under every mix of the operations: no       *)
(* balance of a lot becomes negative, whatever plan is confirmed or match  *)
(* run made, and no requirement is left without the row it came from.      *)
THEOREM TypeCorrect == Spec => []TypeOK
<1>1. IInv => TypeOK
  BY DEF IInv
<1> QED
  BY <1>1, InitHolds, NextKeeps, PTL DEF Spec

(* Once an import or export file is invalidated, no allocation of it is    *)
(* left, and no stale plan, later match run or reversal brings one back.   *)
THEOREM InvalidationIsFinal == Spec => []NoAllocationOnInvalidated
<1>1. IInv => NoAllocationOnInvalidated
  BY DEF IInv
<1> QED
  BY <1>1, InitHolds, NextKeeps, PTL DEF Spec

(* One step of ConfirmsWhatWasReviewed.                                    *)
SavesMatchRun(b) ==
    /\ kind[b] = "exports" /\ b \in confirmed' \ confirmed
    /\ \E p \in allocated' : p[1][1] = b

SavesThePlan(b) ==
    LET takes == PlanOf(file[b], rowStatus[b], Inventory)
    IN  \A i \in Rows, k \in Keys :
          /\ alloc'[<<<<b, i>>, k>>] = plan[b][<<i, k>>]
          /\ plan[b][<<i, k>>] = IF <<i, k>> \in DOMAIN takes THEN takes[<<i, k>>] ELSE 0

SavesReviewed == \A b \in Batches : SavesMatchRun(b) => SavesThePlan(b)

LEMMA StepSavesReviewed == IInv /\ [Next]_vars => SavesReviewed
<1>1. ASSUME IInv, NEW b \in Batches, ConfirmMatchRun(b)
      PROVE  SavesThePlan(b) /\ confirmed' = confirmed \cup {b}
  <2> DEFINE rows == RowsWith(b, "new")
             mine(p) == p[1][1] = b /\ p[1][2] \in rows
  <2>1. /\ alloc' = [p \in Pairs |-> IF mine(p) THEN plan[b][<<p[1][2], p[2]>>] ELSE alloc[p]]
        /\ StillCurrent(b) /\ b \notin confirmed /\ confirmed' = confirmed \cup {b}
    BY <1>1 DEF ConfirmMatchRun, Confirm
  <2>2. /\ fingerprint[b] = Inventory /\ PlanIsAnswer(b)
    BY <1>1, <2>1 DEF StillCurrent, IInv, PlansAreAnswers
  <2>3. ASSUME NEW i \in Rows, NEW k \in Keys
        PROVE  alloc'[<<<<b, i>>, k>>] = plan[b][<<i, k>>]
    <3>1. <<<<b, i>>, k>> \in Pairs
      BY DEF Pairs, Reqs
    <3>2. CASE i \in rows
      BY <2>1, <3>1, <3>2
    <3>3. CASE i \notin rows
      <4>1. plan[b] \in [Rows \X Keys -> Nat] /\ alloc \in [Pairs -> Nat]
        BY <1>1 DEF IInv, TypeOK
      <4>2. ~ (plan[b][<<i, k>>] > 0)
        BY <1>1, <2>1, <3>3, PlanCovers
      <4>3. plan[b][<<i, k>>] = 0
        BY <4>1, <4>2
      <4>4. <<<<b, i>>, k>> \notin allocated
        BY <1>1, <2>1, RowsAreActive
      <4>5. alloc[<<<<b, i>>, k>>] = 0
        BY <1>1, <3>1, <4>1, <4>4 DEF IInv, RowsCarryUnits
      <4>6. alloc'[<<<<b, i>>, k>>] = alloc[<<<<b, i>>, k>>]
        BY <2>1, <3>1, <3>3
      <4> QED
        BY <4>3, <4>5, <4>6
    <3> QED
      BY <3>2, <3>3
  <2> QED
    BY <2>1, <2>2, <2>3 DEF PlanIsAnswer, SavesThePlan
<1>2. ASSUME IInv, [Next]_vars, NEW b \in Batches, SavesMatchRun(b)
      PROVE  SavesThePlan(b)
  <2>1. ASSUME UNCHANGED <<allocated>> PROVE FALSE
    BY <1>2, <2>1, RowsAreActive DEF SavesMatchRun
  <2>2. ASSUME UNCHANGED confirmed PROVE FALSE
    BY <1>2, <2>2 DEF SavesMatchRun
  <2>3. CASE Preview
    BY <2>2, <2>3 DEF Preview, PreviewImports, PreviewExports, PreviewExportRun, NewBatch, stamps
  <2>4. CASE Save
    <3>1. ASSUME NEW c \in Batches, ConfirmImports(c) \/ ConfirmExports(c) \/ DeleteUnconfirmed(c)
          PROVE  FALSE
      BY <2>1, <2>2, <3>1 DEF ConfirmImports, ConfirmExports, DeleteUnconfirmed, DropBatch, reqVars, stamps
    <3>2. ASSUME NEW c \in Batches, ConfirmMatchRun(c)
          PROVE  SavesThePlan(b)
      <4>1. SavesThePlan(c) /\ confirmed' = confirmed \cup {c}
        BY <1>1, <1>2, <3>2
      <4>2. b = c
        BY <1>2, <4>1 DEF SavesMatchRun
      <4> QED
        BY <4>1, <4>2
    <3> QED
      BY <2>4, <3>1, <3>2 DEF Save
  <2>5. CASE Match
    BY <2>2, <2>5 DEF Match, RunMatching, stamps
  <2>6. CASE Undo \/ Revert
    BY <2>2, <2>6 DEF Undo, Revert, UndoMatching, RevertMatchRun, stamps
  <2>7. CASE WithdrawImports \/ WithdrawExports
    BY <2>2, <2>7 DEF WithdrawImports, WithdrawExports, InvalidateImports, InvalidateExports
  <2>8. CASE UNCHANGED vars
    BY <2>2, <2>8 DEF vars, stamps
  <2> QED
    BY <1>2, <2>3, <2>4, <2>5, <2>6, <2>7, <2>8 DEF Next
<1> QED
  BY <1>2 DEF SavesReviewed

(* A step that saves a match run saves the stored plan to the row, and the *)
(* plan is the planner's answer for the inventory in force at that step.   *)
THEOREM ConfirmsReview == Spec => ConfirmsWhatWasReviewed
<1>1. IInv /\ [Next]_vars => [SavesReviewed]_vars
  BY StepSavesReviewed
<1> QED
  BY <1>1, InitHolds, NextKeeps, PTL
     DEF Spec, ConfirmsWhatWasReviewed, SavesReviewed, SavesMatchRun, SavesThePlan
-----------------------------------------------------------------------------
(* The status of a requirement.                                            *)

(* What status s claims of a requirement of n units, m of them allocated.  *)
Tells(s, m, n) ==
    /\ m <= n
    /\ s = "matched" => m = n
    /\ s = "partial_matched" => 0 < m /\ m < n
    /\ s \in {"pending", "insufficient_stock", "invalidated"} => m = 0

Told(r) == Tells(reqStatus[r], MatchedQty(alloc, r), RequiredQty(r))

LEMMA StatusClaims == StatusTellsAllocations <=> \A r \in Created : Told(r)
BY DEF StatusTellsAllocations, Told, Tells

LEMMA StatusClaimsAfter ==
  ASSUME \A r \in Created' : Told(r)'
  PROVE  StatusTellsAllocations'
BY DEF StatusTellsAllocations, Told, Tells

(* run_matching, confirm_match_run and the invalidation of an import file  *)
(* choose the status by the same comparisons.                              *)
LEMMA ComparedStatus ==
  ASSUME NEW m \in Nat, NEW n \in Nat, m <= n, NEW none,
         none \in {"pending", "insufficient_stock"}
  PROVE  Tells(IF m >= n THEN "matched" ELSE IF m > 0 THEN "partial_matched" ELSE none, m, n)
BY DEF Tells
-----------------------------------------------------------------------------
(* The matched total.                                                      *)

LEMMA MatchedSame ==
  ASSUME NEW a, NEW c, NEW r, \A k \in Keys : a[<<r, k>>] = c[<<r, k>>]
  PROVE  MatchedQty(a, r) = MatchedQty(c, r)
BY DEF MatchedQty

LEMMA MatchedNothing ==
  ASSUME NEW a, NEW r, \A k \in Keys : a[<<r, k>>] = 0
  PROVE  MatchedQty(a, r) = 0
BY TotalZero DEF MatchedQty

-----------------------------------------------------------------------------
(* A requirement a step does not touch.                                    *)
Untouched(r) ==
    /\ r \in Created
    /\ reqStatus'[r] = reqStatus[r]
    /\ \A k \in Keys : alloc'[<<r, k>>] = alloc[<<r, k>>]
    /\ file'[r[1]] = file[r[1]]

LEMMA UntouchedTold ==
  ASSUME StatusTellsAllocations, NEW r, Untouched(r)
  PROVE  Told(r)'
<1>1. Told(r)
  BY StatusClaims DEF Untouched
<1>2. MatchedQty(alloc', r) = MatchedQty(alloc, r)
  BY MatchedSame DEF Untouched
<1>3. RequiredQty(r)' = RequiredQty(r)
  BY DEF Untouched, RequiredQty
<1> QED
  BY <1>1, <1>2, <1>3 DEF Told, Untouched

(* A requirement that a step leaves without an allocation.                 *)
LEMMA EmptiedTold ==
  ASSUME NEW r, RequiredQty(r)' \in Nat,
         reqStatus'[r] \in {"pending", "invalidated"},
         \A k \in Keys : alloc'[<<r, k>>] = 0
  PROVE  Told(r)'
<1>1. MatchedQty(alloc', r) = 0
  BY MatchedNothing
<1> QED
  BY <1>1 DEF Told, Tells

(* Where requirements come from, and what there is of one not created.     *)
LEMMA CreatedFacts ==
  ASSUME IInv, NEW r \in Reqs
  PROVE  /\ \A k \in Keys : <<r, k>> \in Pairs /\ alloc[<<r, k>>] \in Nat
         /\ r \notin Created => \A k \in Keys : alloc[<<r, k>>] = 0
         /\ r \in Created => /\ r[1] \in Batches /\ r[1] \in confirmed
                             /\ kind[r[1]] = "exports" /\ RequiredQty(r) \in Nat
<1>1. \A k \in Keys : <<r, k>> \in Pairs /\ alloc[<<r, k>>] \in Nat
  BY DEF Pairs, IInv, TypeOK
<1>2. r \notin Created => \A k \in Keys : <<r, k>> \notin allocated
  BY DEF IInv, TypeOK
<1>3. \A k \in Keys : <<r, k>> \notin allocated => alloc[<<r, k>>] = 0
  BY <1>1 DEF IInv, RowsCarryUnits
<1>4. r \in Created => r[1] \in Batches /\ r[1] \in confirmed /\ kind[r[1]] = "exports"
                       /\ RequiredQty(r) \in Nat
  BY RequirementFacts DEF IInv, Reqs
<1> QED
  BY <1>1, <1>2, <1>3, <1>4
-----------------------------------------------------------------------------
(* Every action keeps the property.                                        *)

(* Previews write batches that no requirement belongs to; import files     *)
(* touch no requirement when they are confirmed; a file that is reverted   *)
(* keeps its allocations.                                                  *)
LEMMA PreviewTold ==
  ASSUME IInv, StatusTellsAllocations, NEW b \in Batches, NEW type, NEW f, NEW cls,
         NewBatch(b, type, f, cls)
  PROVE  StatusTellsAllocations'
<1>1. /\ kind[b] = "none" /\ file' = [file EXCEPT ![b] = f] /\ DOMAIN file = Batches
      /\ UNCHANGED reqVars
  BY DEF NewBatch, IInv, TypeOK
<1>2. Created' = Created
  BY <1>1 DEF Created, reqVars
<1>3. ASSUME NEW r \in Created
      PROVE  Untouched(r)
  <2>1. r \in Reqs
    BY DEF Created
  <2>2. r[1] # b /\ r[1] \in Batches
    BY <1>1, <2>1, CreatedFacts
  <2> QED
    BY <1>1, <2>2 DEF Untouched, reqVars
<1> QED
  BY <1>2, <1>3, UntouchedTold, StatusClaimsAfter

LEMMA FileKeptTold ==
  ASSUME IInv, StatusTellsAllocations, UNCHANGED <<file, reqVars>>
  PROVE  StatusTellsAllocations'
<1>1. Created' = Created
  BY DEF Created, reqVars
<1>2. \A r \in Created : Untouched(r)
  BY DEF Untouched, reqVars
<1> QED
  BY <1>1, <1>2, UntouchedTold, StatusClaimsAfter

LEMMA DeleteTold ==
  ASSUME IInv, StatusTellsAllocations, NEW b \in Batches, DeleteUnconfirmed(b)
  PROVE  StatusTellsAllocations'
<1>1. /\ b \notin confirmed /\ file' = [file EXCEPT ![b] = <<>>] /\ DOMAIN file = Batches
      /\ UNCHANGED reqVars
  BY DEF DeleteUnconfirmed, DropBatch, IInv, TypeOK
<1>2. Created' = Created
  BY <1>1 DEF Created, reqVars
<1>3. ASSUME NEW r \in Created
      PROVE  Untouched(r)
  <2>1. r \in Reqs
    BY DEF Created
  <2>2. r[1] # b /\ r[1] \in Batches
    BY <1>1, <2>1, CreatedFacts
  <2> QED
    BY <1>1, <2>2 DEF Untouched, reqVars
<1> QED
  BY <1>2, <1>3, UntouchedTold, StatusClaimsAfter

LEMMA RevertTold ==
  ASSUME IInv, StatusTellsAllocations, NEW b \in Batches, RevertMatchRun(b)
  PROVE  StatusTellsAllocations'
<1>1. /\ reqStatus' = [r \in Reqs |-> IF r \in ReqsOf(b) THEN "reverted" ELSE reqStatus[r]]
      /\ UNCHANGED <<file, alloc>>
  BY DEF RevertMatchRun
<1>2. ASSUME NEW r \in Created'
      PROVE  Told(r)'
  <2>1. r \in Reqs /\ r \in Created
    BY <1>1 DEF Created, ReqsOf
  <2>2. CASE r \in ReqsOf(b)
    <3>1. MatchedQty(alloc, r) <= RequiredQty(r)
      BY <2>1 DEF StatusTellsAllocations
    <3>2. reqStatus'[r] = "reverted" /\ RequiredQty(r)' = RequiredQty(r)
      BY <1>1, <2>1, <2>2 DEF RequiredQty
    <3> QED
      BY <1>1, <3>1, <3>2 DEF Told, Tells
  <2>3. CASE r \notin ReqsOf(b)
    BY <1>1, <2>1, <2>3, UntouchedTold DEF Untouched
  <2> QED
    BY <2>2, <2>3
<1> QED
  BY <1>2, StatusClaimsAfter

LEMMA UndoTold ==
  ASSUME IInv, StatusTellsAllocations, NEW s \in Reqs, UndoMatching(s)
  PROVE  StatusTellsAllocations'
<1>1. /\ s \in Created
      /\ reqStatus' = [reqStatus EXCEPT ![s] = "pending"] /\ DOMAIN reqStatus = Reqs
      /\ alloc' = [p \in Pairs |-> IF p \in {s} \X Keys THEN 0 ELSE alloc[p]]
      /\ UNCHANGED file
  BY DEF UndoMatching, DeleteAllocations, batchVars, IInv, TypeOK
<1>2. ASSUME NEW r \in Created'
      PROVE  Told(r)'
  <2>1. r \in Reqs /\ r \in Created /\ RequiredQty(r)' = RequiredQty(r)
    BY <1>1 DEF Created, RequiredQty
  <2>2. /\ \A k \in Keys : <<r, k>> \in Pairs
        /\ RequiredQty(r) \in Nat
    BY <2>1, CreatedFacts
  <2>3. CASE r = s
    BY <1>1, <2>1, <2>2, <2>3, EmptiedTold
  <2>4. CASE r # s
    BY <1>1, <2>1, <2>2, <2>4, UntouchedTold DEF Untouched
  <2> QED
    BY <2>3, <2>4
<1> QED
  BY <1>2, StatusClaimsAfter

LEMMA ConfirmExportsTold ==
  ASSUME IInv, StatusTellsAllocations, NEW b \in Batches, ConfirmExports(b)
  PROVE  StatusTellsAllocations'
<1>1. /\ kind[b] = "exports" /\ b \notin confirmed
      /\ reqStatus' = [r \in Reqs |->
            IF r[1] = b /\ r[2] \in RowsWith(b, "new") THEN "pending" ELSE reqStatus[r]]
      /\ UNCHANGED <<alloc, file>>
  BY DEF ConfirmExports, Confirm
<1>2. file[b] \in ExportFiles /\ RowsWith(b, "new") \subseteq DOMAIN file[b]
  BY <1>1 DEF IInv, TypeOK, RowsWith
<1>3. ASSUME NEW r \in Created'
      PROVE  Told(r)'
  <2>1. r \in Reqs
    BY DEF Created
  <2>2. CASE r[1] = b /\ r[2] \in RowsWith(b, "new")
    <3>1. r \notin Created
      BY <1>1, <2>1, <2>2, CreatedFacts
    <3>2. \A k \in Keys : alloc[<<r, k>>] = 0
      BY <2>1, <3>1, CreatedFacts
    <3>3. RequiredQty(r)' \in Nat
      BY <1>1, <1>2, <2>2, FileRows DEF RequiredQty, ExportRows
    <3> QED
      BY <1>1, <2>1, <2>2, <3>2, <3>3, EmptiedTold
  <2>3. CASE ~(r[1] = b /\ r[2] \in RowsWith(b, "new"))
    BY <1>1, <2>1, <2>3, UntouchedTold DEF Untouched, Created
  <2> QED
    BY <2>2, <2>3
<1> QED
  BY <1>3, StatusClaimsAfter

LEMMA InvalidateExportsTold ==
  ASSUME IInv, StatusTellsAllocations, NEW b \in Batches, InvalidateExports(b)
  PROVE  StatusTellsAllocations'
<1>1. /\ alloc' = [p \in Pairs |-> IF p \in ReqsOf(b) \X Keys THEN 0 ELSE alloc[p]]
      /\ reqStatus' = [r \in Reqs |-> IF r \in ReqsOf(b) THEN "invalidated" ELSE reqStatus[r]]
      /\ UNCHANGED file
  BY DEF InvalidateExports, DeleteAllocations, batchVars
<1>2. ASSUME NEW r \in Created'
      PROVE  Told(r)'
  <2>1. r \in Reqs /\ r \in Created /\ RequiredQty(r)' = RequiredQty(r)
    BY <1>1 DEF Created, ReqsOf, RequiredQty
  <2>2. /\ \A k \in Keys : <<r, k>> \in Pairs
        /\ RequiredQty(r) \in Nat
    BY <2>1, CreatedFacts
  <2>3. CASE r \in ReqsOf(b)
    BY <1>1, <2>1, <2>2, <2>3, EmptiedTold
  <2>4. CASE r \notin ReqsOf(b)
    BY <1>1, <2>1, <2>2, <2>4, UntouchedTold DEF Untouched
  <2> QED
    BY <2>3, <2>4
<1> QED
  BY <1>2, StatusClaimsAfter

(* What is left of a requirement is what its deleted allocations did not   *)
(* hold, and the status is taken from it.                                  *)
LEMMA InvalidateImportsTold ==
  ASSUME IInv, StatusTellsAllocations, NEW b \in Batches, InvalidateImports(b)
  PROVE  StatusTellsAllocations'
<1> DEFINE gone == {p \in allocated : owner[p[2]] = b}
           affected == {p[1] : p \in gone}
           left(r) == Total([k \in Keys |-> IF owner[k] = b THEN 0 ELSE alloc[<<r, k>>]], Keys)
<1>1. /\ alloc' = [p \in Pairs |-> IF p \in gone THEN 0 ELSE alloc[p]]
      /\ reqStatus' = [r \in Reqs |->
                IF r \notin affected THEN reqStatus[r]
                ELSE IF left(r) >= RequiredQty(r) THEN "matched"
                ELSE IF left(r) > 0 THEN "partial_matched"
                ELSE "pending"]
      /\ UNCHANGED file
  BY DEF InvalidateImports, DeleteAllocations, batchVars
<1>2. affected \subseteq Created
  BY RowsAreActive
<1>3. ASSUME NEW r \in Created'
      PROVE  Told(r)'
  <2>1. r \in Reqs
    BY DEF Created
  <2>2. r \in Created /\ RequiredQty(r)' = RequiredQty(r)
    BY <1>1, <1>2, <2>1 DEF Created, RequiredQty
  <2>3. /\ \A k \in Keys : <<r, k>> \in Pairs /\ alloc[<<r, k>>] \in Nat
        /\ RequiredQty(r) \in Nat
    BY <2>1, <2>2, CreatedFacts
  <2>4. CASE r \notin affected
    <3>1. \A k \in Keys : <<r, k>> \notin gone
      BY <2>4
    <3>2. reqStatus'[r] = reqStatus[r]
      BY <1>1, <2>1, <2>4
    <3>3. \A k \in Keys : alloc'[<<r, k>>] = alloc[<<r, k>>]
      BY <1>1, <2>3, <3>1
    <3> QED
      BY <1>1, <2>2, <3>2, <3>3, UntouchedTold DEF Untouched
  <2>5. CASE r \in affected
    <3>1. \A k \in Keys : alloc'[<<r, k>>] = IF owner[k] = b THEN 0 ELSE alloc[<<r, k>>]
      <4>1. \A k \in Keys : <<r, k>> \notin allocated => alloc[<<r, k>>] = 0
        BY <2>3 DEF IInv, RowsCarryUnits
      <4>2. \A k \in Keys : <<r, k>> \in gone <=> <<r, k>> \in allocated /\ owner[k] = b
        OBVIOUS
      <4> HIDE DEF gone
      <4> QED
        BY <1>1, <2>3, <4>1, <4>2
    <3>2. MatchedQty(alloc', r) = left(r)
      <4>1. [k \in Keys |-> alloc'[<<r, k>>]] =
              [k \in Keys |-> IF owner[k] = b THEN 0 ELSE alloc[<<r, k>>]]
        BY <3>1
      <4> QED
        BY <4>1 DEF MatchedQty
    <3>3. left(r) \in Nat /\ left(r) <= MatchedQty(alloc, r)
      <4> DEFINE all == [k \in Keys |-> alloc[<<r, k>>]]
                 rest == [k \in Keys |-> IF owner[k] = b THEN 0 ELSE alloc[<<r, k>>]]
      <4>1. Quantities(all, Keys) /\ Quantities(rest, Keys)
        BY <2>3, FiniteTables DEF Quantities
      <4>2. \A k \in Keys : rest[k] \in Nat /\ rest[k] <= all[k]
        BY <2>3
      <4>3. left(r) = Total(rest, Keys) /\ MatchedQty(alloc, r) = Total(all, Keys)
        BY DEF MatchedQty
      <4> HIDE DEF all, rest, left
      <4> QED
        BY <4>1, <4>2, <4>3, TotalType, TotalMonotone
    <3>4. MatchedQty(alloc, r) <= RequiredQty(r) /\ MatchedQty(alloc, r) \in Nat
      BY <2>1, <2>2, MatchedType DEF StatusTellsAllocations, IInv, TypeOK
    <3>5. reqStatus'[r] = IF left(r) >= RequiredQty(r) THEN "matched"
                          ELSE IF left(r) > 0 THEN "partial_matched" ELSE "pending"
      BY <1>1, <2>1, <2>5
    <3> HIDE DEF left
    <3>6. left(r) <= RequiredQty(r)
      BY <2>3, <3>3, <3>4
    <3> QED
      BY <2>2, <2>3, <3>2, <3>3, <3>5, <3>6, ComparedStatus DEF Told
  <2> QED
    BY <2>4, <2>5
<1> QED
  BY <1>3, StatusClaimsAfter

(* A requirement gets what the plan gives to its row.                      *)
LEMMA PlannedFits ==
  ASSUME IInv, NEW b \in Batches, StillCurrent(b), NEW i \in RowsWith(b, "new")
  PROVE  /\ i \in Rows /\ file[b][i].qty \in Nat
         /\ PlannedQty(b, i) \in Nat /\ PlannedQty(b, i) <= file[b][i].qty
<1> DEFINE takes == PlanOf(file[b], rowStatus[b], Inventory)
           given == [k \in Keys |-> plan[b][<<i, k>>]]
           taken == [k \in ActiveLots |-> takes[<<i, k>>]]
<1>1. /\ kind[b] = "exports" /\ fingerprint[b] = Inventory /\ PlanIsAnswer(b)
  BY DEF StillCurrent, IInv, PlansAreAnswers
<1>2. /\ file[b] \in ExportFiles /\ i \in DOMAIN file[b]
      /\ i \in PlannableRows(file[b], rowStatus[b])
  BY <1>1 DEF IInv, TypeOK, RowsWith, PlannableRows
<1>3. i \in Rows /\ file[b][i] \in ExportRows
  BY <1>2, FileRows
<1>4. ActiveLots \subseteq Keys /\ Inventory \in [ActiveLots -> InventoryStates]
  BY InventoryType DEF IInv
<1>5. /\ DOMAIN takes = PlannableRows(file[b], rowStatus[b]) \X ActiveLots
      /\ Total(taken, ActiveLots) <= file[b][i].qty
  <2>1. ActiveLots \in SUBSET Keys
    BY <1>4
  <2> HIDE DEF takes, taken
  <2>2. LET plans == PlanOf(file[b], rowStatus[b], Inventory)
        IN  /\ DOMAIN plans = PlannableRows(file[b], rowStatus[b]) \X ActiveLots
            /\ \A j \in PlannableRows(file[b], rowStatus[b]) :
                  Total([k \in ActiveLots |-> plans[<<j, k>>]], ActiveLots) <= file[b][j].qty
    BY <1>2, <1>4, <2>1, PlanTypes
  <2> QED
    BY <1>2, <2>2 DEF takes, taken
<1>6. \A k \in Keys : plan[b][<<i, k>>] = IF <<i, k>> \in DOMAIN takes THEN takes[<<i, k>>] ELSE 0
  BY <1>1, <1>3 DEF PlanIsAnswer
<1> HIDE DEF takes
<1>7. \A k \in Keys : <<i, k>> \in DOMAIN takes <=> k \in ActiveLots
  BY <1>2, <1>5
<1>8. /\ \A k \in ActiveLots : given[k] = taken[k]
      /\ \A k \in Keys \ ActiveLots : given[k] = 0
  BY <1>4, <1>6, <1>7
<1>9. Quantities(given, Keys)
  BY <1>3, FiniteTables DEF Quantities, IInv, TypeOK
<1>10. PlannedQty(b, i) = Total(given, Keys)
  BY DEF PlannedQty
<1> HIDE DEF given, taken
<1>11. Total(given, Keys) = Total(taken, ActiveLots)
  BY <1>4, <1>8, TotalSupport
<1>12. Total(given, Keys) \in Nat
  BY <1>9, TotalType
<1> QED
  BY <1>3, <1>5, <1>10, <1>11, <1>12 DEF ExportRows

LEMMA ConfirmMatchRunTold ==
  ASSUME IInv, StatusTellsAllocations, NEW b \in Batches, ConfirmMatchRun(b)
  PROVE  StatusTellsAllocations'
<1> DEFINE mine(p) == p[1][1] = b /\ p[1][2] \in RowsWith(b, "new")
<1>1. /\ StillCurrent(b)
      /\ reqStatus' = [r \in Reqs |->
                IF r[1] = b /\ r[2] \in RowsWith(b, "new")
                THEN IF PlannedQty(b, r[2]) = file[b][r[2]].qty THEN "matched"
                     ELSE IF PlannedQty(b, r[2]) > 0 THEN "partial_matched"
                     ELSE "insufficient_stock"
                ELSE reqStatus[r]]
      /\ alloc' = [p \in Pairs |-> IF mine(p) THEN plan[b][<<p[1][2], p[2]>>] ELSE alloc[p]]
      /\ UNCHANGED file
  BY DEF ConfirmMatchRun, Confirm
<1>2. ASSUME NEW r \in Created'
      PROVE  Told(r)'
  <2>1. r \in Reqs
    BY DEF Created
  <2>2. \A k \in Keys : <<r, k>> \in Pairs
    BY <2>1, CreatedFacts
  <2>3. CASE r[1] = b /\ r[2] \in RowsWith(b, "new")
    <3> DEFINE m == PlannedQty(b, r[2])
               n == file[b][r[2]].qty
    <3>1. m \in Nat /\ n \in Nat /\ m <= n
      BY <1>1, <2>3, PlannedFits
    <3>2. \A k \in Keys : alloc'[<<r, k>>] = plan[b][<<r[2], k>>]
      BY <1>1, <2>2, <2>3
    <3>3. MatchedQty(alloc', r) = m
      <4>1. [k \in Keys |-> alloc'[<<r, k>>]] = [k \in Keys |-> plan[b][<<r[2], k>>]]
        BY <3>2
      <4> QED
        BY <4>1 DEF MatchedQty, PlannedQty
    <3>4. RequiredQty(r)' = n
      BY <1>1, <2>3 DEF RequiredQty
    <3>5. reqStatus'[r] = IF m = n THEN "matched" ELSE IF m > 0 THEN "partial_matched"
                          ELSE "insufficient_stock"
      BY <1>1, <2>1, <2>3
    <3> HIDE DEF m, n
    <3> QED
      BY <3>1, <3>3, <3>4, <3>5 DEF Told, Tells
  <2>4. CASE ~(r[1] = b /\ r[2] \in RowsWith(b, "new"))
    <3>1. \A k \in Keys : alloc'[<<r, k>>] = alloc[<<r, k>>]
      BY <1>1, <2>2, <2>4
    <3>2. reqStatus'[r] = reqStatus[r] /\ r \in Created
      BY <1>1, <2>1, <2>4 DEF Created
    <3> QED
      BY <1>1, <3>1, <3>2, UntouchedTold DEF Untouched
  <2> QED
    BY <2>3, <2>4
<1> QED
  BY <1>2, StatusClaimsAfter

(* What run_matching computes with, for the date d: the requirements it    *)
(* serves, what they lack, who comes before whom, who may have which lot,  *)
(* and what each of them is given.                                         *)
Served(d) == {r \in Created : /\ reqStatus[r] \in Matchable
                              /\ r[1] \notin invalidated
                              /\ d = AnyDate \/ ReqDate(r) = d}
Lacking(d) == [r \in Served(d) |-> Nonneg(RequiredQty(r) - MatchedQty(alloc, r))]
Sooner(d) == [r \in Served(d) |-> {s \in Served(d) : Before(s, r) /\ ReqPart(s) = ReqPart(r)}]
Fitting(d) == {p \in Served(d) \X ActiveLots : PartOf[p[2]] = ReqPart(p[1])}
Given(d) ==
    FifoTake(Lacking(d), Balance(Inventory), Sooner(d), OlderLots(Inventory), Fitting(d))

LEMMA RunFacts ==
  ASSUME IInv, NEW d
  PROVE  /\ FifoInput(Lacking(d), Balance(Inventory), Sooner(d), OlderLots(Inventory), Fitting(d))
         /\ DOMAIN Lacking(d) = Served(d) /\ DOMAIN Balance(Inventory) = ActiveLots
         /\ Served(d) \subseteq Created /\ Served(d) \subseteq Reqs /\ ActiveLots \subseteq Keys
         /\ \A r, k : <<r, k>> \in Fitting(d) <=>
                r \in Served(d) /\ k \in ActiveLots /\ PartOf[k] = ReqPart(r)
         /\ \A r \in Served(d), k \in ActiveLots :
                /\ Given(d)[<<r, k>>] \in Nat
                /\ <<r, k>> \notin Fitting(d) => Given(d)[<<r, k>>] = 0
<1>1. /\ FifoInput(Lacking(d), Balance(Inventory), Sooner(d), OlderLots(Inventory), Fitting(d))
      /\ DOMAIN Lacking(d) = Served(d) /\ DOMAIN Balance(Inventory) = ActiveLots
  <2>1. Served(d) \in SUBSET Created
    BY DEF Served
  <2> HIDE DEF Served
  <2> QED
    BY <2>1, MatchIsFifo DEF IInv, Lacking, Sooner, Fitting
<1>2. Served(d) \subseteq Created /\ Served(d) \subseteq Reqs /\ ActiveLots \subseteq Keys
  BY DEF Served, Created, ActiveLots
<1>3. \A r, k : <<r, k>> \in Fitting(d) <=>
         r \in Served(d) /\ k \in ActiveLots /\ PartOf[k] = ReqPart(r)
  BY DEF Fitting
<1>4. \A r \in Served(d), k \in ActiveLots : Given(d)[<<r, k>>] \in Nat
  BY <1>1, PairFacts DEF Given
<1>5. \A r \in Served(d), k \in ActiveLots :
         <<r, k>> \notin Fitting(d) => Given(d)[<<r, k>>] = 0
  BY <1>1 DEF Given, FifoTake
<1> QED
  BY <1>1, <1>2, <1>3, <1>4, <1>5

(* What the run does to one allocation.                                    *)
LEMMA RunAllocates ==
  ASSUME IInv, NEW d, RunMatching(d), NEW r \in Reqs, NEW k \in Keys
  PROVE  /\ <<r, k>> \in Fitting(d)
               => alloc'[<<r, k>>] = alloc[<<r, k>>] + Given(d)[<<r, k>>]
         /\ <<r, k>> \notin Fitting(d) => alloc'[<<r, k>>] = alloc[<<r, k>>]
<1>1. alloc' = [p \in Pairs |-> IF p \in Fitting(d) THEN alloc[p] + Given(d)[p] ELSE alloc[p]]
  BY DEF RunMatching, Before, Served, Lacking, Sooner, Fitting, Given
<1>2. <<r, k>> \in Pairs
  BY DEF Pairs
<1> HIDE DEF Pairs
<1> QED
  BY <1>1, <1>2

(* What the run does to the lots and the statuses.                         *)
LEMMA RunChanges ==
  ASSUME IInv, NEW d, RunMatching(d)
  PROVE  /\ UNCHANGED <<batchVars, stamps, owner>>
         /\ \A k \in ActiveLots :
               LET drawn == Total([r \in Served(d) |-> Given(d)[<<r, k>>]], Served(d))
               IN  lot'[k] = [lot[k] EXCEPT !.remaining = @ - drawn, !.used = @ + drawn]
         /\ \A r \in Reqs \ Served(d) : reqStatus'[r] = reqStatus[r]
         /\ \A r \in Served(d) :
               reqStatus'[r] = IF MatchedQty(alloc', r) >= RequiredQty(r) THEN "matched"
                               ELSE IF MatchedQty(alloc', r) > 0 THEN "partial_matched"
                               ELSE "insufficient_stock"
<1>1. /\ UNCHANGED <<batchVars, stamps, owner>>
      /\ lot' = [k \in Keys |->
                IF Active(k)
                THEN LET drawn == Total([r \in Served(d) |-> Given(d)[<<r, k>>]], Served(d))
                     IN  [lot[k] EXCEPT !.remaining = @ - drawn, !.used = @ + drawn]
                ELSE lot[k]]
      /\ reqStatus' = [r \in Reqs |->
                IF r \notin Served(d) THEN reqStatus[r]
                ELSE IF MatchedQty(alloc', r) >= RequiredQty(r) THEN "matched"
                ELSE IF MatchedQty(alloc', r) > 0 THEN "partial_matched"
                ELSE "insufficient_stock"]
  BY DEF RunMatching, Before, Served, Lacking, Sooner, Fitting, Given
<1>2. \A k \in ActiveLots : k \in Keys /\ Active(k)
  BY DEF ActiveLots
<1>3. Served(d) \subseteq Reqs
  BY RunFacts
<1> QED
  BY <1>1, <1>2, <1>3

(* A run adds to what a requirement has, and adds no more than it lacks.   *)
LEMMA RunGives ==
  ASSUME IInv, NEW d, RunMatching(d), NEW r \in Served(d)
  PROVE  LET given == Total([k \in ActiveLots |-> Given(d)[<<r, k>>]], ActiveLots)
         IN  /\ given \in Nat /\ given <= Lacking(d)[r]
             /\ MatchedQty(alloc', r) = MatchedQty(alloc, r) + given
<1> DEFINE had == [k \in Keys |-> alloc[<<r, k>>]]
           gets == [k \in ActiveLots |-> Given(d)[<<r, k>>]]
           gain == [k \in Keys |-> IF k \in ActiveLots THEN Given(d)[<<r, k>>] ELSE 0]
<1>1. r \in Reqs /\ r \in Created /\ r \in DOMAIN Lacking(d) /\ ActiveLots \subseteq Keys
  BY RunFacts
<1>2. \A k \in Keys : alloc[<<r, k>>] \in Nat
  BY <1>1, CreatedFacts
<1>3. Total(gets, ActiveLots) \in Nat /\ Total(gets, ActiveLots) <= Lacking(d)[r]
  <2>1. DOMAIN Balance(Inventory) = ActiveLots
    BY RunFacts
  <2> QED
    BY <1>1, <2>1, RunFacts, TakesForDemand DEF Given
<1>4. Quantities(had, Keys) /\ Quantities(gain, Keys)
  BY <1>2, RunFacts, FiniteTables DEF Quantities
<1>5. ASSUME NEW k \in Keys
      PROVE  alloc'[<<r, k>>] = had[k] + gain[k]
  <2>1. CASE <<r, k>> \in Fitting(d)
    <3>1. k \in ActiveLots
      BY <2>1, RunFacts
    <3>2. alloc'[<<r, k>>] = alloc[<<r, k>>] + Given(d)[<<r, k>>]
      BY <1>1, <2>1, RunAllocates
    <3> QED
      BY <3>1, <3>2
  <2>2. CASE <<r, k>> \notin Fitting(d)
    <3>1. gain[k] = 0
      BY <2>2, RunFacts
    <3>2. alloc'[<<r, k>>] = alloc[<<r, k>>]
      BY <1>1, <2>2, RunAllocates
    <3> QED
      BY <1>2, <3>1, <3>2
  <2> QED
    BY <2>1, <2>2
<1>6. MatchedQty(alloc', r) = Total([k \in Keys |-> had[k] + gain[k]], Keys)
  <2>1. [k \in Keys |-> alloc'[<<r, k>>]] = [k \in Keys |-> had[k] + gain[k]]
    BY <1>5
  <2> QED
    BY <2>1 DEF MatchedQty
<1>7. MatchedQty(alloc, r) = Total(had, Keys)
  BY DEF MatchedQty
<1>8. /\ \A k \in ActiveLots : gain[k] = gets[k]
      /\ \A k \in Keys \ ActiveLots : gain[k] = 0
  BY <1>1
<1> HIDE DEF had, gets, gain
<1>9. Total(gain, Keys) = Total(gets, ActiveLots)
  BY <1>1, <1>8, TotalSupport
<1>10. MatchedQty(alloc', r) = MatchedQty(alloc, r) + Total(gets, ActiveLots)
  BY <1>4, <1>6, <1>7, <1>9, TotalSum
<1> QED
  BY <1>3, <1>10 DEF gets

LEMMA MatchTold ==
  ASSUME IInv, StatusTellsAllocations, NEW d, RunMatching(d)
  PROVE  StatusTellsAllocations'
<1>1. UNCHANGED file
  BY DEF RunMatching, batchVars
<1>2. ASSUME NEW r \in Served(d)
      PROVE  Told(r)'
  <2>1. r \in Reqs /\ r \in Created /\ RequiredQty(r) \in Nat
    BY RunFacts, CreatedFacts
  <2>2. MatchedQty(alloc, r) \in Nat /\ MatchedQty(alloc, r) <= RequiredQty(r)
    BY <2>1, MatchedType DEF IInv, TypeOK, StatusTellsAllocations
  <2>3. Lacking(d)[r] = RequiredQty(r) - MatchedQty(alloc, r)
    BY <2>1, <2>2 DEF Lacking, Nonneg
  <2>4. MatchedQty(alloc', r) \in Nat /\ MatchedQty(alloc', r) <= RequiredQty(r)
    <3> DEFINE given == Total([k \in ActiveLots |-> Given(d)[<<r, k>>]], ActiveLots)
    <3>1. /\ given \in Nat /\ given <= Lacking(d)[r]
          /\ MatchedQty(alloc', r) = MatchedQty(alloc, r) + given
      BY RunGives
    <3> HIDE DEF given
    <3> QED
      BY <2>1, <2>2, <2>3, <3>1
  <2>5. reqStatus'[r] = IF MatchedQty(alloc', r) >= RequiredQty(r) THEN "matched"
                        ELSE IF MatchedQty(alloc', r) > 0 THEN "partial_matched"
                        ELSE "insufficient_stock"
    BY RunChanges
  <2>6. RequiredQty(r)' = RequiredQty(r)
    BY <1>1 DEF RequiredQty
  <2> QED
    BY <2>1, <2>4, <2>5, <2>6, ComparedStatus DEF Told
<1>3. ASSUME NEW r \in Created', r \notin Served(d)
      PROVE  Told(r)'
  <2>1. r \in Reqs
    BY DEF Created
  <2>2. \A k \in Keys : <<r, k>> \notin Fitting(d)
    BY <1>3, RunFacts
  <2>3. \A k \in Keys : alloc'[<<r, k>>] = alloc[<<r, k>>]
    BY <2>1, <2>2, RunAllocates
  <2>4. reqStatus'[r] = reqStatus[r] /\ r \in Created
    BY <1>3, <2>1, RunChanges DEF Created
  <2> QED
    BY <1>1, <2>3, <2>4, UntouchedTold DEF Untouched
<1> QED
  BY <1>2, <1>3, StatusClaimsAfter
-----------------------------------------------------------------------------
LEMMA InitTold == Init => StatusTellsAllocations
<1>1. Init => Created = {}
  BY DEF Init, Created
<1> QED
  BY <1>1 DEF StatusTellsAllocations

LEMMA NextTold == IInv /\ StatusTellsAllocations /\ [Next]_vars => StatusTellsAllocations'
<1> SUFFICES ASSUME IInv, StatusTellsAllocations, [Next]_vars
             PROVE  StatusTellsAllocations'
  OBVIOUS
<1>1. CASE Preview
  BY <1>1, PreviewTold DEF Preview, PreviewImports, PreviewExports, PreviewExportRun
<1>2. CASE Save
  <2>1. ASSUME NEW b \in Batches, ConfirmImports(b)
        PROVE  StatusTellsAllocations'
    BY <2>1, FileKeptTold DEF ConfirmImports, Confirm
  <2> QED
    BY <1>2, <2>1, ConfirmExportsTold, ConfirmMatchRunTold, DeleteTold DEF Save
<1>3. CASE Match
  BY <1>3, MatchTold DEF Match
<1>4. CASE Undo
  BY <1>4, UndoTold DEF Undo
<1>5. CASE Revert
  BY <1>5, RevertTold DEF Revert
<1>6. CASE WithdrawImports
  BY <1>6, InvalidateImportsTold DEF WithdrawImports
<1>7. CASE WithdrawExports
  BY <1>7, InvalidateExportsTold DEF WithdrawExports
<1>8. CASE UNCHANGED vars
  BY <1>8, FileKeptTold DEF vars, batchVars
<1> QED
  BY <1>1, <1>2, <1>3, <1>4, <1>5, <1>6, <1>7, <1>8 DEF Next

(* The status of a requirement, which tells users and the next match run   *)
(* what is missing, agrees with its allocations, which never exceed what   *)
(* it requires: whatever was planned, matched, undone, reverted or         *)
(* invalidated, in whatever order.                                         *)
THEOREM StatusIsTrue == Spec => []StatusTellsAllocations
<1> QED
  BY InitHolds, NextKeeps, InitTold, NextTold, PTL DEF Spec
-----------------------------------------------------------------------------
(* The reports.                                                            *)

(* Only the requirements of an invalidated file are marked as such.        *)
MarkedWithFile == \A r \in Created : reqStatus[r] = "invalidated" => r[1] \in invalidated

LEMMA InitMarked == Init => MarkedWithFile
BY DEF Init, Created, MarkedWithFile

LEMMA NextMarked == MarkedWithFile /\ [Next]_vars => MarkedWithFile'
<1> SUFFICES ASSUME MarkedWithFile, [Next]_vars, NEW r \in Created',
                    reqStatus'[r] = "invalidated"
             PROVE  r[1] \in invalidated'
  BY DEF MarkedWithFile
<1> USE DEF MarkedWithFile, Created
<1>1. CASE Preview
  BY <1>1 DEF Preview, PreviewImports, PreviewExports, PreviewExportRun, NewBatch, stamps, reqVars
<1>2. CASE Save
  <2>1. ASSUME NEW b \in Batches, ConfirmImports(b) \/ DeleteUnconfirmed(b)
        PROVE  r[1] \in invalidated'
    BY <2>1 DEF ConfirmImports, Confirm, DeleteUnconfirmed, DropBatch, stamps, reqVars
  <2>2. ASSUME NEW b \in Batches, ConfirmExports(b) \/ ConfirmMatchRun(b)
        PROVE  r[1] \in invalidated'
    BY <2>2 DEF ConfirmExports, ConfirmMatchRun, Confirm
  <2> QED
    BY <1>2, <2>1, <2>2 DEF Save
<1>3. CASE Match
  BY <1>3 DEF Match, RunMatching, stamps
<1>4. CASE Undo
  <2>1. PICK s \in Reqs : UndoMatching(s)
    BY <1>4 DEF Undo
  <2> QED
    BY <2>1 DEF UndoMatching, stamps
<1>5. CASE Revert
  BY <1>5 DEF Revert, RevertMatchRun, ReqsOf
<1>6. CASE WithdrawImports
  BY <1>6 DEF WithdrawImports, InvalidateImports
<1>7. CASE WithdrawExports
  BY <1>7 DEF WithdrawExports, InvalidateExports, ReqsOf
<1>8. CASE UNCHANGED vars
  BY <1>8 DEF vars, stamps, reqVars
<1> QED
  BY <1>1, <1>2, <1>3, <1>4, <1>5, <1>6, <1>7, <1>8 DEF Next

(* The lots of a requirement's allocations.                                *)
LotsFor(r) == {k \in Keys : <<r, k>> \in allocated}

LEMMA LotsShown ==
  ASSUME IInv, NEW r \in Created
  PROVE  /\ JoinedLots(r) = LotsFor(r) /\ LotsFor(r) \subseteq ActiveLots
         /\ Total([k \in LotsFor(r) |-> alloc[<<r, k>>]], LotsFor(r)) = MatchedQty(alloc, r)
<1>1. \A k \in LotsFor(r) : Active(k) /\ k \in Keys
  <2> SUFFICES ASSUME NEW k \in Keys, <<r, k>> \in allocated PROVE Active(k)
    BY DEF LotsFor
  <2> QED
    BY RowsAreActive
<1>2. \A k \in Keys \ LotsFor(r) : alloc[<<r, k>>] = 0
  <2>1. r \in Reqs
    BY DEF Created
  <2> QED
    BY <2>1, CreatedFacts DEF IInv, RowsCarryUnits, LotsFor
<1>3. JoinedLots(r) = LotsFor(r)
  BY <1>1 DEF JoinedLots, LotsFor
<1>4. LotsFor(r) \subseteq ActiveLots
  BY <1>1 DEF ActiveLots
<1>5. Total([k \in Keys |-> alloc[<<r, k>>]], Keys) =
        Total([k \in LotsFor(r) |-> alloc[<<r, k>>]], LotsFor(r))
  <2> DEFINE all == [k \in Keys |-> alloc[<<r, k>>]]
             some == [k \in LotsFor(r) |-> alloc[<<r, k>>]]
  <2>1. LotsFor(r) \subseteq Keys
    BY <1>1
  <2>2. /\ \A k \in LotsFor(r) : all[k] = some[k]
        /\ \A k \in Keys \ LotsFor(r) : all[k] = 0
    BY <1>2, <2>1
  <2> HIDE DEF all, some
  <2>3. Total(all, Keys) = Total(some, LotsFor(r))
    BY <2>1, <2>2, TotalSupport
  <2> QED
    BY <2>3 DEF all, some
<1> QED
  BY <1>3, <1>4, <1>5 DEF MatchedQty

LEMMA ReportsFollow ==
  ASSUME IInv, StatusTellsAllocations, MarkedWithFile
  PROVE  ReportsAgree
<1> SUFFICES ASSUME NEW report \in RefundReports, NEW r \in DOMAIN report
             PROVE  LET mine == report[r]
                        other == AllocationReport[r]
                    IN  /\ mine.lots = other.lots
                        /\ DOMAIN mine.lots \subseteq ActiveLots
                        /\ Total(mine.lots, DOMAIN mine.lots) + mine.shortage = RequiredQty(r)
                        /\ reqStatus[r] \notin {"pending", "reverted"}
                              => mine.shortage = other.shortage
  BY DEF ReportsAgree
<1> DEFINE exports == {b \in confirmed : kind[b] = "exports" /\ b \notin invalidated}
           lots == [k \in LotsFor(r) |-> alloc[<<r, k>>]]
<1>1. \A s \in ShownReqs : s[1] \in exports
  BY RequirementFacts DEF ShownReqs, IInv
<1>2. PICK b \in exports : report = RunWorkbook(b)
  <2>1. CASE exports = {}
    <3>1. report = AllocationReport
      BY <2>1 DEF RefundReports
    <3>2. r \in ShownReqs
      BY <3>1 DEF AllocationReport
    <3> QED
      BY <1>1, <2>1, <3>2
  <2>2. CASE exports # {}
    BY <2>2 DEF RefundReports
  <2> QED
    BY <2>1, <2>2
<1>3. r \in ReqsOf(b) /\ r \in Created /\ r[1] \notin invalidated /\ r \in ShownReqs
  BY <1>2 DEF RunWorkbook, ReqsOf, ShownReqs
<1>4. /\ JoinedLots(r) = LotsFor(r) /\ LotsFor(r) \subseteq ActiveLots
      /\ Total(lots, LotsFor(r)) = MatchedQty(alloc, r)
  BY <1>3, LotsShown
<1>5. report[r] = [lots |-> lots, shortage |-> Shortage(r, LotsFor(r))]
  BY <1>2, <1>3 DEF RunWorkbook, Shown, LotsFor
<1>6. AllocationReport[r] =
        [lots |-> lots,
         shortage |-> IF reqStatus[r] \in {"partial_matched", "insufficient_stock"}
                      THEN Shortage(r, LotsFor(r)) ELSE 0]
  BY <1>3, <1>4 DEF AllocationReport, Shown
<1>7. /\ RequiredQty(r) \in Nat /\ MatchedQty(alloc, r) \in Nat
      /\ MatchedQty(alloc, r) <= RequiredQty(r)
      /\ reqStatus[r] = "matched" => MatchedQty(alloc, r) = RequiredQty(r)
  <2>1. r \in Reqs
    BY <1>3 DEF Created
  <2> QED
    BY <1>3, <2>1, RequirementFacts, MatchedType DEF StatusTellsAllocations, IInv, TypeOK
<1>8. Shortage(r, LotsFor(r)) = RequiredQty(r) - MatchedQty(alloc, r)
  BY <1>4, <1>7 DEF Shortage, Nonneg
<1>9. reqStatus[r] \in {"pending", "reverted", "matched", "partial_matched", "insufficient_stock"}
  BY <1>3 DEF MarkedWithFile, Created, IInv, TypeOK, ReqStatuses, Matchable
<1>10. DOMAIN lots = LotsFor(r)
  OBVIOUS
<1> HIDE DEF lots
<1> QED
  BY <1>4, <1>5, <1>6, <1>7, <1>8, <1>9, <1>10

(* The workbook of the latest match run, which adds up allocations, and    *)
(* the report of all of them, which goes by the status of a requirement,   *)
(* show the same rows, and every unit of a requirement.                    *)
THEOREM ReportsTellTheSame == Spec => []ReportsAgree
<1> QED
  BY InitHolds, NextKeeps, InitTold, NextTold, InitMarked, NextMarked, ReportsFollow, PTL
  DEF Spec
=============================================================================
