--------------------------- MODULE MatchLoopProofs --------------------------
(***************************************************************************)
(* The matcher's run, for any exports, lots and part numbers, and whatever *)
(* earlier runs have matched: although it queries balances of before the   *)
(* run, it hands out no unit twice, its statuses are true, its rows are    *)
(* the reached pairs, and it does what FifoService promises.               *)
(*                                                                         *)
(* The argument is the planner's (PlanLoopProofs), with two differences:   *)
(* an export walks only the lots that had a balance when the run began,    *)
(* whose candidates stay sorted (InOrder), and the session's rows carry    *)
(* what the planner keeps per pair.                                        *)
(***************************************************************************)
EXTENDS MatchLoop, FifoProofs

(* Where an export and a lot begin in the stock of their part number.      *)
Begins(e) == Total(request.need, Service!Sooner(request)[e])
Starts(l) == Total(request.avail, Service!Older(request)[l])

LotsBefore == [l \in Lots |-> {m \in Lots : Service!OlderThan(request, m, l)}]

(* The exports that are finished, the lots the query finds for the current *)
(* one, and those of them it still has to go to or has passed.             *)
Served == {d \in Demands : d < Export \/ (pc \in {"commit", "done"} /\ d = Export)}
Wanted == {l \in Lots : request.holds[l] = request.wants[Export] /\ HasBalance(l)}
Ahead  == {candidates[i] : i \in DOMAIN candidates}
Passed == IF pc = "walk" THEN Wanted \ Ahead ELSE {}

(* The pairs the walk has been at, and the exports that came to a lot.     *)
Walked(e, l) == e \in Served \/ (e = Export /\ l \in Passed)
Callers(l) == {d \in Demands : request.wants[d] = request.holds[l] /\ Walked(d, l)}

(* The candidates come oldest first, and after the lots already passed.    *)
InOrder ==
    pc = "walk" =>
        /\ \A i \in DOMAIN candidates :
              candidates[i] \in Wanted /\ Passed \subseteq LotsBefore[candidates[i]]
        /\ \A i, j \in DOMAIN candidates : i < j => candidates[i] \in LotsBefore[candidates[j]]

(* What is left of the export and of every lot.                            *)
Remains ==
    /\ pc = "walk" =>
          required = Left(Begins(Export), request.need[Export], Total(request.avail, Passed))
    /\ \A l \in Lots :
          remaining[l] = Left(Starts(l), request.avail[l], Total(request.need, Callers(l)))

(* The rows of the session are the closed form, as far as the walk is.     *)
AddedSoFar ==
    \A e \in Demands, l \in Lots :
        AddedQty[<<e, l>>] = IF Walked(e, l) THEN Service!Allocation(request)[<<e, l>>] ELSE 0

Row(i) == <<allocations[i].export, allocations[i].lot>>

AllReached == Reached(request.need, request.avail, Service!Sooner(request),
                      Service!Older(request), Service!Fits(request))

RowsSoFar ==
    \A e \in Demands, l \in Lots :
        (\E i \in DOMAIN allocations : Row(i) = <<e, l>>)
            <=> <<e, l>> \in AllReached /\ Walked(e, l)

ExportAddsUp == pc = "walk" => MatchedNow(Export) + required = request.need[Export]

StatusSoFar ==
    \A e \in Served :
        /\ status[e] = "matched" <=> MatchedNow(e) + matchedBefore[e] = RequiredQty(e)
        /\ status[e] = "insufficient_stock" <=> MatchedNow(e) + matchedBefore[e] = 0

SomethingRequired == \A e \in Demands : RequiredQty(e) > 0

AllServed == pc \in {"commit", "done"} => Served = Demands

IInv ==
    /\ TypeOK
    /\ SomethingRequired
    /\ AllServed
    /\ InOrder
    /\ Remains
    /\ AddedSoFar
    /\ NothingMatchedTwice
    /\ RowsSoFar
    /\ ExportAddsUp
    /\ StatusSoFar
-----------------------------------------------------------------------------
(* The request.                                                            *)

LEMMA RequestFacts ==
  ASSUME request \in Service!Requests
  PROVE  /\ \A e \in Demands : request.need[e] \in Nat
         /\ \A l \in Lots : request.avail[l] \in Nat /\ request.date[l] \in Nat
         /\ DOMAIN request.need = Demands /\ DOMAIN request.avail = Lots
         /\ \A S \in SUBSET Demands : Quantities(request.need, S)
         /\ \A S \in SUBSET Lots : Quantities(request.avail, S)
<1>1. /\ request.need \in [Demands -> Needs] /\ request.avail \in [Lots -> Balances]
      /\ request.date \in [Lots -> Dates]
  BY DEF Service!Requests
<1>2. /\ Needs \subseteq Nat /\ Balances \subseteq Nat /\ Dates \subseteq Nat
      /\ IsFiniteSet(Demands) /\ IsFiniteSet(Lots)
  BY MatchAssumption
<1>3. \A S \in SUBSET Demands : Quantities(request.need, S)
  BY <1>1, <1>2, FS_Subset DEF Quantities
<1>4. \A S \in SUBSET Lots : Quantities(request.avail, S)
  BY <1>1, <1>2, FS_Subset DEF Quantities
<1> QED
  BY <1>1, <1>2, <1>3, <1>4

LEMMA LotOrder ==
  ASSUME request \in Service!Requests
  PROVE  StrictOrder(LotsBefore) /\ DOMAIN LotsBefore = Lots
<1>1. /\ \A l \in Lots : request.date[l] \in Nat
      /\ Lots \subseteq Nat /\ IsFiniteSet(Lots)
  BY RequestFacts, MatchAssumption
<1>2. DOMAIN LotsBefore = Lots /\ \A l \in Lots : LotsBefore[l] \subseteq Lots
  BY DEF LotsBefore
<1>3. \A l, m \in Lots :
         m \in LotsBefore[l] <=> (request.date[m] < request.date[l]
                                    \/ (request.date[m] = request.date[l] /\ m < l))
  BY DEF LotsBefore, Service!OlderThan
<1>4. StrictOrder(LotsBefore)
  BY <1>1, <1>2, <1>3, InDateOrder
<1> QED
  BY <1>2, <1>4

(* What the candidate query returns.                                       *)
LEMMA QueryFacts ==
  ASSUME request \in Service!Requests, NEW S, S \subseteq Lots
  PROVE  /\ FifoOrder(S) \in Seq(S)
         /\ S = {FifoOrder(S)[i] : i \in DOMAIN FifoOrder(S)}
         /\ \A i, j \in DOMAIN FifoOrder(S) :
               i < j => FifoOrder(S)[i] \in LotsBefore[FifoOrder(S)[j]]
<1> DEFINE b == [l \in S |-> {m \in S : Service!OlderThan(request, m, l)}]
           s == FifoOrder(S)
<1>1. DOMAIN b = S /\ s = Sorted(b) /\ \A l \in S : b[l] \subseteq S
  BY DEF FifoOrder
<1>2. /\ \A l \in S : request.date[l] \in Nat
      /\ S \subseteq Nat /\ IsFiniteSet(S)
  BY RequestFacts, MatchAssumption, FS_Subset
<1>3. \A l, m \in S :
         m \in b[l] <=> (request.date[m] < request.date[l]
                           \/ (request.date[m] = request.date[l] /\ m < l))
  BY DEF Service!OlderThan
<1>4. \A l, m \in S : m \in b[l] => m \in LotsBefore[l]
  BY DEF LotsBefore
<1> HIDE DEF b, s
<1>5. StrictOrder(b)
  BY <1>1, <1>2, <1>3, InDateOrder
<1> DEFINE n == Cardinality(S)
<1>6. /\ n \in Nat /\ s \in Seq(S) /\ Len(s) = n /\ s \in [1 .. n -> S]
      /\ \A x \in S : \E i \in 1 .. n : s[i] = x
      /\ \A i, j \in 1 .. n : s[i] \in b[s[j]] <=> i < j
  BY <1>1, <1>5, SortedFacts
<1> HIDE DEF n
<1>7. DOMAIN s = 1 .. n
  BY <1>6
<1>8. S = {s[i] : i \in DOMAIN s}
  BY <1>6, <1>7
<1>9. \A i, j \in DOMAIN s : i < j => s[i] \in LotsBefore[s[j]]
  BY <1>4, <1>6, <1>7
<1> QED
  BY <1>6, <1>8, <1>9 DEF s

LEMMA SoonerOlder ==
  ASSUME request \in Service!Requests
  PROVE  /\ \A e \in Demands :
               /\ Service!Sooner(request)[e]
                     = {d \in Demands : d < e /\ request.wants[d] = request.wants[e]}
               /\ Begins(e) \in Nat
         /\ \A l \in Lots :
               /\ Service!Older(request)[l]
                     = {m \in LotsBefore[l] : request.holds[m] = request.holds[l]}
               /\ Starts(l) \in Nat
<1>1. \A e \in Demands : Service!Sooner(request)[e]
                            = {d \in Demands : d < e /\ request.wants[d] = request.wants[e]}
  BY DEF Service!Sooner
<1>2. \A l \in Lots : Service!Older(request)[l]
                         = {m \in LotsBefore[l] : request.holds[m] = request.holds[l]}
  BY DEF Service!Older, LotsBefore
<1>3. ASSUME NEW e \in Demands PROVE Begins(e) \in Nat
  <2>1. Quantities(request.need, Service!Sooner(request)[e])
    BY <1>1, RequestFacts
  <2> QED
    BY <2>1, TotalType DEF Begins
<1>4. ASSUME NEW l \in Lots PROVE Starts(l) \in Nat
  <2>1. Quantities(request.avail, Service!Older(request)[l])
    <3>1. Service!Older(request)[l] \subseteq Lots
      BY DEF Service!Older
    <3> QED
      BY <3>1, RequestFacts
  <2> QED
    BY <2>1, TotalType DEF Starts
<1> QED
  BY <1>1, <1>2, <1>3, <1>4

(* The operators of Fifo, seen through FifoService, are the same.          *)
LEMMA SameTotal ==
  ASSUME NEW q, NEW S
  PROVE  Service!Total(q, S) = Total(q, S)
<1>1. Service!Units(q, S) = Units(q, S)
  BY Zenon DEF Service!Units, Units
<1>2. Service!Cardinality(Units(q, S)) = Cardinality(Units(q, S))
  BY DEF Service!Cardinality, Cardinality
<1> QED
  BY <1>1, <1>2 DEF Service!Total, Total

LEMMA SameOverlap ==
  ASSUME NEW a, NEW m, NEW b, NEW n
  PROVE  Service!Overlap(a, m, b, n) = Overlap(a, m, b, n)
BY DEF Service!Overlap, Overlap, Service!Nonneg, Nonneg

LEMMA PairValue ==
  ASSUME NEW e \in Demands, NEW l \in Lots, request \in Service!Requests
  PROVE  /\ request.wants[e] = request.holds[l] =>
               Service!Allocation(request)[<<e, l>>]
                  = Overlap(Begins(e), request.need[e], Starts(l), request.avail[l])
         /\ request.wants[e] # request.holds[l] => Service!Allocation(request)[<<e, l>>] = 0
<1>1. DOMAIN request.need = Demands /\ DOMAIN request.avail = Lots
  BY RequestFacts
<1>2. <<e, l>> \in Service!Fits(request) <=> request.wants[e] = request.holds[l]
  BY DEF Service!Fits
<1> DEFINE a == Begins(e)
           b == Starts(l)
<1>3. a = Service!Total(request.need, Service!Sooner(request)[e])
      /\ b = Service!Total(request.avail, Service!Older(request)[l])
  BY SameTotal DEF Begins, Starts
<1>4. Service!Allocation(request)[<<e, l>>]
         = IF <<e, l>> \in Service!Fits(request)
           THEN Service!Overlap(a, request.need[e], b, request.avail[l])
           ELSE 0
  <2> HIDE DEF a, b
  <2> QED
    BY <1>1, <1>3 DEF Service!Allocation, Service!FifoTake
<1> QED
  BY <1>2, <1>4, SameOverlap
-----------------------------------------------------------------------------
(* Where the walk is.                                                      *)

LEMMA RowFacts ==
  /\ DOMAIN OrderedExports = 1 .. Len(OrderedExports) /\ Len(OrderedExports) \in Nat \ {0}
  /\ \A i \in DOMAIN OrderedExports : OrderedExports[i] \in Demands
  /\ {d \in Demands : d < OrderedExports[1]} = {}
  /\ \A i \in DOMAIN OrderedExports :
        {d \in Demands : d < OrderedExports[i]} \cup {OrderedExports[i]}
            = IF i < Len(OrderedExports)
              THEN {d \in Demands : d < OrderedExports[i + 1]} ELSE Demands
<1>1. Demands \subseteq Nat /\ IsFiniteSet(Demands) /\ Demands # {}
  BY MatchAssumption
<1> DEFINE b == [e \in Demands |-> {d \in Demands : d < e}]
<1>2. OrderedExports = Sorted(b) /\ DOMAIN b = Demands
      /\ \A e \in Demands : b[e] = Lower(Demands, e)
  BY DEF OrderedExports, Lower
<1> HIDE DEF b
<1>3. StepsThrough(Demands, OrderedExports)
  BY <1>1, <1>2, InNumberOrder
<1> QED
  BY <1>3 DEF StepsThrough, Lower

LEMMA TailFacts ==
  ASSUME NEW S, NEW s \in Seq(S), s # <<>>
  PROVE  /\ 1 \in DOMAIN s /\ Head(s) = s[1] /\ Head(s) \in S /\ Tail(s) \in Seq(S)
         /\ \A i \in DOMAIN Tail(s) :
               i \in Nat /\ i > 0 /\ i + 1 \in DOMAIN s /\ Tail(s)[i] = s[i + 1]
         /\ \A i \in DOMAIN s : i = 1 \/ (i - 1 \in DOMAIN Tail(s) /\ s[i] = Tail(s)[i - 1])
<1>1. Len(s) \in Nat /\ Len(s) > 0 /\ DOMAIN s = 1 .. Len(s)
  OBVIOUS
<1>2. Head(s) = s[1] /\ Tail(s) \in Seq(S) /\ Len(Tail(s)) = Len(s) - 1
      /\ DOMAIN Tail(s) = 1 .. Len(s) - 1
      /\ \A i \in 1 .. Len(s) - 1 : Tail(s)[i] = s[i + 1]
  OBVIOUS
<1>3. s[1] \in S
  BY <1>1
<1> QED
  BY <1>1, <1>2, <1>3

Lot == Head(candidates)

LEMMA OrderFacts ==
  ASSUME request \in Service!Requests
  PROVE  /\ \A l \in Lots : LotsBefore[l] \subseteq Lots /\ l \notin LotsBefore[l]
         /\ \A l \in Lots : \A m \in LotsBefore[l] : l \notin LotsBefore[m]
<1>1. StrictOrder(LotsBefore) /\ DOMAIN LotsBefore = Lots
  BY LotOrder
<1>2. \A l \in Lots : LotsBefore[l] \subseteq Lots /\ l \notin LotsBefore[l]
  BY <1>1 DEF StrictOrder
<1>3. ASSUME NEW l \in Lots, NEW m \in LotsBefore[l], l \in LotsBefore[m]
      PROVE  FALSE
  <2>1. l \in LotsBefore[l]
    BY <1>1, <1>3 DEF StrictOrder
  <2> QED
    BY <1>2, <2>1
<1> QED
  BY <1>2, <1>3

(* The head of the candidates is the oldest lot not yet passed.            *)
LEMMA AtLot ==
  ASSUME TypeOK, InOrder, pc = "walk", candidates # <<>>
  PROVE  /\ Lot \in Wanted /\ Lot \in Lots /\ Lot \notin Passed
         /\ Passed = {m \in LotsBefore[Lot] : m \in Wanted}
         /\ Wanted \ {Tail(candidates)[i] : i \in DOMAIN Tail(candidates)} = Passed \cup {Lot}
<1> DEFINE c == candidates
           t == Tail(candidates)
<1>1. /\ 1 \in DOMAIN c /\ Lot = c[1] /\ t \in Seq(Lots)
      /\ \A i \in DOMAIN t : i \in Nat /\ i > 0 /\ i + 1 \in DOMAIN c /\ t[i] = c[i + 1]
      /\ \A i \in DOMAIN c : i = 1 \/ (i - 1 \in DOMAIN t /\ c[i] = t[i - 1])
  BY TailFacts DEF TypeOK, Lot
<1>2. \A i \in DOMAIN t : Lot \in LotsBefore[t[i]] /\ t[i] \in Wanted
  <2> SUFFICES ASSUME NEW i \in DOMAIN t PROVE Lot \in LotsBefore[t[i]] /\ t[i] \in Wanted
    OBVIOUS
  <2>1. i + 1 \in DOMAIN c /\ t[i] = c[i + 1] /\ 1 < i + 1
    BY <1>1
  <2> QED
    BY <1>1, <2>1 DEF InOrder
<1>3. Lot \in Wanted /\ Lot \in Lots /\ Passed \subseteq LotsBefore[Lot]
  BY <1>1 DEF InOrder, Wanted
<1>4. /\ \A l \in Lots : LotsBefore[l] \subseteq Lots /\ l \notin LotsBefore[l]
      /\ \A l \in Lots : \A m \in LotsBefore[l] : l \notin LotsBefore[m]
  BY OrderFacts DEF TypeOK
<1>5. \A x : x \in Ahead <=> x = Lot \/ \E i \in DOMAIN t : x = t[i]
  <2>1. ASSUME NEW i \in DOMAIN c PROVE c[i] = Lot \/ \E j \in DOMAIN t : c[i] = t[j]
    BY <1>1
  <2>2. Lot \in Ahead /\ \A j \in DOMAIN t : t[j] \in Ahead
    BY <1>1 DEF Ahead
  <2> QED
    BY <2>1, <2>2 DEF Ahead
<1>6. Wanted \subseteq Lots /\ Passed = Wanted \ Ahead
  BY DEF Wanted, Passed
<1> HIDE DEF c, t
<1>7. Lot \notin Passed
  BY <1>5, <1>6
<1>8. ASSUME NEW m \in LotsBefore[Lot], m \in Wanted PROVE m \in Passed
  <2>1. m # Lot /\ Lot \notin LotsBefore[m]
    BY <1>3, <1>4
  <2>2. m \notin Ahead
    BY <1>2, <1>5, <2>1
  <2> QED
    BY <1>6, <1>8, <2>2
<1>9. Passed = {m \in LotsBefore[Lot] : m \in Wanted}
  BY <1>3, <1>6, <1>8
<1>10. Wanted \ {t[i] : i \in DOMAIN t} = Passed \cup {Lot}
  <2>1. \A i \in DOMAIN t : t[i] # Lot
    BY <1>2, <1>3, <1>4
  <2> QED
    BY <1>3, <1>5, <1>6, <2>1
<1> QED
  BY <1>3, <1>7, <1>9, <1>10 DEF t

(* The next candidate for the same export.                                 *)
LEMMA NextLot ==
  ASSUME TypeOK, InOrder, AllocateLot
  PROVE  /\ Export \in Demands /\ Export' = Export /\ Served' = Served /\ Export \notin Served
         /\ Wanted' = Wanted /\ Passed' = Passed \cup {Lot} /\ ~Walked(Export, Lot)
         /\ \A d, l : Walked(d, l)' <=> Walked(d, l) \/ (d = Export /\ l = Lot)
<1>1. /\ pc = "walk" /\ pc' = "walk" /\ candidates # <<>> /\ candidates' = Tail(candidates)
      /\ UNCHANGED <<request, matchedBefore, row>>
  BY DEF AllocateLot
<1>2. Export \in Demands /\ Export' = Export
  BY <1>1, RowFacts DEF TypeOK, Export
<1>3. Served' = Served /\ Export \notin Served
  <2>1. Export \in Nat
    BY <1>2, MatchAssumption
  <2> QED
    BY <1>1, <1>2, <2>1 DEF Served
<1>4. Wanted' = Wanted
  BY <1>1, <1>2 DEF Wanted, HasBalance
<1>5. Passed' = Passed \cup {Lot} /\ Lot \notin Passed
  <2>1. Passed' = Wanted \ {Tail(candidates)[i] : i \in DOMAIN Tail(candidates)}
    BY <1>1, <1>4 DEF Passed, Ahead
  <2> QED
    BY <1>1, <2>1, AtLot
<1> QED
  BY <1>2, <1>3, <1>4, <1>5 DEF Walked

LEMMA TurnInOrder ==
  ASSUME TypeOK, InOrder, AllocateLot
  PROVE  InOrder'
<1> DEFINE c == candidates
           t == Tail(candidates)
<1>1. /\ pc = "walk" /\ c # <<>> /\ candidates' = t /\ request' = request
      /\ Wanted' = Wanted /\ Passed' = Passed \cup {Lot}
  BY NextLot DEF AllocateLot
<1>2. LotsBefore' = LotsBefore
  BY <1>1 DEF LotsBefore, Service!OlderThan
<1>3. /\ 1 \in DOMAIN c /\ Lot = c[1]
      /\ \A i \in DOMAIN t : i \in Nat /\ i > 0 /\ i + 1 \in DOMAIN c /\ t[i] = c[i + 1]
  BY <1>1, TailFacts DEF TypeOK, Lot
<1>4. /\ \A i \in DOMAIN c : c[i] \in Wanted /\ Passed \subseteq LotsBefore[c[i]]
      /\ \A i, j \in DOMAIN c : i < j => c[i] \in LotsBefore[c[j]]
  BY <1>1 DEF InOrder
<1> HIDE DEF c, t
<1>5. ASSUME NEW i \in DOMAIN t
      PROVE  t[i] \in Wanted /\ Passed \cup {Lot} \subseteq LotsBefore[t[i]]
  <2>1. i + 1 \in DOMAIN c /\ t[i] = c[i + 1] /\ 1 < i + 1
    BY <1>3
  <2> QED
    BY <1>3, <1>4, <2>1
<1>6. ASSUME NEW i \in DOMAIN t, NEW j \in DOMAIN t, i < j
      PROVE  t[i] \in LotsBefore[t[j]]
  <2>1. /\ i + 1 \in DOMAIN c /\ t[i] = c[i + 1]
        /\ j + 1 \in DOMAIN c /\ t[j] = c[j + 1] /\ i + 1 < j + 1
    BY <1>3, <1>6
  <2> QED
    BY <1>4, <2>1
<1> QED
  BY <1>1, <1>2, <1>5, <1>6 DEF InOrder

(* The query for an export, before any of its lots is passed.              *)
LEMMA AfterQuery ==
  ASSUME TypeOK, QueryLots
  PROVE  /\ Export \in Demands /\ Export' = Export /\ Served' = Served /\ Export \notin Served
         /\ Wanted' = Wanted /\ Passed' = {} /\ Passed = {} /\ InOrder'
         /\ candidates' \in Seq(Lots)
         /\ \A d, l : Walked(d, l)' <=> Walked(d, l)
<1>1. /\ pc = "query" /\ pc' = "walk" /\ candidates' = FifoOrder(Wanted)
      /\ UNCHANGED <<request, row>> /\ request \in Service!Requests
  BY DEF QueryLots, Wanted, TypeOK
<1>2. Export \in Demands /\ Export' = Export
  BY <1>1, RowFacts DEF TypeOK, Export
<1>3. Served' = Served /\ Export \notin Served
  <2>1. Export \in Nat
    BY <1>2, MatchAssumption
  <2> QED
    BY <1>1, <1>2, <2>1 DEF Served
<1>4. Wanted' = Wanted /\ LotsBefore' = LotsBefore /\ Wanted \subseteq Lots
  BY <1>1, <1>2 DEF Wanted, HasBalance, LotsBefore, Service!OlderThan
<1>5. /\ candidates' \in Seq(Wanted)
      /\ Wanted = {candidates'[i] : i \in DOMAIN candidates'}
      /\ \A i, j \in DOMAIN candidates' :
            i < j => candidates'[i] \in LotsBefore[candidates'[j]]
  BY <1>1, <1>4, QueryFacts
<1>6. Passed' = {} /\ Passed = {}
  BY <1>1, <1>4, <1>5 DEF Passed, Ahead
<1>7. InOrder'
  BY <1>4, <1>5, <1>6 DEF InOrder
<1>8. candidates' \in Seq(Lots)
  BY <1>4, <1>5
<1> QED
  BY <1>2, <1>3, <1>4, <1>6, <1>7, <1>8 DEF Walked

(* The end of an export, with or without a walk.                           *)
LEMMA NextRow ==
  ASSUME TypeOK, SetStatus \/ AlreadyMatched
  PROVE  /\ Export \in Demands /\ Export \notin Served /\ Served' = Served \cup {Export}
         /\ pc' \in {"query", "commit"} /\ row' \in DOMAIN OrderedExports /\ Passed' = {}
         /\ pc' = "commit" => Served' = Demands
         /\ \A d, l : Walked(d, l)' <=> d \in Served \cup {Export}
<1>1. pc \in {"walk", "query"} /\ NextExport
  BY DEF SetStatus, AlreadyMatched
<1>2. Export \in Demands /\ Export \in Nat
  BY RowFacts, MatchAssumption DEF TypeOK, Export
<1>3. Served = {d \in Demands : d < Export} /\ Export \notin Served
  BY <1>1, <1>2 DEF Served
<1>4. row \in 1 .. Len(OrderedExports) /\ Len(OrderedExports) \in Nat
      /\ DOMAIN OrderedExports = 1 .. Len(OrderedExports)
  BY RowFacts DEF TypeOK
<1>5. CASE row < Len(OrderedExports)
  <2>1. row' = row + 1 /\ pc' = "query"
    BY <1>1, <1>5 DEF NextExport
  <2>2. Export' = OrderedExports[row + 1] /\ row' \in DOMAIN OrderedExports
    BY <1>4, <1>5, <2>1 DEF Export
  <2>3. Export' \in Demands /\ Export' \in Nat
    BY <2>1, <2>2, RowFacts, MatchAssumption
  <2>4. {d \in Demands : d < Export'} = Served \cup {Export}
    BY <1>3, <1>4, <1>5, <2>2, RowFacts DEF Export
  <2>5. Served' = {d \in Demands : d < Export'}
    BY <2>1, <2>3 DEF Served
  <2>6. Passed' = {}
    BY <2>1 DEF Passed
  <2> QED
    BY <1>2, <1>3, <2>1, <2>2, <2>4, <2>5, <2>6 DEF Walked
<1>6. CASE ~(row < Len(OrderedExports))
  <2>1. row' = row /\ pc' = "commit"
    BY <1>1, <1>6 DEF NextExport
  <2>2. Export' = Export
    BY <2>1 DEF Export
  <2>3. Served \cup {Export} = Demands
    BY <1>3, <1>4, <1>6, RowFacts DEF Export
  <2>4. Served' = Served \cup {Export}
    BY <1>2, <1>3, <2>1, <2>2 DEF Served
  <2>5. Passed' = {}
    BY <2>1 DEF Passed
  <2> QED
    BY <1>2, <1>3, <1>4, <2>1, <2>3, <2>4, <2>5 DEF Walked
<1> QED
  BY <1>5, <1>6
-----------------------------------------------------------------------------
(* The rows added to the session.                                          *)

RowsOf(a, e, l) == {i \in DOMAIN a : a[i].export = e /\ a[i].lot = l}
QtyOf(a, e, l) == Total([i \in RowsOf(a, e, l) |-> a[i].qty], RowsOf(a, e, l))

LEMMA RowsType ==
  ASSUME NEW a \in Seq(AllocationRow), NEW e, NEW l
  PROVE  /\ Quantities([i \in RowsOf(a, e, l) |-> a[i].qty], RowsOf(a, e, l))
         /\ RowsOf(a, e, l) \subseteq 1 .. Len(a) /\ Len(a) \in Nat
         /\ QtyOf(a, e, l) \in Nat
<1>1. Len(a) \in Nat /\ DOMAIN a = 1 .. Len(a) /\ \A i \in DOMAIN a : a[i] \in AllocationRow
  OBVIOUS
<1>2. RowsOf(a, e, l) \subseteq 1 .. Len(a)
  BY <1>1 DEF RowsOf
<1>3. IsFiniteSet(RowsOf(a, e, l))
  <2>1. IsFiniteSet(1 .. Len(a))
    BY <1>1, FS_Interval
  <2> QED
    BY <1>2, <2>1, FS_Subset
<1>4. \A i \in RowsOf(a, e, l) : a[i].qty \in Nat
  BY <1>1, <1>2 DEF AllocationRow
<1>5. Quantities([i \in RowsOf(a, e, l) |-> a[i].qty], RowsOf(a, e, l))
  BY <1>3, <1>4 DEF Quantities
<1>6. QtyOf(a, e, l) \in Nat
  BY <1>5, TotalType DEF QtyOf
<1> QED
  BY <1>1, <1>2, <1>5, <1>6

LEMMA AppendQty ==
  ASSUME NEW a \in Seq(AllocationRow), NEW r \in AllocationRow, NEW e, NEW l
  PROVE  QtyOf(Append(a, r), e, l)
            = IF r.export = e /\ r.lot = l THEN QtyOf(a, e, l) + r.qty ELSE QtyOf(a, e, l)
<1> DEFINE n == Len(a)
           b == Append(a, r)
           A == RowsOf(a, e, l)
           B == RowsOf(b, e, l)
           qa == [i \in A |-> a[i].qty]
           qb == [i \in B |-> b[i].qty]
<1> SUFFICES QtyOf(b, e, l)
                = IF r.export = e /\ r.lot = l THEN QtyOf(a, e, l) + r.qty ELSE QtyOf(a, e, l)
  OBVIOUS
<1>1. /\ n \in Nat /\ DOMAIN a = 1 .. n /\ DOMAIN b = 1 .. n + 1 /\ b[n + 1] = r
      /\ \A i \in 1 .. n : b[i] = a[i]
  OBVIOUS
<1>2. Quantities(qa, A) /\ A \subseteq 1 .. n
  BY RowsType
<1>3. QtyOf(a, e, l) = Total(qa, A) /\ QtyOf(b, e, l) = Total(qb, B)
  BY DEF QtyOf
<1>4. \A i : i \in A <=> i \in DOMAIN a /\ a[i].export = e /\ a[i].lot = l
  BY DEF RowsOf
<1>5. \A i : i \in B <=> i \in DOMAIN b /\ b[i].export = e /\ b[i].lot = l
  BY DEF RowsOf
<1>6. (\A i \in A : qa[i] = a[i].qty) /\ (\A i \in B : qb[i] = b[i].qty)
  OBVIOUS
<1> HIDE DEF n, b, A, B, qa, qb
<1>7. A \subseteq B /\ \A i \in A : qa[i] = qb[i]
  BY <1>1, <1>2, <1>4, <1>5, <1>6
<1>8. Total(qb, A) = Total(qa, A) /\ Quantities(qb, A)
  <2>1. Total(qa, A) = Total(qb, A)
    BY <1>7, TotalSame
  <2>2. Quantities(qb, A)
    BY <1>2, <1>7 DEF Quantities
  <2> QED
    BY <2>1, <2>2
<1>9. CASE r.export = e /\ r.lot = l
  <2>1. B = A \cup {n + 1} /\ n + 1 \notin A /\ n + 1 \in B
    BY <1>1, <1>2, <1>4, <1>5, <1>9
  <2>2. qb[n + 1] = r.qty /\ r.qty \in Nat
    BY <1>1, <1>6, <2>1 DEF AllocationRow
  <2>3. Total(qb, A \cup {n + 1}) = Total(qb, A) + qb[n + 1]
    BY <1>8, <2>1, <2>2, TotalAdd
  <2>4. QtyOf(b, e, l) = QtyOf(a, e, l) + r.qty
    BY <1>3, <1>8, <2>1, <2>2, <2>3
  <2> QED
    BY <1>9, <2>4
<1>10. CASE ~(r.export = e /\ r.lot = l)
  <2>1. ASSUME NEW i \in B PROVE i \in A
    <3>1. i \in 1 .. n + 1 /\ i # n + 1
      BY <1>1, <1>5, <1>10
    <3>2. i \in 1 .. n
      BY <1>1, <3>1
    <3> QED
      BY <1>1, <1>4, <1>5, <3>2
  <2>2. B = A
    BY <1>7, <2>1
  <2> QED
    BY <1>3, <1>8, <1>10, <2>2
<1> QED
  BY <1>9, <1>10

LEMMA AddedIsQtyOf ==
  /\ \A e \in Demands, l \in Lots : AddedQty[<<e, l>>] = QtyOf(allocations, e, l)
  /\ \A e \in Demands, l \in Lots : AddedQty'[<<e, l>>] = QtyOf(allocations', e, l)
BY DEF AddedQty, QtyOf, RowsOf
-----------------------------------------------------------------------------
(* An export at a lot.                                                     *)

Met == MatchedFrom(Lot)

LEMMA SmallerIsMin ==
  ASSUME NEW a \in Nat, NEW b \in Nat
  PROVE  Min({a, b}) = IF a <= b THEN a ELSE b
BY DEF Min

(* The lots passed are the older lots of the part number: those without a  *)
(* balance, which the query leaves out, add nothing.                       *)
LEMMA PassedIsOlder ==
  ASSUME TypeOK, InOrder, AllocateLot
  PROVE  /\ Total(request.avail, Passed) = Starts(Lot)
         /\ Callers(Lot) = Service!Sooner(request)[Export]
<1>1. /\ Lot \in Wanted /\ Lot \in Lots /\ Lot \notin Passed
      /\ Passed = {m \in LotsBefore[Lot] : m \in Wanted}
  BY AtLot DEF AllocateLot
<1>2. request \in Service!Requests
  BY DEF TypeOK
<1>3. Export \in Demands /\ Export \notin Served /\ pc = "walk"
  BY NextLot DEF AllocateLot
<1> DEFINE O == Service!Older(request)[Lot]
<1>4. O = {m \in LotsBefore[Lot] : request.holds[m] = request.holds[Lot]}
      /\ LotsBefore[Lot] \subseteq Lots
  BY <1>1, <1>2, SoonerOlder DEF LotsBefore
<1>5. Passed \subseteq O /\ \A m \in O \ Passed : request.avail[m] = 0
  <2>1. Passed \subseteq O
    BY <1>1, <1>4 DEF Wanted
  <2>2. ASSUME NEW m \in O, m \notin Passed PROVE request.avail[m] = 0
    <3>1. m \in Lots /\ request.avail[m] \in Nat
      BY <1>2, <1>4, RequestFacts
    <3>2. ~(request.avail[m] > 0)
      BY <1>1, <1>4, <2>2, <3>1 DEF Wanted, HasBalance
    <3> QED
      BY <3>1, <3>2
  <2> QED
    BY <2>1, <2>2
<1>6. Starts(Lot) = Total(request.avail, O)
  BY DEF Starts
<1>7. Callers(Lot) = Service!Sooner(request)[Export]
  <2>1. request.holds[Lot] = request.wants[Export]
    BY <1>1 DEF Wanted
  <2>2. \A d \in Demands : Walked(d, Lot) <=> d < Export
    BY <1>1, <1>3 DEF Walked, Served
  <2>3. Service!Sooner(request)[Export]
           = {d \in Demands : d < Export /\ request.wants[d] = request.wants[Export]}
    BY <1>2, <1>3, SoonerOlder
  <2> QED
    BY <2>1, <2>2, <2>3 DEF Callers
<1> HIDE DEF O
<1>8. Total(request.avail, O) = Total(request.avail, Passed)
  BY <1>5, TotalSupport
<1> QED
  BY <1>6, <1>7, <1>8

LEMMA ReachedPair ==
  ASSUME request \in Service!Requests, NEW e \in Demands, NEW l \in Lots
  PROVE  <<e, l>> \in AllReached <=>
            /\ request.wants[e] = request.holds[l]
            /\ request.need[e] > 0 /\ request.avail[l] > 0
            /\ Begins(e) + request.need[e] > Starts(l)
<1>1. <<e, l>> \in Service!Fits(request) <=> request.wants[e] = request.holds[l]
  BY DEF Service!Fits
<1>2. <<e, l>>[1] = e /\ <<e, l>>[2] = l
  OBVIOUS
<1> QED
  BY <1>1, <1>2 DEF AllReached, Reached, Begins, Starts

LEMMA Meeting ==
  ASSUME TypeOK, InOrder, Remains, AllocateLot
  PROVE  /\ Met \in Nat /\ Met <= required /\ Met <= remaining[Lot]
         /\ Met = Service!Allocation(request)[<<Export, Lot>>]
         /\ required - Met = Left(Begins(Export), request.need[Export],
                                  Starts(Lot) + request.avail[Lot])
         /\ remaining[Lot] - Met = Left(Starts(Lot), request.avail[Lot],
                                        Begins(Export) + request.need[Export])
         /\ <<Export, Lot>> \in AllReached
<1> DEFINE a == Begins(Export)
           n == request.need[Export]
           b == Starts(Lot)
           m == request.avail[Lot]
<1>1. Export \in Demands /\ Lot \in Wanted /\ Lot \in Lots /\ pc = "walk"
  BY NextLot, AtLot DEF AllocateLot
<1>2. request \in Service!Requests /\ required \in Nat /\ remaining[Lot] \in Nat
  BY <1>1 DEF TypeOK
<1>3. a \in Nat /\ n \in Nat /\ b \in Nat /\ m \in Nat
  BY <1>1, <1>2, SoonerOlder, RequestFacts
<1>4. required = Left(a, n, b) /\ remaining[Lot] = Left(b, m, a)
  BY <1>1, PassedIsOlder DEF Remains, Begins
<1>5. Met = IF required <= remaining[Lot] THEN required ELSE remaining[Lot]
  BY <1>2, SmallerIsMin DEF Met, MatchedFrom
<1>6. /\ request.wants[Export] = request.holds[Lot] /\ m > 0
      /\ Service!Allocation(request)[<<Export, Lot>>] = Overlap(a, n, b, m)
  BY <1>1, <1>2, PairValue DEF Wanted, HasBalance
<1>7. required > 0
  BY DEF AllocateLot
<1> HIDE DEF a, n, b, m
<1> DEFINE met == Met
<1>8. met = IF Left(a, n, b) <= Left(b, m, a) THEN Left(a, n, b) ELSE Left(b, m, a)
  BY <1>4, <1>5
<1> HIDE DEF met
<1>9. /\ met = Overlap(a, n, b, m)
      /\ Left(a, n, b) - met = Left(a, n, b + m)
      /\ Left(b, m, a) - met = Left(b, m, a + n)
  BY <1>3, <1>8, Meet
<1>10. n > 0 /\ a + n > b
  BY <1>3, <1>4, <1>7, LeftType DEF Left, Nonneg
<1>11. <<Export, Lot>> \in AllReached
  BY <1>1, <1>2, <1>6, <1>10, ReachedPair DEF a, n, b, m
<1>12. /\ Met = Service!Allocation(request)[<<Export, Lot>>]
       /\ required - Met = Left(a, n, b + m)
       /\ remaining[Lot] - Met = Left(b, m, a + n)
  BY <1>4, <1>6, <1>9 DEF met
<1>13. Met \in Nat /\ Met <= required /\ Met <= remaining[Lot]
  BY <1>2, <1>5
<1> QED
  BY <1>11, <1>12, <1>13 DEF a, n, b, m

(* What a turn of the loop does to the quantities.                         *)
LEMMA TurnEffect ==
  ASSUME TypeOK, InOrder, Remains, AddedSoFar, AllocateLot
  PROVE  /\ required' = required - Met
         /\ remaining' = [remaining EXCEPT ![Lot] = remaining[Lot] - Met]
         /\ allocations' \in Seq(AllocationRow)
         /\ AddedQty[<<Export, Lot>>] = 0
         /\ \A e \in Demands, l \in Lots :
               /\ AddedQty[<<e, l>>] \in Nat
               /\ AddedQty'[<<e, l>>]
                     = IF e = Export /\ l = Lot THEN Met ELSE AddedQty[<<e, l>>]
         /\ \A e \in Demands, l \in Lots :
               (\E i \in DOMAIN allocations' :
                     allocations'[i].export = e /\ allocations'[i].lot = l)
                  <=> (\E i \in DOMAIN allocations : Row(i) = <<e, l>>)
                        \/ (e = Export /\ l = Lot)
<1> DEFINE r == [export |-> Export, lot |-> Lot, qty |-> Met, after |-> BalanceAfter(Lot)]
<1>1. /\ required' = required - Met
      /\ remaining' = [remaining EXCEPT ![Lot] = remaining[Lot] - Met]
      /\ allocations' = Append(allocations, r)
  BY DEF AllocateLot, Lot, Met, BalanceAfter
<1>2. Export \in Demands /\ Lot \in Lots /\ ~Walked(Export, Lot)
  BY NextLot, AtLot DEF AllocateLot
<1>3. Met \in Nat /\ Met <= remaining[Lot] /\ remaining[Lot] \in Nat
  BY <1>2, Meeting DEF TypeOK
<1>4. r \in AllocationRow /\ r.export = Export /\ r.lot = Lot /\ r.qty = Met
  <2>1. BalanceAfter(Lot) \in Nat
    BY <1>3 DEF BalanceAfter, Met
  <2> QED
    BY <1>2, <1>3, <2>1 DEF AllocationRow
<1>5. allocations \in Seq(AllocationRow)
  BY DEF TypeOK
<1> HIDE DEF r
<1>6. allocations' \in Seq(AllocationRow)
  BY <1>1, <1>4, <1>5
<1>7. AddedQty[<<Export, Lot>>] = 0
  BY <1>2 DEF AddedSoFar
<1>8. ASSUME NEW e \in Demands, NEW l \in Lots
      PROVE  /\ AddedQty[<<e, l>>] \in Nat
             /\ AddedQty'[<<e, l>>]
                   = IF e = Export /\ l = Lot THEN Met ELSE AddedQty[<<e, l>>]
  <2>1. AddedQty[<<e, l>>] = QtyOf(allocations, e, l)
        /\ AddedQty'[<<e, l>>] = QtyOf(allocations', e, l)
        /\ QtyOf(allocations, e, l) \in Nat
    BY <1>5, AddedIsQtyOf, RowsType
  <2>2. QtyOf(allocations', e, l)
           = IF r.export = e /\ r.lot = l
             THEN QtyOf(allocations, e, l) + r.qty ELSE QtyOf(allocations, e, l)
    BY <1>1, <1>4, <1>5, AppendQty
  <2> QED
    BY <1>3, <1>4, <1>7, <2>1, <2>2
<1>9. ASSUME NEW e \in Demands, NEW l \in Lots
      PROVE  (\E i \in DOMAIN allocations' :
                   allocations'[i].export = e /\ allocations'[i].lot = l)
                <=> (\E i \in DOMAIN allocations : Row(i) = <<e, l>>)
                      \/ (e = Export /\ l = Lot)
  <2> DEFINE n == Len(allocations)
  <2>1. /\ n \in Nat /\ DOMAIN allocations = 1 .. n /\ DOMAIN allocations' = 1 .. n + 1
        /\ allocations'[n + 1] = r
        /\ \A i \in 1 .. n : allocations'[i] = allocations[i]
    BY <1>1, <1>5
  <2>2. \A i : Row(i) = <<e, l>> <=> allocations[i].export = e /\ allocations[i].lot = l
    BY DEF Row
  <2> HIDE DEF n
  <2>3. \A i \in 1 .. n + 1 : i \in 1 .. n \/ i = n + 1
    BY <2>1
  <2> QED
    BY <1>4, <2>1, <2>2, <2>3
<1> QED
  BY <1>1, <1>6, <1>7, <1>8, <1>9

LEMMA TurnRemains ==
  ASSUME TypeOK, InOrder, Remains, AddedSoFar, AllocateLot
  PROVE  Remains'
<1>1. /\ pc = "walk" /\ request' = request /\ request \in Service!Requests
      /\ remaining \in [Lots -> Nat]
  BY DEF AllocateLot, TypeOK
<1>2. /\ Export \in Demands /\ Lot \in Lots /\ Lot \in Wanted /\ Lot \notin Passed
      /\ Export' = Export /\ Passed' = Passed \cup {Lot} /\ ~Walked(Export, Lot)
      /\ \A d, l : Walked(d, l)' <=> Walked(d, l) \/ (d = Export /\ l = Lot)
  BY NextLot, AtLot DEF AllocateLot
<1>3. /\ required' = required - Met
      /\ remaining' = [remaining EXCEPT ![Lot] = remaining[Lot] - Met]
  BY TurnEffect
<1>4. /\ Begins(Export)' = Begins(Export)
      /\ \A l \in Lots : Starts(l)' = Starts(l)
  BY <1>1, <1>2 DEF Begins, Starts, Service!Sooner, Service!Older, Service!OlderThan
<1>5. /\ required - Met = Left(Begins(Export), request.need[Export],
                               Starts(Lot) + request.avail[Lot])
      /\ remaining[Lot] - Met = Left(Starts(Lot), request.avail[Lot],
                                     Begins(Export) + request.need[Export])
  BY Meeting
<1>6. Total(request.avail, Passed) = Starts(Lot)
      /\ Total(request.need, Callers(Lot)) = Begins(Export)
  BY PassedIsOlder DEF Begins
<1>7. required' = Left(Begins(Export)', request'.need[Export'], Total(request'.avail, Passed'))
  <2>1. Passed \subseteq Lots
    BY DEF Passed, Wanted
  <2>2. Quantities(request.avail, Passed) /\ request.avail[Lot] \in Nat
    BY <1>1, <1>2, <2>1, RequestFacts
  <2>3. Total(request.avail, Passed \cup {Lot}) = Total(request.avail, Passed) + request.avail[Lot]
    BY <1>2, <2>2, TotalAdd
  <2>4. Total(request.avail, Passed') = Starts(Lot) + request.avail[Lot]
    BY <1>2, <1>6, <2>3
  <2> QED
    BY <1>1, <1>2, <1>3, <1>4, <1>5, <2>4
<1>8. ASSUME NEW l \in Lots
      PROVE  remaining'[l] = Left(Starts(l)', request'.avail[l], Total(request'.need, Callers(l)'))
  <2>1. CASE l = Lot
    <3>1. /\ Callers(l)' = Callers(Lot) \cup {Export}
          /\ Export \notin Callers(Lot) /\ Callers(Lot) \subseteq Demands
      BY <1>1, <1>2, <2>1 DEF Callers, Wanted
    <3>2. Quantities(request.need, Callers(Lot)) /\ request.need[Export] \in Nat
      BY <1>1, <1>2, <3>1, RequestFacts
    <3>3. Total(request.need, Callers(Lot) \cup {Export})
             = Total(request.need, Callers(Lot)) + request.need[Export]
      BY <3>1, <3>2, TotalAdd
    <3>4. Total(request.need, Callers(l)') = Begins(Export) + request.need[Export]
      BY <1>6, <3>1, <3>3
    <3>5. remaining'[l] = remaining[Lot] - Met
      BY <1>1, <1>2, <1>3, <2>1
    <3>6. Starts(l)' = Starts(Lot) /\ request'.avail[l] = request.avail[Lot]
          /\ request'.need = request.need
      BY <1>1, <1>4, <2>1
    <3> QED
      BY <1>5, <3>4, <3>5, <3>6
  <2>2. CASE l # Lot
    <3>1. remaining'[l] = remaining[l]
      BY <1>1, <1>3, <2>2
    <3>2. Callers(l)' = Callers(l)
      BY <1>1, <1>2, <2>2 DEF Callers
    <3> QED
      BY <1>1, <1>4, <3>1, <3>2 DEF Remains
  <2> QED
    BY <2>1, <2>2
<1> QED
  BY <1>7, <1>8 DEF Remains

LEMMA TurnAdded ==
  ASSUME TypeOK, InOrder, Remains, AddedSoFar, RowsSoFar, AllocateLot
  PROVE  AddedSoFar' /\ RowsSoFar'
<1>1. request' = request
  BY DEF AllocateLot
<1>2. /\ Export \in Demands /\ Lot \in Lots
      /\ \A d, l : Walked(d, l)' <=> Walked(d, l) \/ (d = Export /\ l = Lot)
  BY NextLot, AtLot DEF AllocateLot
<1>3. Met = Service!Allocation(request)[<<Export, Lot>>] /\ <<Export, Lot>> \in AllReached
  BY Meeting
<1>4. AddedSoFar'
  <2> SUFFICES ASSUME NEW e \in Demands, NEW l \in Lots
               PROVE  AddedQty'[<<e, l>>]
                        = IF Walked(e, l)' THEN Service!Allocation(request)[<<e, l>>] ELSE 0
    BY <1>1 DEF AddedSoFar
  <2>1. AddedQty'[<<e, l>>] = IF e = Export /\ l = Lot THEN Met ELSE AddedQty[<<e, l>>]
    BY TurnEffect
  <2>2. AddedQty[<<e, l>>] = IF Walked(e, l) THEN Service!Allocation(request)[<<e, l>>] ELSE 0
    BY DEF AddedSoFar
  <2> QED
    BY <1>2, <1>3, <2>1, <2>2
<1>5. RowsSoFar'
  <2> SUFFICES ASSUME NEW e \in Demands, NEW l \in Lots
               PROVE  (\E i \in DOMAIN allocations' : Row(i)' = <<e, l>>)
                         <=> <<e, l>> \in AllReached' /\ Walked(e, l)'
    BY DEF RowsSoFar
  <2>1. AllReached' = AllReached
    BY <1>1 DEF AllReached, Service!Sooner, Service!Older, Service!OlderThan, Service!Fits
  <2>2. \A i : Row(i)' = <<e, l>> <=> allocations'[i].export = e /\ allocations'[i].lot = l
    BY DEF Row
  <2>3. (\E i \in DOMAIN allocations' : allocations'[i].export = e /\ allocations'[i].lot = l)
           <=> (\E i \in DOMAIN allocations : Row(i) = <<e, l>>) \/ (e = Export /\ l = Lot)
    BY TurnEffect
  <2>4. (\E i \in DOMAIN allocations : Row(i) = <<e, l>>)
           <=> <<e, l>> \in AllReached /\ Walked(e, l)
    BY DEF RowsSoFar
  <2> QED
    BY <1>2, <1>3, <2>1, <2>2, <2>3, <2>4
<1> QED
  BY <1>4, <1>5

LEMMA AddedType ==
  ASSUME TypeOK
  PROVE  /\ \A e \in Demands, l \in Lots : AddedQty[<<e, l>>] \in Nat
         /\ \A l \in Lots : /\ Quantities([e \in Demands |-> AddedQty[<<e, l>>]], Demands)
                            /\ Total([e \in Demands |-> AddedQty[<<e, l>>]], Demands) \in Nat
         /\ \A e \in Demands : /\ Quantities([l \in Lots |-> AddedQty[<<e, l>>]], Lots)
                               /\ MatchedNow(e) \in Nat
<1>1. ASSUME NEW e \in Demands, NEW l \in Lots PROVE AddedQty[<<e, l>>] \in Nat
  <2>1. allocations \in Seq(AllocationRow)
    BY DEF TypeOK
  <2>2. QtyOf(allocations, e, l) \in Nat
    BY <2>1, RowsType
  <2> QED
    BY <2>2, AddedIsQtyOf
<1>2. \A l \in Lots : Quantities([e \in Demands |-> AddedQty[<<e, l>>]], Demands)
  BY <1>1, MatchAssumption DEF Quantities
<1>3. \A e \in Demands : Quantities([l \in Lots |-> AddedQty[<<e, l>>]], Lots)
  BY <1>1, MatchAssumption DEF Quantities
<1> QED
  BY <1>1, <1>2, <1>3, TotalType DEF MatchedNow

LEMMA TurnTotals ==
  ASSUME TypeOK, InOrder, Remains, AddedSoFar, AllocateLot
  PROVE  /\ \A l \in Lots :
               Total([e \in Demands |-> AddedQty'[<<e, l>>]], Demands)
                  = Total([e \in Demands |-> AddedQty[<<e, l>>]], Demands)
                      + (IF l = Lot THEN Met ELSE 0)
         /\ \A e \in Demands : MatchedNow(e)' = MatchedNow(e) + (IF e = Export THEN Met ELSE 0)
<1>1. Export \in Demands /\ Lot \in Lots /\ Met \in Nat
  BY NextLot, AtLot, Meeting DEF AllocateLot
<1>2. /\ AddedQty[<<Export, Lot>>] = 0
      /\ \A e \in Demands, l \in Lots :
            AddedQty'[<<e, l>>] = IF e = Export /\ l = Lot THEN Met ELSE AddedQty[<<e, l>>]
  BY TurnEffect
<1>3. ASSUME NEW l \in Lots
      PROVE  Total([e \in Demands |-> AddedQty'[<<e, l>>]], Demands)
                = Total([e \in Demands |-> AddedQty[<<e, l>>]], Demands)
                    + (IF l = Lot THEN Met ELSE 0)
  <2> DEFINE q == [e \in Demands |-> AddedQty[<<e, l>>]]
             r == [e \in Demands |-> AddedQty'[<<e, l>>]]
  <2>1. Total(q, Demands) \in Nat /\ Quantities(q, Demands)
    BY AddedType
  <2>2. \A e \in Demands : r[e] = IF e = Export /\ l = Lot THEN Met ELSE q[e]
    BY <1>2
  <2>3. l = Lot => q[Export] = 0
    BY <1>1, <1>2
  <2> SUFFICES Total(r, Demands) = Total(q, Demands) + (IF l = Lot THEN Met ELSE 0)
    OBVIOUS
  <2> HIDE DEF q, r
  <2>4. CASE l = Lot
    <3>1. r[Export] = Met /\ \A e \in Demands : e # Export => r[e] = q[e]
      BY <1>1, <2>2, <2>4
    <3>2. Total(r, Demands) = Total(q, Demands) + r[Export]
      BY <1>1, <2>1, <2>3, <2>4, <3>1, TotalRaise
    <3> QED
      BY <2>4, <3>1, <3>2
  <2>5. CASE l # Lot
    <3>1. Total(r, Demands) = Total(q, Demands)
      BY <2>2, <2>5, TotalSame
    <3> QED
      BY <2>1, <2>5, <3>1
  <2> QED
    BY <2>4, <2>5
<1>4. ASSUME NEW e \in Demands
      PROVE  MatchedNow(e)' = MatchedNow(e) + (IF e = Export THEN Met ELSE 0)
  <2> DEFINE q == [l \in Lots |-> AddedQty[<<e, l>>]]
             r == [l \in Lots |-> AddedQty'[<<e, l>>]]
  <2>1. MatchedNow(e) = Total(q, Lots) /\ MatchedNow(e)' = Total(r, Lots)
        /\ Total(q, Lots) \in Nat /\ Quantities(q, Lots)
    BY AddedType DEF MatchedNow
  <2>2. \A l \in Lots : r[l] = IF e = Export /\ l = Lot THEN Met ELSE q[l]
    BY <1>2
  <2>3. e = Export => q[Lot] = 0
    BY <1>1, <1>2
  <2> HIDE DEF q, r
  <2>4. CASE e = Export
    <3>1. r[Lot] = Met /\ \A l \in Lots : l # Lot => r[l] = q[l]
      BY <1>1, <2>2, <2>4
    <3>2. Total(r, Lots) = Total(q, Lots) + r[Lot]
      BY <1>1, <2>1, <2>3, <2>4, <3>1, TotalRaise
    <3> QED
      BY <2>1, <2>4, <3>1, <3>2
  <2>5. CASE e # Export
    <3>1. Total(r, Lots) = Total(q, Lots)
      BY <2>2, <2>5, TotalSame
    <3> QED
      BY <2>1, <2>5, <3>1
  <2> QED
    BY <2>4, <2>5
<1> QED
  BY <1>3, <1>4

LEMMA TurnAddsUp ==
  ASSUME TypeOK, InOrder, Remains, AddedSoFar, NothingMatchedTwice, ExportAddsUp, StatusSoFar,
         AllocateLot
  PROVE  NothingMatchedTwice' /\ ExportAddsUp' /\ StatusSoFar'
<1>1. pc = "walk" /\ UNCHANGED <<request, matchedBefore, status>>
  BY DEF AllocateLot
<1>2. Export \in Demands /\ Lot \in Lots /\ Export' = Export
      /\ Served' = Served /\ Export \notin Served
  BY NextLot, AtLot DEF AllocateLot
<1>3. Met \in Nat /\ Met <= remaining[Lot] /\ Met <= required
  BY Meeting
<1>4. remaining \in [Lots -> Nat] /\ required \in Nat
  BY DEF TypeOK
<1>5. /\ required' = required - Met
      /\ \A l \in Lots : remaining'[l] = (IF l = Lot THEN remaining[l] - Met ELSE remaining[l])
                         /\ remaining[l] \in Nat
  BY <1>2, <1>4, TurnEffect
<1>6. NothingMatchedTwice'
  <2> SUFFICES ASSUME NEW l \in Lots
               PROVE  remaining'[l] + Total([e \in Demands |-> AddedQty'[<<e, l>>]], Demands)
                         = request.avail[l]
    BY <1>1 DEF NothingMatchedTwice
  <2> DEFINE t == Total([e \in Demands |-> AddedQty[<<e, l>>]], Demands)
             u == Total([e \in Demands |-> AddedQty'[<<e, l>>]], Demands)
  <2>1. u = t + (IF l = Lot THEN Met ELSE 0)
    BY TurnTotals
  <2>2. t \in Nat
    BY AddedType
  <2>3. remaining[l] + t = request.avail[l]
    BY DEF NothingMatchedTwice
  <2> HIDE DEF t, u
  <2>4. remaining'[l] + u = request.avail[l]
    BY <1>3, <1>5, <2>1, <2>2, <2>3
  <2> QED
    BY <2>4 DEF u
<1>7. \A e \in Demands : MatchedNow(e)' = MatchedNow(e) + (IF e = Export THEN Met ELSE 0)
                          /\ MatchedNow(e) \in Nat
  BY TurnTotals, AddedType
<1>8. ExportAddsUp'
  <2>1. PICK x \in Demands : x = Export
    BY <1>2
  <2>2. MatchedNow(x) + required = request.need[x]
    BY <1>1, <2>1 DEF ExportAddsUp
  <2>3. MatchedNow(x)' = MatchedNow(x) + Met /\ MatchedNow(x) \in Nat
    BY <1>7, <2>1
  <2>4. MatchedNow(x)' + required' = request.need[x]
    BY <1>3, <1>4, <1>5, <2>2, <2>3
  <2>5. MatchedNow(Export)' = MatchedNow(x)'
    BY <1>2, <2>1 DEF MatchedNow
  <2> QED
    BY <1>1, <1>2, <2>1, <2>4, <2>5 DEF ExportAddsUp
<1>9. StatusSoFar'
  <2> SUFFICES ASSUME NEW e \in Served
               PROVE  /\ status[e] = "matched" <=> MatchedNow(e)' + matchedBefore[e] = RequiredQty(e)
                      /\ status[e] = "insufficient_stock"
                            <=> MatchedNow(e)' + matchedBefore[e] = 0
    BY <1>1, <1>2 DEF StatusSoFar, RequiredQty
  <2>1. e \in Demands /\ e # Export
    BY <1>2 DEF Served
  <2>2. MatchedNow(e)' = MatchedNow(e)
    BY <1>7, <2>1
  <2> QED
    BY <2>2 DEF StatusSoFar
<1> QED
  BY <1>6, <1>8, <1>9
-----------------------------------------------------------------------------
(* The end of an export.                                                   *)

LEMMA NoUnits ==
  ASSUME NEW a \in Nat, NEW n \in Nat, NEW b \in Nat, NEW m \in Nat,
         n = 0 \/ m = 0 \/ b >= a + n
  PROVE  /\ Overlap(a, n, b, m) = 0
         /\ Left(b, m, a + n) = Left(b, m, a)
         /\ ~(n > 0 /\ m > 0 /\ a + n > b)
BY DEF Left, Nonneg, Overlap

(* An export that ends before a lot of its part number needs nothing of    *)
(* it: the lot is empty, or begins where the export's need has ended.      *)
LEMMA NotReached ==
  ASSUME TypeOK, InOrder, Remains, SetStatus \/ AlreadyMatched,
         NEW l \in Lots, l \notin Passed, request.holds[l] = request.wants[Export]
  PROVE  /\ Service!Allocation(request)[<<Export, l>>] = 0
         /\ Left(Starts(l), request.avail[l], Begins(Export) + request.need[Export])
               = Left(Starts(l), request.avail[l], Begins(Export))
         /\ Callers(l) = Service!Sooner(request)[Export]
         /\ <<Export, l>> \notin AllReached
<1>1. Export \in Demands /\ Export \notin Served /\ pc \in {"walk", "query"}
  BY NextRow DEF SetStatus, AlreadyMatched
<1>2. request \in Service!Requests
  BY DEF TypeOK
<1> DEFINE a == Begins(Export)
           n == request.need[Export]
           b == Starts(l)
           m == request.avail[l]
           g == Total(request.avail, Passed)
<1>3. a \in Nat /\ n \in Nat /\ b \in Nat /\ m \in Nat
  BY <1>1, <1>2, SoonerOlder, RequestFacts
<1>4. n = 0 \/ m = 0 \/ b >= a + n
  <2>1. CASE AlreadyMatched
    <3>1. matchedBefore[Export] \in Nat
      BY <1>1, MatchAssumption DEF TypeOK
    <3> QED
      BY <1>3, <2>1, <3>1 DEF AlreadyMatched, RequiredQty
  <2>2. CASE SetStatus /\ m # 0
    <3>1. pc = "walk" /\ required \in Nat /\ (candidates = <<>> \/ required <= 0)
      BY <2>2 DEF SetStatus, TypeOK
    <3>2. l \in Wanted
      BY <1>3, <2>2 DEF Wanted, HasBalance
    <3>3. PICK i \in DOMAIN candidates : l = candidates[i]
      BY <3>1, <3>2 DEF Passed, Ahead
    <3>4. required = 0
      BY <3>1, <3>3
    <3>5. Passed \subseteq Service!Older(request)[l] /\ Service!Older(request)[l] \subseteq Lots
      <4>1. Passed \subseteq LotsBefore[l] /\ Passed \subseteq Wanted
        BY <3>1, <3>3 DEF InOrder, Passed
      <4>2. Service!Older(request)[l] = {k \in LotsBefore[l] : request.holds[k] = request.holds[l]}
            /\ LotsBefore[l] \subseteq Lots
        BY <1>2, SoonerOlder DEF LotsBefore
      <4> QED
        BY <4>1, <4>2 DEF Wanted
    <3>6. g <= b /\ g \in Nat
      <4>1. Quantities(request.avail, Service!Older(request)[l])
            /\ Quantities(request.avail, Passed)
        BY <1>2, <3>5, RequestFacts
      <4>2. \A k \in Passed : request.avail[k] \in Nat /\ request.avail[k] <= request.avail[k]
        BY <1>2, <3>5, RequestFacts
      <4> QED
        BY <3>5, <4>1, <4>2, TotalMonotone, TotalType DEF Starts
    <3>7. Left(a, n, g) = 0
      BY <3>1, <3>4 DEF Remains
    <3> HIDE DEF a, n, b, m, g
    <3> QED
      BY <1>3, <3>6, <3>7, LeftType
  <2> QED
    BY <2>1, <2>2
<1>5. Callers(l) = Service!Sooner(request)[Export]
  <2>1. \A d \in Demands : Walked(d, l) <=> d < Export
    BY <1>1 DEF Walked, Served
  <2>2. Service!Sooner(request)[Export]
           = {d \in Demands : d < Export /\ request.wants[d] = request.wants[Export]}
    BY <1>1, <1>2, SoonerOlder
  <2> QED
    BY <2>1, <2>2 DEF Callers
<1>6. Service!Allocation(request)[<<Export, l>>] = Overlap(a, n, b, m)
  BY <1>1, <1>2, PairValue
<1>7. <<Export, l>> \in AllReached => n > 0 /\ m > 0 /\ a + n > b
  BY <1>1, <1>2, ReachedPair
<1> HIDE DEF a, n, b, m, g
<1>8. /\ Overlap(a, n, b, m) = 0 /\ Left(b, m, a + n) = Left(b, m, a)
      /\ ~(n > 0 /\ m > 0 /\ a + n > b)
  BY <1>3, <1>4 DEF Left, Nonneg, Overlap
<1> QED
  BY <1>5, <1>6, <1>7, <1>8 DEF a, n, b, m

LEMMA EndAdded ==
  ASSUME TypeOK, InOrder, Remains, AddedSoFar, RowsSoFar, SetStatus \/ AlreadyMatched
  PROVE  AddedSoFar' /\ RowsSoFar'
<1>1. /\ Export \in Demands
      /\ \A d, l : Walked(d, l)' <=> d \in Served \cup {Export}
  BY NextRow
<1>2. allocations' = allocations /\ request' = request /\ request \in Service!Requests
  BY DEF SetStatus, AlreadyMatched, TypeOK
<1>3. AddedQty' = AddedQty /\ AllReached' = AllReached /\ \A i : Row(i)' = Row(i)
  BY <1>2 DEF AddedQty, Row, AllReached, Service!Sooner, Service!Older, Service!OlderThan,
              Service!Fits
<1>4. ASSUME NEW l \in Lots, ~Walked(Export, l)
      PROVE  Service!Allocation(request)[<<Export, l>>] = 0 /\ <<Export, l>> \notin AllReached
  <2>1. l \notin Passed
    BY <1>4 DEF Walked
  <2> QED
    BY <1>1, <1>2, <2>1, NotReached, PairValue, ReachedPair
<1>5. AddedSoFar'
  <2> SUFFICES ASSUME NEW e \in Demands, NEW l \in Lots
               PROVE  AddedQty[<<e, l>>]
                        = IF Walked(e, l)' THEN Service!Allocation(request)[<<e, l>>] ELSE 0
    BY <1>2, <1>3 DEF AddedSoFar
  <2>1. AddedQty[<<e, l>>] = IF Walked(e, l) THEN Service!Allocation(request)[<<e, l>>] ELSE 0
    BY DEF AddedSoFar
  <2>2. Walked(e, l)' <=> Walked(e, l) \/ e = Export
    BY <1>1 DEF Walked
  <2> QED
    BY <1>4, <2>1, <2>2
<1>6. RowsSoFar'
  <2> SUFFICES ASSUME NEW e \in Demands, NEW l \in Lots
               PROVE  (\E i \in DOMAIN allocations : Row(i) = <<e, l>>)
                         <=> <<e, l>> \in AllReached /\ Walked(e, l)'
    BY <1>2, <1>3 DEF RowsSoFar
  <2>1. (\E i \in DOMAIN allocations : Row(i) = <<e, l>>)
           <=> <<e, l>> \in AllReached /\ Walked(e, l)
    BY DEF RowsSoFar
  <2>2. Walked(e, l)' <=> Walked(e, l) \/ e = Export
    BY <1>1 DEF Walked
  <2> QED
    BY <1>4, <2>1, <2>2
<1> QED
  BY <1>5, <1>6

LEMMA EndRemains ==
  ASSUME TypeOK, InOrder, Remains, SetStatus \/ AlreadyMatched
  PROVE  Remains'
<1>1. /\ Export \in Demands /\ Export \notin Served /\ pc' \in {"query", "commit"}
      /\ \A d, l : Walked(d, l)' <=> d \in Served \cup {Export}
  BY NextRow
<1>2. request' = request /\ remaining' = remaining /\ request \in Service!Requests
  BY DEF SetStatus, AlreadyMatched, TypeOK
<1>3. ASSUME NEW l \in Lots
      PROVE  remaining[l] = Left(Starts(l), request.avail[l], Total(request.need, Callers(l)'))
  <2>1. remaining[l] = Left(Starts(l), request.avail[l], Total(request.need, Callers(l)))
    BY DEF Remains
  <2>2. Callers(l)' = {d \in Demands : request.wants[d] = request.holds[l]
                                         /\ d \in Served \cup {Export}}
    BY <1>1, <1>2 DEF Callers
  <2>3. CASE l \in Passed \/ request.holds[l] # request.wants[Export]
    <3>1. Callers(l)' = Callers(l)
      BY <2>2, <2>3 DEF Callers, Walked
    <3> QED
      BY <2>1, <3>1
  <2>4. CASE l \notin Passed /\ request.holds[l] = request.wants[Export]
    <3>1. Callers(l)' = Callers(l) \cup {Export} /\ Export \notin Callers(l)
          /\ Callers(l) \subseteq Demands
      BY <1>1, <2>2, <2>4 DEF Callers, Walked
    <3>2. Quantities(request.need, Callers(l)) /\ request.need[Export] \in Nat
      BY <1>1, <1>2, <3>1, RequestFacts
    <3>3. Total(request.need, Callers(l) \cup {Export})
             = Total(request.need, Callers(l)) + request.need[Export]
      BY <3>1, <3>2, TotalAdd
    <3>4. /\ Callers(l) = Service!Sooner(request)[Export]
          /\ Left(Starts(l), request.avail[l], Begins(Export) + request.need[Export])
                = Left(Starts(l), request.avail[l], Begins(Export))
      BY <2>4, NotReached
    <3>5. Total(request.need, Callers(l)) = Begins(Export)
      BY <3>4 DEF Begins
    <3> QED
      BY <2>1, <3>1, <3>3, <3>4, <3>5
  <2> QED
    BY <2>3, <2>4
<1> QED
  BY <1>1, <1>2, <1>3 DEF Remains, Starts

(* The status an export is given tells what it has been matched.           *)
LEMMA EndStatus ==
  ASSUME TypeOK, SomethingRequired, InOrder, Remains, AddedSoFar, ExportAddsUp, StatusSoFar,
         SetStatus \/ AlreadyMatched
  PROVE  StatusSoFar'
<1>1. /\ Export \in Demands /\ Export \notin Served /\ Served' = Served \cup {Export}
  BY NextRow
<1>2. /\ UNCHANGED <<request, matchedBefore, allocations, required>>
      /\ request.need[Export] \in Nat /\ matchedBefore[Export] \in Nat /\ required \in Nat
      /\ RequiredQty(Export) = request.need[Export] + matchedBefore[Export]
      /\ RequiredQty(Export) > 0
  BY <1>1, RequestFacts, MatchAssumption
     DEF SetStatus, AlreadyMatched, TypeOK, RequiredQty, SomethingRequired
<1>3. AddedQty' = AddedQty
  BY <1>2 DEF AddedQty
<1>4. MatchedNow(Export) \in Nat
  BY <1>1, AddedType
<1> DEFINE sum == MatchedNow(Export) + matchedBefore[Export]
<1>5. /\ status'[Export] = "matched" <=> sum = RequiredQty(Export)
      /\ status'[Export] = "insufficient_stock" <=> sum = 0
  <2>1. CASE AlreadyMatched
    <3>1. request.need[Export] = 0 /\ pc = "query"
      BY <1>2, <2>1 DEF AlreadyMatched
    <3>2. \A l \in Lots : AddedQty[<<Export, l>>] = 0
      BY <1>1, <3>1 DEF AddedSoFar, Walked, Passed
    <3>3. MatchedNow(Export) = 0
      BY <3>2, TotalZero DEF MatchedNow
    <3>4. status'[Export] = "matched"
      BY <1>1, <2>1 DEF AlreadyMatched, TypeOK
    <3> QED
      BY <1>2, <3>1, <3>3, <3>4
  <2>2. CASE SetStatus
    <3>1. MatchedNow(Export) + required = request.need[Export]
      BY <2>2 DEF SetStatus, ExportAddsUp
    <3>2. status'[Export] = IF required = 0 THEN "matched"
                            ELSE IF TotalMatched(Export) > 0 THEN "partial_matched"
                            ELSE "insufficient_stock"
      BY <1>1, <2>2 DEF SetStatus, TypeOK
    <3>3. TotalMatched(Export) = sum
      BY <1>2, <1>4, <3>1 DEF TotalMatched
    <3>4. sum \in Nat /\ (sum = RequiredQty(Export) <=> required = 0)
      BY <1>2, <1>4, <3>1
    <3> HIDE DEF sum
    <3>5. /\ required = 0 => status'[Export] = "matched" /\ sum # 0
          /\ required # 0 /\ sum > 0 => status'[Export] = "partial_matched"
          /\ required # 0 /\ sum = 0 => status'[Export] = "insufficient_stock"
      BY <1>2, <3>2, <3>3, <3>4
    <3> QED
      BY <3>4, <3>5
  <2> QED
    BY <2>1, <2>2
<1>6. ASSUME NEW e \in Served
      PROVE  /\ status'[e] = "matched" <=> MatchedNow(e) + matchedBefore[e] = RequiredQty(e)
             /\ status'[e] = "insufficient_stock" <=> MatchedNow(e) + matchedBefore[e] = 0
  <2>1. e \in Demands /\ e # Export
    BY <1>1 DEF Served
  <2>2. status'[e] = status[e]
    BY <2>1 DEF SetStatus, AlreadyMatched, TypeOK
  <2> QED
    BY <2>2 DEF StatusSoFar
<1> QED
  BY <1>1, <1>2, <1>3, <1>5, <1>6 DEF StatusSoFar, MatchedNow, RequiredQty

LEMMA EndType ==
  ASSUME TypeOK, SetStatus \/ AlreadyMatched
  PROVE  TypeOK'
<1>1. /\ UNCHANGED <<request, matchedBefore, remaining, candidates, required, allocations>>
      /\ pc' \in {"query", "commit"} /\ row' \in DOMAIN OrderedExports /\ Export \in Demands
  BY NextRow DEF SetStatus, AlreadyMatched
<1>2. status' \in [Demands -> {"pending", "partial_matched", "matched", "insufficient_stock"}]
  BY <1>1 DEF TypeOK, SetStatus, AlreadyMatched
<1> QED
  BY <1>1, <1>2 DEF TypeOK
-----------------------------------------------------------------------------
(* The inductive invariant.                                                *)

LEMMA InitType == Init => TypeOK
<1> SUFFICES ASSUME Init PROVE TypeOK
  OBVIOUS
<1>1. request \in Service!Requests /\ matchedBefore \in [Demands -> Matched]
  BY DEF Init
<1>2. remaining \in [Lots -> Nat]
  <2>1. request.avail \in [Lots -> Balances] /\ Balances \subseteq Nat
    BY <1>1, MatchAssumption DEF Service!Requests
  <2> QED
    BY <2>1 DEF Init
<1>3. row \in DOMAIN OrderedExports
  BY RowFacts DEF Init
<1> QED
  BY <1>1, <1>2, <1>3 DEF Init, TypeOK

LEMMA InitIInv == Init => IInv
<1> SUFFICES ASSUME Init PROVE IInv
  OBVIOUS
<1>1. TypeOK
  BY InitType
<1>2. request \in Service!Requests /\ pc = "query" /\ allocations = <<>>
  BY DEF Init
<1>3. Served = {} /\ Passed = {}
  <2>1. {d \in Demands : d < OrderedExports[1]} = {}
    BY RowFacts
  <2> QED
    BY <1>2, <2>1 DEF Init, Served, Passed, Export
<1>4. \A e, l : ~Walked(e, l)
  BY <1>3 DEF Walked
<1>5. \A l \in Lots : Total(request.need, Callers(l)) = 0
  BY <1>4, TotalZero DEF Callers
<1>6. Remains
  <2> SUFFICES ASSUME NEW l \in Lots
               PROVE  remaining[l] = Left(Starts(l), request.avail[l],
                                          Total(request.need, Callers(l)))
    BY <1>2 DEF Remains
  <2>1. Starts(l) \in Nat /\ request.avail[l] \in Nat
    BY <1>2, SoonerOlder, RequestFacts
  <2> DEFINE b == Starts(l)
             m == request.avail[l]
  <2> HIDE DEF b, m
  <2>2. b \in Nat /\ m \in Nat
    BY <2>1 DEF b, m
  <2>3. Left(b, m, 0) = m
    BY <2>2 DEF Left, Nonneg
  <2> QED
    BY <1>5, <2>3 DEF Init, b, m
<1>7. \A e \in Demands, l \in Lots : AddedQty[<<e, l>>] = 0
  <2> SUFFICES ASSUME NEW e \in Demands, NEW l \in Lots PROVE QtyOf(allocations, e, l) = 0
    BY AddedIsQtyOf
  <2>1. RowsOf(allocations, e, l) = {}
    BY <1>2 DEF RowsOf
  <2> QED
    BY <2>1, TotalZero DEF QtyOf
<1>8. AddedSoFar
  BY <1>4, <1>7 DEF AddedSoFar
<1>9. RowsSoFar
  BY <1>2, <1>4 DEF RowsSoFar
<1>10. NothingMatchedTwice
  <2> SUFFICES ASSUME NEW l \in Lots
               PROVE  remaining[l] + Total([e \in Demands |-> AddedQty[<<e, l>>]], Demands)
                         = request.avail[l]
    BY DEF NothingMatchedTwice
  <2>1. Total([e \in Demands |-> AddedQty[<<e, l>>]], Demands) = 0
    BY <1>7, TotalZero
  <2>2. remaining[l] = request.avail[l] /\ request.avail[l] \in Nat
    BY <1>2, RequestFacts DEF Init
  <2> QED
    BY <2>1, <2>2
<1>11. SomethingRequired
  BY DEF Init, SomethingRequired
<1> QED
  BY <1>1, <1>2, <1>3, <1>6, <1>8, <1>9, <1>10, <1>11
     DEF IInv, AllServed, InOrder, ExportAddsUp, StatusSoFar

LEMMA TurnType ==
  ASSUME IInv, AllocateLot
  PROVE  TypeOK'
<1>1. TypeOK /\ InOrder /\ Remains /\ AddedSoFar
  BY DEF IInv
<1>2. /\ required' = required - Met
      /\ remaining' = [remaining EXCEPT ![Lot] = remaining[Lot] - Met]
      /\ allocations' \in Seq(AllocationRow)
  BY <1>1, TurnEffect
<1>3. Lot \in Lots /\ Met \in Nat /\ Met <= required /\ Met <= remaining[Lot]
  BY <1>1, AtLot, Meeting DEF AllocateLot
<1>4. remaining' \in [Lots -> Nat] /\ required' \in Nat
  <2>1. remaining \in [Lots -> Nat] /\ required \in Nat
    BY <1>1 DEF TypeOK
  <2>2. remaining[Lot] - Met \in Nat /\ required - Met \in Nat
    BY <1>3, <2>1
  <2> QED
    BY <1>2, <2>1, <2>2
<1>5. candidates' \in Seq(Lots)
  BY <1>1, TailFacts DEF AllocateLot, TypeOK
<1> QED
  BY <1>1, <1>2, <1>4, <1>5 DEF TypeOK, AllocateLot

(* A step that leaves the walk where it is.                                *)
LEMMA SameWalk ==
  ASSUME AddedSoFar, RowsSoFar, NothingMatchedTwice, StatusSoFar,
         UNCHANGED <<request, matchedBefore, remaining, allocations, status>>,
         Served' = Served, \A d, l : Walked(d, l)' <=> Walked(d, l)
  PROVE  AddedSoFar' /\ RowsSoFar' /\ NothingMatchedTwice' /\ StatusSoFar'
<1>1. AddedQty' = AddedQty /\ AllReached' = AllReached /\ \A i : Row(i)' = Row(i)
  BY DEF AddedQty, Row, AllReached, Service!Sooner, Service!Older, Service!OlderThan, Service!Fits
<1>2. AddedSoFar'
  BY <1>1 DEF AddedSoFar
<1>3. RowsSoFar'
  BY <1>1 DEF RowsSoFar
<1>4. NothingMatchedTwice' /\ StatusSoFar'
  BY <1>1 DEF NothingMatchedTwice, StatusSoFar, MatchedNow, RequiredQty
<1> QED
  BY <1>2, <1>3, <1>4

LEMMA QueryIInv ==
  ASSUME IInv, QueryLots
  PROVE  IInv'
<1>1. /\ pc = "query" /\ pc' = "walk"
      /\ required' = RequiredQty(Export) - matchedBefore[Export] /\ required' > 0
      /\ UNCHANGED <<request, matchedBefore, remaining, row, allocations, status>>
  BY DEF QueryLots
<1>2. TypeOK /\ Remains /\ AddedSoFar /\ request \in Service!Requests
  BY DEF IInv, TypeOK
<1>3. /\ Export \in Demands /\ Export' = Export /\ Served' = Served /\ Export \notin Served
      /\ Passed' = {} /\ Passed = {} /\ InOrder' /\ candidates' \in Seq(Lots)
      /\ \A d, l : Walked(d, l)' <=> Walked(d, l)
  BY <1>2, AfterQuery
<1>4. required' = request.need[Export] /\ request.need[Export] \in Nat
  <2>1. request.need[Export] \in Nat /\ matchedBefore[Export] \in Nat
    BY <1>2, <1>3, RequestFacts, MatchAssumption DEF TypeOK
  <2> QED
    BY <1>1, <2>1 DEF RequiredQty
<1>5. TypeOK'
  BY <1>1, <1>2, <1>3, <1>4 DEF TypeOK
<1>6. Remains'
  <2>1. \A l \in Lots : Callers(l)' = Callers(l) /\ Starts(l)' = Starts(l)
    BY <1>1, <1>3 DEF Callers, Starts, Service!Older, Service!OlderThan
  <2>2. Begins(Export)' = Begins(Export)
    BY <1>1, <1>3 DEF Begins, Service!Sooner
  <2>3. Total(request.avail, {}) = 0
    BY TotalZero
  <2> DEFINE a == Begins(Export)
             n == request.need[Export]
  <2>4. a \in Nat /\ n \in Nat
    BY <1>2, <1>3, <1>4, SoonerOlder
  <2> HIDE DEF a, n
  <2>5. Left(a, n, 0) = n
    BY <2>4 DEF Left, Nonneg
  <2>6. required' = Left(Begins(Export)', request'.need[Export'], Total(request'.avail, Passed'))
    BY <1>1, <1>3, <1>4, <2>2, <2>3, <2>5 DEF a, n
  <2> QED
    BY <1>1, <1>2, <2>1, <2>6 DEF Remains
<1>7. AddedSoFar' /\ RowsSoFar' /\ NothingMatchedTwice' /\ StatusSoFar'
  BY <1>1, <1>3, SameWalk DEF IInv
<1>8. ExportAddsUp'
  <2>1. \A l \in Lots : AddedQty[<<Export, l>>] = 0
    BY <1>2, <1>3 DEF AddedSoFar, Walked
  <2>2. Total([l \in Lots |-> AddedQty[<<Export, l>>]], Lots) = 0
    BY <2>1, TotalZero
  <2>3. AddedQty' = AddedQty
    BY <1>1 DEF AddedQty
  <2> QED
    BY <1>1, <1>3, <1>4, <2>2, <2>3 DEF ExportAddsUp, MatchedNow
<1>9. SomethingRequired' /\ AllServed'
  BY <1>1 DEF IInv, SomethingRequired, RequiredQty, AllServed
<1> QED
  BY <1>3, <1>5, <1>6, <1>7, <1>8, <1>9 DEF IInv

LEMMA EndIInv ==
  ASSUME IInv, SetStatus \/ AlreadyMatched
  PROVE  IInv'
<1>1. TypeOK' /\ Remains' /\ AddedSoFar' /\ RowsSoFar' /\ StatusSoFar'
  BY EndType, EndRemains, EndAdded, EndStatus DEF IInv
<1>2. pc' \in {"query", "commit"} /\ (pc' = "commit" => Served' = Demands)
  BY NextRow DEF IInv
<1>3. UNCHANGED <<request, matchedBefore, remaining, allocations>>
  BY DEF SetStatus, AlreadyMatched
<1>4. NothingMatchedTwice' /\ SomethingRequired'
  BY <1>3 DEF IInv, NothingMatchedTwice, AddedQty, SomethingRequired, RequiredQty
<1>5. AllServed' /\ InOrder' /\ ExportAddsUp'
  BY <1>2 DEF AllServed, InOrder, ExportAddsUp
<1> QED
  BY <1>1, <1>4, <1>5 DEF IInv

(* The commit and the steps of others.                                     *)
LEMMA RestIInv ==
  ASSUME IInv, Commit \/ UNCHANGED vars
  PROVE  IInv'
<1>1. /\ UNCHANGED <<request, matchedBefore, remaining, row, candidates, required, allocations,
                     status>>
      /\ pc' = pc \/ (pc = "commit" /\ pc' = "done")
  BY DEF Commit, vars
<1>2. Export' = Export /\ Served' = Served /\ Passed' = Passed /\ Wanted' = Wanted
      /\ LotsBefore' = LotsBefore
  BY <1>1 DEF Export, Served, Passed, Wanted, Ahead, HasBalance, LotsBefore, Service!OlderThan
<1>3. \A d, l : Walked(d, l)' <=> Walked(d, l)
  BY <1>2 DEF Walked
<1>4. TypeOK'
  BY <1>1 DEF IInv, TypeOK
<1>5. AddedSoFar' /\ RowsSoFar' /\ NothingMatchedTwice' /\ StatusSoFar'
  BY <1>1, <1>2, <1>3, SameWalk DEF IInv
<1>6. pc' = "walk" => pc = "walk"
  BY <1>1
<1>7. Remains'
  <2>1. \A l \in Lots : Callers(l)' = Callers(l) /\ Starts(l)' = Starts(l)
    BY <1>1, <1>3 DEF Callers, Starts, Service!Older, Service!OlderThan
  <2>2. Begins(Export)' = Begins(Export)
    BY <1>1, <1>2 DEF Begins, Service!Sooner
  <2> QED
    BY <1>1, <1>2, <1>6, <2>1, <2>2 DEF IInv, Remains
<1>8. InOrder'
  BY <1>1, <1>2, <1>6 DEF IInv, InOrder
<1>9. ExportAddsUp'
  BY <1>1, <1>2, <1>6 DEF IInv, ExportAddsUp, MatchedNow, AddedQty
<1>10. SomethingRequired' /\ AllServed'
  BY <1>1, <1>2 DEF IInv, SomethingRequired, RequiredQty, AllServed
<1> QED
  BY <1>4, <1>5, <1>7, <1>8, <1>9, <1>10 DEF IInv

LEMMA NextIInv == IInv /\ [Next]_vars => IInv'
<1> SUFFICES ASSUME IInv, [Next]_vars PROVE IInv'
  OBVIOUS
<1>1. CASE AlreadyMatched
  BY <1>1, EndIInv
<1>2. CASE QueryLots
  BY <1>2, QueryIInv
<1>3. CASE AllocateLot
  <2>1. TypeOK' /\ InOrder' /\ Remains' /\ AddedSoFar' /\ RowsSoFar'
        /\ NothingMatchedTwice' /\ ExportAddsUp' /\ StatusSoFar'
    BY <1>3, TurnType, TurnInOrder, TurnRemains, TurnAdded, TurnAddsUp DEF IInv
  <2>2. SomethingRequired' /\ AllServed'
    BY <1>3 DEF IInv, SomethingRequired, RequiredQty, AllServed, AllocateLot
  <2> QED
    BY <2>1, <2>2 DEF IInv
<1>4. CASE SetStatus
  BY <1>4, EndIInv
<1>5. CASE Commit \/ UNCHANGED vars
  BY <1>5, RestIInv
<1> QED
  BY <1>1, <1>2, <1>3, <1>4, <1>5 DEF Next

LEMMA Inductive == Spec => []IInv
BY InitIInv, NextIInv, PTL DEF Spec
-----------------------------------------------------------------------------
(* The run keeps its variables in their types: neither a lot's balance nor *)
(* an allocation of run_matching ever becomes negative.                    *)
THEOREM MatchTypes == Spec => []TypeOK
<1>1. IInv => TypeOK
  BY DEF IInv
<1> QED
  BY <1>1, Inductive, PTL

(* allocate_export asks the database for balances of before the run, and   *)
(* still no unit of a lot is matched twice: the session's objects carry    *)
(* the difference, in the middle of the loop too.                          *)
THEOREM NoUnitMatchedTwice == Spec => []NothingMatchedTwice
<1>1. IInv => NothingMatchedTwice
  BY DEF IInv
<1> QED
  BY <1>1, Inductive, PTL

(* At the commit an export is "matched" exactly when its allocations, of   *)
(* this run and earlier ones, cover what it requires, and reported as out  *)
(* of stock exactly when it has none.                                      *)
THEOREM StatusIsTheTotal == Spec => []StatusTellsTotal
<1>1. IInv => StatusTellsTotal
  BY DEF IInv, AllServed, StatusSoFar, StatusTellsTotal
<1> QED
  BY <1>1, Inductive, PTL

(* The rows a run leaves behind are one for each reached pair of the       *)
(* closed form, the pairs that take nothing included.                      *)
THEOREM RowsAreReached == Spec => []RowsAreTheReached
<1>1. IInv => RowsAreTheReached
  <2> SUFFICES ASSUME IInv, pc = "done"
               PROVE  {Row(i) : i \in DOMAIN allocations} = AllReached
    BY DEF RowsAreTheReached, Row, AllReached
  <2>1. Served = Demands
    BY DEF IInv, AllServed
  <2>2. ASSUME NEW e \in Demands, NEW l \in Lots
        PROVE  (\E i \in DOMAIN allocations : Row(i) = <<e, l>>) <=> <<e, l>> \in AllReached
    BY <2>1 DEF IInv, RowsSoFar, Walked
  <2>3. \A p \in AllReached : \E e \in Demands, l \in Lots : p = <<e, l>>
    BY DEF AllReached, Reached, Service!Fits
  <2>4. ASSUME NEW i \in DOMAIN allocations
        PROVE  \E e \in Demands, l \in Lots : Row(i) = <<e, l>>
    <3>1. allocations[i] \in AllocationRow
      BY DEF IInv, TypeOK
    <3> QED
      BY <3>1 DEF Row, AllocationRow
  <2> QED
    BY <2>2, <2>3, <2>4
<1> QED
  BY <1>1, Inductive, PTL
-----------------------------------------------------------------------------
(* The run implements the service.                                         *)

LEMMA AnswerIsFifo ==
  ASSUME IInv, pc = "commit"
  PROVE  AddedQty = Service!Allocation(request)
<1>1. request \in Service!Requests
  BY DEF IInv, TypeOK
<1>2. \A e \in Demands, l \in Lots : AddedQty[<<e, l>>] = Service!Allocation(request)[<<e, l>>]
  BY DEF IInv, AllServed, AddedSoFar, Walked
<1>3. DOMAIN request.need = Demands /\ DOMAIN request.avail = Lots
  BY <1>1, RequestFacts
<1> DEFINE A == Service!Allocation(request)
           B == AddedQty
<1>4. A = [p \in Demands \X Lots |-> A[p]]
  BY <1>3 DEF Service!Allocation, Service!FifoTake
<1>5. B = [p \in Demands \X Lots |-> B[p]]
  BY DEF AddedQty
<1> HIDE DEF A, B
<1>6. \A p \in Demands \X Lots : B[p] = A[p]
  BY <1>2 DEF A, B
<1>7. B = A
  BY <1>4, <1>5, <1>6
<1> QED
  BY <1>7 DEF A, B

(* Whatever the exports and lots, a run of the matcher commits the closed- *)
(* form FIFO allocation of what it found outstanding, all at once: its     *)
(* loops, stale queries and session objects are one step of FifoService.   *)
THEOREM MatchIsFifo == Spec => Service!SafeSpec
<1> DEFINE answer == IF pc = "done" THEN AddedQty ELSE Unanswered
<1>1. Init => Service!Init
  BY DEF Init, Service!Init
<1>2. IInv /\ [Next]_vars => [Service!Answer]_<<request, answer>>
  <2> SUFFICES ASSUME IInv, [Next]_vars
               PROVE  Service!Answer \/ UNCHANGED <<request, answer>>
    OBVIOUS
  <2>1. CASE AlreadyMatched \/ QueryLots \/ AllocateLot \/ SetStatus
    <3>1. pc # "done" /\ pc' # "done" /\ request' = request
      BY <2>1 DEF AlreadyMatched, QueryLots, AllocateLot, SetStatus, NextExport
    <3> QED
      BY <3>1
  <2>2. CASE Commit
    <3>1. pc = "commit" /\ pc' = "done" /\ request' = request /\ AddedQty' = AddedQty
      BY <2>2 DEF Commit, AddedQty
    <3>2. AddedQty = Service!Allocation(request)
      BY <3>1, AnswerIsFifo
    <3> QED
      BY <3>1, <3>2 DEF Service!Answer
  <2>3. CASE UNCHANGED vars
    BY <2>3 DEF vars, AddedQty
  <2> QED
    BY <2>1, <2>2, <2>3 DEF Next
<1> QED
  BY <1>1, <1>2, Inductive, PTL DEF Spec, Service!SafeSpec
=============================================================================
