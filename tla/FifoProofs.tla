----------------------------- MODULE FifoProofs -----------------------------
(***************************************************************************)
(* Facts about the operators of Fifo, for any demands and any lots.        *)
(*                                                                         *)
(* The totals are cardinalities, so that sums are compared by inclusion    *)
(* and by injections instead of by induction.  The main facts are that a   *)
(* FIFO allocation takes from no lot more than it holds (TakesFromLot) and *)
(* gives to no demand more than it needs (TakesForDemand): the units taken *)
(* are mapped to their positions in the stock, where those of different    *)
(* demands do not meet.  They leave no gap in it either, so that older     *)
(* lots are emptied first (OlderAreEmptied) and only what is gone is       *)
(* missing (ShortOfWhatIsGone).                                            *)
(***************************************************************************)
EXTENDS Fifo, Sequences, FiniteSetTheorems, TLAPS

(* Quantities over a finite set.                                           *)
Quantities(q, S) == IsFiniteSet(S) /\ \A x \in S : q[x] \in Nat

LEMMA DisjointUnion ==
  ASSUME NEW A, NEW B, IsFiniteSet(A), IsFiniteSet(B), A \cap B = {}
  PROVE  /\ IsFiniteSet(A \cup B)
         /\ Cardinality(A \cup B) = Cardinality(A) + Cardinality(B)
<1>1. Cardinality(A) \in Nat /\ Cardinality(B) \in Nat
  BY FS_CardinalityType
<1>2. Cardinality(A \cap B) = 0
  BY FS_EmptySet
<1>3. /\ IsFiniteSet(A \cup B)
      /\ Cardinality(A \cup B) = Cardinality(A) + Cardinality(B) - Cardinality(A \cap B)
  BY FS_Union
<1> QED
  BY <1>1, <1>2, <1>3

LEMMA UnitsIn ==
  ASSUME NEW q, NEW S, NEW u
  PROVE  u \in Units(q, S) <=> \E x \in S : \E i \in 1 .. q[x] : u = <<x, i>>
<1>1. ASSUME NEW x \in S, u \in {x} \X (1 .. q[x])
      PROVE  \E i \in 1 .. q[x] : u = <<x, i>>
  BY <1>1
<1>2. ASSUME NEW x \in S, NEW i \in 1 .. q[x], u = <<x, i>>
      PROVE  u \in {x} \X (1 .. q[x])
  BY <1>2
<1> QED
  BY <1>1, <1>2 DEF Units

LEMMA SliceSize ==
  ASSUME NEW x, NEW n \in Nat
  PROVE  IsFiniteSet({x} \X (1 .. n)) /\ Cardinality({x} \X (1 .. n)) = n
<1>1. IsFiniteSet({x}) /\ Cardinality({x}) = 1
  BY FS_Singleton
<1>2. IsFiniteSet(1 .. n) /\ Cardinality(1 .. n) = n
  BY FS_Interval
<1>3. IsFiniteSet({x} \X (1 .. n))
      /\ Cardinality({x} \X (1 .. n)) = Cardinality({x}) * Cardinality(1 .. n)
  BY <1>1, <1>2, FS_Product
<1> QED
  BY <1>1, <1>2, <1>3

LEMMA TotalType ==
  ASSUME NEW q, NEW S, Quantities(q, S)
  PROVE  IsFiniteSet(Units(q, S)) /\ Total(q, S) \in Nat
<1> DEFINE T == {{x} \X (1 .. q[x]) : x \in S}
           f == [x \in S |-> {x} \X (1 .. q[x])]
<1>1. f \in Surjection(S, T)
  BY DEF Surjection
<1>2. IsFiniteSet(T)
  BY <1>1, FS_Surjection DEF Quantities
<1>3. \A t \in T : IsFiniteSet(t)
  <2> SUFFICES ASSUME NEW x \in S PROVE IsFiniteSet({x} \X (1 .. q[x]))
    OBVIOUS
  <2>1. q[x] \in Nat
    BY DEF Quantities
  <2> QED
    BY <2>1, SliceSize
<1>4. IsFiniteSet(UNION T)
  BY <1>2, <1>3, FS_UNION
<1> QED
  BY <1>4, FS_CardinalityType DEF Units, Total

LEMMA TotalMonotone ==
  ASSUME NEW q, NEW S, NEW r, NEW T, Quantities(r, T), S \subseteq T,
         \A x \in S : q[x] \in Nat /\ q[x] <= r[x]
  PROVE  Total(q, S) <= Total(r, T)
<1>1. Units(q, S) \subseteq Units(r, T)
  <2> SUFFICES ASSUME NEW u \in Units(q, S) PROVE u \in Units(r, T)
    OBVIOUS
  <2>1. PICK x \in S : \E i \in 1 .. q[x] : u = <<x, i>>
    BY UnitsIn
  <2>2. x \in T /\ \E i \in 1 .. r[x] : u = <<x, i>>
    BY <2>1 DEF Quantities
  <2> QED
    BY <2>2, UnitsIn
<1> QED
  BY <1>1, TotalType, FS_Subset DEF Total

LEMMA TotalAdd ==
  ASSUME NEW q, NEW S, NEW x, x \notin S, Quantities(q, S), q[x] \in Nat
  PROVE  Total(q, S \cup {x}) = Total(q, S) + q[x]
<1> DEFINE X == {x} \X (1 .. q[x])
<1>1. Units(q, S \cup {x}) = Units(q, S) \cup X
  BY DEF Units
<1>2. Units(q, S) \cap X = {}
  <2> SUFFICES ASSUME NEW u \in Units(q, S), u \in X PROVE FALSE
    OBVIOUS
  <2>1. PICK y \in S : \E i \in 1 .. q[y] : u = <<y, i>>
    BY UnitsIn
  <2> QED
    BY <2>1
<1>3. IsFiniteSet(Units(q, S)) /\ Total(q, S) \in Nat
  BY TotalType
<1>4. IsFiniteSet(X) /\ Cardinality(X) = q[x]
  BY SliceSize
<1>5. Cardinality(Units(q, S) \cup X) = Cardinality(Units(q, S)) + Cardinality(X)
  BY <1>2, <1>3, <1>4, DisjointUnion
<1>6. Total(q, S \cup {x}) = Cardinality(Units(q, S) \cup X)
  BY <1>1 DEF Total
<1> QED
  BY <1>4, <1>5, <1>6 DEF Total

LEMMA TotalZero ==
  ASSUME NEW q, NEW S, \A x \in S : q[x] = 0
  PROVE  Total(q, S) = 0
<1>1. Units(q, S) = {}
  <2> SUFFICES ASSUME NEW u \in Units(q, S) PROVE FALSE
    OBVIOUS
  <2>1. PICK x \in S : \E i \in 1 .. q[x] : u = <<x, i>>
    BY UnitsIn
  <2> QED
    BY <2>1
<1> QED
  BY <1>1, FS_EmptySet DEF Total

LEMMA TotalSame ==
  ASSUME NEW q, NEW r, NEW S, \A x \in S : q[x] = r[x]
  PROVE  Total(q, S) = Total(r, S)
  BY DEF Total, Units

LEMMA TotalUnion ==
  ASSUME NEW q, NEW A, NEW B, A \cap B = {}, Quantities(q, A), Quantities(q, B)
  PROVE  Total(q, A \cup B) = Total(q, A) + Total(q, B)
<1>1. Units(q, A \cup B) = Units(q, A) \cup Units(q, B)
  BY DEF Units
<1>2. Units(q, A) \cap Units(q, B) = {}
  BY UnitsIn
<1>3. IsFiniteSet(Units(q, A)) /\ IsFiniteSet(Units(q, B))
  BY TotalType
<1> QED
  BY <1>1, <1>2, <1>3, DisjointUnion DEF Total

LEMMA TotalSupport ==
  ASSUME NEW q, NEW S, NEW r, NEW T, T \subseteq S,
         \A x \in T : q[x] = r[x], \A x \in S \ T : q[x] = 0
  PROVE  Total(q, S) = Total(r, T)
<1>1. ASSUME NEW u
      PROVE  u \in Units(q, S) <=> u \in Units(r, T)
  <2>1. \A x \in S : \A i \in 1 .. q[x] : x \in T
    OBVIOUS
  <2> QED
    BY <2>1, UnitsIn
<1> QED
  BY <1>1 DEF Total

(* The units added to x are numbered after those it has.                   *)
LEMMA TotalSum ==
  ASSUME NEW q, NEW g, NEW S, Quantities(q, S), Quantities(g, S)
  PROVE  Total([x \in S |-> q[x] + g[x]], S) = Total(q, S) + Total(g, S)
<1> DEFINE h == [x \in S |-> q[x] + g[x]]
           B == Units(h, S) \ Units(q, S)
           f == [u \in B |-> <<u[1], u[2] - q[u[1]]>>]
<1>1. \A x \in S : q[x] \in Nat /\ g[x] \in Nat /\ h[x] = q[x] + g[x]
  BY DEF Quantities
<1>2. Quantities(h, S)
  BY <1>1 DEF Quantities
<1> HIDE DEF h
<1>3. ASSUME NEW u \in B
      PROVE  u[1] \in S /\ u[2] \in Int /\ u = <<u[1], u[2]>> /\ u[2] - q[u[1]] \in 1 .. g[u[1]]
  <2>1. PICK x \in S : \E i \in 1 .. h[x] : u = <<x, i>>
    BY UnitsIn
  <2>2. PICK i \in 1 .. h[x] : u = <<x, i>>
    BY <2>1
  <2>3. i \notin 1 .. q[x]
    BY <2>2, UnitsIn
  <2>4. i - q[x] \in 1 .. g[x]
    BY <1>1, <2>2, <2>3
  <2> QED
    BY <2>2, <2>4
<1>4. f \in [B -> Units(g, S)]
  <2> SUFFICES ASSUME NEW u \in B PROVE <<u[1], u[2] - q[u[1]]>> \in Units(g, S)
    OBVIOUS
  <2> QED
    BY <1>3, UnitsIn
<1>5. ASSUME NEW u \in B, NEW v \in B, f[u] = f[v]
      PROVE  u = v
  <2>1. u[1] = v[1] /\ u[2] - q[u[1]] = v[2] - q[v[1]]
    BY <1>5
  <2>2. u[2] = v[2]
    BY <1>1, <1>3, <2>1
  <2> QED
    BY <1>3, <2>1, <2>2
<1>6. f \in Injection(B, Units(g, S))
  BY <1>4, <1>5 DEF Injection, IsInjective
<1>7. /\ IsFiniteSet(Units(g, S)) /\ IsFiniteSet(Units(q, S)) /\ IsFiniteSet(Units(h, S))
      /\ Total(g, S) \in Nat /\ Total(q, S) \in Nat
  BY <1>2, TotalType
<1>8. IsFiniteSet(B)
  BY <1>7, FS_Subset
<1>9. f \in Surjection(B, Units(g, S))
  <2>1. ASSUME NEW v \in Units(g, S)
        PROVE  \E u \in B : f[u] = v
    <3>1. PICK x \in S : \E i \in 1 .. g[x] : v = <<x, i>>
      BY UnitsIn
    <3>2. PICK i \in 1 .. g[x] : v = <<x, i>>
      BY <3>1
    <3> DEFINE u == <<x, q[x] + i>>
    <3>3. q[x] + i \in 1 .. h[x] /\ q[x] + i \notin 1 .. q[x] /\ (q[x] + i) - q[x] = i
      BY <1>1, <3>2
    <3>4. u \in Units(h, S)
      BY <3>3, UnitsIn
    <3>5. u \notin Units(q, S)
      <4>1. ASSUME NEW y \in S, NEW j \in 1 .. q[y], u = <<y, j>>
            PROVE  FALSE
        BY <3>3, <4>1
      <4> QED
        BY <4>1, UnitsIn
    <3>6. f[u] = v
      BY <3>2, <3>3, <3>4, <3>5
    <3> QED
      BY <3>4, <3>5, <3>6
  <2> QED
    BY <1>4, <2>1 DEF Surjection
<1> HIDE DEF f, B
<1>10. Cardinality(B) = Total(g, S)
  BY <1>6, <1>7, <1>9, FS_Injection DEF Total
<1>11. Units(q, S) \cup B = Units(h, S) /\ Units(q, S) \cap B = {}
  <2>1. Units(q, S) \subseteq Units(h, S)
    <3> SUFFICES ASSUME NEW u \in Units(q, S) PROVE u \in Units(h, S)
      OBVIOUS
    <3>1. PICK x \in S : \E i \in 1 .. q[x] : u = <<x, i>>
      BY UnitsIn
    <3>2. \E i \in 1 .. h[x] : u = <<x, i>>
      BY <1>1, <3>1
    <3> QED
      BY <3>2, UnitsIn
  <2> QED
    BY <2>1 DEF B
<1>12. Total(h, S) = Total(q, S) + Cardinality(B)
  BY <1>7, <1>8, <1>11, DisjointUnion DEF Total
<1> QED
  BY <1>7, <1>10, <1>12 DEF h
(* One quantity rises from zero.                                           *)
LEMMA TotalRaise ==
  ASSUME NEW q, NEW r, NEW S, NEW x \in S, Quantities(q, S), q[x] = 0, r[x] \in Nat,
         \A y \in S : y # x => r[y] = q[y]
  PROVE  Total(r, S) = Total(q, S) + r[x]
<1> DEFINE T == S \ {x}
<1>1. S = T \cup {x} /\ x \notin T /\ T \subseteq S
  OBVIOUS
<1>2. \A y \in T : r[y] = q[y] /\ r[y] \in Nat
  BY DEF Quantities
<1>3. Quantities(r, T)
  BY <1>1, <1>2, FS_Subset DEF Quantities
<1>4. Total(q, S) = Total(r, T)
  <2>1. \A y \in T : q[y] = r[y]
    BY <1>2
  <2>2. \A y \in S \ T : q[y] = 0
    BY <1>1
  <2> HIDE DEF T
  <2> QED
    BY <1>1, <2>1, <2>2, TotalSupport
<1> HIDE DEF T
<1>5. Total(r, T \cup {x}) = Total(r, T) + r[x]
  BY <1>1, <1>3, TotalAdd
<1> QED
  BY <1>1, <1>4, <1>5

-----------------------------------------------------------------------------
(* Units of x placed at pos[x] + 1, pos[x] + 2, ... within 1 .. n, no two  *)
(* of them at the same place, are at most n.                               *)
LEMMA PackInto ==
  ASSUME NEW t, NEW S, NEW n \in Nat, NEW pos \in [S -> Int], Quantities(t, S),
         \A x \in S : \A i \in 1 .. t[x] : pos[x] + i \in 1 .. n,
         \A x, y \in S : x # y =>
            \A i \in 1 .. t[x], j \in 1 .. t[y] : pos[x] + i # pos[y] + j
  PROVE  Total(t, S) <= n
<1> DEFINE U == Units(t, S)
           f == [u \in U |-> pos[u[1]] + u[2]]
<1>1. \A u \in U : u[1] \in S /\ u[2] \in 1 .. t[u[1]] /\ u = <<u[1], u[2]>>
  <2> SUFFICES ASSUME NEW u \in U
               PROVE  u[1] \in S /\ u[2] \in 1 .. t[u[1]] /\ u = <<u[1], u[2]>>
    OBVIOUS
  <2>1. PICK x \in S : \E i \in 1 .. t[x] : u = <<x, i>>
    BY UnitsIn
  <2> QED
    BY <2>1
<1>2. f \in [U -> 1 .. n]
  BY <1>1
<1>3. ASSUME NEW u \in U, NEW v \in U, f[u] = f[v]
      PROVE  u = v
  <2>1. CASE u[1] = v[1]
    <3>1. u[2] \in Int /\ v[2] \in Int /\ pos[u[1]] \in Int
      BY <1>1
    <3>2. u[2] = v[2]
      BY <1>3, <2>1, <3>1
    <3> QED
      BY <1>1, <2>1, <3>2
  <2>2. CASE u[1] # v[1]
    BY <1>1, <1>3, <2>2
  <2> QED
    BY <2>1, <2>2
<1>4. f \in Injection(U, 1 .. n)
  BY <1>2, <1>3 DEF Injection, IsInjective
<1>5. IsFiniteSet(1 .. n) /\ Cardinality(1 .. n) = n
  BY FS_Interval
<1> HIDE DEF f, U
<1>6. Cardinality(U) <= Cardinality(1 .. n)
  BY <1>4, <1>5, FS_Injection
<1> QED
  BY <1>5, <1>6 DEF Total, U

LEMMA OverlapFacts ==
  ASSUME NEW a \in Nat, NEW m \in Nat, NEW b \in Nat, NEW n \in Nat
  PROVE  LET start == IF a >= b THEN a ELSE b
         IN  /\ Overlap(a, m, b, n) \in Nat
             /\ \A i \in 1 .. Overlap(a, m, b, n) :
                   /\ start \in Nat /\ start >= a /\ start >= b
                   /\ start + i <= a + m
                   /\ start + i <= b + n
  BY DEF Overlap, Nonneg

(* Before is a strict order on what competes for the same thing.           *)
Ordered(q, before) ==
    /\ Quantities(q, DOMAIN q)
    /\ \A x \in DOMAIN q :
          /\ before[x] \subseteq DOMAIN q
          /\ x \notin before[x]
          /\ \A y \in before[x] : before[y] \subseteq before[x]

(* What comes before x includes what comes before y, and y itself.         *)
LEMMA Consecutive ==
  ASSUME NEW q, NEW before, Ordered(q, before),
         NEW x \in DOMAIN q, NEW y \in before[x]
  PROVE  /\ Total(q, before[y]) \in Nat /\ Total(q, before[x]) \in Nat
         /\ Total(q, before[y]) + q[y] <= Total(q, before[x])
<1>1. /\ y \in DOMAIN q /\ y \notin before[y]
      /\ before[y] \subseteq before[x] /\ before[x] \subseteq DOMAIN q
  BY DEF Ordered
<1>2. \A S \in SUBSET (DOMAIN q) : Quantities(q, S)
  BY FS_Subset DEF Ordered, Quantities
<1>3. q[y] \in Nat
  BY <1>1 DEF Ordered, Quantities
<1>4. Total(q, before[y] \cup {y}) = Total(q, before[y]) + q[y]
  BY <1>1, <1>2, <1>3, TotalAdd
<1>5. Total(q, before[y] \cup {y}) <= Total(q, before[x])
  <2>1. \A z \in before[y] \cup {y} : q[z] \in Nat /\ q[z] <= q[z]
    BY <1>1 DEF Ordered, Quantities
  <2> QED
    BY <1>1, <1>2, <2>1, TotalMonotone
<1> QED
  BY <1>1, <1>2, <1>4, <1>5, TotalType
-----------------------------------------------------------------------------
(* What FifoTake is applied to: quantities, strict orders on the demands   *)
(* and on the lots that compete, and pairs of which any two with the same  *)
(* lot, or with the same demand, do compete.                               *)
FifoInput(need, avail, sooner, older, fits) ==
    /\ Ordered(need, sooner)
    /\ Ordered(avail, older)
    /\ fits \subseteq (DOMAIN need) \X (DOMAIN avail)
    /\ \A d, e \in DOMAIN need : \A l \in DOMAIN avail :
          <<d, l>> \in fits /\ <<e, l>> \in fits /\ d # e
            => d \in sooner[e] \/ e \in sooner[d]
    /\ \A e \in DOMAIN need : \A k, l \in DOMAIN avail :
          <<e, k>> \in fits /\ <<e, l>> \in fits /\ k # l
            => k \in older[l] \/ l \in older[k]

(* The interval of units taken by a pair begins at the later of the two    *)
(* places where the demand and the lot begin.                              *)
DemandBegins(need, sooner, e) == Total(need, sooner[e])
LotBegins(avail, older, l) == Total(avail, older[l])
PairBegins(need, avail, sooner, older, e, l) ==
    IF DemandBegins(need, sooner, e) >= LotBegins(avail, older, l)
    THEN DemandBegins(need, sooner, e) ELSE LotBegins(avail, older, l)

LEMMA PairFacts ==
  ASSUME NEW need, NEW avail, NEW sooner, NEW older, NEW fits,
         FifoInput(need, avail, sooner, older, fits),
         NEW e \in DOMAIN need, NEW l \in DOMAIN avail
  PROVE  LET take == FifoTake(need, avail, sooner, older, fits)[<<e, l>>]
             begin == PairBegins(need, avail, sooner, older, e, l)
             dem == DemandBegins(need, sooner, e)
             lot == LotBegins(avail, older, l)
         IN  /\ dem \in Nat /\ lot \in Nat /\ begin \in Nat
             /\ need[e] \in Nat /\ avail[l] \in Nat /\ take \in Nat
             /\ \A i \in 1 .. take :
                   /\ <<e, l>> \in fits
                   /\ begin >= dem /\ begin >= lot
                   /\ begin + i <= dem + need[e]
                   /\ begin + i <= lot + avail[l]
<1> DEFINE take == FifoTake(need, avail, sooner, older, fits)[<<e, l>>]
           dem == DemandBegins(need, sooner, e)
           lot == LotBegins(avail, older, l)
<1>1. need[e] \in Nat /\ avail[l] \in Nat
  BY DEF FifoInput, Ordered, Quantities
<1>2. Quantities(need, sooner[e]) /\ Quantities(avail, older[l])
  BY FS_Subset DEF FifoInput, Ordered, Quantities
<1>3. dem \in Nat /\ lot \in Nat
  BY <1>2, TotalType DEF DemandBegins, LotBegins
<1>4. take = IF <<e, l>> \in fits THEN Overlap(dem, need[e], lot, avail[l]) ELSE 0
  BY DEF FifoTake, DemandBegins, LotBegins
<1> DEFINE ov == Overlap(dem, need[e], lot, avail[l])
<1>5. /\ ov \in Nat
      /\ PairBegins(need, avail, sooner, older, e, l) \in Nat
      /\ \A i \in 1 .. ov :
            /\ PairBegins(need, avail, sooner, older, e, l) >= dem
            /\ PairBegins(need, avail, sooner, older, e, l) >= lot
            /\ PairBegins(need, avail, sooner, older, e, l) + i <= dem + need[e]
            /\ PairBegins(need, avail, sooner, older, e, l) + i <= lot + avail[l]
  BY <1>1, <1>3, OverlapFacts DEF PairBegins
<1> HIDE DEF take, dem, lot, ov
<1>6. CASE <<e, l>> \in fits
  <2>1. take = ov
    BY <1>4, <1>6 DEF ov
  <2> QED
    BY <1>1, <1>3, <1>5, <1>6, <2>1 DEF take, dem, lot
<1>7. CASE <<e, l>> \notin fits
  BY <1>1, <1>3, <1>4, <1>5, <1>7 DEF take, dem, lot
<1> QED
  BY <1>6, <1>7

(* The units taken from a lot are different units of the lot.              *)
THEOREM TakesFromLot ==
  ASSUME NEW need, NEW avail, NEW sooner, NEW older, NEW fits,
         FifoInput(need, avail, sooner, older, fits), NEW l \in DOMAIN avail
  PROVE  LET t == [e \in DOMAIN need |->
                      FifoTake(need, avail, sooner, older, fits)[<<e, l>>]]
         IN  Total(t, DOMAIN need) \in Nat /\ Total(t, DOMAIN need) <= avail[l]
<1> DEFINE E == DOMAIN need
           t == [e \in E |-> FifoTake(need, avail, sooner, older, fits)[<<e, l>>]]
           begin(e) == PairBegins(need, avail, sooner, older, e, l)
           pos == [e \in E |-> begin(e) - LotBegins(avail, older, l)]
<1>1. Quantities(t, E)
  BY PairFacts DEF FifoInput, Ordered, Quantities
<1>2. pos \in [E -> Int] /\ avail[l] \in Nat
  <2>1. \A e \in E : begin(e) \in Nat /\ LotBegins(avail, older, l) \in Nat
    BY PairFacts
  <2>2. avail[l] \in Nat
    BY DEF FifoInput, Ordered, Quantities
  <2> QED
    BY <2>1, <2>2
<1>3. \A e \in E : \A i \in 1 .. t[e] : pos[e] + i \in 1 .. avail[l]
  BY PairFacts
<1>4. ASSUME NEW d \in E, NEW e \in E, d \in sooner[e],
             NEW i \in 1 .. t[d], NEW j \in 1 .. t[e]
      PROVE  pos[d] + i < pos[e] + j
  <2>1. DemandBegins(need, sooner, d) + need[d] <= DemandBegins(need, sooner, e)
    BY <1>4, Consecutive DEF FifoInput, DemandBegins
  <2>2. begin(d) + i <= DemandBegins(need, sooner, d) + need[d]
    BY PairFacts
  <2>3. begin(e) >= DemandBegins(need, sooner, e)
    BY PairFacts
  <2> QED
    BY <2>1, <2>2, <2>3, PairFacts
<1>5. ASSUME NEW d \in E, NEW e \in E, d # e, NEW i \in 1 .. t[d], NEW j \in 1 .. t[e]
      PROVE  pos[d] + i # pos[e] + j
  <2>1. <<d, l>> \in fits /\ <<e, l>> \in fits
    BY PairFacts
  <2>2. d \in sooner[e] \/ e \in sooner[d]
    BY <1>5, <2>1 DEF FifoInput
  <2>3. pos[d] + i < pos[e] + j \/ pos[e] + j < pos[d] + i
    BY <1>4, <2>2
  <2>4. pos[d] \in Int /\ pos[e] \in Int
    BY <1>2
  <2> QED
    BY <2>3, <2>4
<1> HIDE DEF t, pos
<1>6. Total(t, E) <= avail[l]
  BY <1>1, <1>2, <1>3, <1>5, PackInto
<1> QED
  BY <1>1, <1>6, TotalType DEF t

(* The units given to a demand are different units of what it needs.       *)
THEOREM TakesForDemand ==
  ASSUME NEW need, NEW avail, NEW sooner, NEW older, NEW fits,
         FifoInput(need, avail, sooner, older, fits), NEW e \in DOMAIN need
  PROVE  LET t == [l \in DOMAIN avail |->
                      FifoTake(need, avail, sooner, older, fits)[<<e, l>>]]
         IN  Total(t, DOMAIN avail) \in Nat /\ Total(t, DOMAIN avail) <= need[e]
<1> DEFINE L == DOMAIN avail
           t == [l \in L |-> FifoTake(need, avail, sooner, older, fits)[<<e, l>>]]
           begin(l) == PairBegins(need, avail, sooner, older, e, l)
           pos == [l \in L |-> begin(l) - DemandBegins(need, sooner, e)]
<1>1. Quantities(t, L)
  BY PairFacts DEF FifoInput, Ordered, Quantities
<1>2. pos \in [L -> Int] /\ need[e] \in Nat
  <2>1. \A l \in L : begin(l) \in Nat /\ DemandBegins(need, sooner, e) \in Nat
    BY PairFacts
  <2>2. need[e] \in Nat
    BY DEF FifoInput, Ordered, Quantities
  <2> QED
    BY <2>1, <2>2
<1>3. \A l \in L : \A i \in 1 .. t[l] : pos[l] + i \in 1 .. need[e]
  BY PairFacts
<1>4. ASSUME NEW k \in L, NEW l \in L, k \in older[l],
             NEW i \in 1 .. t[k], NEW j \in 1 .. t[l]
      PROVE  pos[k] + i < pos[l] + j
  <2>1. LotBegins(avail, older, k) + avail[k] <= LotBegins(avail, older, l)
    BY <1>4, Consecutive DEF FifoInput, LotBegins
  <2>2. begin(k) + i <= LotBegins(avail, older, k) + avail[k]
    BY PairFacts
  <2>3. begin(l) >= LotBegins(avail, older, l)
    BY PairFacts
  <2> QED
    BY <2>1, <2>2, <2>3, PairFacts
<1>5. ASSUME NEW k \in L, NEW l \in L, k # l, NEW i \in 1 .. t[k], NEW j \in 1 .. t[l]
      PROVE  pos[k] + i # pos[l] + j
  <2>1. <<e, k>> \in fits /\ <<e, l>> \in fits
    BY PairFacts
  <2>2. k \in older[l] \/ l \in older[k]
    BY <1>5, <2>1 DEF FifoInput
  <2>3. pos[k] + i < pos[l] + j \/ pos[l] + j < pos[k] + i
    BY <1>4, <2>2
  <2>4. pos[k] \in Int /\ pos[l] \in Int
    BY <1>2
  <2> QED
    BY <2>3, <2>4
<1> HIDE DEF t, pos
<1>6. Total(t, L) <= need[e]
  BY <1>1, <1>2, <1>3, <1>5, PackInto
<1> QED
  BY <1>1, <1>6, TotalType DEF t
-----------------------------------------------------------------------------
(* What comes before x, and x, lie one after the other without a gap: every *)
(* place up to the end of x belongs to one of them.                        *)
LEMMA NoGap ==
  ASSUME NEW q, NEW before, Ordered(q, before), NEW x \in DOMAIN q,
         \A y, z \in before[x] \cup {x} : y # z => y \in before[z] \/ z \in before[y],
         NEW p \in 1 .. (Total(q, before[x]) + q[x])
  PROVE  \E y \in before[x] \cup {x} : \E i \in 1 .. q[y] : p = Total(q, before[y]) + i
<1> DEFINE T == before[x] \cup {x}
           U == Units(q, T)
           n == Total(q, before[x]) + q[x]
           f == [u \in U |-> Total(q, before[u[1]]) + u[2]]
<1>1. T \subseteq DOMAIN q /\ before[x] \subseteq DOMAIN q /\ x \notin before[x]
  BY DEF Ordered
<1>2. \A S \in SUBSET (DOMAIN q) : Quantities(q, S)
  BY FS_Subset DEF Ordered, Quantities
<1>3. \A y \in DOMAIN q : q[y] \in Nat /\ Total(q, before[y]) \in Nat
  <2> SUFFICES ASSUME NEW y \in DOMAIN q
               PROVE  q[y] \in Nat /\ Total(q, before[y]) \in Nat
    OBVIOUS
  <2>1. before[y] \subseteq DOMAIN q
    BY DEF Ordered
  <2> QED
    BY <1>2, <2>1, TotalType DEF Ordered, Quantities
<1>4. Total(q, T) = n /\ n \in Nat
  BY <1>1, <1>2, <1>3, TotalAdd
<1>5. IsFiniteSet(U) /\ Cardinality(U) = n
  BY <1>1, <1>2, <1>4, TotalType DEF Total
<1>6. \A u \in U : u[1] \in T /\ u[2] \in 1 .. q[u[1]] /\ u = <<u[1], u[2]>>
  <2> SUFFICES ASSUME NEW u \in U
               PROVE  u[1] \in T /\ u[2] \in 1 .. q[u[1]] /\ u = <<u[1], u[2]>>
    OBVIOUS
  <2>1. PICK y \in T : \E i \in 1 .. q[y] : u = <<y, i>>
    BY UnitsIn
  <2> QED
    BY <2>1
<1>7. \A y \in T : Total(q, before[y]) + q[y] <= n
  <2> SUFFICES ASSUME NEW y \in T PROVE Total(q, before[y]) + q[y] <= n
    OBVIOUS
  <2>1. CASE y = x
    BY <1>3, <2>1
  <2>2. CASE y \in before[x]
    BY <1>1, <1>3, <2>2, Consecutive
  <2> QED
    BY <2>1, <2>2
<1>8. f \in [U -> 1 .. n]
  <2> SUFFICES ASSUME NEW u \in U PROVE Total(q, before[u[1]]) + u[2] \in 1 .. n
    OBVIOUS
  <2>1. u[1] \in T /\ u[2] \in 1 .. q[u[1]] /\ u[1] \in DOMAIN q
    BY <1>1, <1>6
  <2>2. Total(q, before[u[1]]) + q[u[1]] <= n
    BY <1>7, <2>1
  <2> HIDE DEF n, U, T
  <2> QED
    BY <1>3, <1>4, <2>1, <2>2
<1>9. ASSUME NEW u \in U, NEW v \in U, f[u] = f[v]
      PROVE  u = v
  <2>1. /\ u[1] \in T /\ u[2] \in 1 .. q[u[1]] /\ u = <<u[1], u[2]>> /\ u[1] \in DOMAIN q
        /\ v[1] \in T /\ v[2] \in 1 .. q[v[1]] /\ v = <<v[1], v[2]>> /\ v[1] \in DOMAIN q
    BY <1>1, <1>6
  <2>2. Total(q, before[u[1]]) + u[2] = Total(q, before[v[1]]) + v[2]
    BY <1>9
  <2>3. CASE u[1] = v[1]
    <3>1. u[2] = v[2]
      BY <1>3, <2>1, <2>2, <2>3
    <3> QED
      BY <2>1, <2>3, <3>1
  <2>4. ASSUME NEW y \in DOMAIN q, NEW z \in DOMAIN q, y \in before[z],
               NEW i \in 1 .. q[y], NEW j \in 1 .. q[z],
               Total(q, before[y]) + i = Total(q, before[z]) + j
        PROVE  FALSE
    <3>1. Total(q, before[y]) + q[y] <= Total(q, before[z])
      BY <2>4, Consecutive
    <3> QED
      BY <1>3, <2>4, <3>1
  <2>5. CASE u[1] # v[1]
    <3>1. u[1] \in before[v[1]] \/ v[1] \in before[u[1]]
      BY <2>1, <2>5
    <3> QED
      BY <2>1, <2>2, <2>4, <3>1
  <2> QED
    BY <2>3, <2>5
<1>10. f \in Injection(U, 1 .. n)
  BY <1>8, <1>9 DEF Injection, IsInjective
<1>11. IsFiniteSet(1 .. n) /\ Cardinality(1 .. n) = n
  BY <1>4, FS_Interval
<1> HIDE DEF f, U, n
<1>12. f \in Surjection(U, 1 .. n)
  BY <1>5, <1>10, <1>11, FS_Injection
<1>13. PICK u \in U : f[u] = p
  BY <1>12 DEF Surjection, n
<1> QED
  BY <1>6, <1>13 DEF f, T

(* Units of x at pos[x] + 1, pos[x] + 2, ... that leave no place of 1 .. n *)
(* free are at least n.                                                    *)
LEMMA FillUp ==
  ASSUME NEW t, NEW S, NEW n \in Nat, NEW pos \in [S -> Int], Quantities(t, S),
         \A j \in 1 .. n : \E x \in S : \E i \in 1 .. t[x] : j = pos[x] + i
  PROVE  n <= Total(t, S)
<1> DEFINE U == Units(t, S)
           f == [j \in 1 .. n |-> CHOOSE u \in U : j = pos[u[1]] + u[2]]
<1>1. ASSUME NEW j \in 1 .. n
      PROVE  f[j] \in U /\ j = pos[f[j][1]] + f[j][2]
  <2>1. PICK x \in S : \E i \in 1 .. t[x] : j = pos[x] + i
    OBVIOUS
  <2>2. PICK i \in 1 .. t[x] : j = pos[x] + i
    BY <2>1
  <2>3. <<x, i>> \in U
    BY UnitsIn
  <2>4. \E u \in U : j = pos[u[1]] + u[2]
    BY <2>2, <2>3
  <2> QED
    BY <2>4
<1> HIDE DEF f
<1>2. f \in [1 .. n -> U]
  BY <1>1 DEF f
<1>3. \A i, j \in 1 .. n : f[i] = f[j] => i = j
  BY <1>1
<1>4. f \in Injection(1 .. n, U)
  BY <1>2, <1>3 DEF Injection, IsInjective
<1>5. IsFiniteSet(U) /\ Cardinality(1 .. n) = n
  BY TotalType, FS_Interval
<1> QED
  BY <1>4, <1>5, FS_Injection DEF Total

(* Every unit of a lot that ends before the demand e does is taken.        *)
LEMMA LotEndsFirst ==
  ASSUME NEW need, NEW avail, NEW sooner, NEW older, NEW fits,
         FifoInput(need, avail, sooner, older, fits),
         NEW e \in DOMAIN need, NEW k \in DOMAIN avail, <<e, k>> \in fits,
         \A d \in sooner[e] : <<d, k>> \in fits,
         LotBegins(avail, older, k) + avail[k] <= DemandBegins(need, sooner, e) + need[e]
  PROVE  LET t == [d \in DOMAIN need |->
                      FifoTake(need, avail, sooner, older, fits)[<<d, k>>]]
         IN  Total(t, DOMAIN need) = avail[k]
<1> DEFINE D == DOMAIN need
           t == [d \in D |-> FifoTake(need, avail, sooner, older, fits)[<<d, k>>]]
           begin(d) == PairBegins(need, avail, sooner, older, d, k)
           pos == [d \in D |-> begin(d) - LotBegins(avail, older, k)]
<1>1. Quantities(t, D)
  BY PairFacts DEF FifoInput, Ordered, Quantities
<1>2. pos \in [D -> Int] /\ avail[k] \in Nat
  <2>1. \A d \in D : begin(d) \in Nat /\ LotBegins(avail, older, k) \in Nat
    BY PairFacts
  <2>2. avail[k] \in Nat
    BY DEF FifoInput, Ordered, Quantities
  <2> QED
    BY <2>1, <2>2
<1>3. sooner[e] \subseteq D
  BY DEF FifoInput, Ordered
<1>4. ASSUME NEW j \in 1 .. avail[k]
      PROVE  \E d \in D : \E i \in 1 .. t[d] : j = pos[d] + i
  <2> DEFINE p == LotBegins(avail, older, k) + j
  <2>1. /\ LotBegins(avail, older, k) \in Nat /\ avail[k] \in Nat
        /\ DemandBegins(need, sooner, e) \in Nat /\ need[e] \in Nat
    BY PairFacts
  <2>2. p \in 1 .. (Total(need, sooner[e]) + need[e])
    BY <2>1 DEF DemandBegins
  <2>3. \A y, z \in sooner[e] \cup {e} : y # z => y \in sooner[z] \/ z \in sooner[y]
    BY <1>3 DEF FifoInput
  <2>4. Ordered(need, sooner)
    BY DEF FifoInput
  <2> HIDE DEF p
  <2>5. PICK d \in sooner[e] \cup {e} : \E i \in 1 .. need[d] : p = Total(need, sooner[d]) + i
    BY <2>2, <2>3, <2>4, NoGap
  <2>6. PICK i \in 1 .. need[d] : p = DemandBegins(need, sooner, d) + i
    BY <2>5 DEF DemandBegins
  <2>7. d \in D /\ <<d, k>> \in fits
    BY <1>3, <2>5
  <2>8. need[d] \in Nat /\ DemandBegins(need, sooner, d) \in Nat
    BY <2>7, PairFacts
  <2>9. t[d] = Overlap(DemandBegins(need, sooner, d), need[d], LotBegins(avail, older, k), avail[k])
    BY <2>7 DEF FifoTake, DemandBegins, LotBegins
  <2>10. /\ p > DemandBegins(need, sooner, d) /\ p > LotBegins(avail, older, k)
         /\ p <= DemandBegins(need, sooner, d) + need[d]
         /\ p <= LotBegins(avail, older, k) + avail[k]
         /\ p \in Nat
    BY <2>1, <2>6, <2>8 DEF p
  <2>11. p - begin(d) \in 1 .. t[d]
    BY <2>1, <2>8, <2>9, <2>10 DEF Overlap, Nonneg, PairBegins
  <2>12. j = pos[d] + (p - begin(d))
    <3>1. begin(d) \in Nat
      BY <2>7, PairFacts
    <3>2. pos[d] = begin(d) - LotBegins(avail, older, k)
      BY <2>7
    <3> QED
      BY <2>1, <3>1, <3>2 DEF p
  <2> QED
    BY <2>7, <2>11, <2>12
<1> HIDE DEF t, pos
<1>5. avail[k] <= Total(t, D)
  BY <1>1, <1>2, <1>4, FillUp
<1>6. Total(t, D) \in Nat /\ Total(t, D) <= avail[k]
  BY TakesFromLot DEF t
<1> QED
  BY <1>2, <1>5, <1>6 DEF t

(* A demand that ends before the lot k does gets all it needs.             *)
LEMMA DemandEndsFirst ==
  ASSUME NEW need, NEW avail, NEW sooner, NEW older, NEW fits,
         FifoInput(need, avail, sooner, older, fits),
         NEW e \in DOMAIN need, NEW k \in DOMAIN avail, <<e, k>> \in fits,
         \A l \in older[k] : <<e, l>> \in fits,
         DemandBegins(need, sooner, e) + need[e] <= LotBegins(avail, older, k) + avail[k]
  PROVE  LET t == [l \in DOMAIN avail |->
                      FifoTake(need, avail, sooner, older, fits)[<<e, l>>]]
         IN  Total(t, DOMAIN avail) = need[e]
<1> DEFINE L == DOMAIN avail
           t == [l \in L |-> FifoTake(need, avail, sooner, older, fits)[<<e, l>>]]
           begin(l) == PairBegins(need, avail, sooner, older, e, l)
           pos == [l \in L |-> begin(l) - DemandBegins(need, sooner, e)]
<1>1. Quantities(t, L)
  BY PairFacts DEF FifoInput, Ordered, Quantities
<1>2. pos \in [L -> Int] /\ need[e] \in Nat
  <2>1. \A l \in L : begin(l) \in Nat /\ DemandBegins(need, sooner, e) \in Nat
    BY PairFacts
  <2>2. need[e] \in Nat
    BY DEF FifoInput, Ordered, Quantities
  <2> QED
    BY <2>1, <2>2
<1>3. older[k] \subseteq L
  BY DEF FifoInput, Ordered
<1>4. ASSUME NEW j \in 1 .. need[e]
      PROVE  \E l \in L : \E i \in 1 .. t[l] : j = pos[l] + i
  <2> DEFINE p == DemandBegins(need, sooner, e) + j
  <2>1. /\ LotBegins(avail, older, k) \in Nat /\ avail[k] \in Nat
        /\ DemandBegins(need, sooner, e) \in Nat /\ need[e] \in Nat
    BY PairFacts
  <2>2. p \in 1 .. (Total(avail, older[k]) + avail[k])
    BY <2>1 DEF LotBegins
  <2>3. \A y, z \in older[k] \cup {k} : y # z => y \in older[z] \/ z \in older[y]
    BY <1>3 DEF FifoInput
  <2>4. Ordered(avail, older)
    BY DEF FifoInput
  <2> HIDE DEF p
  <2>5. PICK l \in older[k] \cup {k} : \E i \in 1 .. avail[l] : p = Total(avail, older[l]) + i
    BY <2>2, <2>3, <2>4, NoGap
  <2>6. PICK i \in 1 .. avail[l] : p = LotBegins(avail, older, l) + i
    BY <2>5 DEF LotBegins
  <2>7. l \in L /\ <<e, l>> \in fits
    BY <1>3, <2>5
  <2>8. avail[l] \in Nat /\ LotBegins(avail, older, l) \in Nat
    BY <2>7, PairFacts
  <2>9. t[l] = Overlap(DemandBegins(need, sooner, e), need[e], LotBegins(avail, older, l), avail[l])
    BY <2>7 DEF FifoTake, DemandBegins, LotBegins
  <2>10. /\ p > LotBegins(avail, older, l) /\ p > DemandBegins(need, sooner, e)
         /\ p <= LotBegins(avail, older, l) + avail[l]
         /\ p <= DemandBegins(need, sooner, e) + need[e]
         /\ p \in Nat
    BY <2>1, <2>6, <2>8 DEF p
  <2>11. p - begin(l) \in 1 .. t[l]
    BY <2>1, <2>8, <2>9, <2>10 DEF Overlap, Nonneg, PairBegins
  <2>12. j = pos[l] + (p - begin(l))
    <3>1. begin(l) \in Nat
      BY <2>7, PairFacts
    <3>2. pos[l] = begin(l) - DemandBegins(need, sooner, e)
      BY <2>7
    <3> QED
      BY <2>1, <3>1, <3>2 DEF p
  <2> QED
    BY <2>7, <2>11, <2>12
<1> HIDE DEF t, pos
<1>5. need[e] <= Total(t, L)
  BY <1>1, <1>2, <1>4, FillUp
<1>6. Total(t, L) \in Nat /\ Total(t, L) <= need[e]
  BY TakesForDemand DEF t
<1> QED
  BY <1>2, <1>5, <1>6 DEF t

(* First in, first out: who takes something from a lot has left nothing in *)
(* the older ones.                                                         *)
THEOREM OlderAreEmptied ==
  ASSUME NEW need, NEW avail, NEW sooner, NEW older, NEW fits,
         FifoInput(need, avail, sooner, older, fits),
         NEW e \in DOMAIN need, NEW l \in DOMAIN avail, NEW k \in older[l],
         FifoTake(need, avail, sooner, older, fits)[<<e, l>>] > 0,
         <<e, k>> \in fits, \A d \in sooner[e] : <<d, k>> \in fits
  PROVE  LET t == [d \in DOMAIN need |->
                      FifoTake(need, avail, sooner, older, fits)[<<d, k>>]]
         IN  Total(t, DOMAIN need) = avail[k]
<1>1. k \in DOMAIN avail
  BY DEF FifoInput, Ordered
<1>2. LotBegins(avail, older, k) + avail[k] <= LotBegins(avail, older, l)
  BY Consecutive DEF FifoInput, LotBegins
<1>3. LotBegins(avail, older, l) < DemandBegins(need, sooner, e) + need[e]
  <2> DEFINE take == FifoTake(need, avail, sooner, older, fits)[<<e, l>>]
  <2>1. take \in Nat
    BY PairFacts
  <2>2. 1 \in 1 .. take
    BY <2>1
  <2> QED
    BY <2>2, PairFacts
<1>4. LotBegins(avail, older, k) + avail[k] <= DemandBegins(need, sooner, e) + need[e]
  BY <1>1, <1>2, <1>3, PairFacts
<1> QED
  BY <1>1, <1>4, LotEndsFirst

(* A demand is only left short of what is gone.                            *)
THEOREM ShortOfWhatIsGone ==
  ASSUME NEW need, NEW avail, NEW sooner, NEW older, NEW fits,
         FifoInput(need, avail, sooner, older, fits),
         NEW e \in DOMAIN need, NEW k \in DOMAIN avail, <<e, k>> \in fits,
         \A d \in sooner[e] : <<d, k>> \in fits,
         \A l \in older[k] : <<e, l>> \in fits,
         Total([l \in DOMAIN avail |->
                   FifoTake(need, avail, sooner, older, fits)[<<e, l>>]], DOMAIN avail) < need[e]
  PROVE  LET t == [d \in DOMAIN need |->
                      FifoTake(need, avail, sooner, older, fits)[<<d, k>>]]
         IN  Total(t, DOMAIN need) = avail[k]
<1>1. need[e] \in Nat
  BY PairFacts
<1>2. ~(DemandBegins(need, sooner, e) + need[e] <= LotBegins(avail, older, k) + avail[k])
  BY <1>1, DemandEndsFirst
<1>3. LotBegins(avail, older, k) + avail[k] <= DemandBegins(need, sooner, e) + need[e]
  BY <1>2, PairFacts
<1> QED
  BY <1>3, LotEndsFirst
-----------------------------------------------------------------------------
(* Sorting.                                                                *)

StrictOrder(before) ==
    /\ IsFiniteSet(DOMAIN before)
    /\ \A x \in DOMAIN before :
          /\ before[x] \subseteq DOMAIN before
          /\ x \notin before[x]
          /\ \A y \in before[x] : before[y] \subseteq before[x]
    /\ \A x, y \in DOMAIN before : x # y => x \in before[y] \/ y \in before[x]

(* The number of elements before x is different for every x, and so takes  *)
(* every value from 0 up.                                                  *)
LEMMA Ranks ==
  ASSUME NEW before, StrictOrder(before)
  PROVE  /\ Cardinality(DOMAIN before) \in Nat
         /\ \A x, y \in DOMAIN before :
               /\ Cardinality(before[x]) \in 0 .. Cardinality(DOMAIN before) - 1
               /\ y \in before[x] <=> Cardinality(before[y]) < Cardinality(before[x])
               /\ Cardinality(before[x]) = Cardinality(before[y]) => x = y
         /\ \A i \in 1 .. Cardinality(DOMAIN before) :
               \E x \in DOMAIN before : Cardinality(before[x]) = i - 1
<1> DEFINE D == DOMAIN before
           n == Cardinality(D)
           rank == [x \in D |-> Cardinality(before[x])]
<1>1. IsFiniteSet(D) /\ n \in Nat
  BY FS_CardinalityType DEF StrictOrder
<1>2. ASSUME NEW x \in D, NEW S, S \subseteq D, before[x] \subseteq S, x \in S
      PROVE  IsFiniteSet(S) /\ rank[x] \in Nat /\ Cardinality(S) \in Nat /\ rank[x] < Cardinality(S)
  <2>1. IsFiniteSet(S)
    BY <1>1, <1>2, FS_Subset
  <2>2. IsFiniteSet(before[x]) /\ Cardinality(before[x]) <= Cardinality(S)
        /\ (Cardinality(before[x]) = Cardinality(S) => before[x] = S)
    BY <1>2, <2>1, FS_Subset
  <2>3. before[x] # S
    BY <1>2 DEF StrictOrder
  <2>4. Cardinality(before[x]) \in Nat /\ Cardinality(S) \in Nat
    BY <2>1, <2>2, FS_CardinalityType
  <2> QED
    BY <2>1, <2>2, <2>3, <2>4
<1>3. ASSUME NEW x \in D
      PROVE  rank[x] \in 0 .. n - 1
  <2>1. before[x] \subseteq D
    BY DEF StrictOrder
  <2>2. rank[x] \in Nat /\ rank[x] < n
    BY <1>2, <2>1
  <2> QED
    BY <1>1, <2>2
<1>4. ASSUME NEW x \in D, NEW y \in before[x]
      PROVE  y \in D /\ rank[y] < rank[x]
  <2>1. y \in D /\ before[x] \subseteq D /\ before[y] \subseteq before[x]
    BY DEF StrictOrder
  <2> QED
    BY <1>2, <2>1
<1>5. ASSUME NEW x \in D, NEW y \in D
      PROVE  /\ y \in before[x] <=> rank[y] < rank[x]
             /\ rank[x] = rank[y] => x = y
  <2>1. rank[x] \in Nat /\ rank[y] \in Nat
    BY <1>1, <1>3
  <2>2. x = y \/ x \in before[y] \/ y \in before[x]
    BY DEF StrictOrder
  <2>3. y \in before[x] => rank[y] < rank[x]
    BY <1>4
  <2>4. x \in before[y] => rank[x] < rank[y]
    BY <1>4
  <2>5. x = y => y \notin before[x]
    BY DEF StrictOrder
  <2> HIDE DEF rank
  <2> QED
    BY <2>1, <2>2, <2>3, <2>4, <2>5
<1>6. rank \in Injection(D, 0 .. n - 1)
  BY <1>3, <1>5 DEF Injection, IsInjective
<1>7. IsFiniteSet(0 .. n - 1) /\ Cardinality(0 .. n - 1) = n
  BY <1>1, FS_Interval
<1>8. rank \in Surjection(D, 0 .. n - 1)
  BY <1>6, <1>7, FS_Injection
<1>9. ASSUME NEW i \in 1 .. n
      PROVE  \E x \in D : rank[x] = i - 1
  <2>1. i - 1 \in 0 .. n - 1
    BY <1>1
  <2> QED
    BY <1>8, <2>1 DEF Surjection
<1> QED
  BY <1>1, <1>3, <1>5, <1>9

LEMMA SortedFacts ==
  ASSUME NEW before, StrictOrder(before)
  PROVE  LET n == Cardinality(DOMAIN before)
             s == Sorted(before)
         IN  /\ n \in Nat /\ s \in Seq(DOMAIN before) /\ Len(s) = n
             /\ s \in [1 .. n -> DOMAIN before]
             /\ \A x \in DOMAIN before : \E i \in 1 .. n : s[i] = x
             /\ \A i, j \in 1 .. n : s[i] \in before[s[j]] <=> i < j
<1> DEFINE D == DOMAIN before
           n == Cardinality(D)
           s == Sorted(before)
<1>1. n \in Nat
  BY Ranks
<1>2. ASSUME NEW i \in 1 .. n
      PROVE  s[i] \in D /\ Cardinality(before[s[i]]) = i - 1
  <2>1. \E x \in D : Cardinality(before[x]) = i - 1
    BY Ranks
  <2>2. s[i] = CHOOSE x \in D : Cardinality(before[x]) = i - 1
    BY DEF Sorted
  <2> QED
    BY <2>1, <2>2
<1>3. s = [i \in 1 .. n |-> s[i]] /\ s \in [1 .. n -> D]
  BY <1>2 DEF Sorted
<1> HIDE DEF s
<1>4. s \in Seq(D) /\ Len(s) = n
  BY <1>1, <1>3
<1>5. ASSUME NEW x \in D
      PROVE  \E i \in 1 .. n : s[i] = x
  <2>1. Cardinality(before[x]) \in 0 .. n - 1
    BY Ranks
  <2>2. Cardinality(before[x]) + 1 \in 1 .. n
    BY <1>1, <2>1
  <2>3. s[Cardinality(before[x]) + 1] \in D
        /\ Cardinality(before[s[Cardinality(before[x]) + 1]]) = Cardinality(before[x])
    BY <1>2, <2>1, <2>2
  <2>4. s[Cardinality(before[x]) + 1] = x
    BY <2>3, Ranks
  <2> QED
    BY <2>2, <2>4
<1>6. ASSUME NEW i \in 1 .. n, NEW j \in 1 .. n
      PROVE  s[i] \in before[s[j]] <=> i < j
  <2>1. s[i] \in before[s[j]] <=> Cardinality(before[s[i]]) < Cardinality(before[s[j]])
    BY <1>2, Ranks
  <2>2. Cardinality(before[s[i]]) = i - 1 /\ Cardinality(before[s[j]]) = j - 1
    BY <1>2
  <2> QED
    BY <2>1, <2>2
<1> QED
  BY <1>1, <1>3, <1>4, <1>5, <1>6 DEF s

(* The elements at the first places, up to i and without it.               *)
Until(s, i) == {s[j] : j \in 1 .. i - 1}

LEMMA UntilFacts ==
  ASSUME NEW before, StrictOrder(before), NEW i \in 1 .. Cardinality(DOMAIN before) + 1
  PROVE  LET n == Cardinality(DOMAIN before)
             s == Sorted(before)
         IN  /\ Until(s, 1) = {} /\ Until(s, n + 1) = DOMAIN before
             /\ Until(s, i) \subseteq DOMAIN before
             /\ \A x \in DOMAIN before : x \notin Until(s, i) => Until(s, i) \subseteq before[x]
<1> DEFINE D == DOMAIN before
           n == Cardinality(D)
           s == Sorted(before)
<1>1. /\ n \in Nat /\ s \in [1 .. n -> D]
      /\ \A x \in D : \E k \in 1 .. n : s[k] = x
      /\ \A k, j \in 1 .. n : s[k] \in before[s[j]] <=> k < j
  BY SortedFacts
<1> HIDE DEF s, n, D
<1> USE DEF Until
<1>2. Until(s, 1) = {}
  OBVIOUS
<1>3. Until(s, n + 1) = D
  <2>1. 1 .. n + 1 - 1 = 1 .. n
    BY <1>1
  <2> QED
    BY <1>1, <2>1
<1>4. Until(s, i) \subseteq D
  BY <1>1 DEF n, D
<1>5. ASSUME NEW x \in D, x \notin Until(s, i), NEW y \in Until(s, i)
      PROVE  y \in before[x]
  <2>1. PICK j \in 1 .. i - 1 : y = s[j]
    OBVIOUS
  <2>2. PICK k \in 1 .. n : x = s[k]
    BY <1>1
  <2>3. k \notin 1 .. i - 1
    BY <1>5, <2>2
  <2>4. j \in 1 .. n /\ j < k
    BY <1>1, <2>3 DEF n, D
  <2> QED
    BY <1>1, <2>1, <2>2, <2>4
<1> QED
  BY <1>2, <1>3, <1>4, <1>5 DEF s, n, D

LEMMA UntilNext ==
  ASSUME NEW before, StrictOrder(before), NEW i \in 1 .. Cardinality(DOMAIN before)
  PROVE  LET s == Sorted(before)
         IN  /\ s[i] \in DOMAIN before /\ s[i] \notin Until(s, i)
             /\ before[s[i]] = Until(s, i)
             /\ Until(s, i + 1) = Until(s, i) \cup {s[i]}
<1> DEFINE D == DOMAIN before
           n == Cardinality(D)
           s == Sorted(before)
<1>1. /\ n \in Nat /\ s \in [1 .. n -> D]
      /\ \A x \in D : \E k \in 1 .. n : s[k] = x
      /\ \A k, j \in 1 .. n : s[k] \in before[s[j]] <=> k < j
  BY SortedFacts
<1>2. \A x \in D : before[x] \subseteq D
  BY DEF StrictOrder
<1> HIDE DEF s
<1>3. s[i] \in D
  BY <1>1
<1>4. ASSUME NEW y
      PROVE  y \in before[s[i]] <=> y \in Until(s, i)
  <2>1. ASSUME y \in before[s[i]] PROVE y \in Until(s, i)
    <3>1. PICK k \in 1 .. n : s[k] = y
      BY <1>1, <1>2, <1>3, <2>1
    <3>2. k < i
      BY <1>1, <2>1, <3>1
    <3>3. k \in 1 .. i - 1
      BY <1>1, <3>2
    <3> QED
      BY <3>1, <3>3 DEF Until
  <2>2. ASSUME y \in Until(s, i) PROVE y \in before[s[i]]
    <3>1. PICK k \in 1 .. i - 1 : s[k] = y
      BY <2>2 DEF Until
    <3>2. k \in 1 .. n /\ k < i
      BY <1>1
    <3> QED
      BY <1>1, <3>1, <3>2
  <2> QED
    BY <2>1, <2>2
<1>5. s[i] \notin Until(s, i)
  BY <1>1, <1>4
<1>6. Until(s, i + 1) = Until(s, i) \cup {s[i]}
  <2>1. 1 .. i + 1 - 1 = (1 .. i - 1) \cup {i}
    BY <1>1
  <2> QED
    BY <2>1 DEF Until
<1> QED
  BY <1>3, <1>4, <1>5, <1>6 DEF s
(* The order of the rows, by their numbers: s steps through D upwards.     *)
Lower(D, e) == {d \in D : d < e}

StepsThrough(D, s) ==
    /\ DOMAIN s = 1 .. Len(s) /\ Len(s) \in Nat \ {0}
    /\ \A i \in DOMAIN s : s[i] \in D
    /\ Lower(D, s[1]) = {}
    /\ \A i \in DOMAIN s :
          Lower(D, s[i]) \cup {s[i]} = IF i < Len(s) THEN Lower(D, s[i + 1]) ELSE D

LEMMA InNumberOrder ==
  ASSUME NEW D, D \subseteq Nat, IsFiniteSet(D), D # {},
         NEW b, DOMAIN b = D, \A e \in D : b[e] = Lower(D, e)
  PROVE  StepsThrough(D, Sorted(b))
<1> DEFINE s == Sorted(b)
<1> HIDE DEF s
<1> DEFINE n == Cardinality(D)
<1>1. DOMAIN b = D /\ \A e \in D : b[e] = {d \in D : d < e}
  BY DEF Lower
<1>2. s = Sorted(b) /\ n = Cardinality(DOMAIN b)
  BY DEF s
<1>3. StrictOrder(b)
  <2>1. ASSUME NEW d \in D, NEW e \in D
        PROVE  (d \in b[e] <=> d < e) /\ d \in Nat /\ e \in Nat
    BY <1>1
  <2>2. \A e \in D : b[e] \subseteq D /\ e \notin b[e]
    BY <1>1, <2>1
  <2>3. ASSUME NEW e \in D, NEW d \in b[e], NEW c \in b[d]
        PROVE  c \in b[e]
    <3>1. c \in D /\ d \in D
      BY <2>2
    <3>2. c < d /\ d < e
      BY <2>1, <3>1
    <3> QED
      BY <2>1, <3>1, <3>2
  <2>4. \A d, e \in D : d # e => d \in b[e] \/ e \in b[d]
    BY <2>1
  <2> QED
    BY <1>1, <2>2, <2>3, <2>4 DEF StrictOrder
<1>4. /\ n \in Nat /\ Len(s) = n /\ s \in [1 .. n -> D]
      /\ \A x \in D : \E i \in 1 .. n : s[i] = x
  BY <1>1, <1>2, <1>3, SortedFacts
<1>5. n # 0
  BY FS_EmptySet
<1>6. \A i \in 1 .. n : /\ b[s[i]] = Until(s, i)
                        /\ Until(s, i + 1) = Until(s, i) \cup {s[i]}
  BY <1>1, <1>2, <1>3, UntilNext
<1>7. Until(s, 1) = {} /\ Until(s, n + 1) = D
  <2>1. n + 1 \in 1 .. n + 1
    BY <1>4
  <2> QED
    BY <1>1, <1>2, <1>3, <2>1, UntilFacts
<1>8. \A i \in 1 .. n : {d \in D : d < s[i]} = Until(s, i)
  BY <1>1, <1>4, <1>6
<1> HIDE DEF n
<1>9. ASSUME NEW i \in 1 .. n
      PROVE  {d \in D : d < s[i]} \cup {s[i]} = IF i < n THEN {d \in D : d < s[i + 1]} ELSE D
  <2>1. CASE i < n
    <3>1. i + 1 \in 1 .. n
      BY <1>4, <2>1
    <3> QED
      BY <1>6, <1>8, <2>1, <3>1
  <2>2. CASE ~(i < n)
    <3>1. i = n
      BY <1>4, <2>2
    <3> QED
      BY <1>6, <1>7, <1>8, <2>2, <3>1
  <2> QED
    BY <2>1, <2>2
<1>10. {d \in D : d < s[1]} = {}
  BY <1>4, <1>5, <1>7, <1>8
<1>11. DOMAIN s = 1 .. Len(s) /\ Len(s) \in Nat \ {0}
  BY <1>4, <1>5
<1> QED
  BY <1>4, <1>9, <1>10, <1>11 DEF StepsThrough, Lower, s

(* The order of the lots: by date, then by their numbers.                  *)
LEMMA InDateOrder ==
  ASSUME NEW S, S \subseteq Nat, IsFiniteSet(S), NEW date, \A l \in S : date[l] \in Nat,
         NEW before, DOMAIN before = S, \A l \in S : before[l] \subseteq S,
         \A l, m \in S : m \in before[l] <=> (date[m] < date[l] \/ (date[m] = date[l] /\ m < l))
  PROVE  StrictOrder(before)
<1>1. ASSUME NEW l \in S
      PROVE  l \in Nat /\ l \notin before[l]
  <2>1. l \in Nat /\ date[l] \in Nat
    OBVIOUS
  <2>2. l \in before[l] => (date[l] < date[l] \/ (date[l] = date[l] /\ l < l))
    OBVIOUS
  <2> QED
    BY <2>1, <2>2
<1>2. ASSUME NEW l \in S, NEW m \in before[l], NEW k \in before[m]
      PROVE  k \in before[l]
  <2>1. k \in S /\ m \in S
    OBVIOUS
  <2>2. /\ date[k] < date[m] \/ (date[k] = date[m] /\ k < m)
        /\ date[m] < date[l] \/ (date[m] = date[l] /\ m < l)
    BY <2>1
  <2>3. date[k] \in Nat /\ date[m] \in Nat /\ date[l] \in Nat /\ k \in Nat /\ m \in Nat /\ l \in Nat
    BY <2>1
  <2>4. date[k] < date[l] \/ (date[k] = date[l] /\ k < l)
    BY <2>2, <2>3
  <2> QED
    BY <2>1, <2>4
<1>3. ASSUME NEW l \in S, NEW m \in S, l # m
      PROVE  l \in before[m] \/ m \in before[l]
  <2> DEFINE x == date[l]
             y == date[m]
  <2>1. l \in before[m] <=> (x < y \/ (x = y /\ l < m))
    OBVIOUS
  <2>2. m \in before[l] <=> (y < x \/ (y = x /\ m < l))
    OBVIOUS
  <2>3. l \in Nat /\ m \in Nat /\ x \in Nat /\ y \in Nat
    OBVIOUS
  <2> HIDE DEF x, y
  <2> QED
    BY <1>3, <2>1, <2>2, <2>3
<1> QED
  BY <1>1, <1>2, <1>3 DEF StrictOrder
-----------------------------------------------------------------------------
(* A walk along the stock.                                                 *)

(* What is left of the units b .. b+n-1 when those before g are gone.      *)
Left(b, n, g) == Nonneg(b + n - (IF b >= g THEN b ELSE g))

LEMMA LeftType ==
  ASSUME NEW b \in Nat, NEW n \in Nat, NEW g \in Nat
  PROVE  /\ Left(b, n, g) \in Nat /\ Left(b, n, g) <= n
         /\ g <= b => Left(b, n, g) = n
         /\ g >= b + n => Left(b, n, g) = 0
         /\ Left(b, n, g) = 0 => n = 0 \/ g >= b + n
BY DEF Left, Nonneg

(* A demand that has used the stock before a lot meets the lot, of which   *)
(* the demand before it has left something: it takes the smaller of what   *)
(* is left of the two, which is their overlap, and what remains of either  *)
(* is what the other one leaves of it.                                     *)
LEMMA Meet ==
  ASSUME NEW a \in Nat, NEW n \in Nat, NEW b \in Nat, NEW m \in Nat, NEW met,
         met = IF Left(a, n, b) <= Left(b, m, a) THEN Left(a, n, b) ELSE Left(b, m, a)
  PROVE  /\ met = Overlap(a, n, b, m)
         /\ Left(a, n, b) - met = Left(a, n, b + m)
         /\ Left(b, m, a) - met = Left(b, m, a + n)
BY DEF Left, Nonneg, Overlap

(* A demand that needs nothing more when it has used the stock up to g     *)
(* takes nothing from a lot that begins there or later, and leaves it as   *)
(* it is.                                                                  *)
LEMMA NoMeet ==
  ASSUME NEW a \in Nat, NEW n \in Nat, NEW b \in Nat, NEW m \in Nat, NEW g \in Nat,
         g <= b, Left(a, n, g) = 0
  PROVE  Overlap(a, n, b, m) = 0 /\ Left(b, m, a + n) = Left(b, m, a)
BY DEF Left, Nonneg, Overlap
=============================================================================
