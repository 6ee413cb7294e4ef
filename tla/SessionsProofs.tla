--------------------------- MODULE SessionsProofs ---------------------------
(***************************************************************************)
(* However many requests confirm files at the same time, of the same file  *)
(* or of different ones, the lots agree with the allocations, as long as   *)
(* nobody commits while a file is being reverted.                          *)
(*                                                                         *)
(* The argument: a confirmation reads the lots it changes while it is the  *)
(* only writer, and a revert that nobody disturbs writes to lots that are  *)
(* still what it has read, and gives back what live requirements have      *)
(* drawn and no more.                                                      *)
(***************************************************************************)
EXTENDS Sessions, FifoProofs

(* A session writes from its flush to its commit, one at a time.           *)
OneWriter == \A s \in Sessions : pc[s] = "writing" => lock = s

(* What a revert has read is still so, and what it is about to give back   *)
(* is live.                                                                *)
RevertIsCurrent ==
    \A s \in Sessions : pc[s] = "file read" =>
        /\ seen[s].used = used /\ seen[s].remaining = remaining
        /\ seen[s].reqs \subseteq live

(* It reverts its own requirements, of a file that is confirmed.           *)
FileInRevert ==
    \A s \in Sessions : pc[s] = "file read" =>
        FileOf(s) \in confirmed /\ \A r \in seen[s].reqs : FileOf(r) = FileOf(s)

(* A requirement stops being live only with its file.                      *)
RevertedWithFile == \A s \in saved \ live : FileOf(s) \in reverted

SavedOnce == \A s \in saved : pc[s] = "done"

IInv ==
    /\ TypeOK
    /\ OneWriter /\ RevertIsCurrent /\ FileInRevert /\ RevertedWithFile /\ SavedOnce
    /\ LotsMatchAllocations

(* What the sessions in S have drawn from a lot.                           *)
DrawnBy(d, S, l) == Total([s \in S |-> d[s][l]], S)

LEMMA FiniteSessions ==
  ASSUME NEW S \in SUBSET Sessions
  PROVE  IsFiniteSet(S)
  BY SessionsAssumption, FS_Subset

LEMMA DrawnByType ==
  ASSUME NEW d \in [Sessions -> [Lots -> Nat]], NEW S \in SUBSET Sessions, NEW l \in Lots
  PROVE  DrawnBy(d, S, l) \in Nat
<1>1. Quantities([s \in S |-> d[s][l]], S)
  BY FiniteSessions DEF Quantities
<1> QED
  BY <1>1, TotalType DEF DrawnBy

(* The sessions in S and those in T have drawn what they have drawn apart. *)
LEMMA DrawnApart ==
  ASSUME NEW d \in [Sessions -> [Lots -> Nat]], NEW S \in SUBSET Sessions,
         NEW T \in SUBSET Sessions, S \cap T = {}, NEW l \in Lots
  PROVE  DrawnBy(d, S \cup T, l) = DrawnBy(d, S, l) + DrawnBy(d, T, l)
<1> DEFINE q == [s \in S \cup T |-> d[s][l]]
<1>1. Quantities(q, S) /\ Quantities(q, T)
  BY FiniteSessions DEF Quantities
<1>2. Total(q, S \cup T) = Total(q, S) + Total(q, T)
  BY <1>1, TotalUnion
<1>3. Total(q, S) = DrawnBy(d, S, l)
  BY TotalSame DEF DrawnBy
<1>4. Total(q, T) = DrawnBy(d, T, l)
  BY TotalSame DEF DrawnBy
<1> QED
  BY <1>2, <1>3, <1>4 DEF DrawnBy

LEMMA DrawnByOne ==
  ASSUME NEW d \in [Sessions -> [Lots -> Nat]], NEW S \in SUBSET Sessions,
         NEW s \in Sessions \ S, NEW l \in Lots
  PROVE  DrawnBy(d, S \cup {s}, l) = DrawnBy(d, S, l) + d[s][l]
<1> DEFINE q == [r \in S \cup {s} |-> d[r][l]]
<1>1. Quantities(q, S)
  BY FiniteSessions DEF Quantities
<1>2. Total(q, S \cup {s}) = Total(q, S) + d[s][l]
  BY <1>1, TotalAdd
<1>3. Total(q, S) = DrawnBy(d, S, l)
  BY TotalSame DEF DrawnBy
<1> QED
  BY <1>2, <1>3 DEF DrawnBy

LEMMA DrawnBySame ==
  ASSUME NEW d, NEW e, NEW S, NEW l, \A s \in S : d[s][l] = e[s][l]
  PROVE  DrawnBy(d, S, l) = DrawnBy(e, S, l)
  BY TotalSame DEF DrawnBy

(* plan_export_rows plans quantities.                                      *)
LEMMA PlanType ==
  ASSUME NEW f \in Files, NEW balance \in [Lots -> Nat]
  PROVE  PlanFrom(f, balance) \in [Lots -> Nat]
<1> DEFINE older == [l \in Lots |-> {k \in Lots : LotRank[k] < LotRank[l]}]
<1> SUFFICES ASSUME NEW l \in Lots
             PROVE  FifoTake([g \in {f} |-> Need[g]], balance, [g \in {f} |-> {}], older,
                             {f} \X Lots)[<<f, l>>] \in Nat
  BY DEF PlanFrom
<1> DEFINE need == [g \in {f} |-> Need[g]]
           sooner == [g \in {f} |-> {}]
           first == Total(need, sooner[f])
           before == Total(balance, older[l])
<1>1. first \in Nat
  BY TotalZero
<1>2. before \in Nat
  <2>1. Quantities(balance, older[l])
    BY SessionsAssumption, FS_Subset DEF Quantities
  <2> QED
    BY <2>1, TotalType
<1>3. need[f] \in Nat /\ balance[l] \in Nat
  BY SessionsAssumption
<1>4. FifoTake(need, balance, sooner, older, {f} \X Lots)[<<f, l>>]
        = Overlap(first, need[f], before, balance[l])
  BY DEF FifoTake
<1> HIDE DEF need, sooner, first, before, older
<1>5. Overlap(first, need[f], before, balance[l]) \in Nat
  BY <1>1, <1>2, <1>3, OverlapFacts
<1>6. FifoTake(need, balance, sooner, older, {f} \X Lots)[<<f, l>>] \in Nat
  BY <1>4, <1>5
<1> QED
  BY <1>6 DEF need, sooner, older
-----------------------------------------------------------------------------
LEMMA NothingType == Nothing \in [Lots -> Nat]
  BY DEF Nothing

LEMMA InitIInv == Init => IInv
<1> SUFFICES ASSUME Init
             PROVE  IInv
  OBVIOUS
<1> USE SessionsAssumption, NothingType
<1>1. TypeOK
  BY DEF Init, TypeOK
<1>2. OneWriter /\ RevertIsCurrent /\ FileInRevert /\ RevertedWithFile /\ SavedOnce
  BY DEF Init, OneWriter, RevertIsCurrent, FileInRevert, RevertedWithFile, SavedOnce
<1>3. LotsMatchAllocations
  <2> SUFFICES ASSUME NEW l \in Lots
               PROVE  used[l] = Total([s \in live |-> drawn[s][l]], live)
                      /\ used[l] + remaining[l] = Stock[l]
    BY DEF LotsMatchAllocations
  <2>1. Total([s \in live |-> drawn[s][l]], live) = 0
    BY TotalZero DEF Init
  <2> QED
    BY <2>1 DEF Init, Nothing
<1> QED
  BY <1>1, <1>2, <1>3 DEF IInv

(* Steps that change no table: the books are as they were.                 *)
LEMMA DbKept ==
  ASSUME IInv, UNCHANGED dbVars
  PROVE  LotsMatchAllocations' /\ RevertedWithFile'
<1>1. used' = used /\ remaining' = remaining /\ drawn' = drawn /\ live' = live
      /\ saved' = saved /\ reverted' = reverted
  BY DEF dbVars, lotVars, reqVars
<1> QED
  BY <1>1 DEF IInv, LotsMatchAllocations, RevertedWithFile, FileOf

LEMMA PreviewKeeps ==
  ASSUME IInv, NEW s \in Sessions, ReadFingerprint(s) \/ ReadLots(s) \/ SavePlan(s)
  PROVE  IInv'
<1> USE SessionsAssumption DEF IInv
<1>1. FileOf(s) \in Files
  BY DEF FileOf
<1>2. used' = used /\ remaining' = remaining /\ drawn' = drawn /\ live' = live
      /\ saved' = saved /\ reverted' = reverted /\ confirmed' = confirmed /\ lock' = lock
  BY DEF ReadFingerprint, ReadLots, SavePlan, dbVars, lotVars, reqVars
<1>3. LotsMatchAllocations' /\ RevertedWithFile'
  BY <1>2 DEF LotsMatchAllocations, RevertedWithFile, FileOf
<1>4. TypeOK'
  <2>1. CASE ReadFingerprint(s)
    BY <1>2, <2>1, NothingType
    DEF TypeOK, ReadFingerprint, Read, Goto, dbVars, planVars
  <2>2. CASE ReadLots(s)
    <3>1. PlanFrom(FileOf(s), remaining) \in [Lots -> Nat]
      BY <1>1, PlanType DEF TypeOK
    <3> DEFINE new == [seen[s] EXCEPT !.plan = PlanFrom(FileOf(s), remaining)]
    <3>2. seen' = [seen EXCEPT ![s] = new] /\ pc' = [pc EXCEPT ![s] = "plan made"]
          /\ planned' = planned /\ fingerprint' = fingerprint /\ plan' = plan
      BY <2>2 DEF ReadLots, Goto, dbVars, planVars
    <3>6. seen[s] \in [used : [Lots -> Nat], remaining : [Lots -> Nat],
                       reqs : SUBSET Sessions, plan : [Lots -> Nat]]
      BY DEF TypeOK
    <3>3. new \in [used : [Lots -> Nat], remaining : [Lots -> Nat],
                   reqs : SUBSET Sessions, plan : [Lots -> Nat]]
      BY <3>1, <3>6
    <3>4. seen' \in [Sessions -> [used : [Lots -> Nat], remaining : [Lots -> Nat],
                                 reqs : SUBSET Sessions, plan : [Lots -> Nat]]]
      <4> HIDE DEF new
      <4> QED
        BY <3>2, <3>3 DEF TypeOK
    <3>5. pc' \in [Sessions -> {"start", "fingerprint read", "plan made", "checked", "writing",
                               "file read", "done", "failed"}]
      BY <3>2 DEF TypeOK
    <3> HIDE DEF new
    <3> QED
      BY <1>2, <3>2, <3>4, <3>5 DEF TypeOK
  <2>3. CASE SavePlan(s)
    BY <1>1, <1>2, <2>3 DEF TypeOK, SavePlan, Goto
  <2> QED
    BY <2>1, <2>2, <2>3
<1>5. \A r \in Sessions \ {s} : pc'[r] = pc[r] /\ seen'[r] = seen[r]
  BY DEF TypeOK, ReadFingerprint, ReadLots, SavePlan, Read, Goto
<1>6. pc[s] # "done" /\ pc'[s] \notin {"writing", "file read"}
  BY DEF TypeOK, ReadFingerprint, ReadLots, SavePlan, Goto
<1>7. OneWriter'
  BY <1>2, <1>5, <1>6 DEF OneWriter
<1>8. RevertIsCurrent'
  BY <1>2, <1>5, <1>6 DEF RevertIsCurrent
<1>9. FileInRevert'
  BY <1>2, <1>5, <1>6 DEF FileInRevert, FileOf
<1>10. SavedOnce'
  BY <1>2, <1>5, <1>6 DEF TypeOK, SavedOnce
<1> QED
  BY <1>3, <1>4, <1>7, <1>8, <1>9, <1>10

LEMMA WaitKeeps ==
  ASSUME IInv, NEW s \in Sessions,
         CheckFile(s) \/ BeginToWrite(s) \/ RollBack(s) \/ ReadFile(s) \/ GiveUp(s)
  PROVE  IInv'
<1> USE SessionsAssumption DEF IInv
<1>1. UNCHANGED dbVars
  BY DEF CheckFile, BeginToWrite, RollBack, ReadFile, GiveUp
<1>2. used' = used /\ remaining' = remaining /\ drawn' = drawn /\ live' = live
      /\ saved' = saved /\ reverted' = reverted /\ confirmed' = confirmed
      /\ planned' = planned /\ fingerprint' = fingerprint /\ plan' = plan
  BY <1>1 DEF dbVars, lotVars, reqVars, planVars
<1>3. SavedFor(FileOf(s)) \subseteq saved
  BY DEF SavedFor
<1>4. TypeOK'
  <2>1. ASSUME NEW reqs \in SUBSET Sessions, Read(s, reqs)
        PROVE  seen' \in [Sessions -> [used : [Lots -> Nat], remaining : [Lots -> Nat],
                                       reqs : SUBSET Sessions, plan : [Lots -> Nat]]]
    <3>1. [used |-> used, remaining |-> remaining, reqs |-> reqs, plan |-> Nothing]
            \in [used : [Lots -> Nat], remaining : [Lots -> Nat],
                 reqs : SUBSET Sessions, plan : [Lots -> Nat]]
      BY NothingType DEF TypeOK
    <3> QED
      BY <2>1, <3>1 DEF TypeOK, Read
  <2>2. SavedFor(FileOf(s)) \in SUBSET Sessions
    BY <1>3 DEF TypeOK
  <2>3. CASE CheckFile(s)
    BY <1>2, <2>1, <2>3 DEF TypeOK, CheckFile, Goto
  <2>4. CASE ReadFile(s)
    BY <1>2, <2>1, <2>2, <2>4 DEF TypeOK, ReadFile, Goto
  <2>5. CASE BeginToWrite(s)
    BY <1>2, <2>5 DEF TypeOK, BeginToWrite, Goto
  <2>6. CASE RollBack(s) \/ GiveUp(s)
    BY <1>2, <2>6 DEF TypeOK, RollBack, GiveUp, Goto
  <2> QED
    BY <2>3, <2>4, <2>5, <2>6
<1>5. OneWriter' /\ SavedOnce'
  <2>1. \A r \in Sessions \ {s} : pc'[r] = pc[r]
    BY DEF TypeOK, CheckFile, BeginToWrite, RollBack, ReadFile, GiveUp, Goto
  <2>2. pc[s] # "done"
    BY DEF CheckFile, BeginToWrite, RollBack, ReadFile, GiveUp
  <2>3. SavedOnce'
    BY <1>2, <2>1, <2>2 DEF TypeOK, SavedOnce
  <2>4. CASE BeginToWrite(s)
    BY <2>1, <2>3, <2>4 DEF OneWriter, BeginToWrite, Free
  <2>5. CASE RollBack(s)
    <3>1. pc'[s] # "writing"
      BY <2>5 DEF TypeOK, RollBack, Goto
    <3>2. \A r \in Sessions \ {s} : pc[r] # "writing"
      BY <2>5 DEF OneWriter, RollBack
    <3> QED
      BY <2>1, <2>3, <3>1, <3>2 DEF OneWriter
  <2>6. CASE CheckFile(s) \/ ReadFile(s) \/ GiveUp(s)
    <3>1. pc'[s] # "writing" /\ lock' = lock
      BY <2>6 DEF TypeOK, CheckFile, ReadFile, GiveUp, Goto
    <3> QED
      BY <2>1, <2>3, <3>1 DEF OneWriter
  <2> QED
    BY <2>3, <2>4, <2>5, <2>6
<1>6. RevertIsCurrent'
  <2>1. CASE ReadFile(s)
    <3>1. SavedFor(FileOf(s)) \subseteq live
      BY <2>1 DEF ReadFile, SavedFor, RevertedWithFile
    <3> QED
      BY <1>2, <2>1, <3>1 DEF TypeOK, RevertIsCurrent, ReadFile, Read, Goto
  <2>2. CASE CheckFile(s)
    <3>1. \A r \in Sessions \ {s} : pc'[r] = pc[r] /\ seen'[r] = seen[r]
      BY <2>2 DEF TypeOK, CheckFile, Read, Goto
    <3>2. pc'[s] # "file read"
      BY <2>2 DEF TypeOK, CheckFile, Goto
    <3> QED
      BY <1>2, <3>1, <3>2 DEF RevertIsCurrent
  <2>3. CASE BeginToWrite(s) \/ RollBack(s) \/ GiveUp(s)
    <3>1. seen' = seen /\ \A r \in Sessions \ {s} : pc'[r] = pc[r]
      BY <2>3 DEF TypeOK, BeginToWrite, RollBack, GiveUp, Goto
    <3>2. pc'[s] # "file read"
      BY <2>3 DEF TypeOK, BeginToWrite, RollBack, GiveUp, Goto
    <3> QED
      BY <1>2, <3>1, <3>2 DEF RevertIsCurrent
  <2> QED
    BY <2>1, <2>2, <2>3
<1>7. FileInRevert'
  <2>1. CASE ReadFile(s)
    BY <1>2, <2>1 DEF TypeOK, FileInRevert, ReadFile, Read, Goto, SavedFor, FileOf
  <2>2. CASE CheckFile(s)
    BY <1>2, <2>2 DEF TypeOK, FileInRevert, CheckFile, Read, Goto, FileOf
  <2>3. CASE BeginToWrite(s) \/ RollBack(s) \/ GiveUp(s)
    <3>1. seen' = seen /\ pc' = [pc EXCEPT ![s] = pc'[s]] /\ pc'[s] # "file read"
      BY <2>3 DEF TypeOK, BeginToWrite, RollBack, GiveUp, Goto
    <3> QED
      BY <1>2, <3>1 DEF TypeOK, FileInRevert, FileOf
  <2> QED
    BY <2>1, <2>2, <2>3
<1> QED
  BY <1>1, <1>4, <1>5, <1>6, <1>7, DbKept

(* A confirmation adds to the lots what its requirement has drawn.         *)
LEMMA ConfirmationKeeps ==
  ASSUME IInv, NEW s \in Sessions, CommitConfirmation(s), Undisturbed(s)
  PROVE  IInv'
<1> USE SessionsAssumption DEF IInv
<1> DEFINE f == FileOf(s)
<1>1. f \in Files /\ plan[f] \in [Lots -> Nat]
  BY DEF FileOf, TypeOK
<1>2. \A l \in Lots : /\ used'[l] = used[l] + plan[f][l]
                       /\ remaining'[l] = remaining[l] - plan[f][l]
                       /\ plan[f][l] <= remaining[l]
  BY DEF CommitConfirmation, Balances, Enough
<1>3. /\ drawn' = [drawn EXCEPT ![s] = plan[f]]
      /\ saved' = saved \cup {s} /\ live' = live \cup {s}
      /\ confirmed' = confirmed \cup {f} /\ reverted' = reverted
      /\ planned' = planned /\ fingerprint' = fingerprint /\ plan' = plan
      /\ seen' = seen /\ lock' = Nobody /\ pc' = [pc EXCEPT ![s] = "done"]
  BY DEF CommitConfirmation, Goto, planVars
<1>4. TypeOK'
  <2>1. used' \in [Lots -> Nat] /\ remaining' \in [Lots -> Nat]
    <3> SUFFICES ASSUME NEW l \in Lots PROVE used'[l] \in Nat /\ remaining'[l] \in Nat
      BY DEF CommitConfirmation
    <3>1. used[l] \in Nat /\ remaining[l] \in Nat /\ plan[f][l] \in Nat
      BY <1>1 DEF TypeOK
    <3> QED
      BY <1>2, <3>1
  <2> QED
    BY <1>1, <1>3, <2>1 DEF TypeOK
<1>5. OneWriter' /\ SavedOnce'
  <2>1. \A r \in Sessions \ {s} : pc[r] # "writing"
    BY DEF OneWriter, CommitConfirmation
  <2>2. \A r \in Sessions \ {s} : pc'[r] = pc[r]
    BY <1>3 DEF TypeOK
  <2>3. pc'[s] = "done"
    BY <1>3 DEF TypeOK
  <2>4. OneWriter'
    BY <2>1, <2>2, <2>3 DEF OneWriter
  <2>5. SavedOnce'
    BY <1>3, <2>2, <2>3 DEF SavedOnce, TypeOK
  <2> QED
    BY <2>4, <2>5
<1>6. RevertIsCurrent' /\ FileInRevert'
  BY <1>3 DEF TypeOK, RevertIsCurrent, FileInRevert, FileOf, Undisturbed
<1>7. RevertedWithFile'
  BY <1>3 DEF RevertedWithFile, FileOf
<1>8. LotsMatchAllocations'
  <2> SUFFICES ASSUME NEW l \in Lots
               PROVE  used'[l] = DrawnBy(drawn', live', l)
                      /\ used'[l] + remaining'[l] = Stock[l]
    BY DEF LotsMatchAllocations, DrawnBy
  <2>1. used[l] = DrawnBy(drawn, live, l) /\ used[l] + remaining[l] = Stock[l]
        /\ used[l] \in Nat /\ remaining[l] \in Nat /\ plan[f][l] \in Nat
    BY <1>1 DEF LotsMatchAllocations, DrawnBy, TypeOK
  <2>2. s \notin live
    BY DEF TypeOK, SavedOnce, CommitConfirmation
  <2>3. drawn' \in [Sessions -> [Lots -> Nat]] /\ live \in SUBSET Sessions
    BY <1>4 DEF TypeOK
  <2>4. DrawnBy(drawn', live \cup {s}, l) = DrawnBy(drawn', live, l) + drawn'[s][l]
    <3> DEFINE e == drawn'
    <3>1. e \in [Sessions -> [Lots -> Nat]] /\ live \in SUBSET Sessions /\ s \in Sessions \ live
      BY <2>2, <2>3
    <3> HIDE SessionsAssumption DEF e, IInv
    <3>2. DrawnBy(e, live \cup {s}, l) = DrawnBy(e, live, l) + e[s][l]
      BY <3>1, DrawnByOne
    <3> QED
      BY <3>2 DEF e
  <2>5. DrawnBy(drawn', live, l) = DrawnBy(drawn, live, l)
    <3>1. \A r \in live : drawn'[r][l] = drawn[r][l]
      BY <1>3, <2>2 DEF TypeOK
    <3> QED
      BY <3>1, DrawnBySame
  <2>6. drawn'[s][l] = plan[f][l]
    BY <1>3 DEF TypeOK
  <2>7. used'[l] = DrawnBy(drawn', live', l)
    BY <1>2, <1>3, <2>1, <2>4, <2>5, <2>6
  <2> QED
    BY <1>2, <2>1, <2>7
<1> QED
  BY <1>4, <1>5, <1>6, <1>7, <1>8

(* A revert that nobody has disturbed gives back what it has read.         *)
LEMMA RevertKeeps ==
  ASSUME IInv, NEW s \in Sessions, CommitRevert(s), Undisturbed(s)
  PROVE  IInv'
<1> USE SessionsAssumption DEF IInv
<1> DEFINE S == seen[s].reqs
           given(l) == DrawnBy(drawn, S, l)
<1>1. S \subseteq live /\ live \subseteq saved /\ saved \subseteq Sessions
      /\ seen[s].used = used /\ seen[s].remaining = remaining
  BY DEF RevertIsCurrent, CommitRevert, TypeOK
<1>2. /\ live' = live \ S /\ reverted' = reverted \cup {FileOf(s)}
      /\ drawn' = drawn /\ saved' = saved /\ confirmed' = confirmed
      /\ planned' = planned /\ fingerprint' = fingerprint /\ plan' = plan
      /\ seen' = seen /\ lock' = lock /\ pc' = [pc EXCEPT ![s] = "done"]
  BY DEF CommitRevert, Goto, planVars
<1>3. ASSUME NEW l \in Lots
      PROVE  /\ given(l) \in Nat /\ DrawnBy(drawn, live \ S, l) \in Nat
             /\ used[l] = DrawnBy(drawn, live \ S, l) + given(l)
             /\ used[l] + remaining[l] = Stock[l]
             /\ used[l] \in Nat /\ remaining[l] \in Nat
  <2>1. drawn \in [Sessions -> [Lots -> Nat]] /\ S \in SUBSET Sessions
        /\ live \ S \in SUBSET Sessions
    BY <1>1 DEF TypeOK
  <2>2. given(l) \in Nat /\ DrawnBy(drawn, live \ S, l) \in Nat
    BY <2>1, DrawnByType
  <2>3. DrawnBy(drawn, (live \ S) \cup S, l) = DrawnBy(drawn, live \ S, l) + given(l)
    <3> DEFINE T == live \ S
    <3>1. T \cap S = {} /\ T \in SUBSET Sessions
      BY <2>1
    <3> HIDE SessionsAssumption DEF T, S, IInv
    <3>2. DrawnBy(drawn, T \cup S, l) = DrawnBy(drawn, T, l) + DrawnBy(drawn, S, l)
      BY <2>1, <3>1, DrawnApart
    <3> QED
      BY <3>2 DEF T
  <2>4. (live \ S) \cup S = live
    BY <1>1
  <2>5. used[l] = DrawnBy(drawn, live, l) /\ used[l] + remaining[l] = Stock[l]
        /\ used[l] \in Nat /\ remaining[l] \in Nat
    BY DEF LotsMatchAllocations, DrawnBy, TypeOK
  <2> QED
    BY <2>2, <2>3, <2>4, <2>5
<1>4. ASSUME NEW l \in Lots
      PROVE  used'[l] = used[l] - given(l) /\ remaining'[l] = remaining[l] + given(l)
  <2>1. /\ used'[l] = IF given(l) = 0 THEN used[l] ELSE Nonneg(seen[s].used[l] - given(l))
        /\ remaining'[l] = IF given(l) = 0 THEN remaining[l] ELSE seen[s].remaining[l] + given(l)
    BY DEF CommitRevert, DrawnBy
  <2> HIDE DEF given
  <2>2. given(l) \in Nat /\ used[l] - given(l) \in Nat /\ remaining[l] \in Nat /\ used[l] \in Nat
    BY <1>3
  <2> QED
    BY <1>1, <2>1, <2>2 DEF Nonneg
<1>5. TypeOK'
  <2>1. \A l \in Lots : used'[l] \in Nat /\ remaining'[l] \in Nat
    <3> SUFFICES ASSUME NEW l \in Lots PROVE used'[l] \in Nat /\ remaining'[l] \in Nat
      OBVIOUS
    <3> HIDE DEF given
    <3> QED
      BY <1>3, <1>4
  <2>2. used' \in [Lots -> Nat] /\ remaining' \in [Lots -> Nat]
    BY <2>1 DEF CommitRevert
  <2>3. FileOf(s) \in Files
    BY DEF FileOf
  <2>4. FileOf(s) \in confirmed
    BY DEF CommitRevert, FileInRevert
  <2> QED
    BY <1>1, <1>2, <2>2, <2>3, <2>4 DEF TypeOK
<1>6. OneWriter' /\ SavedOnce'
  BY <1>2 DEF TypeOK, OneWriter, SavedOnce, CommitRevert
<1>7. RevertIsCurrent' /\ FileInRevert'
  BY <1>2 DEF TypeOK, RevertIsCurrent, FileInRevert, FileOf, Undisturbed
<1>8. RevertedWithFile'
  <2>1. \A r \in S : FileOf(r) = FileOf(s)
    BY DEF CommitRevert, FileInRevert
  <2> QED
    BY <1>2, <2>1 DEF RevertedWithFile, FileOf
<1>9. LotsMatchAllocations'
  <2> SUFFICES ASSUME NEW l \in Lots
               PROVE  used'[l] = DrawnBy(drawn', live', l)
                      /\ used'[l] + remaining'[l] = Stock[l]
    BY DEF LotsMatchAllocations, DrawnBy
  <2>1. DrawnBy(drawn', live', l) = DrawnBy(drawn, live \ S, l)
    BY <1>2
  <2>2. used[l] = DrawnBy(drawn, live \ S, l) + given(l) /\ used[l] + remaining[l] = Stock[l]
        /\ given(l) \in Nat /\ used[l] \in Nat /\ remaining[l] \in Nat
        /\ DrawnBy(drawn, live \ S, l) \in Nat
    BY <1>3
  <2>3. used'[l] = used[l] - given(l) /\ remaining'[l] = remaining[l] + given(l)
    BY <1>4
  <2>4. Stock[l] \in Nat
    OBVIOUS
  <2> HIDE DEF given, IInv
  <2> QED
    BY <2>1, <2>2, <2>3, <2>4
<1> QED
  BY <1>5, <1>6, <1>7, <1>8, <1>9

LEMMA StepIInv == IInv /\ [\E s \in Sessions : QuietStep(s)]_vars => IInv'
<1> SUFFICES ASSUME IInv, [\E s \in Sessions : QuietStep(s)]_vars
             PROVE  IInv'
  OBVIOUS
<1>1. CASE UNCHANGED vars
  <2>1. UNCHANGED dbVars /\ pc' = pc /\ seen' = seen /\ lock' = lock
    BY <1>1 DEF vars
  <2>2. LotsMatchAllocations' /\ RevertedWithFile'
    BY <2>1, DbKept
  <2> QED
    BY <2>1, <2>2
    DEF dbVars, lotVars, reqVars, planVars, IInv, TypeOK, OneWriter, RevertIsCurrent,
        SavedOnce, FileInRevert, SavedFor, FileOf
<1>2. ASSUME NEW s \in Sessions, QuietStep(s)
      PROVE  IInv'
  <2>1. CASE ReadFingerprint(s) \/ ReadLots(s) \/ SavePlan(s)
    BY <2>1, PreviewKeeps
  <2>2. CASE CheckFile(s) \/ BeginToWrite(s) \/ RollBack(s) \/ ReadFile(s) \/ GiveUp(s)
    BY <2>2, WaitKeeps
  <2>3. CASE CommitConfirmation(s) \/ CommitRevert(s)
    <3>1. Undisturbed(s)
      BY <1>2, <2>3 DEF QuietStep, Commit
    <3> QED
      BY <2>3, <3>1, ConfirmationKeeps, RevertKeeps
  <2> QED
    BY <1>2, <2>1, <2>2, <2>3 DEF QuietStep, Step, Commit
<1> QED
  BY <1>1, <1>2

LEMMA Invariant == QuietSpec => []IInv
  BY InitIInv, StepIInv, PTL DEF QuietSpec

THEOREM TypeCorrect == QuietSpec => []TypeOK
<1>1. IInv => TypeOK
  BY DEF IInv
<1> QED
  BY <1>1, Invariant, PTL

(* confirm_match_run and revert_match_run in concurrent sessions: no unit  *)
(* is drawn twice and none is lost, if no other session commits between    *)
(* the queries of a revert and its commit.                                 *)
THEOREM BooksAgree == QuietSpec => []LotsMatchAllocations
<1>1. IInv => LotsMatchAllocations
  BY DEF IInv
<1> QED
  BY <1>1, Invariant, PTL
=============================================================================
