------------------------------ MODULE Sessions ------------------------------
(***************************************************************************)
(* Requests that run at the same time, each in a database session of its   *)
(* own (app/db.py): preview_export_run, confirm_match_run and              *)
(* revert_match_run of app/services/uploads.py, query by query.            *)
(*                                                                         *)
(* SQLite, as the engine is set up here, begins a transaction with the     *)
(* first statement that writes.  A query before it sees the last commit    *)
(* and holds nothing; a write waits for the one writer there may be, and   *)
(* gives up after some seconds.  A session is flushed only where the code  *)
(* says so, and it writes the values it has computed from what it has      *)
(* read.  confirm_match_run flushes before it reads a lot; the other two   *)
(* write in their commit.                                                  *)
(*                                                                         *)
(* A file has one row here.  That a lot read by the fingerprint is read    *)
(* again by db.get is due to the session's weak references.                *)
(***************************************************************************)
EXTENDS Fifo

CONSTANTS
    Lots,       \* active import lots of one part number
    LotRank,    \* their order: date, declaration, line and row number
    Stock,      \* their quantity, all of it unused at first
    Files,      \* uploaded export files
    Need,       \* the quantity a file requires
    Sessions,   \* requests
    Task,       \* what a request does, and to which file
    Nobody

ASSUME SessionsAssumption ==
    /\ IsFiniteSet(Lots) /\ IsFiniteSet(Sessions)
    /\ LotRank \in [Lots -> Nat]
    /\ \A k, l \in Lots : LotRank[k] = LotRank[l] => k = l
    /\ Stock \in [Lots -> Nat]
    /\ Need \in [Files -> Nat \ {0}]
    /\ Task \in [Sessions -> [op : {"preview", "confirm", "revert"}, file : Files]]
    /\ \A r, s \in Sessions : Task[r] = Task[s] /\ Task[r].op = "preview" => r = s
    /\ Nobody \notin Sessions

VARIABLES
    used, remaining,  \* the lots, as committed
    planned,          \* files with a plan
    fingerprint,      \* the inventory of which a plan's fingerprint was taken
    plan,             \* what the plan draws from each lot
    confirmed, reverted,  \* files with the time stamp set
    drawn,            \* allocations inserted by a confirming session
    saved,            \* sessions that have inserted a requirement
    live,             \* those whose requirement is not marked as reverted
    pc,               \* where a session is
    seen,             \* what it has read
    lock              \* the session that has begun to write, or Nobody

lotVars  == <<used, remaining>>
planVars == <<planned, fingerprint, plan>>
reqVars  == <<drawn, saved, live>>
dbVars   == <<lotVars, planVars, confirmed, reverted, reqVars>>
vars     == <<dbVars, pc, seen, lock>>

Nothing == [l \in Lots |-> 0]

FileOf(s) == Task[s].file

(* The sessions that have inserted a requirement of a file.                *)
SavedFor(f) == {s \in saved : FileOf(s) = f}

Init ==
    /\ used = Nothing
    /\ remaining = Stock
    /\ planned = {}
    /\ fingerprint = [f \in Files |-> Nothing]
    /\ plan = [f \in Files |-> Nothing]
    /\ confirmed = {} /\ reverted = {}
    /\ drawn = [s \in Sessions |-> Nothing]
    /\ saved = {} /\ live = {}
    /\ pc = [s \in Sessions |-> "start"]
    /\ seen = [s \in Sessions |-> [used |-> Nothing, remaining |-> Nothing,
                                  reqs |-> {}, plan |-> Nothing]]
    /\ lock = Nobody

Goto(s, place) == pc' = [pc EXCEPT ![s] = place]

(* What a query outside of a transaction returns.                          *)
Read(s, reqs) ==
    seen' = [seen EXCEPT ![s] = [used |-> used, remaining |-> remaining,
                                 reqs |-> reqs, plan |-> Nothing]]

Free == lock = Nobody
-----------------------------------------------------------------------------
(* plan_export_rows for a file of one row.                                 *)
PlanFrom(f, balance) ==
    LET takes == FifoTake([g \in {f} |-> Need[g]], balance, [g \in {f} |-> {}],
                          [l \in Lots |-> {k \in Lots : LotRank[k] < LotRank[l]}],
                          {f} \X Lots)
    IN  [l \in Lots |-> takes[<<f, l>>]]

(* preview_export_run reads the lots twice: for the fingerprint, and for   *)
(* the plan.                                                               *)
ReadFingerprint(s) ==
    /\ Task[s].op = "preview"
    /\ pc[s] = "start"
    /\ Read(s, {})
    /\ Goto(s, "fingerprint read")
    /\ UNCHANGED <<dbVars, lock>>

ReadLots(s) ==
    /\ pc[s] = "fingerprint read"
    /\ seen' = [seen EXCEPT ![s].plan = PlanFrom(FileOf(s), remaining)]
    /\ Goto(s, "plan made")
    /\ UNCHANGED <<dbVars, lock>>

SavePlan(s) ==
    /\ pc[s] = "plan made"
    /\ Free
    /\ planned' = planned \cup {FileOf(s)}
    /\ fingerprint' = [fingerprint EXCEPT ![FileOf(s)] = seen[s].remaining]
    /\ plan' = [plan EXCEPT ![FileOf(s)] = seen[s].plan]
    /\ Goto(s, "done")
    /\ UNCHANGED <<lotVars, confirmed, reverted, reqVars, seen, lock>>
-----------------------------------------------------------------------------
(* The checks of confirm_match_run; the balances tell the inventory.  What *)
(* the fingerprint has read is not used again.                             *)
CheckFile(s) ==
    LET f == FileOf(s)
    IN  /\ Task[s].op = "confirm"
        /\ pc[s] = "start"
        /\ f \in planned
        /\ f \notin confirmed \cup reverted
        /\ Read(s, {})
        /\ fingerprint[f] = remaining
        /\ Goto(s, "checked")
        /\ UNCHANGED <<dbVars, lock>>

(* The flush of the first requirement.                                     *)
BeginToWrite(s) ==
    /\ pc[s] = "checked"
    /\ Free
    /\ lock' = s
    /\ Goto(s, "writing")
    /\ UNCHANGED <<dbVars, seen>>

Faulty_Balances(s) == seen[s]

(* db.get reads the lot after the flush: nobody else writes any more.      *)
Balances(s) == [used |-> used, remaining |-> remaining]

Faulty_Enough(s) == TRUE

Enough(s) == \A l \in Lots : plan[FileOf(s)][l] <= Balances(s).remaining[l]

CommitConfirmation(s) ==
    LET f == FileOf(s)
    IN  /\ pc[s] = "writing"
        /\ Enough(s)
        /\ used' = [l \in Lots |-> Balances(s).used[l] + plan[f][l]]
        /\ remaining' = [l \in Lots |-> Balances(s).remaining[l] - plan[f][l]]
        /\ drawn' = [drawn EXCEPT ![s] = plan[f]]
        /\ saved' = saved \cup {s} /\ live' = live \cup {s}
        /\ confirmed' = confirmed \cup {f}
        /\ lock' = Nobody
        /\ Goto(s, "done")
        /\ UNCHANGED <<planVars, reverted, seen>>

RollBack(s) ==
    /\ pc[s] = "writing"
    /\ ~Enough(s)
    /\ lock' = Nobody
    /\ Goto(s, "failed")
    /\ UNCHANGED <<dbVars, seen>>
-----------------------------------------------------------------------------
(* revert_match_run reads the requirements, their allocations and the lots *)
(* of the file ...                                                         *)
ReadFile(s) ==
    LET f == FileOf(s)
    IN  /\ Task[s].op = "revert"
        /\ pc[s] = "start"
        /\ f \in confirmed \ reverted
        /\ Read(s, SavedFor(f))
        /\ Goto(s, "file read")
        /\ UNCHANGED <<dbVars, lock>>

(* ... and writes each lot it gives something back to.                     *)
CommitRevert(s) ==
    LET given(l) == Total([r \in seen[s].reqs |-> drawn[r][l]], seen[s].reqs)
    IN  /\ pc[s] = "file read"
        /\ Free
        /\ used' = [l \in Lots |->
                IF given(l) = 0 THEN used[l] ELSE Nonneg(seen[s].used[l] - given(l))]
        /\ remaining' = [l \in Lots |->
                IF given(l) = 0 THEN remaining[l] ELSE seen[s].remaining[l] + given(l)]
        /\ live' = live \ seen[s].reqs
        /\ reverted' = reverted \cup {FileOf(s)}
        /\ Goto(s, "done")
        /\ UNCHANGED <<planVars, confirmed, drawn, saved, seen, lock>>

(* The lock is not to be had: "database is locked".                        *)
GiveUp(s) ==
    /\ pc[s] \in {"plan made", "checked", "file read"}
    /\ ~Free
    /\ Goto(s, "failed")
    /\ UNCHANGED <<dbVars, seen, lock>>

Commit(s) == SavePlan(s) \/ CommitConfirmation(s) \/ CommitRevert(s)

Step(s) ==
    \/ ReadFingerprint(s) \/ ReadLots(s)
    \/ CheckFile(s) \/ BeginToWrite(s) \/ RollBack(s)
    \/ ReadFile(s)
    \/ Commit(s)
    \/ GiveUp(s)

Spec == Init /\ [][\E s \in Sessions : Step(s)]_vars

(* While a file is being reverted nobody else commits.                     *)
Undisturbed(s) == \A r \in Sessions \ {s} : pc[r] # "file read"

QuietStep(s) == Step(s) /\ (Commit(s) => Undisturbed(s))

QuietSpec == Init /\ [][\E s \in Sessions : QuietStep(s)]_vars
-----------------------------------------------------------------------------
TypeOK ==
    /\ used \in [Lots -> Nat] /\ remaining \in [Lots -> Nat]
    /\ planned \subseteq Files
    /\ fingerprint \in [Files -> [Lots -> Nat]]
    /\ plan \in [Files -> [Lots -> Nat]]
    /\ confirmed \subseteq Files /\ reverted \subseteq confirmed
    /\ drawn \in [Sessions -> [Lots -> Nat]]
    /\ saved \subseteq Sessions /\ live \subseteq saved
    /\ pc \in [Sessions -> {"start", "fingerprint read", "plan made", "checked", "writing",
                            "file read", "done", "failed"}]
    /\ seen \in [Sessions -> [used : [Lots -> Nat], remaining : [Lots -> Nat],
                              reqs : SUBSET Sessions, plan : [Lots -> Nat]]]
    /\ lock \in Sessions \cup {Nobody}

(* README.md:16 and docs/superpowers/plans say that a confirmation and a   *)
(* revert are atomic.  Then what is used of a lot is what the requirements *)
(* that have not been reverted have drawn from it, nothing is drawn that   *)
(* was not there, and nothing is lost.                                     *)
LotsMatchAllocations ==
    \A l \in Lots :
        /\ used[l] = Total([s \in live |-> drawn[s][l]], live)
        /\ used[l] + remaining[l] = Stock[l]
=============================================================================
