---------------------------- MODULE FifoService -----------------------------
(***************************************************************************)
(* What an allocator promises: one call answers a request with the FIFO    *)
(* allocation, all at once.  PlanLoop and MatchLoop implement it.          *)
(***************************************************************************)
EXTENDS Fifo

CONSTANTS Demands,      \* rows to serve, numbered in the order they are served
          Lots,         \* lots, numbered by declaration, line and row number
          Parts,        \* normalised part numbers
          Dates,        \* acceptance dates, as numbers
          Needs,        \* quantities a row may require
          Balances,     \* remaining quantities a lot may have
          Unanswered    \* the answer before the call returns

VARIABLES request, answer

Requests == [need : [Demands -> Needs], wants : [Demands -> Parts],
             avail : [Lots -> Balances], holds : [Lots -> Parts],
             date : [Lots -> Dates]]

(* FIFO order of two lots: acceptance date, then declaration, line, row.   *)
OlderThan(r, l, m) ==
    \/ r.date[l] < r.date[m]
    \/ r.date[l] = r.date[m] /\ l < m

Sooner(r) == [e \in Demands |-> {d \in Demands : d < e /\ r.wants[d] = r.wants[e]}]
Older(r)  == [l \in Lots |-> {m \in Lots : OlderThan(r, m, l) /\ r.holds[m] = r.holds[l]}]
Fits(r)   == {p \in Demands \X Lots : r.wants[p[1]] = r.holds[p[2]]}

Allocation(r) == FifoTake(r.need, r.avail, Sooner(r), Older(r), Fits(r))

Init == request \in Requests /\ answer = Unanswered

Answer ==
    /\ answer = Unanswered
    /\ answer' = Allocation(request)
    /\ UNCHANGED request

SafeSpec == Init /\ [][Answer]_<<request, answer>>

Spec == SafeSpec /\ WF_<<request, answer>>(Answer)
=============================================================================
