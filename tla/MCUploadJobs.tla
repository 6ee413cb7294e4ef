---------------------------- MODULE MCUploadJobs ----------------------------
(* The first import file has a conflict in its last, incomplete chunk, the *)
(* second has a length that is a multiple of the chunk; both are confirmed *)
(* on the review page.  Clients of the JSON routes have an export file and *)
(* an import file that the parser gives up on.                             *)
EXTENDS FileStore

MCBatches == {"i1", "i2", "e", "x", "big", "empty"}
MCKind == [b \in Batches |-> IF b = "e" THEN "exports" ELSE "imports"]
MCRowsOf == [b \in Batches |->
    CASE b = "i1" -> <<"new", "new", "conflict">>
      [] b = "i2" -> <<"new", "new">>
      [] b \in {"e", "x"} -> <<"new", "new", "new">>
      [] OTHER -> <<"new">>]

(* A file may come in one chunk or two, be too large, or be empty.         *)
MCStream == [b \in Batches |->
    CASE b = "i1" -> <<2, 1>>
      [] b = "big" -> <<2, 2>>
      [] b = "empty" -> <<>>
      [] OTHER -> <<1>>]

(* Files are uploaded in this order; those uploaded before are still being *)
(* processed when the next one comes.                                      *)
Rank(b) == CHOOSE i \in 1 .. 6 : <<"empty", "big", "x", "i2", "e", "i1">>[i] = b
InOrder ==
    \A b, c \in Batches :
        storing[c] # storing'[c] /\ Rank(b) < Rank(c) => storing[b] # "none"
=============================================================================
