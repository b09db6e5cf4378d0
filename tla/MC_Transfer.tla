----------------------------- MODULE MC_Transfer -----------------------------
(* Instances of Transfer for TLC. *)
EXTENDS Transfer, TLC

CONSTANTS t1, t2, photo, notes

MCTransfers == {t1, t2}
MCFragile == {t1}
MCNames == {photo, notes}

(* A folder of two files, and one file that has the name of one of them. *)
MCEntries == (t1 :> <<photo, notes>>) @@ (t2 :> <<photo>>)

(* The folder is begun first. *)
OrderedSpec ==
  /\ Init /\ [][Next /\ (sender[t1] = "idle" => sender'[t2] = "idle")]_vars
  /\ Fairness
==============================================================================
