--------------------------- MODULE MCAtomicWrites ---------------------------
(***************************************************************************)
(* AtomicWrites on small instances: two windows that write the knowledge   *)
(* base or one that edits a production, beside a third that loads them.    *)
(***************************************************************************)
EXTENDS AtomicWrites

CONSTANTS w1, w2, w3

Windows3 == {w1, w2, w3}
CsvAndProduction == {"csv", "production"}

(* save_csv and load_csv; production_create, _save and _load.              *)
Commands == [k \in CsvAndProduction |-> [c \in Windows3 |->
    CASE c = w3 -> {"load"}
      [] k = "csv" -> {"write"}
      [] c = w1 -> {"create", "save"}
      [] OTHER -> {}]]
=============================================================================
