------------------------- MODULE MCScriptWorkbench -------------------------
(***************************************************************************)
(* ScriptWorkbench on a knowledge base of three rows: the query finds the  *)
(* second, the third is invalid as delivered, in the second window of two  *)
(* rows, and the only one of its category.  Sorted, the second comes       *)
(* first, or the other way round last.                                     *)
(***************************************************************************)
EXTENDS ScriptWorkbench

CONSTANTS cooling, adhesion, infill, listed, imported

ThreeTopics == <<cooling, adhesion, infill>>
OneListed == <<listed>>
OneImported == <<imported>>
Found == {adhesion}
Unsound == {infill}
Alphabetical == [topic \in Topics |-> IF topic = adhesion THEN 0 ELSE
                                      IF topic = infill THEN 2 ELSE 1]
=============================================================================
