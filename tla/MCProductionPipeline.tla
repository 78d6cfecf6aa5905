------------------------ MODULE MCProductionPipeline ------------------------
(***************************************************************************)
(* ProductionPipeline on small instances.  Two rows, "r1" publishable and  *)
(* "r2" in a category YouTube has no id for, two seeds, and the requests   *)
(* each run of TLC lets the operator choose from.                          *)
(***************************************************************************)
EXTENDS ProductionPipeline

CONSTANTS r1, r2, s1, s2, short, long

OneRow == {r1}
TwoRows == {r1, r2}
OneSeed == {s1}
TwoSeeds == {s1, s2}
BothDurations == {short, long}
(* r1 has one scene less than r2, or both as many.                         *)
SameLength == [r \in Rows |-> 2]
Longer == [r \in Rows |-> IF r = r1 THEN 1 ELSE 2]
FirstScene == [r \in Rows |-> 1]

(* knowledge_load finds r2 invalid; the second scene of r2 is rejected     *)
(* with the second seed.                                                   *)
Nothing == {}
InvalidRow == {<<r2, knowledge_load>>}
BadScene == {<<r2, s2, 2>>}

DurationOf == [r \in Rows |-> IF r = r1 THEN short ELSE long]

Fresh(row, seed) ==
    [row |-> row, seed |-> seed, publish |-> TRUE, resume |-> FALSE]
Resumed(row, seed) == [Fresh(row, seed) EXCEPT !.resume = TRUE]
Dry(request_) == [request_ EXCEPT !.publish = FALSE]

(* One Short, resumed until it is complete, and in between one whose row   *)
(* is refused.                                                             *)
SteadyResume == {Resumed(r1, s1), Resumed(r2, s1)}

(* Fresh and resumed runs of different rows and seeds in one directory.    *)
Mixed == {Fresh(r1, s1), Resumed(r1, s1), Resumed(r1, s2),
          Dry(Resumed(r2, s1)), Fresh(r2, s2)}

(* "Regenerate": a run, then a resumed one with the next seed.             *)
Regenerate == {Fresh(r1, s1), Resumed(r1, s2)}
=============================================================================
