------------------------- MODULE MCContentPipeline -------------------------
(* Values for the constants of ContentPipeline.  A tick is 50 ms.          *)
EXTENDS ContentPipeline

(* A plan of two scenes; one whose first shots are a frame or two long     *)
(* (nothing bounds what the model allocates); one shorter than the         *)
(* narration.                                                              *)
SomeShots == {<<360, 440>>, <<1, 1, 798>>, <<135, 165>>}

(* Fits every shot plan above, begins behind the cut of the first only     *)
(* (and straddles it), begins too late, begins before zero.                *)
At(s, d) == [start |-> s, duration |-> d]
SomeVisuals == {<<At(2, 100)>>, <<At(140, 20), At(359, 30)>>, <<At(820, 40)>>,
                <<At(0 - 1, 40)>>}

(* Unusable, short, near the budget, within its tolerance, beyond it.      *)
SomeNarrations == {0, 201, 897, 903, 1000}

Plain == [render |-> "work", thumbnail |-> "work", publish |-> "work",
          topic_output |-> FALSE, dry_run |-> FALSE, strict |-> FALSE]
SomeEnvironments == {Plain,
    [Plain EXCEPT !.render = "elsewhere", !.strict = TRUE],
    [Plain EXCEPT !.dry_run = TRUE, !.topic_output = TRUE]}
=============================================================================
