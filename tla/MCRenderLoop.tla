---------------------------- MODULE MCRenderLoop ----------------------------
(***************************************************************************)
(* RenderLoop on small instances: one or two scenes, two prompts, one      *)
(* extra for the workflow and a chain of three models of which the first   *)
(* two predict an improvement.                                             *)
(***************************************************************************)
EXTENDS RenderLoop

CONSTANTS S1, S2, p1, p2, tokens

OneScene == {S1}
TwoScenes == {S1, S2}
TwoPrompts == {p1, p2}
OneExtra == {tokens}

(* Sessions with a plan that directs the model, without one, or both.      *)
AnyModel == Models
AnyPlan == {NoModel} \cup Models
=============================================================================
