------------------------- MODULE MCImageGeneration -------------------------
(***************************************************************************)
(* ImageGeneration on small instances: frames the prompt validator gave    *)
(* just its bar, or all points; and scenes of the legacy path that pass    *)
(* never, at once, and when they are rendered again.                       *)
(***************************************************************************)
EXTENDS ImageGeneration

Frame(score, thumb) == [score |-> score, thumb |-> thumb, cues |-> {}]
Scene(cues) == [score |-> NoScore, thumb |-> FALSE, cues |-> cues]

Videos == {<<Frame(100, FALSE), Frame(95, TRUE)>>,
           <<Scene({"teaching", "lighting"}), Scene({})>>,
           <<Scene(Cues), Scene({"focus", "camera"})>>}
AllSettings == [critic : BOOLEAN, strict : BOOLEAN]
=============================================================================
