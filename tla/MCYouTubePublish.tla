-------------------------- MODULE MCYouTubePublish --------------------------
(***************************************************************************)
(* YouTubePublish on small instances: two calls for one job, the first one *)
(* with a thumbnail, two attempts at every step.                           *)
(***************************************************************************)
EXTENDS YouTubePublish

FirstCall == {1}
=============================================================================
