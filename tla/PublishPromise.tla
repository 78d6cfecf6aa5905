--------------------------- MODULE PublishPromise ---------------------------
(***************************************************************************)
(* What publishing promises (prompts/16_publisher.md, sections 6 and 7):   *)
(* one invocation puts at most one video on the platform, and answers with *)
(* it only when it is there, with its thumbnail.  A video may still appear *)
(* after its invocation failed: a request can arrive after its sender gave *)
(* up waiting.                                                             *)
(***************************************************************************)
CONSTANTS
    Calls,       \* invocations of publish()
    Videos,      \* what the platform may name a video
    Thumbnailed  \* calls that are given a thumbnail file

VARIABLES
    outcome,  \* of each call: "none", "running", "ok" or "failed"
    videos,   \* of each call: the videos it put on the platform
    dressed   \* videos that have their thumbnail

vars == <<outcome, videos, dressed>>

Init ==
    /\ outcome = [c \in Calls |-> "none"]
    /\ videos = [c \in Calls |-> {}]
    /\ dressed = {}

Begin(c) ==
    /\ outcome[c] = "none"
    /\ outcome' = [outcome EXCEPT ![c] = "running"]
    /\ UNCHANGED <<videos, dressed>>

(* The only video of a call appears.                                       *)
Appear(c) ==
    /\ outcome[c] # "none" /\ videos[c] = {}
    /\ \E v \in Videos : videos' = [videos EXCEPT ![c] = {v}]
    /\ UNCHANGED <<outcome, dressed>>

Dress(v) ==
    /\ \E c \in Calls : v \in videos[c]
    /\ dressed' = dressed \cup {v}
    /\ UNCHANGED <<outcome, videos>>

Succeed(c) ==
    /\ outcome[c] = "running"
    /\ videos[c] # {}
    /\ c \in Thumbnailed => videos[c] \subseteq dressed
    /\ outcome' = [outcome EXCEPT ![c] = "ok"]
    /\ UNCHANGED <<videos, dressed>>

Fail(c) ==
    /\ outcome[c] \in {"none", "running"}
    /\ outcome' = [outcome EXCEPT ![c] = "failed"]
    /\ UNCHANGED <<videos, dressed>>

Next ==
    \/ \E c \in Calls : Begin(c) \/ Appear(c) \/ Succeed(c) \/ Fail(c)
    \/ \E v \in Videos : Dress(v)

Spec == Init /\ [][Next]_vars
=============================================================================
