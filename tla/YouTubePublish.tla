--------------------------- MODULE YouTubePublish ---------------------------
(***************************************************************************)
(* YouTubeProvider.publish (src/src/pr1me/providers/youtube.py): renew the *)
(* token, open a resumable upload session, put the media, set the          *)
(* thumbnail, fetch the resource.  Every step is one request that is sent  *)
(* again after a timeout, a transport error or a retryable status, at most *)
(* MaxRetries times.  A pipeline that failed calls publish() again for the *)
(* same Short: all calls here are for one job.                             *)
(*                                                                         *)
(* The platform is external.  A request the provider stopped waiting for   *)
(* may never arrive, or be served at any later time; putting the media     *)
(* into a session that has its video already changes nothing.  A video is  *)
(* named by its session, a session by the request that opened it.          *)
(***************************************************************************)
EXTENDS Naturals, FiniteSets

CONSTANTS
    MaxCalls,     \* bound: calls of publish() for this job
    MaxRetries,   \* max_retries: attempts at a step, at least one
    CanRefresh,   \* refresh token, client id and client secret are given
    Thumbnailed   \* calls that are given a thumbnail file

Calls == 1..MaxCalls
Sessions == Calls \X (1..MaxRetries)
NoSession == <<0, 0>>

ASSUME ConstantsAssumption ==
    /\ MaxCalls \in Nat /\ MaxRetries \in Nat \ {0}
    /\ CanRefresh \in BOOLEAN /\ Thumbnailed \subseteq Calls

VARIABLES
    (* publish() *)
    call,      \* the last call made
    phase,     \* the step it is at, "idle" between calls
    attempt,   \* in _retried, from 1
    flight,    \* the attempt's request: "none" yet, "sent" or "served"
    uri,       \* upload_uri: the session that was answered
    outcome,   \* of each call
    (* The token *)
    access,    \* _access_token is set
    expires,   \* _expires_at: "unknown", "ahead" or "passed"
    alive,     \* the platform accepts the token
    captured,  \* what alive was when this call took the token
    (* The platform *)
    sessions,  \* open upload sessions
    finished,  \* those whose video is on the platform
    thumbs,    \* those whose video has its thumbnail
    late       \* requests nobody waits for that may still be served

token == <<access, expires, alive, captured>>
platform == <<sessions, finished, thumbs>>
vars == <<call, phase, attempt, flight, uri, outcome,
          access, expires, alive, captured, sessions, finished, thumbs, late>>

Steps == {"token", "initialize", "upload", "thumbnail", "verify"}

-----------------------------------------------------------------------------
Init ==
    /\ call = 0 /\ phase = "idle" /\ attempt = 1 /\ flight = "none"
    /\ uri = NoSession
    /\ outcome = [c \in Calls |-> "none"]
    /\ access \in BOOLEAN /\ (access \/ CanRefresh)
    /\ expires = "unknown"
    /\ alive \in {FALSE, access}
    /\ captured = FALSE
    /\ sessions = {} /\ finished = {} /\ thumbs = {} /\ late = {}

(* Mutant: a token whose time has passed is used again.                    *)
NeedsRefreshMutant == CanRefresh /\ ~access

(* _ensure_token: is the token renewed before it is used?                  *)
NeedsRefresh == CanRefresh /\ (~access \/ expires = "passed")

(* publish() is called and the files are read.                             *)
Publish ==
    /\ phase = "idle" /\ call < MaxCalls
    /\ call' = call + 1
    /\ outcome' = [outcome EXCEPT ![call + 1] = "running"]
    /\ phase' = IF NeedsRefresh THEN "token" ELSE "initialize"
    /\ captured' = alive
    /\ attempt' = 1 /\ flight' = "none" /\ uri' = NoSession
    /\ UNCHANGED <<access, expires, alive, platform, late>>

(* A file is missing, empty or unreadable: nothing is sent.                *)
AssetMissing ==
    /\ phase = "idle" /\ call < MaxCalls
    /\ call' = call + 1
    /\ outcome' = [outcome EXCEPT ![call + 1] = "failed"]
    /\ UNCHANGED <<phase, attempt, flight, uri, token, platform, late>>

Finish(result) ==
    /\ outcome' = [outcome EXCEPT ![call] = result]
    /\ phase' = "idle" /\ flight' = "none"
    /\ UNCHANGED attempt

Proceed(step) ==
    /\ phase' = step /\ attempt' = 1 /\ flight' = "none"
    /\ UNCHANGED outcome

(* The session the step's request is about.                                *)
Target == IF phase = "initialize" THEN <<call, attempt>> ELSE uri

(* _retried: the next attempt of the step.                                 *)
Send ==
    /\ phase \in Steps /\ flight = "none"
    /\ attempt <= MaxRetries
    /\ flight' = "sent"
    /\ UNCHANGED <<call, phase, attempt, uri, outcome, token, platform, late>>

(* What serving a request does on the platform.                            *)
Effect(step, s) ==
    /\ sessions' = IF step = "initialize" THEN sessions \cup {s} ELSE sessions
    /\ finished' = IF step = "upload" THEN finished \cup {s} ELSE finished
    /\ thumbs' = IF step = "thumbnail" THEN thumbs \cup {s} ELSE thumbs

(* Putting the media carries no token, the session's URI is enough.        *)
Authorized == phase \in {"initialize", "thumbnail", "verify"} => alive

Serve ==
    /\ flight = "sent" /\ Authorized
    /\ flight' = "served"
    /\ Effect(phase, Target)
    /\ UNCHANGED <<call, phase, attempt, uri, outcome, token, late>>

(* A request nobody waits for any more is served.                          *)
ServeLate ==
    /\ \E r \in late : Effect(r.step, r.session) /\ late' = late \ {r}
    /\ UNCHANGED <<call, phase, attempt, flight, uri, outcome, token>>

-----------------------------------------------------------------------------
(* The answers, by step.                                                   *)

(* The refresh grant: a new token, with or without a time it expires at.   *)
Renewed ==
    /\ phase = "token" /\ flight = "served"
    /\ access' = TRUE /\ alive' = TRUE /\ captured' = TRUE
    /\ expires' \in {"unknown", "ahead", "passed"}
    /\ Proceed("initialize")
    /\ UNCHANGED <<call, uri, platform, late>>

Opened ==
    /\ phase = "initialize" /\ flight = "served"
    /\ uri' = Target
    /\ Proceed("upload")
    /\ UNCHANGED <<call, token, platform, late>>

(* Mutant: the thumbnail waits for the video to be verified, and is then   *)
(* forgotten.                                                              *)
UploadedMutant ==
    /\ phase = "upload" /\ flight = "served"
    /\ Proceed("verify")
    /\ UNCHANGED <<call, uri, token, platform, late>>

Uploaded ==
    /\ phase = "upload" /\ flight = "served"
    /\ Proceed(IF call \in Thumbnailed THEN "thumbnail" ELSE "verify")
    /\ UNCHANGED <<call, uri, token, platform, late>>

Dressed ==
    /\ phase = "thumbnail" /\ flight = "served"
    /\ Proceed("verify")
    /\ UNCHANGED <<call, uri, token, platform, late>>

Verified ==
    /\ phase = "verify" /\ flight = "served"
    /\ Finish("ok")
    /\ UNCHANGED <<call, uri, token, platform, late>>

-----------------------------------------------------------------------------
(* The request of the attempt is given up; it may be on its way.           *)
Abandon ==
    \/ UNCHANGED late
    \/ /\ flight = "sent" /\ phase \in {"initialize", "upload", "thumbnail"}
       /\ late' = late \cup {[step |-> phase, session |-> Target]}

(* Mutant: the attempts are not counted.                                   *)
RetryForever ==
    /\ flight \in {"sent", "served"}
    /\ Abandon
    /\ flight' = "none"
    /\ UNCHANGED <<call, phase, attempt, uri, outcome, token, platform>>

(* Mutant: one attempt too many.                                           *)
RetryOnceMore ==
    /\ flight \in {"sent", "served"}
    /\ Abandon
    /\ IF attempt <= MaxRetries
       THEN /\ attempt' = attempt + 1 /\ flight' = "none"
            /\ UNCHANGED <<phase, outcome>>
       ELSE Finish("failed")
    /\ UNCHANGED <<call, uri, token, platform>>

(* Mutant: a failed upload starts over with a session of its own, and with *)
(* the attempts that are left.                                             *)
RetryFromStart ==
    /\ flight \in {"sent", "served"}
    /\ Abandon
    /\ IF attempt < MaxRetries
       THEN /\ attempt' = attempt + 1 /\ flight' = "none"
            /\ phase' = IF phase = "upload" THEN "initialize" ELSE phase
            /\ UNCHANGED outcome
       ELSE Finish("failed")
    /\ UNCHANGED <<call, uri, token, platform>>

(* A timeout, a transport error or a retryable status, whatever the        *)
(* platform did: another attempt while there is one left.                  *)
Retry ==
    /\ flight \in {"sent", "served"}
    /\ Abandon
    /\ IF attempt < MaxRetries
       THEN /\ attempt' = attempt + 1 /\ flight' = "none"
            /\ UNCHANGED <<phase, outcome>>
       ELSE Finish("failed")
    /\ UNCHANGED <<call, uri, token, platform>>

(* Any other status, or an answer that lacks what is read from it: the     *)
(* call fails at once.                                                     *)
Reject ==
    /\ flight \in {"sent", "served"}
    /\ Finish("failed")
    /\ UNCHANGED <<call, uri, token, platform, late>>

(* The renewal margin is reached, the provider will not use the token in   *)
(* another call.                                                           *)
TokenPasses ==
    /\ expires = "ahead"
    /\ expires' = "passed"
    /\ UNCHANGED <<call, phase, attempt, flight, uri, outcome, access, alive,
                   captured, platform, late>>

(* The platform stops accepting the token.                                 *)
TokenDies ==
    /\ alive /\ expires # "ahead"
    /\ alive' = FALSE
    /\ UNCHANGED <<call, phase, attempt, flight, uri, outcome, access,
                   expires, captured, platform, late>>

Answer == Renewed \/ Opened \/ Uploaded \/ Dressed \/ Verified
Provider == Send \/ Answer \/ Retry \/ Reject

Next ==
    \/ Publish \/ AssetMissing
    \/ Provider
    \/ Serve \/ ServeLate
    \/ TokenPasses \/ TokenDies

Spec == Init /\ [][Next]_vars

(* Whatever the platform does, wait_for ends each attempt: the coroutine   *)
(* goes on.                                                                *)
FairSpec == Spec /\ WF_vars(Provider)

-----------------------------------------------------------------------------
(* Properties                                                              *)

(* Every variable keeps its shape; videos belong to open sessions and      *)
(* thumbnails to videos.                                                   *)
TypeOK ==
    /\ call \in 0..MaxCalls
    /\ phase \in Steps \cup {"idle"}
    /\ attempt \in Nat \ {0} /\ (attempt > 1 => attempt <= MaxRetries)
    /\ flight \in {"none", "sent", "served"}
    /\ flight # "none" => phase \in Steps /\ attempt <= MaxRetries
    /\ phase # "idle" => call \in Calls
    /\ uri \in Sessions \cup {NoSession}
    /\ outcome \in [Calls -> {"none", "running", "ok", "failed"}]
    /\ access \in BOOLEAN /\ alive \in BOOLEAN /\ captured \in BOOLEAN
    /\ expires \in {"unknown", "ahead", "passed"}
    /\ sessions \subseteq Sessions /\ finished \subseteq sessions
    /\ thumbs \subseteq finished
    /\ late \subseteq [step : {"initialize", "upload", "thumbnail"},
                       session : Sessions]

(* "Publish exactly one video per invocation": however often requests are  *)
(* sent again, given up and served late, a call makes one video at most.   *)
OneVideoPerCall == \A s, t \in finished : s[1] = t[1] => s = t

(* "No partial result is ever returned": a call that answers ok has its    *)
(* video on the platform, with its thumbnail when one was given.           *)
OkIsWhole == \A c \in Calls : outcome[c] = "ok" =>
    \E s \in finished : s[1] = c /\ (c \in Thumbnailed => s \in thumbs)

(* A call that can renew never starts with a token it could know is dead:  *)
(* only one whose time was never told may be refused from the beginning.   *)
StaleTokensRenewed ==
    phase \in Steps \ {"token"} /\ CanRefresh => captured \/ expires = "unknown"

(* The publisher implements its promise.                                   *)
Promise == INSTANCE PublishPromise WITH
    Videos <- Sessions,
    videos <- [c \in Calls |-> {s \in finished : s[1] = c}],
    dressed <- thumbs
PromiseKept == Promise!Spec

(* Every call of publish() returns or raises.                              *)
EveryPublishEnds == []<>(phase = "idle")
=============================================================================
