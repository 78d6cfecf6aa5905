------------------------ MODULE YouTubePublishProofs ------------------------
(***************************************************************************)
(* Proofs about YouTubePublish, for any number of calls and attempts: its  *)
(* types, one video per call, a whole video behind every ok, and that it   *)
(* implements PublishPromise.                                              *)
(*                                                                         *)
(* The argument: the requests that can make a video of a call all name one *)
(* session, because a call learns of one session only and puts the media   *)
(* nowhere else, and a session it did not learn of gets no media.          *)
(*                                                                         *)
(* That every call ends is liveness; what is shown of it here is its       *)
(* measure: turns that are never without a next one and run out.           *)
(***************************************************************************)
EXTENDS YouTubePublish, TLAPS

(* The sessions with a video, or that a late request may still change.     *)
Touched == finished \cup
    {r.session : r \in {q \in late : q.step # "initialize"}}

(* The call knows no session before the one that was answered to it.       *)
KnownSession ==
    /\ phase \in {"token", "initialize"} => uri = NoSession
    /\ phase \in {"upload", "thumbnail", "verify"} =>
          uri \in sessions /\ uri[1] = call

(* Only a call's own session is ever touched for it.                       *)
OneSession ==
    /\ \A s \in Touched : s[1] <= call
    /\ \A s \in Touched : phase # "idle" /\ s[1] = call => s = uri
    /\ \A s, t \in Touched : s[1] = t[1] => s = t

(* What was served has had its effect, and later steps rest on it.         *)
Effects ==
    /\ phase = "initialize" /\ flight = "served" => Target \in sessions
    /\ phase = "upload" /\ flight = "served" => uri \in finished
    /\ phase \in {"thumbnail", "verify"} => uri \in finished
    /\ phase = "thumbnail" /\ flight = "served" => uri \in thumbs
    /\ phase = "verify" /\ call \in Thumbnailed => uri \in thumbs
    /\ \A r \in late : /\ r.step = "upload" => r.session \in sessions
                       /\ r.step = "thumbnail" => r.session \in finished

(* Calls are made one after another.                                       *)
Outcomes == \A c \in Calls :
    /\ outcome[c] = "none" <=> c > call
    /\ outcome[c] = "running" <=> c = call /\ phase # "idle"

Inv == /\ TypeOK /\ KnownSession /\ OneSession /\ Effects /\ Outcomes
       /\ OkIsWhole

-----------------------------------------------------------------------------
(* A session names the call that opened it, and none is NoSession.         *)
LEMMA SessionParts ==
    /\ \A s \in Sessions : s[1] \in Calls /\ s[2] \in 1..MaxRetries
                          /\ s = <<s[1], s[2]>>
    /\ \A c \in Calls, n \in 1..MaxRetries :
          <<c, n>> \in Sessions /\ <<c, n>>[1] = c
    /\ NoSession \notin Sessions /\ NoSession[1] = 0
  BY ConstantsAssumption DEF Sessions, Calls, NoSession

LEMMA FirstState == Init => Inv
<1>. SUFFICES ASSUME Init PROVE Inv
  OBVIOUS
<1>1. access \in BOOLEAN /\ alive \in BOOLEAN
  BY DEF Init
<1>2. /\ call = 0 /\ phase = "idle" /\ attempt = 1 /\ flight = "none"
      /\ uri = NoSession /\ outcome = [c \in Calls |-> "none"]
      /\ expires = "unknown" /\ captured = FALSE
      /\ sessions = {} /\ finished = {} /\ thumbs = {} /\ late = {}
  BY DEF Init
<1>3. TypeOK
  <2>1. 0 \in 0..MaxCalls /\ 1 \in Nat \ {0} /\ ~(1 > 1)
    BY ConstantsAssumption
  <2>. QED
    BY <1>1, <1>2, <2>1, Zenon DEF TypeOK
<1>4. KnownSession /\ OneSession /\ Effects
  BY <1>2 DEF KnownSession, OneSession, Effects, Touched
<1>5. Outcomes /\ OkIsWhole
  BY <1>2, ConstantsAssumption DEF Outcomes, OkIsWhole, Calls
<1>. QED
  BY <1>3, <1>4, <1>5 DEF Inv

(* Every action keeps the invariant.                                       *)
LEMMA InvStep == Inv /\ [Next]_vars => Inv'
<1>. SUFFICES ASSUME Inv, [Next]_vars PROVE Inv'
  OBVIOUS
<1>. USE DEF Calls
<1>1. CASE Publish
  <2>1. TypeOK'
    BY <1>1, SessionParts, ConstantsAssumption DEF Publish, platform, token,
       Inv, TypeOK, KnownSession, Effects, Steps
  <2>2. KnownSession'
    BY <1>1, SessionParts, ConstantsAssumption DEF Publish, platform, token,
       Inv, TypeOK, KnownSession, Effects, Steps
  <2>3. OneSession'
    BY <1>1, SessionParts, ConstantsAssumption DEF Publish, platform, token,
       Inv, TypeOK, OneSession, KnownSession, Touched, Steps
  <2>4. Effects'
    BY <1>1, SessionParts, ConstantsAssumption DEF Publish, platform, token,
       Inv, TypeOK, Effects, KnownSession, Steps, Target, Outcomes
  <2>5. Outcomes'
    BY <1>1, SessionParts, ConstantsAssumption DEF Publish, platform, token,
       Inv, TypeOK, Outcomes, Steps
  <2>6. OkIsWhole'
    BY <1>1, SessionParts, ConstantsAssumption DEF Publish, platform, token,
       Inv, TypeOK, OkIsWhole, Effects, KnownSession, Outcomes, Steps
  <2>. QED
    BY <2>1, <2>2, <2>3, <2>4, <2>5, <2>6 DEF Inv
<1>2. CASE AssetMissing
  <2>1. TypeOK'
    BY <1>2, SessionParts, ConstantsAssumption DEF AssetMissing, token,
       platform, Inv, TypeOK, KnownSession, Effects, Steps
  <2>2. OneSession'
    BY <1>2, SessionParts, ConstantsAssumption DEF AssetMissing, token,
       platform, Inv, TypeOK, OneSession, KnownSession, Touched, Steps
  <2>3. Effects'
    BY <1>2, SessionParts, ConstantsAssumption DEF AssetMissing, token,
       platform, Inv, TypeOK, Effects, KnownSession, Steps, Target, Outcomes
  <2>4. Outcomes'
    BY <1>2, SessionParts, ConstantsAssumption DEF AssetMissing, token,
       platform, Inv, TypeOK, Outcomes, Steps
  <2>5. KnownSession' /\ OkIsWhole'
    BY <1>2, SessionParts, ConstantsAssumption DEF AssetMissing, token,
       platform, Inv, TypeOK, KnownSession, OkIsWhole, Effects, Steps,
       Outcomes
  <2>. QED
    BY <2>1, <2>2, <2>3, <2>4, <2>5 DEF Inv
<1>3. CASE Send
  <2>1. TypeOK'
    BY <1>3, SessionParts, ConstantsAssumption DEF Send, token, platform, Inv,
       TypeOK, KnownSession, Effects, Steps
  <2>2. KnownSession' /\ OneSession' /\ Effects' /\ Outcomes' /\ OkIsWhole'
    BY <1>3, SessionParts, ConstantsAssumption DEF Send, token, platform, Inv,
       TypeOK, KnownSession, OneSession, Effects, Outcomes, OkIsWhole, Steps,
       Touched, Target
  <2>. QED
    BY <2>1, <2>2 DEF Inv
<1>5. CASE Renewed
  <2>1. TypeOK'
    BY <1>5, SessionParts, ConstantsAssumption DEF Renewed, Proceed, platform,
       Inv, TypeOK, KnownSession, Effects, Steps
  <2>2. KnownSession'
    BY <1>5, SessionParts, ConstantsAssumption DEF Renewed, Proceed, platform,
       Inv, TypeOK, KnownSession, Effects, Steps
  <2>3. OneSession' /\ Effects' /\ Outcomes' /\ OkIsWhole'
    BY <1>5, SessionParts, ConstantsAssumption DEF Renewed, Proceed, platform,
       Inv, TypeOK, OneSession, Effects, Outcomes, OkIsWhole, KnownSession,
       Touched, Steps, Target
  <2>. QED
    BY <2>1, <2>2, <2>3 DEF Inv
<1>6. CASE Opened
  <2>1. TypeOK'
    BY <1>6, SessionParts, ConstantsAssumption DEF Opened, Proceed, Target,
       token, platform, Inv, TypeOK, KnownSession, Effects, Steps
  <2>2. KnownSession'
    BY <1>6, SessionParts, ConstantsAssumption DEF Opened, Proceed, Target,
       token, platform, Inv, TypeOK, KnownSession, Effects, Steps
  <2>3. OneSession'
    BY <1>6, SessionParts, ConstantsAssumption DEF Opened, Proceed, Target,
       token, platform, Inv, TypeOK, OneSession, KnownSession, Touched, Steps
  <2>4. Effects' /\ Outcomes' /\ OkIsWhole'
    BY <1>6, SessionParts, ConstantsAssumption DEF Opened, Proceed, Target,
       token, platform, Inv, TypeOK, Effects, Outcomes, OkIsWhole,
       KnownSession, Steps
  <2>. QED
    BY <2>1, <2>2, <2>3, <2>4 DEF Inv
<1>7. CASE Uploaded
  <2>1. TypeOK'
    BY <1>7, SessionParts, ConstantsAssumption DEF Uploaded, Proceed, token,
       platform, Inv, TypeOK, KnownSession, Effects, Steps
  <2>2. KnownSession'
    BY <1>7, SessionParts, ConstantsAssumption DEF Uploaded, Proceed, token,
       platform, Inv, TypeOK, KnownSession, Effects, Steps
  <2>3. Effects'
    BY <1>7, SessionParts, ConstantsAssumption DEF Uploaded, Proceed, token,
       platform, Inv, TypeOK, Effects, KnownSession, Steps, Target, Outcomes
  <2>4. OneSession' /\ Outcomes' /\ OkIsWhole'
    BY <1>7, SessionParts, ConstantsAssumption DEF Uploaded, Proceed, token,
       platform, Inv, TypeOK, OneSession, Outcomes, OkIsWhole, KnownSession,
       Touched, Steps, Effects
  <2>. QED
    BY <2>1, <2>2, <2>3, <2>4 DEF Inv
<1>8. CASE Dressed
  <2>1. TypeOK'
    BY <1>8, SessionParts, ConstantsAssumption DEF Dressed, Proceed, token,
       platform, Inv, TypeOK, KnownSession, Effects, Steps
  <2>2. Effects'
    BY <1>8, SessionParts, ConstantsAssumption DEF Dressed, Proceed, token,
       platform, Inv, TypeOK, Effects, KnownSession, Steps, Target, Outcomes
  <2>3. KnownSession' /\ OneSession' /\ Outcomes' /\ OkIsWhole'
    BY <1>8, SessionParts, ConstantsAssumption DEF Dressed, Proceed, token,
       platform, Inv, TypeOK, KnownSession, OneSession, Outcomes, OkIsWhole,
       Effects, Steps, Touched
  <2>. QED
    BY <2>1, <2>2, <2>3 DEF Inv
<1>9. CASE Verified
  <2>1. TypeOK'
    BY <1>9, SessionParts, ConstantsAssumption DEF Verified, Finish, token,
       platform, Inv, TypeOK, KnownSession, Effects, Steps
  <2>2. Outcomes'
    BY <1>9, SessionParts, ConstantsAssumption DEF Verified, Finish, token,
       platform, Inv, TypeOK, Outcomes, Steps
  <2>3. OkIsWhole'
    BY <1>9, SessionParts, ConstantsAssumption DEF Verified, Finish, token,
       platform, Inv, TypeOK, OkIsWhole, Effects, KnownSession, Outcomes,
       Steps
  <2>4. KnownSession' /\ OneSession' /\ Effects'
    BY <1>9, SessionParts, ConstantsAssumption DEF Verified, Finish, token,
       platform, Inv, TypeOK, KnownSession, OneSession, Effects, Steps,
       Touched, Target, Outcomes
  <2>. QED
    BY <2>1, <2>2, <2>3, <2>4 DEF Inv
<1>10. CASE Retry
  <2>1. TypeOK'
    BY <1>10, SessionParts, ConstantsAssumption DEF Retry, Finish, Abandon,
       Target, token, platform, Inv, TypeOK, KnownSession, Effects, Steps
  <2>2. OneSession'
    BY <1>10, SessionParts, ConstantsAssumption DEF Retry, Finish, Abandon,
       Target, token, platform, Inv, TypeOK, OneSession, KnownSession,
       Touched, Steps
  <2>3. Effects'
    BY <1>10, SessionParts, ConstantsAssumption DEF Retry, Finish, Abandon,
       Target, token, platform, Inv, TypeOK, Effects, KnownSession, Steps,
       Outcomes
  <2>4. Outcomes'
    BY <1>10, SessionParts, ConstantsAssumption DEF Retry, Finish, Abandon,
       Target, token, platform, Inv, TypeOK, Outcomes, Steps
  <2>5. KnownSession' /\ OkIsWhole'
    BY <1>10, SessionParts, ConstantsAssumption DEF Retry, Finish, Abandon,
       Target, token, platform, Inv, TypeOK, KnownSession, OkIsWhole, Effects,
       Steps, Outcomes
  <2>. QED
    BY <2>1, <2>2, <2>3, <2>4, <2>5 DEF Inv
<1>11. CASE Reject
  <2>1. TypeOK'
    BY <1>11, SessionParts, ConstantsAssumption DEF Reject, Finish, token,
       platform, Inv, TypeOK, KnownSession, Effects, Steps
  <2>2. Outcomes'
    BY <1>11, SessionParts, ConstantsAssumption DEF Reject, Finish, token,
       platform, Inv, TypeOK, Outcomes, Steps
  <2>3. KnownSession' /\ OneSession' /\ Effects' /\ OkIsWhole'
    BY <1>11, SessionParts, ConstantsAssumption DEF Reject, Finish, token,
       platform, Inv, TypeOK, KnownSession, OneSession, Effects, OkIsWhole,
       Steps, Touched, Target, Outcomes
  <2>. QED
    BY <2>1, <2>2, <2>3 DEF Inv
<1>12. CASE Serve
  <2>1. TypeOK'
    BY <1>12, SessionParts, ConstantsAssumption DEF Serve, Effect, Target,
       token, Inv, TypeOK, KnownSession, Effects, Steps
  <2>2. OneSession'
    BY <1>12, SessionParts, ConstantsAssumption DEF Serve, Effect, Target,
       token, Inv, TypeOK, OneSession, KnownSession, Touched, Steps
  <2>3. Effects'
    BY <1>12, SessionParts, ConstantsAssumption DEF Serve, Effect, Target,
       token, Inv, TypeOK, Effects, KnownSession, Steps, Outcomes
  <2>4. OkIsWhole'
    BY <1>12, SessionParts, ConstantsAssumption DEF Serve, Effect, Target,
       token, Inv, TypeOK, OkIsWhole, Effects, KnownSession, Outcomes, Steps
  <2>5. KnownSession' /\ Outcomes'
    BY <1>12, SessionParts, ConstantsAssumption DEF Serve, Effect, Target,
       token, Inv, TypeOK, KnownSession, Outcomes, Effects, Steps
  <2>. QED
    BY <2>1, <2>2, <2>3, <2>4, <2>5 DEF Inv
<1>13. CASE ServeLate
  <2>1. TypeOK'
    BY <1>13, SessionParts, ConstantsAssumption DEF ServeLate, Effect, token,
       Inv, TypeOK, KnownSession, Effects, Steps
  <2>2. OneSession'
    BY <1>13, SessionParts, ConstantsAssumption DEF ServeLate, Effect, token,
       Inv, TypeOK, OneSession, KnownSession, Touched, Steps
  <2>3. Effects'
    BY <1>13, SessionParts, ConstantsAssumption DEF ServeLate, Effect, token,
       Inv, TypeOK, Effects, KnownSession, Steps, Target, Outcomes
  <2>4. OkIsWhole'
    BY <1>13, SessionParts, ConstantsAssumption DEF ServeLate, Effect, token,
       Inv, TypeOK, OkIsWhole, Effects, KnownSession, Outcomes, Steps
  <2>5. KnownSession' /\ Outcomes'
    BY <1>13, SessionParts, ConstantsAssumption DEF ServeLate, Effect, token,
       Inv, TypeOK, KnownSession, Outcomes, Effects, Steps
  <2>. QED
    BY <2>1, <2>2, <2>3, <2>4, <2>5 DEF Inv
<1>14. CASE TokenPasses
  BY <1>14 DEF TokenPasses, platform, Inv, TypeOK, KnownSession, OneSession,
     Effects, Outcomes, OkIsWhole, Touched, Target, Steps
<1>15. CASE TokenDies
  <2>1. /\ alive' = FALSE
        /\ UNCHANGED <<call, phase, attempt, flight, uri, outcome, access,
                       expires, captured, sessions, finished, thumbs, late>>
    BY <1>15 DEF TokenDies, platform
  <2>2. TypeOK'
    BY <2>1, Zenon DEF Inv, TypeOK
  <2>3. (KnownSession /\ OneSession /\ Effects /\ Outcomes /\ OkIsWhole)'
    BY <2>1, Zenon DEF Inv, KnownSession, OneSession, Effects, Outcomes,
       OkIsWhole, Touched, Target
  <2>. QED
    BY <2>2, <2>3 DEF Inv
<1>16. CASE UNCHANGED vars
  BY <1>16 DEF vars, Inv, TypeOK, KnownSession, OneSession, Effects, Outcomes,
     OkIsWhole, Touched, Target, Steps
<1>. QED
  BY <1>1, <1>2, <1>3, <1>5, <1>6, <1>7, <1>8, <1>9, <1>10, <1>11,
     <1>12, <1>13, <1>14, <1>15, <1>16
     DEF Next, Provider, Answer

LEMMA Invariance == Spec => []Inv
<1>1. Init => Inv
  BY FirstState
<1>2. Inv /\ [Next]_vars => Inv'
  BY InvStep
<1>. QED
  BY <1>1, <1>2, PTL DEF Spec

(* YouTubePublish keeps its types: a thumbnail is never set before the     *)
(* video is there, nor the media put into a session that is not open.      *)
THEOREM Typing == Spec => []TypeOK
<1>1. Inv => TypeOK
  BY DEF Inv
<1>. QED
  BY <1>1, Invariance, PTL

(* However many attempts, calls and late requests there are, no call makes *)
(* two videos.                                                             *)
THEOREM OneVideo == Spec => []OneVideoPerCall
<1>1. Inv => OneVideoPerCall
  BY DEF Inv, OneSession, OneVideoPerCall, Touched
<1>. QED
  BY <1>1, Invariance, PTL

(* publish() answers ok only when the video, and its thumbnail, are there. *)
THEOREM OkWhole == Spec => []OkIsWhole
<1>1. Inv => OkIsWhole
  BY DEF Inv
<1>. QED
  BY <1>1, Invariance, PTL

(* A token the provider could know to be dead is never the one a call      *)
(* starts with.                                                            *)
THEOREM TokensRenewed == Spec => []StaleTokensRenewed
<1>. DEFINE Fresh == /\ expires = "ahead" => alive
                     /\ StaleTokensRenewed
<1>1. Init => Fresh
  BY DEF Init, StaleTokensRenewed, Steps
<1>2. TypeOK /\ Fresh /\ [Next]_vars => Fresh'
  <2>. SUFFICES ASSUME TypeOK, Fresh, [Next]_vars PROVE Fresh'
    OBVIOUS
  <2>. USE DEF StaleTokensRenewed, Steps, token
  <2>1. CASE Publish
    BY <2>1 DEF TypeOK, Publish, NeedsRefresh
  <2>2. CASE Renewed
    BY <2>2 DEF Renewed, Proceed
  <2>3. CASE TokenPasses \/ TokenDies
    BY <2>3 DEF TokenPasses, TokenDies
  <2>4. CASE Opened \/ Uploaded \/ Dressed \/ Verified
    BY <2>4 DEF Opened, Uploaded, Dressed, Verified, Proceed, Finish
  <2>5. CASE AssetMissing \/ Send \/ Retry \/ Reject
    BY <2>5 DEF AssetMissing, Send, Retry, Reject, Finish
  <2>6. CASE Serve \/ ServeLate \/ UNCHANGED vars
    BY <2>6 DEF Serve, ServeLate, vars
  <2>. QED
    BY <2>1, <2>2, <2>3, <2>4, <2>5, <2>6 DEF Next, Provider, Answer
<1>. QED
  BY <1>1, <1>2, Typing, PTL DEF Spec

(* The promise's videos.                                                   *)
Made == [c \in Calls |-> {s \in finished : s[1] = c}]

(* A session that gets a video while its call has none of another is an    *)
(* appearance.                                                             *)
LEMMA FirstVideo ==
    ASSUME Inv, NEW s \in Sessions, s \notin finished, s[1] <= call,
           \A t \in finished : t[1] = s[1] => t = s,
           finished' = finished \cup {s},
           UNCHANGED <<outcome, thumbs>>
    PROVE  Promise!Appear(s[1])
<1>1. s[1] \in Calls
  BY SessionParts
<1>2. outcome[s[1]] # "none"
  BY <1>1 DEF Inv, Outcomes, TypeOK, Calls
<1>3. Made[s[1]] = {}
  BY <1>1 DEF Made
<1>4. Made' = [Made EXCEPT ![s[1]] = {s}]
  <2>1. Made' = [c \in Calls |-> {t \in finished \cup {s} : t[1] = c}]
    BY DEF Made
  <2>2. ASSUME NEW c \in Calls
        PROVE  {t \in finished \cup {s} : t[1] = c} =
               IF c = s[1] THEN {s} ELSE {t \in finished : t[1] = c}
    BY <1>3, <1>1 DEF Made
  <2>. QED
    BY <2>1, <2>2 DEF Made
<1>. QED
  BY <1>1, <1>2, <1>3, <1>4 DEF Promise!Appear, Made

(* Every step of the publisher is a step of the promise, or none.          *)
LEMMA PromiseStep == Inv /\ [Next]_vars => [Promise!Next]_(Promise!vars)
<1>. SUFFICES ASSUME Inv, [Next]_vars
              PROVE  Promise!Next \/ UNCHANGED <<outcome, finished, thumbs>>
  BY DEF Promise!vars
<1>1. CASE Publish
  <2>1. call + 1 \in Calls /\ outcome[call + 1] = "none"
    BY <1>1, ConstantsAssumption DEF Publish, Inv, TypeOK, Outcomes, Calls
  <2>. QED
    BY <1>1, <2>1 DEF Publish, platform, Promise!Begin, Promise!Next
<1>2. CASE AssetMissing
  <2>1. call + 1 \in Calls /\ outcome[call + 1] = "none"
    BY <1>2, ConstantsAssumption DEF AssetMissing, Inv, TypeOK, Outcomes,
       Calls
  <2>. QED
    BY <1>2, <2>1 DEF AssetMissing, platform, Promise!Fail, Promise!Next
<1>3. CASE Retry \/ Reject
  <2>1. CASE UNCHANGED outcome
    BY <1>3, <2>1 DEF Retry, Reject, platform
  <2>2. CASE Finish("failed")
    <3>1. call \in Calls /\ outcome[call] = "running"
      BY <1>3 DEF Retry, Reject, Inv, TypeOK, Outcomes, Steps
    <3>. QED
      BY <1>3, <2>2, <3>1 DEF Retry, Reject, Finish, platform,
         Promise!Fail, Promise!Next
  <2>. QED
    BY <1>3, <2>1, <2>2 DEF Retry, Reject
<1>4. CASE Verified
  <2>1. /\ call \in Calls /\ outcome[call] = "running"
        /\ uri \in finished /\ uri[1] = call
        /\ call \in Thumbnailed => uri \in thumbs
    BY <1>4 DEF Verified, Inv, TypeOK, Outcomes, Effects, KnownSession, Steps
  <2>2. {s \in finished : s[1] = call} = {uri}
    BY <1>4, <2>1 DEF Verified, Inv, OneSession, Touched
  <2>3. Made[call] = {uri}
    BY <2>1, <2>2 DEF Made
  <2>4. /\ outcome' = [outcome EXCEPT ![call] = "ok"]
        /\ UNCHANGED <<Made, thumbs>>
    BY <1>4 DEF Verified, Finish, platform, Made
  <2>5. Promise!Succeed(call)
    BY <2>1, <2>3, <2>4 DEF Promise!Succeed, Made
  <2>. QED
    BY <2>1, <2>5 DEF Promise!Next
<1>5. ASSUME NEW step \in {"initialize", "upload", "thumbnail"},
             NEW s \in Sessions, Effect(step, s), UNCHANGED outcome,
             s[1] <= call, \A t \in finished : t[1] = s[1] => t = s,
             step = "thumbnail" => s \in finished
      PROVE  Promise!Next \/ UNCHANGED <<outcome, finished, thumbs>>
  <2>0. s[1] \in Calls
    BY SessionParts
  <2>1. CASE step = "initialize"
    BY <1>5, <2>1 DEF Effect
  <2>2. CASE step = "upload"
    <3>1. finished' = finished \cup {s} /\ UNCHANGED <<outcome, thumbs>>
      BY <1>5, <2>2 DEF Effect
    <3>2. CASE s \in finished
      BY <3>1, <3>2
    <3>3. CASE s \notin finished
      BY <1>5, <2>0, <3>1, <3>3, FirstVideo DEF Promise!Next
    <3>. QED
      BY <3>2, <3>3
  <2>3. CASE step = "thumbnail"
    BY <1>5, <2>0, <2>3 DEF Effect, Promise!Dress, Promise!Next
  <2>. QED
    BY <2>1, <2>2, <2>3
<1>6. CASE Serve
  <2>1. CASE phase \in {"token", "verify"}
    BY <1>6, <2>1 DEF Serve, Effect
  <2>2. CASE phase = "initialize"
    BY <1>6, <2>2 DEF Serve, Effect
  <2>3. CASE phase \in {"upload", "thumbnail"}
    <3>1. /\ uri \in Sessions /\ uri[1] = call /\ call \in Calls
          /\ \A t \in finished : t[1] = call => t = uri
          /\ phase = "thumbnail" => uri \in finished
      BY <2>3 DEF Inv, TypeOK, KnownSession, OneSession, Effects, Touched
    <3>2. Effect(phase, uri) /\ UNCHANGED outcome
      BY <1>6, <2>3 DEF Serve, Target
    <3>. QED
      BY <1>5, <2>3, <3>1, <3>2 DEF Calls
  <2>. QED
    BY <1>6, <2>1, <2>2, <2>3 DEF Serve, Inv, TypeOK, Steps
<1>7. CASE ServeLate
  <2>1. PICK r \in late : Effect(r.step, r.session)
    BY <1>7 DEF ServeLate
  <2>2. /\ r.step \in {"initialize", "upload", "thumbnail"}
        /\ r.session \in Sessions
    BY DEF Inv, TypeOK
  <2>3. CASE r.step = "initialize"
    BY <1>7, <2>1, <2>3 DEF ServeLate, Effect
  <2>4. CASE r.step # "initialize"
    <3>1. r.session \in Touched
      BY <2>4 DEF Touched
    <3>2. /\ r.session[1] <= call
          /\ \A t \in finished : t[1] = r.session[1] => t = r.session
          /\ r.step = "thumbnail" => r.session \in finished
      BY <3>1 DEF Inv, OneSession, Touched, Effects
    <3>. QED
      BY <1>5, <1>7, <2>1, <2>2, <3>2 DEF ServeLate
  <2>. QED
    BY <2>3, <2>4
<1>8. CASE \/ Send \/ Renewed \/ Opened \/ Uploaded \/ Dressed
           \/ TokenPasses \/ TokenDies \/ UNCHANGED vars
  BY <1>8 DEF Send, Renewed, Opened, Uploaded, Dressed, Proceed, TokenPasses,
     TokenDies, platform, vars
<1>. QED
  BY <1>1, <1>2, <1>3, <1>4, <1>6, <1>7, <1>8 DEF Next, Provider, Answer

(* The publisher implements its promise: each call makes its one video in  *)
(* a single step, whatever is lost, repeated or served late.               *)
THEOREM Implements == Spec => PromiseKept
<1>1. Init => Promise!Init
  BY DEF Init, Promise!Init
<1>2. Inv /\ [Next]_vars => [Promise!Next]_(Promise!vars)
  BY PromiseStep
<1>. QED
  BY <1>1, <1>2, Invariance, PTL DEF Spec, PromiseKept, Promise!Spec

-----------------------------------------------------------------------------
(* The end of a call                                                       *)

StepsBehind == [token |-> 4, initialize |-> 3, upload |-> 2, thumbnail |-> 1,
                verify |-> 0]

(* What the provider has left to do in this call at most: two turns of the *)
(* event loop, a request and its end, for every attempt left at its step   *)
(* and for every attempt at the steps behind it.                           *)
TurnsLeft == IF phase = "idle" THEN 0
    ELSE 2 * MaxRetries * StepsBehind[phase] + 2 * (MaxRetries - attempt)
         + (IF flight = "none" THEN 2 ELSE 1)

(* The provider's turns run out, whatever the platform does.               *)
RunsOut ==
    /\ phase # "idle" => TurnsLeft' <= TurnsLeft
    /\ Provider => TurnsLeft' < TurnsLeft

(* A call always has its next turn: a request to send, or one to end.      *)
HasTurn ==
    /\ TurnsLeft \in 0..(10 * MaxRetries)
    /\ phase # "idle" => \/ flight = "none" /\ attempt <= MaxRetries
                         \/ flight \in {"sent", "served"}

(* The turns, step by step.                                                *)
LEMMA TurnsAre ==
    ASSUME TypeOK
    PROVE  LET here == 2 * (MaxRetries - attempt)
                       + (IF flight = "none" THEN 2 ELSE 1)
           IN  /\ phase = "token" => TurnsLeft = 8 * MaxRetries + here
               /\ phase = "initialize" => TurnsLeft = 6 * MaxRetries + here
               /\ phase = "upload" => TurnsLeft = 4 * MaxRetries + here
               /\ phase = "thumbnail" => TurnsLeft = 2 * MaxRetries + here
               /\ phase = "verify" => TurnsLeft = here
               /\ phase = "idle" => TurnsLeft = 0
  BY ConstantsAssumption DEF TypeOK, TurnsLeft, StepsBehind

(* A call has a next turn at each of its steps.                            *)
LEMMA HasTurnAlways == TypeOK => HasTurn
<1>. SUFFICES ASSUME TypeOK PROVE HasTurn
  OBVIOUS
<1>1. phase \in {"idle", "token", "initialize", "upload", "thumbnail",
                 "verify"}
      /\ attempt \in 1..MaxRetries /\ MaxRetries \in Nat \ {0}
      /\ flight \in {"none", "sent", "served"}
  BY ConstantsAssumption DEF TypeOK, Steps
<1>2. TurnsLeft \in 0..(10 * MaxRetries)
  BY <1>1, TurnsAre
<1>. QED
  BY <1>1, <1>2 DEF HasTurn

(* Each turn of the provider takes one, and nothing else gives one back.   *)
LEMMA StepRunsOut ==
    TypeOK /\ HasTurn /\ HasTurn' /\ [Next]_vars => [RunsOut]_vars
<1>. SUFFICES ASSUME TypeOK, HasTurn, HasTurn', Next PROVE RunsOut
  BY DEF vars
<1>t. MaxRetries \in Nat \ {0} /\ attempt \in 1..MaxRetries
  BY ConstantsAssumption DEF TypeOK
<1>i. TurnsLeft \in Nat /\ (phase \in Steps => TurnsLeft > 0)
      /\ (phase' = "idle" => TurnsLeft' = 0)
  BY <1>t, TurnsAre DEF TypeOK, Steps, TurnsLeft
<1>e. ASSUME phase \in Steps, NEW r, Finish(r) PROVE TurnsLeft' < TurnsLeft
  BY <1>e, <1>i DEF Finish
<1>1. ASSUME Provider PROVE TurnsLeft' < TurnsLeft
  <2>1. phase \in Steps
    BY <1>1 DEF Provider, Send, Answer, Renewed, Opened, Uploaded, Dressed,
       Verified, Retry, Reject, TypeOK, Steps
  <2>2. CASE Send
    BY <2>1, <2>2, <1>t DEF Send, TurnsLeft, StepsBehind, Steps
  <2>3. CASE Renewed
    BY <2>3, <1>t DEF Renewed, Proceed, TurnsLeft, StepsBehind
  <2>4. CASE Opened
    BY <2>4, <1>t DEF Opened, Proceed, TurnsLeft, StepsBehind
  <2>5. CASE Uploaded
    BY <2>5, <1>t DEF Uploaded, Proceed, TurnsLeft, StepsBehind
  <2>6. CASE Dressed
    BY <2>6, <1>t DEF Dressed, Proceed, TurnsLeft, StepsBehind
  <2>7. CASE Verified
    BY <2>1, <2>7, <1>e DEF Verified
  <2>8. CASE Retry /\ attempt < MaxRetries
    <3>1. /\ attempt' = attempt + 1 /\ flight' = "none" /\ phase' = phase
          /\ flight # "none"
      BY <2>8 DEF Retry
    <3>. QED
      BY <2>1, <3>1, <1>t DEF TurnsLeft, StepsBehind, Steps
  <2>9. CASE Retry /\ ~(attempt < MaxRetries)
    BY <2>1, <2>9, <1>e DEF Retry
  <2>10. CASE Reject
    BY <2>1, <2>10, <1>e DEF Reject
  <2>. QED
    BY <1>1, <2>2, <2>3, <2>4, <2>5, <2>6, <2>7, <2>8, <2>9, <2>10
       DEF Provider, Answer
<1>2. ASSUME ~Provider, phase # "idle" PROVE TurnsLeft' <= TurnsLeft
  <2>1. CASE Serve
    BY <2>1, <1>t, <1>i DEF Serve, TurnsLeft
  <2>2. CASE ServeLate \/ TokenPasses \/ TokenDies
    BY <2>2, <1>i DEF ServeLate, TokenPasses, TokenDies, TurnsLeft
  <2>. QED
    BY <1>2, <2>1, <2>2 DEF Next, Publish, AssetMissing
<1>3. TurnsLeft \in Nat /\ TurnsLeft' \in Nat
  BY ConstantsAssumption DEF HasTurn
<1>. QED
  BY <1>1, <1>2, <1>3 DEF RunsOut

(* A call of publish() ends: every turn of the provider brings it nearer,  *)
(* nothing the platform does takes it back, and there is always a turn     *)
(* until it is over.  10 turns for each attempt allowed are enough.        *)
THEOREM CallsRunOut == Spec => []HasTurn /\ [][RunsOut]_vars
  BY Typing, HasTurnAlways, StepRunsOut, PTL DEF Spec
=============================================================================
