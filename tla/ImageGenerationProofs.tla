------------------------ MODULE ImageGenerationProofs ------------------------
(***************************************************************************)
(* What holds of ImageGeneration for any shots, scores, budgets, number of *)
(* runs and faults.                                                        *)
(*                                                                         *)
(* Counted bounds the workflows of every attempt, and with Numbered (no    *)
(* workflow is ahead of the attempt the stage is at) it is inductive.      *)
(* Manifest says of a run that has not failed where the render of every    *)
(* workflow it was answered is: accepted, rejected, staged or on its way.  *)
(* StepsLeft counts down what a run may still do: requests in a poll,      *)
(* polls in an attempt, attempts in a shot, shots in the run.              *)
(***************************************************************************)
EXTENDS ImageGeneration, TLAPS, FiniteSetTheorems

-----------------------------------------------------------------------------
(* Types                                                                   *)

Render == [attempt : Nat, job : Nat, mended : SUBSET Dimensions, score : Int,
           passed : BOOLEAN]
Reject == [shot : Nat, attempt : Nat, job : Nat, score : Int]
States == {"queued", "done", "bad", "empty", "error", "failed"}
Workflow == [run : Nat, shot : Nat, attempt : Nat, mended : SUBSET Dimensions,
             state : States, answered : BOOLEAN]

(* Better, of any sequence of renders.                                     *)
Beats(s, i, k) == \/ s[i].score > s[k].score
                  \/ s[i].score = s[k].score /\ i <= k

Typed ==
    /\ TypeOK
    /\ staged \in Seq(Render) /\ images \in Seq(Render)
    /\ rejected \subseteq Reject
    /\ best \in Nat /\ prompt \in Nat
    /\ jobs \in Seq(Workflow)
    /\ pc = "accept" => Len(staged) > 0
    /\ Len(staged) > 0 => \E i \in 1..Len(staged) :
                              \A k \in 1..Len(staged) : Beats(staged, i, k)

(* An element of a sequence.                                               *)
LEMMA Element ==
    ASSUME NEW S, NEW s \in Seq(S), NEW i \in 1..Len(s)
    PROVE  s[i] \in S
  OBVIOUS

(* The critic's arithmetic stays within the integers.                      *)
LEMMA Scores ==
    ASSUME NEW e \in [Dimensions -> Int]
    PROVE  Score(e) \in Int
<1>1. \A d \in Dimensions : Weight[d] \in Nat
  BY DEF Dimensions, Weight
<1>2. \A d \in Dimensions : Points(e, d) \in Int
  <2> SUFFICES ASSUME NEW d \in Dimensions PROVE Points(e, d) \in Int
    OBVIOUS
  <2>1. e[d] * Weight[d] \in Int
    BY <1>1
  <2> QED BY <2>1 DEF Points
<1>3. Dimensions = {"engineering_correctness", "teaching_effectiveness",
        "composition", "readability", "object_hierarchy", "visual_clutter",
        "camera_quality", "lighting", "consistency", "thumbnail_potential"}
  BY DEF Dimensions, Weight
<1> QED BY <1>2, <1>3 DEF Score

(* What critique_render answers.                                           *)
LEMMA Verdicts ==
    ASSUME ConstantsAssumption, input \in Inputs, settings \in Settings,
           shot \in 1..Len(input), fixes \subseteq Dimensions
    PROVE  /\ Verdict(input[shot], fixes).score \in Int
           /\ Verdict(input[shot], fixes).passed \in BOOLEAN
           /\ Verdict(input[shot], fixes).corrections \subseteq Dimensions
           /\ settings.critic \in BOOLEAN /\ settings.strict \in BOOLEAN
<1>1. input[shot] \in Shot
  <2>1. input \in Seq(Shot)
    BY DEF ConstantsAssumption
  <2> QED BY <2>1, Element
<1>2. \A n \in 0..100 : Carried(n) \in Int
  <2> SUFFICES ASSUME NEW n \in 0..100 PROVE Carried(n) \in Int
    OBVIOUS
  <2>1. n \div 10 \in Int
    OBVIOUS
  <2> QED BY <2>1 DEF Carried
<1>3. Evidence(input[shot], fixes) \in [Dimensions -> Int]
  <2>1. /\ input[shot].score \in 0..100 \cup {NoScore}
        /\ input[shot].thumb \in BOOLEAN
    BY <1>1 DEF Shot
  <2>2. input[shot].score # NoScore => Carried(input[shot].score) \in Int
    BY <1>2, <2>1
  <2> DEFINE mended == input[shot].cues \cup UNION {Brings(m) : m \in fixes}
             value(d) ==
                IF d = "thumbnail_potential" /\ ~input[shot].thumb THEN 10
                ELSE IF input[shot].score # NoScore
                     THEN Carried(input[shot].score)
                     ELSE IF Proven(d, mended) THEN 10 ELSE 0
  <2>3. Evidence(input[shot], fixes) = [d \in Dimensions |-> value(d)]
    BY DEF Evidence
  <2> HIDE DEF mended
  <2>4. \A d \in Dimensions : value(d) \in Int
    BY <2>2
  <2> HIDE DEF value
  <2> QED BY <2>3, <2>4
<1>4. Score(Evidence(input[shot], fixes)) \in Int
  BY <1>3, Scores
<1>5. Threshold \in Int /\ settings \in [critic : BOOLEAN, strict : BOOLEAN]
  BY DEF ConstantsAssumption
<1>6. Critique(input[shot], fixes).score \in Int
  BY <1>4 DEF Critique
<1>7. Critique(input[shot], fixes).passed \in BOOLEAN
  BY <1>4, <1>5 DEF Critique
<1>8. Critique(input[shot], fixes).corrections \subseteq Dimensions
  BY DEF Critique, Corrections
<1>9. /\ NoCritique.score \in Int /\ NoCritique.passed \in BOOLEAN
      /\ NoCritique.corrections \subseteq Dimensions
  BY DEF NoCritique
<1>10. settings.critic \in BOOLEAN /\ settings.strict \in BOOLEAN
  BY <1>5
<1>11. CASE settings.critic
  BY <1>6, <1>7, <1>8, <1>10, <1>11 DEF Verdict
<1>12. CASE ~settings.critic
  BY <1>9, <1>10, <1>12 DEF Verdict
<1> QED BY <1>11, <1>12

(* The initial state has these types.                                      *)
LEMMA TypedInit == Init => Typed
<1> SUFFICES ASSUME Init PROVE Typed
  OBVIOUS
<1>1. input \in Seq(Shot) /\ Len(input) > 0 /\ settings \in Settings
  BY ConstantsAssumption DEF Init, ConstantsAssumption
<1>2. 1 \in Positions
  BY <1>1 DEF Positions
<1>3. TypeOK
  BY <1>1, <1>2, ConstantsAssumption
  DEF Init, TypeOK, ConstantsAssumption
<1> QED BY <1>3 DEF Init, Typed

(* What types tell of the present state.                                   *)
LEMMA Facts ==
    ASSUME Typed
    PROVE  /\ input \in Seq(Shot) /\ Len(input) \in Nat
           /\ runs \in Nat /\ shot \in Nat /\ shot \in 1..Len(input)
           /\ Number \in Nat \ {0} /\ Len(staged) \in Nat
           /\ Len(jobs) \in Nat /\ fixes \in SUBSET Dimensions
           /\ tries \in Nat /\ MaxRetries \in Nat /\ MaxRetries > 0
           /\ tries >= 1 /\ tries <= MaxRetries
           /\ MaxRuns \in Nat /\ MaxPolls \in Nat /\ MaxFaults \in Nat
           /\ faults \in Nat
<1>1. input \in Seq(Shot) /\ Len(input) \in Nat
  <2>1. input \in Inputs
    BY DEF Typed, TypeOK
  <2>2. Inputs \subseteq Seq(Shot)
    BY ConstantsAssumption DEF ConstantsAssumption
  <2>3. input \in Seq(Shot)
    BY <2>1, <2>2
  <2> QED BY <2>3
<1>2. Len(staged) \in Nat /\ Len(jobs) \in Nat
  BY DEF Typed
<1>3. shot \in 1..Len(input) /\ shot \in Nat
  BY <1>1 DEF Typed, TypeOK, Positions
<1>4. /\ MaxRetries \in Nat /\ MaxRetries > 0
      /\ MaxRuns \in Nat /\ MaxPolls \in Nat /\ MaxFaults \in Nat
  BY ConstantsAssumption DEF ConstantsAssumption
<1>5. /\ tries \in 1..MaxRetries /\ runs \in 0..MaxRuns
      /\ faults \in 0..MaxFaults /\ fixes \subseteq Dimensions
  BY DEF Typed, TypeOK
<1>6. Number \in Nat \ {0}
  BY <1>2 DEF Number
<1> QED BY <1>1, <1>2, <1>3, <1>4, <1>5, <1>6

(* A workflow at the end of the queue.                                     *)
LEMMA Queued ==
    ASSUME NEW js \in Seq(Workflow), NEW x \in Workflow
    PROVE  /\ Append(js, x) \in Seq(Workflow)
           /\ Len(Append(js, x)) = Len(js) + 1
           /\ \A j \in 1..Len(js) : Append(js, x)[j] = js[j]
           /\ Append(js, x)[Len(js) + 1] = x
  OBVIOUS

(* The job of an attempt is a workflow.                                    *)
LEMMA JobTyped ==
    ASSUME Typed
    PROVE  Job \in Workflow /\ [Job EXCEPT !.answered = TRUE] \in Workflow
<1>1. runs \in Nat /\ shot \in Nat /\ Number \in Nat
      /\ fixes \in SUBSET Dimensions
  BY Facts
<1> QED BY <1>1 DEF Job, Workflow, States

(* The server changes the state of one workflow.                           *)
LEMMA Executed ==
    ASSUME NEW js \in Seq(Workflow), NEW j \in 1..Len(js), NEW o \in Outcomes,
           js[j].state = "queued"
    PROVE  LET ks == [js EXCEPT ![j].state = o] IN
           /\ ks \in Seq(Workflow) /\ Len(ks) = Len(js)
           /\ \A i \in 1..Len(js) :
                 /\ ks[i].run = js[i].run /\ ks[i].shot = js[i].shot
                 /\ ks[i].attempt = js[i].attempt
                 /\ ks[i].mended = js[i].mended
                 /\ ks[i].answered = js[i].answered
                 /\ js[i].state # "queued" => ks[i].state = js[i].state
<1> DEFINE x == [js[j] EXCEPT !.state = o]
           ks == [js EXCEPT ![j] = x]
<1>1. js[j] \in Workflow
  BY Element
<1>2. /\ x \in Workflow /\ x.run = js[j].run /\ x.shot = js[j].shot
      /\ x.attempt = js[j].attempt /\ x.mended = js[j].mended
      /\ x.answered = js[j].answered
  BY <1>1 DEF Workflow, States, Outcomes
<1> HIDE DEF x
<1>3. /\ ks \in Seq(Workflow) /\ Len(ks) = Len(js) /\ ks[j] = x
      /\ \A i \in 1..Len(js) : i # j => ks[i] = js[i]
  BY <1>2
<1> HIDE DEF ks
<1>4. [js EXCEPT ![j].state = o] = ks
  BY DEF ks, x
<1>5. ASSUME NEW i \in 1..Len(js)
      PROVE  /\ ks[i].run = js[i].run /\ ks[i].shot = js[i].shot
             /\ ks[i].attempt = js[i].attempt
             /\ ks[i].mended = js[i].mended
             /\ ks[i].answered = js[i].answered
             /\ js[i].state # "queued" => ks[i].state = js[i].state
  BY <1>2, <1>3
<1> QED BY <1>3, <1>4, <1>5

(* An attempt is a render.                                                 *)
LEMMA AttemptTyped ==
    ASSUME Typed
    PROVE  /\ Attempt \in Render
           /\ Attempt.attempt = Number /\ Attempt.job = prompt
           /\ Attempt.mended = fixes
           /\ Verdict(input[shot], fixes).corrections \subseteq Dimensions
           /\ settings.critic \in BOOLEAN /\ settings.strict \in BOOLEAN
<1>1. /\ Verdict(input[shot], fixes).score \in Int
      /\ Verdict(input[shot], fixes).passed \in BOOLEAN
      /\ Verdict(input[shot], fixes).corrections \subseteq Dimensions
      /\ settings.critic \in BOOLEAN /\ settings.strict \in BOOLEAN
  BY Verdicts, Facts, ConstantsAssumption DEF Typed, TypeOK
<1>2. Number \in Nat /\ prompt \in Nat /\ fixes \in SUBSET Dimensions
  BY Facts DEF Typed
<1> HIDE DEF Verdict
<1> QED BY <1>1, <1>2 DEF Attempt, Render

(* The best of a shot's renders: one exists, and none comes before it.     *)
LEMMA BestIsFirst ==
    ASSUME Typed, Len(staged) > 0
    PROVE  /\ Best \in 1..Len(staged)
           /\ \A k \in 1..Len(staged) : Better(Best, k)
<1>1. \E i \in 1..Len(staged) : \A k \in 1..Len(staged) : Better(i, k)
  BY DEF Typed, Better, Beats
<1> QED BY <1>1 DEF Best

(* With one render more there still is a best one.                         *)
LEMMA BestStays ==
    ASSUME NEW s \in Seq(Render), NEW a \in Render,
           Len(s) > 0 => \E i \in 1..Len(s) : \A k \in 1..Len(s) : Beats(s, i, k)
    PROVE  LET t == Append(s, a) IN
               \E i \in 1..Len(t) : \A k \in 1..Len(t) : Beats(t, i, k)
<1> DEFINE n == Len(s)
           t == Append(s, a)
<1>1. /\ n \in Nat /\ Len(t) = n + 1
      /\ \A k \in 1..n : t[k] = s[k]
      /\ t[n + 1] = a /\ a.score \in Int
      /\ \A k \in 1..n : s[k].score \in Int
  <2>1. \A k \in 1..n : s[k] \in Render
    BY Element
  <2>2. \A k \in 1..n : s[k].score \in Int
    BY <2>1 DEF Render
  <2> QED BY <2>2 DEF Render
<1> HIDE DEF t
<1>2. CASE n = 0
  <2>1. Beats(t, 1, 1)
    BY <1>1, <1>2 DEF Beats
  <2> QED BY <1>1, <1>2, <2>1 DEF t
<1>3. CASE n > 0
  <2>1. PICK i \in 1..n : \A k \in 1..n : Beats(s, i, k)
    BY <1>3
  <2>2. \A k \in 1..n : Beats(t, i, k)
    BY <1>1, <2>1 DEF Beats
  <2>3. CASE s[i].score >= a.score
    <3>1. Beats(t, i, n + 1)
      BY <1>1, <2>1, <2>3 DEF Beats
    <3>2. \A k \in 1..(n + 1) : Beats(t, i, k)
      BY <1>1, <2>2, <3>1
    <3> QED BY <1>1, <2>1, <3>2 DEF t
  <2>4. CASE s[i].score < a.score
    <3>1. \A k \in 1..n : Beats(t, n + 1, k)
      BY <1>1, <2>1, <2>4 DEF Beats
    <3>2. Beats(t, n + 1, n + 1)
      BY <1>1 DEF Beats
    <3>3. \A k \in 1..(n + 1) : Beats(t, n + 1, k)
      <4> SUFFICES ASSUME NEW k \in 1..(n + 1) PROVE Beats(t, n + 1, k)
        OBVIOUS
      <4>0. n \in Nat
        BY <1>1
      <4>1. k \in 1..n \/ k = n + 1
        BY <4>0
      <4> QED BY <3>1, <3>2, <4>1
    <3> QED BY <1>1, <3>3 DEF t
  <2>5. s[i].score \in Int /\ a.score \in Int
    BY <1>1, <2>1
  <2>6. s[i].score >= a.score \/ s[i].score < a.score
    BY <2>5
  <2> QED BY <2>3, <2>4, <2>6
<1> QED BY <1>1, <1>2, <1>3

(* A run that raises keeps its types.                                      *)
LEMMA TypedRaise ==
    ASSUME Typed, Raise, jobs' \in Seq(Workflow), faults' \in 0..MaxFaults,
           Fixed
    PROVE  Typed'
<1>1. TypeOK'
  BY DEF Typed, TypeOK, Raise, Fixed, stage, client, Positions
<1> QED BY <1>1 DEF Typed, Raise, Fixed, stage, client

(* A failing request keeps them.                                           *)
LEMMA TypedRetry ==
    ASSUME Typed, Retry, jobs' \in Seq(Workflow), faults' \in 0..MaxFaults,
           Fixed, UNCHANGED <<jobs, files>> \/ pc = "queue",
           UNCHANGED stage
    PROVE  Typed'
<1>1. CASE tries < MaxRetries
  <2>1. tries' \in 1..MaxRetries
    BY <1>1, Facts DEF Retry
  <2>2. UNCHANGED <<pc, stage, polls, prompt, input, settings, runs>>
    BY <1>1 DEF Retry, Fixed
  <2>3. TypeOK'
    BY <2>1, <2>2 DEF Typed, TypeOK, stage, Positions, OfThisRun, Number
  <2> QED BY <2>2, <2>3 DEF Typed, stage
<1>2. CASE ~(tries < MaxRetries)
  BY <1>2, TypedRaise DEF Retry
<1> QED BY <1>1, <1>2

(* Every step preserves the types.                                         *)
LEMMA TypedStep == Typed /\ [Next]_vars => Typed'
<1> SUFFICES ASSUME Typed, [Next]_vars PROVE Typed'
  OBVIOUS
<1>f. Fault => faults' \in 0..MaxFaults
  BY Facts DEF Fault
<1>g. faults \in 0..MaxFaults /\ jobs \in Seq(Workflow)
  BY DEF Typed, TypeOK
<1>1. CASE Execute
  <2>1. runs' \in 0..MaxRuns
    BY <1>1, Facts DEF Execute
  <2>2. 1 \in 1..Len(input) /\ 1 \in 1..MaxRetries /\ 0 \in 0..MaxPolls
    BY Facts
  <2>3. TypeOK'
    BY <1>1, <2>1, <2>2 DEF Execute, Typed, TypeOK, Positions
  <2> QED BY <1>1, <2>3 DEF Execute, Typed
<1>2. CASE Queue
  <2> DEFINE x == [Job EXCEPT !.answered = TRUE]
  <2>1. x \in Workflow /\ x.run = runs /\ x.shot = shot /\ x.attempt = Number
        /\ x.mended = fixes /\ x.answered
    BY JobTyped DEF Job
  <2>2. jobs' = Append(jobs, x) /\ prompt' = Len(jobs) + 1
    BY <1>2 DEF Queue
  <2> HIDE DEF x
  <2>3. /\ jobs' \in Seq(Workflow) /\ Len(jobs') = Len(jobs) + 1
        /\ jobs'[prompt'] = x /\ prompt' \in Nat /\ prompt' \in 1..Len(jobs')
    BY <2>1, <2>2, <1>g, Queued, Facts
  <2>4. 1 \in 1..MaxRetries /\ 0 \in 0..MaxPolls
    BY Facts
  <2>5. UNCHANGED <<input, settings, runs, stage, faults>>
        /\ pc' = "wait" /\ tries' = 1 /\ polls' = 0
    BY <1>2 DEF Queue, Fixed
  <2>6. /\ prompt' \in OfThisRun' /\ jobs'[prompt'].answered
        /\ jobs'[prompt'].shot = shot' /\ jobs'[prompt'].attempt = Number'
        /\ jobs'[prompt'].mended = fixes'
    BY <2>1, <2>3, <2>5 DEF OfThisRun, stage, Number
  <2>7. TypeOK'
    BY <2>4, <2>5, <2>6 DEF Typed, TypeOK, stage, Positions
  <2> QED BY <2>3, <2>5, <2>7 DEF Typed, stage
<1>3. CASE QueueFails
  <2>1. jobs' \in Seq(Workflow)
    BY <1>3, <1>g, JobTyped, Queued DEF QueueFails
  <2>2. UNCHANGED stage
    BY <1>3 DEF QueueFails, Retry, Raise
  <2> QED BY <1>3, <1>f, <2>1, <2>2, TypedRetry DEF QueueFails
<1>4. CASE GetFails
  <2>2. UNCHANGED stage
    BY <1>4 DEF GetFails, Retry, Raise
  <2> QED BY <1>4, <1>f, <1>g, <2>2, TypedRetry DEF GetFails
<1>5. CASE Breaks
  <2>1. jobs' \in Seq(Workflow)
    BY <1>5, <1>g, JobTyped, Queued DEF Breaks
  <2> QED BY <1>5, <1>f, <2>1, TypedRaise DEF Breaks
<1>6. CASE Pending
  <2>1. CASE Raise
    BY <1>6, <1>g, <2>1, TypedRaise DEF Pending
  <2>2. CASE polls < MaxPolls /\ polls' = polls + 1 /\ tries' = 1
             /\ UNCHANGED <<pc, prompt, stage>>
    <3>1. polls' \in 0..MaxPolls /\ 1 \in 1..MaxRetries
      BY <2>2, Facts DEF Typed, TypeOK
    <3>2. UNCHANGED <<input, settings, runs, jobs, files, faults>>
      BY <1>6 DEF Pending, Fixed
    <3>3. TypeOK'
      BY <2>2, <3>1, <3>2
      DEF Typed, TypeOK, stage, Positions, OfThisRun, Number
    <3> QED BY <2>2, <3>2, <3>3 DEF Typed, stage
  <2> QED BY <1>6, <2>1, <2>2 DEF Pending
<1>7. CASE Finished
  <2>1. CASE Raise
    BY <1>7, <1>g, <2>1, TypedRaise DEF Finished
  <2>2. CASE jobs[prompt].state \in {"done", "bad"} /\ pc' = "download"
             /\ tries' = 1 /\ UNCHANGED <<polls, prompt, stage>>
    <3>1. 1 \in 1..MaxRetries
      BY Facts
    <3>2. UNCHANGED <<input, settings, runs, jobs, files, faults>>
          /\ pc = "wait"
      BY <1>7 DEF Finished, Fixed
    <3>3. TypeOK'
      BY <2>2, <3>1, <3>2
      DEF Typed, TypeOK, stage, Positions, OfThisRun, Number
    <3> QED BY <2>2, <3>2, <3>3 DEF Typed, stage
  <2> QED BY <1>7, <2>1, <2>2 DEF Finished
<1>8. CASE Download
  <2>1. UNCHANGED <<input, settings, runs, stage, client, jobs, faults>>
        /\ pc = "download" /\ pc' = "stage"
    BY <1>8 DEF Download, Fixed
  <2>2. TypeOK'
    BY <2>1 DEF Typed, TypeOK, stage, client, Positions, OfThisRun, Number
  <2> QED BY <2>1, <2>2 DEF Typed, stage, client
<1>9. CASE Stage
  <2>1. CASE Raise
    BY <1>9, <1>g, <2>1, TypedRaise DEF Stage
  <2>2. CASE jobs[prompt].state # "bad"
    <3>1. /\ staged' = Append(staged, Attempt)
          /\ \/ pc' = "accept" /\ UNCHANGED <<fixes, tries>>
             \/ /\ pc' = "queue" /\ tries' = 1
                /\ fixes' = Verdict(input[shot], fixes).corrections
          /\ UNCHANGED <<shot, best, images, rejected, polls, prompt>>
          /\ UNCHANGED <<input, settings, runs, jobs, faults>>
      BY <1>9, <2>2 DEF Stage, Fixed
    <3>2. Attempt \in Render
          /\ Verdict(input[shot], fixes).corrections \subseteq Dimensions
      BY AttemptTyped
    <3> HIDE DEF Attempt, Verdict
    <3>3. staged \in Seq(Render) /\ staged' \in Seq(Render)
          /\ Len(staged') > 0
      BY <3>1, <3>2, Facts DEF Typed
    <3>4. \E i \in 1..Len(staged') :
              \A k \in 1..Len(staged') : Beats(staged', i, k)
      BY <3>1, <3>2, <3>3, BestStays DEF Typed
    <3>5. 1 \in 1..MaxRetries
      BY Facts
    <3>6. TypeOK'
      BY <3>1, <3>2, <3>5 DEF Typed, TypeOK, Positions
    <3> QED BY <3>1, <3>3, <3>4, <3>6 DEF Typed
  <2> QED BY <1>9, <2>1, <2>2 DEF Stage
<1>10. CASE Accept
  <2>1. CASE Raise
    BY <1>10, <1>g, <2>1, TypedRaise DEF Accept
  <2>2. CASE pc' = "archive" /\ best' = Best
             /\ UNCHANGED <<shot, fixes, staged, images, rejected, client>>
    <3>1. UNCHANGED <<input, settings, runs, jobs, faults>> /\ pc = "accept"
      BY <1>10 DEF Accept, Fixed
    <3>2. Best \in 1..Len(staged)
      BY <3>1, BestIsFirst DEF Typed
    <3>3. best' \in Nat /\ best' \in 1..Len(staged')
      BY <2>2, <3>2, Facts
    <3>4. TypeOK'
      BY <2>2, <3>1, <3>3 DEF Typed, TypeOK, Positions, client
    <3> QED BY <2>2, <3>1, <3>3, <3>4 DEF Typed, client
  <2> QED BY <1>10, <2>1, <2>2 DEF Accept
<1>11. CASE Archive
  <2>1. /\ pc = "archive" /\ best \in 1..Len(staged)
        /\ rejected' = rejected \cup
              {[shot |-> shot, attempt |-> staged[i].attempt,
                job |-> staged[i].job, score |-> staged[i].score] : i \in Losers}
        /\ images' = Append(images, staged[best])
        /\ \/ shot = Len(input) /\ pc' = "complete" /\ UNCHANGED shot
           \/ shot # Len(input) /\ pc' = "queue" /\ shot' = shot + 1
        /\ fixes' = {} /\ staged' = <<>> /\ best' = 0
        /\ tries' = 1 /\ polls' = 0 /\ prompt' = 0
        /\ UNCHANGED <<input, settings, runs, jobs, faults>>
    BY <1>11 DEF Archive, Fixed, Typed, TypeOK
  <2>2. \A i \in 1..Len(staged) : staged[i] \in Render
    BY Element DEF Typed
  <2>3. \A i \in Losers : [shot |-> shot, attempt |-> staged[i].attempt,
            job |-> staged[i].job, score |-> staged[i].score] \in Reject
    BY <2>2, Facts DEF Losers, Render, Reject
  <2>4. rejected' \subseteq Reject
    BY <2>1, <2>3 DEF Typed
  <2>5. images' \in Seq(Render)
    BY <2>1, <2>2 DEF Typed
  <2>6. shot' \in 1..Len(input')
    BY <2>1, Facts
  <2>7. 1 \in 1..MaxRetries /\ 0 \in 0..MaxPolls
    BY Facts
  <2>8. TypeOK'
    BY <2>1, <2>6, <2>7 DEF Typed, TypeOK, Positions
  <2> QED BY <2>1, <2>4, <2>5, <2>8 DEF Typed
<1>12. CASE Server
  <2>1. PICK j \in 1..Len(jobs), o \in Outcomes :
            /\ jobs[j].state = "queued"
            /\ jobs' = [jobs EXCEPT ![j].state = o]
    BY <1>12 DEF Server
  <2>2. UNCHANGED <<input, settings, pc, stage, client, files, runs>>
        /\ faults' \in 0..MaxFaults
    BY <1>12, <1>f, <1>g DEF Server
  <2>3. /\ jobs' \in Seq(Workflow) /\ Len(jobs') = Len(jobs)
        /\ \A i \in 1..Len(jobs) :
              /\ jobs'[i].run = jobs[i].run /\ jobs'[i].shot = jobs[i].shot
              /\ jobs'[i].attempt = jobs[i].attempt
              /\ jobs'[i].mended = jobs[i].mended
              /\ jobs'[i].answered = jobs[i].answered
              /\ jobs[i].state # "queued" => jobs'[i].state = jobs[i].state
    BY <1>g, <2>1, Executed
  <2>4. TypeOK'
    BY <2>2, <2>3
    DEF Typed, TypeOK, stage, client, Positions, OfThisRun, Number
  <2> QED BY <2>2, <2>3, <2>4 DEF Typed, stage, client
<1>13. CASE UNCHANGED vars
  <2>1. TypeOK'
    BY <1>13
    DEF vars, Typed, TypeOK, stage, client, Positions, OfThisRun, Number
  <2> QED BY <1>13, <2>1 DEF vars, Typed, stage, client
<1> QED BY <1>1, <1>2, <1>3, <1>4, <1>5, <1>6, <1>7, <1>8, <1>9, <1>10,
           <1>11, <1>12, <1>13 DEF Next, Proceeds

(* Every variable keeps its shape, for any shots, budgets and faults.      *)
THEOREM Typing == Spec => []TypeOK
<1>1. Typed => TypeOK
  BY DEF Typed
<1> QED BY TypedInit, TypedStep, <1>1, PTL DEF Spec

-----------------------------------------------------------------------------
(* The workflows of an attempt                                             *)

Same(js, r, s, a) == {i \in 1..Len(js) :
    js[i].run = r /\ js[i].shot = s /\ js[i].attempt = a}
Told(js, r, s, a) == {i \in Same(js, r, s, a) : js[i].answered}

(* No attempt has more workflows than tries, nor two that were answered.   *)
Counted == \A r, s, a \in Nat :
    /\ Cardinality(Same(jobs, r, s, a)) <= MaxRetries
    /\ Cardinality(Told(jobs, r, s, a)) <= 1

(* The attempt the stage is at, or the last one it made of this shot.      *)
Reached == IF pc \in {"accept", "archive"} THEN Len(staged) ELSE Number

(* No workflow is ahead of the stage.                                      *)
Numbered ==
    /\ \A j \in 1..Len(jobs) : jobs[j].run <= runs
    /\ Running => \A j \in 1..Len(jobs) : jobs[j].run = runs =>
           /\ jobs[j].shot <= shot
           /\ jobs[j].shot = shot => jobs[j].attempt <= Reached

(* Before an attempt is queued, each of its tries left one workflow at     *)
(* most, and none was answered.                                            *)
AtQueue == pc = "queue" =>
    /\ Cardinality(Same(jobs, runs, shot, Number)) < tries
    /\ Told(jobs, runs, shot, Number) = {}

CInv == Typed /\ Counted /\ Numbered /\ AtQueue

(* These sets are finite.                                                  *)
LEMMA Finite ==
    ASSUME NEW js \in Seq(Workflow), NEW r, NEW s, NEW a
    PROVE  /\ IsFiniteSet(Same(js, r, s, a))
           /\ IsFiniteSet(Told(js, r, s, a))
           /\ Cardinality(Same(js, r, s, a)) \in Nat
           /\ Cardinality(Told(js, r, s, a)) \in Nat
<1>1. IsFiniteSet(1..Len(js))
  BY FS_Interval
<1>2. Same(js, r, s, a) \subseteq 1..Len(js)
      /\ Told(js, r, s, a) \subseteq 1..Len(js)
  BY DEF Same, Told
<1>3. IsFiniteSet(Same(js, r, s, a)) /\ IsFiniteSet(Told(js, r, s, a))
  BY <1>1, <1>2, FS_Subset
<1> QED BY <1>3, FS_CardinalityType

(* One element more counts for one at most.                                *)
LEMMA AddOne ==
    ASSUME NEW S, IsFiniteSet(S), NEW x
    PROVE  /\ Cardinality(S \cup {x}) \in Nat
           /\ Cardinality(S \cup {x}) <= Cardinality(S) + 1
<1>1. /\ IsFiniteSet(S \cup {x})
      /\ Cardinality(S \cup {x}) =
            IF x \in S THEN Cardinality(S) ELSE Cardinality(S) + 1
  BY FS_AddElement
<1>2. Cardinality(S) \in Nat /\ Cardinality(S \cup {x}) \in Nat
  BY <1>1, FS_CardinalityType
<1> QED BY <1>1, <1>2

(* What a workflow more adds to them.                                      *)
LEMMA OneMore ==
    ASSUME NEW js \in Seq(Workflow), NEW x \in Workflow,
           NEW r, NEW s, NEW a
    PROVE  LET ks == Append(js, x)
               n == Len(js) + 1
               its == x.run = r /\ x.shot = s /\ x.attempt = a
           IN  /\ its => Same(ks, r, s, a) = Same(js, r, s, a) \cup {n}
               /\ ~its => Same(ks, r, s, a) = Same(js, r, s, a)
               /\ its /\ x.answered =>
                     Told(ks, r, s, a) = Told(js, r, s, a) \cup {n}
               /\ ~its \/ ~x.answered => Told(ks, r, s, a) = Told(js, r, s, a)
<1> DEFINE ks == Append(js, x)
<1>1. /\ Len(ks) = Len(js) + 1 /\ Len(js) \in Nat
      /\ \A j \in 1..Len(js) : ks[j] = js[j]
      /\ ks[Len(js) + 1] = x
  BY Queued
<1> HIDE DEF ks
<1>2. \A j : j \in 1..Len(ks) <=> j \in 1..Len(js) \/ j = Len(js) + 1
  BY <1>1
<1>3. ~(Len(js) + 1 \in 1..Len(js))
  BY <1>1
<1>4. \A j : j \in Same(ks, r, s, a) <=>
          \/ j \in Same(js, r, s, a)
          \/ j = Len(js) + 1 /\ x.run = r /\ x.shot = s /\ x.attempt = a
  BY <1>1, <1>2, <1>3 DEF Same
<1>5. \A j \in Same(js, r, s, a) : ks[j] = js[j]
  BY <1>1 DEF Same
<1>6. \A j : j \in Told(ks, r, s, a) <=>
          \/ j \in Told(js, r, s, a)
          \/ /\ j = Len(js) + 1 /\ x.run = r /\ x.shot = s /\ x.attempt = a
             /\ x.answered
  BY <1>1, <1>4, <1>5, <1>3 DEF Told, Same
<1> QED BY <1>4, <1>6 DEF ks

(* An attempt that was never queued has no workflow.                       *)
LEMMA NoneYet ==
    ASSUME NEW js \in Seq(Workflow), NEW r, NEW s, NEW a,
           \A j \in 1..Len(js) :
              ~(js[j].run = r /\ js[j].shot = s /\ js[j].attempt = a)
    PROVE  /\ Cardinality(Same(js, r, s, a)) = 0
           /\ Told(js, r, s, a) = {}
<1>1. Same(js, r, s, a) = {}
  BY DEF Same
<1> QED BY <1>1, FS_EmptySet DEF Told

(* A queued workflow of the present attempt, answered or not.              *)
LEMMA CountQueued ==
    ASSUME CInv, pc = "queue", NEW x \in Workflow,
           x.run = runs, x.shot = shot, x.attempt = Number,
           jobs' = Append(jobs, x), MaxRetries' = MaxRetries
    PROVE  /\ Counted'
           /\ Cardinality(Same(jobs', runs, shot, Number)) < tries + 1
           /\ ~x.answered => Told(jobs', runs, shot, Number) = {}
<1> DEFINE n == Len(jobs) + 1
<1>0. jobs \in Seq(Workflow) /\ tries \in Nat /\ tries <= MaxRetries
      /\ MaxRetries \in Nat
  BY Facts DEF CInv, Typed
<1>1. ASSUME NEW r \in Nat, NEW s \in Nat, NEW a \in Nat
      PROVE  /\ Cardinality(Same(jobs', r, s, a)) <= MaxRetries
             /\ Cardinality(Told(jobs', r, s, a)) <= 1
  <2>1. CASE r = runs /\ s = shot /\ a = Number
    <3>1. /\ Cardinality(Same(jobs, r, s, a)) < tries
          /\ Told(jobs, r, s, a) = {}
      BY <2>1 DEF CInv, AtQueue
    <3>2. /\ Same(jobs', r, s, a) = Same(jobs, r, s, a) \cup {n}
          /\ x.answered =>
                Told(jobs', r, s, a) = Told(jobs, r, s, a) \cup {n}
          /\ ~x.answered => Told(jobs', r, s, a) = Told(jobs, r, s, a)
      BY <1>0, <2>1, OneMore
    <3>3. /\ IsFiniteSet(Same(jobs, r, s, a))
          /\ Cardinality(Same(jobs, r, s, a)) \in Nat
      BY <1>0, Finite
    <3>4. /\ Cardinality(Same(jobs', r, s, a)) \in Nat
          /\ Cardinality(Same(jobs', r, s, a))
                <= Cardinality(Same(jobs, r, s, a)) + 1
      BY <3>2, <3>3, AddOne
    <3>6. IsFiniteSet({n}) /\ Cardinality({n}) = 1
      BY FS_Singleton
    <3>8. Told(jobs', r, s, a) \subseteq {n}
      BY <3>1, <3>2
    <3>7. Cardinality(Told(jobs', r, s, a)) <= 1
      BY <3>6, <3>8, FS_Subset
    <3> QED BY <1>0, <3>1, <3>3, <3>4, <3>7
  <2>2. CASE ~(r = runs /\ s = shot /\ a = Number)
    <3>1. /\ Same(jobs', r, s, a) = Same(jobs, r, s, a)
          /\ Told(jobs', r, s, a) = Told(jobs, r, s, a)
      BY <1>0, <2>2, OneMore
    <3> QED BY <3>1 DEF CInv, Counted
  <2> QED BY <2>1, <2>2
<1>2. Counted'
  BY <1>1 DEF Counted
<1>3. /\ Cardinality(Same(jobs, runs, shot, Number)) < tries
      /\ Told(jobs, runs, shot, Number) = {}
  BY DEF CInv, AtQueue
<1>4. /\ Same(jobs', runs, shot, Number)
            = Same(jobs, runs, shot, Number) \cup {n}
      /\ ~x.answered => Told(jobs', runs, shot, Number)
                          = Told(jobs, runs, shot, Number)
  BY <1>0, OneMore
<1>5. /\ IsFiniteSet(Same(jobs, runs, shot, Number))
      /\ Cardinality(Same(jobs, runs, shot, Number)) \in Nat
  BY <1>0, Finite
<1>6. Cardinality(Same(jobs', runs, shot, Number)) < tries + 1
  <2>1. /\ Cardinality(Same(jobs', runs, shot, Number)) \in Nat
        /\ Cardinality(Same(jobs', runs, shot, Number))
              <= Cardinality(Same(jobs, runs, shot, Number)) + 1
    BY <1>4, <1>5, AddOne
  <2> QED BY <1>0, <1>3, <1>5, <2>1
<1> QED BY <1>2, <1>3, <1>4, <1>6

(* The workflow numbers after one was queued for the present attempt.      *)
LEMMA NumberedQueued ==
    ASSUME CInv, pc = "queue", NEW x \in Workflow,
           x.run = runs, x.shot = shot, x.attempt = Number,
           jobs' = Append(jobs, x), UNCHANGED <<runs, shot, staged>>,
           pc' \in {"queue", "wait", "failed"}
    PROVE  Numbered'
<1>1. /\ Len(jobs') = Len(jobs) + 1 /\ Len(jobs) \in Nat
      /\ \A j \in 1..Len(jobs) : jobs'[j] = jobs[j]
      /\ jobs'[Len(jobs) + 1] = x
  BY Queued, Facts DEF CInv, Typed
<1>2. runs \in Nat /\ shot \in Nat /\ Number \in Nat
  BY Facts DEF CInv
<1>3. Reached' = Number /\ Reached = Number
  BY DEF Reached, Number
<1>4. ASSUME NEW j \in 1..Len(jobs')
      PROVE  /\ jobs'[j].run <= runs
             /\ jobs'[j].run = runs =>
                   /\ jobs'[j].shot <= shot
                   /\ jobs'[j].shot = shot => jobs'[j].attempt <= Number
  <2>1. CASE j = Len(jobs) + 1
    BY <1>1, <1>2, <2>1
  <2>2. CASE j \in 1..Len(jobs)
    BY <1>1, <1>3, <2>2 DEF CInv, Numbered, Running
  <2> QED BY <1>1, <2>1, <2>2
<1> QED BY <1>3, <1>4 DEF Numbered, Running

(* Nothing is queued: the counts stay.                                     *)
LEMMA CountKept ==
    ASSUME CInv, Typed',
           Len(jobs') = Len(jobs),
           \A i \in 1..Len(jobs) :
              /\ jobs'[i].run = jobs[i].run /\ jobs'[i].shot = jobs[i].shot
              /\ jobs'[i].attempt = jobs[i].attempt
              /\ jobs'[i].answered = jobs[i].answered
    PROVE  /\ Counted'
           /\ \A r, s, a : /\ Same(jobs', r, s, a) = Same(jobs, r, s, a)
                           /\ Told(jobs', r, s, a) = Told(jobs, r, s, a)
<1>1. ASSUME NEW r, NEW s, NEW a
      PROVE  /\ Same(jobs', r, s, a) = Same(jobs, r, s, a)
             /\ Told(jobs', r, s, a) = Told(jobs, r, s, a)
  <2>1. Same(jobs', r, s, a) = Same(jobs, r, s, a)
    BY DEF Same
  <2>2. \A i \in Same(jobs, r, s, a) : jobs'[i].answered = jobs[i].answered
    BY DEF Same
  <2> QED BY <2>1, <2>2 DEF Told
<1> QED BY <1>1 DEF CInv, Counted

(* A raise at a place where nothing is queued.                             *)
LEMMA CountRaised ==
    ASSUME CInv, Typed', pc' = "failed", UNCHANGED <<jobs, runs>>
    PROVE  CInv'
<1>1. Counted'
  BY CountKept
<1>2. Numbered'
  BY DEF CInv, Numbered, Running
<1> QED BY <1>1, <1>2 DEF CInv, AtQueue

(* Another request after a failing one, or the end of the run.             *)
LEMMA CountRetried ==
    ASSUME CInv, Typed', Retry, pc # "queue", UNCHANGED <<jobs, runs>>,
           UNCHANGED stage
    PROVE  CInv'
<1>1. CASE tries < MaxRetries
  <2>1. UNCHANGED <<pc, jobs, runs, shot, staged>>
    BY <1>1 DEF Retry, stage
  <2>2. Numbered'
    BY <2>1 DEF CInv, Numbered, Running, Reached, Number
  <2>3. Counted'
    BY <2>1, CountKept
  <2> QED BY <2>1, <2>2, <2>3 DEF CInv, AtQueue
<1>2. CASE ~(tries < MaxRetries)
  BY <1>2, CountRaised DEF Retry, Raise
<1> QED BY <1>1, <1>2

(* The stage goes on with the attempt it is at.                            *)
LEMMA CountGoesOn ==
    ASSUME CInv, Typed', UNCHANGED <<jobs, runs, shot, staged>>,
           \/ /\ pc \in {"wait", "download"}
              /\ pc' \in {"wait", "download", "stage", "failed"}
           \/ pc = "accept" /\ pc' = "archive"
    PROVE  CInv'
<1>1. Reached' = Reached \/ pc' = "failed"
  BY DEF Reached, Number
<1>2. Numbered'
  BY <1>1 DEF CInv, Numbered, Running
<1>3. Counted'
  BY CountKept
<1> QED BY <1>2, <1>3 DEF CInv, AtQueue

(* A new attempt begins, of which there is no workflow yet.                *)
LEMMA CountBegins ==
    ASSUME CInv, Typed', UNCHANGED jobs, pc' = "queue", tries' = 1,
           \A j \in 1..Len(jobs) :
              /\ jobs[j].run <= runs'
              /\ jobs[j].run = runs' =>
                    /\ jobs[j].shot <= shot'
                    /\ jobs[j].shot = shot' => jobs[j].attempt < Number'
    PROVE  CInv'
<1>1. Counted'
  BY CountKept
<1>2. \A j \in 1..Len(jobs) : jobs[j].attempt \in Nat
  <2>1. \A j \in 1..Len(jobs) : jobs[j] \in Workflow
    BY Element DEF CInv, Typed
  <2> QED BY <2>1 DEF Workflow
<1>3. Number' \in Nat
  BY DEF Typed, Number
<1>4. Numbered'
  BY <1>2, <1>3 DEF Numbered, Running, Reached
<1>5. \A j \in 1..Len(jobs) : ~(/\ jobs[j].run = runs' /\ jobs[j].shot = shot'
                               /\ jobs[j].attempt = Number')
  BY <1>2, <1>3
<1>6. /\ Cardinality(Same(jobs, runs', shot', Number')) = 0
      /\ Told(jobs, runs', shot', Number') = {}
  BY <1>5, NoneYet DEF CInv, Typed
<1>7. AtQueue'
  BY <1>6 DEF AtQueue
<1> QED BY <1>1, <1>4, <1>7 DEF CInv

(* Nothing is queued at the start.                                         *)
LEMMA CountInit == Init => CInv
<1> SUFFICES ASSUME Init PROVE CInv
  OBVIOUS
<1>1. Typed /\ jobs = <<>> /\ pc = "idle"
  BY TypedInit DEF Init
<1>2. MaxRetries \in Nat
  BY ConstantsAssumption DEF ConstantsAssumption
<1>3. \A r, s, a \in Nat : /\ Cardinality(Same(jobs, r, s, a)) = 0
                           /\ Told(jobs, r, s, a) = {}
  <2>1. jobs \in Seq(Workflow) /\ \A j \in 1..Len(jobs) : FALSE
    BY <1>1
  <2> QED BY <2>1, NoneYet
<1>4. Counted
  <2>1. Cardinality({}) = 0
    BY FS_EmptySet
  <2> QED BY <1>2, <1>3, <2>1 DEF Counted
<1> QED BY <1>1, <1>4 DEF CInv, Numbered, AtQueue

(* Every step preserves the counts.                                        *)
LEMMA CountStep == CInv /\ [Next]_vars => CInv'
<1> SUFFICES ASSUME CInv, [Next]_vars PROVE CInv'
  OBVIOUS
<1>t. Typed /\ Typed'
  BY TypedStep DEF CInv
<1>w. \A j \in 1..Len(jobs) : jobs[j] \in Workflow
  BY <1>t, Element DEF Typed
<1>n. \A j \in 1..Len(jobs) : /\ jobs[j].run \in Nat /\ jobs[j].shot \in Nat
                              /\ jobs[j].attempt \in Nat
  BY <1>w DEF Workflow
<1>f. runs \in Nat /\ shot \in Nat /\ Len(staged) \in Nat /\ Number \in Nat
      /\ tries \in Nat
  BY <1>t, Facts
<1>1. CASE Execute
  <2>1. /\ runs' = runs + 1 /\ pc' = "queue" /\ tries' = 1 /\ UNCHANGED jobs
    BY <1>1 DEF Execute
  <2>2. \A j \in 1..Len(jobs) : jobs[j].run <= runs' /\ jobs[j].run # runs'
    BY <1>f, <1>n, <2>1 DEF CInv, Numbered
  <2> QED BY <1>t, <2>1, <2>2, CountBegins
<1>2. CASE Queue
  <2> DEFINE x == [Job EXCEPT !.answered = TRUE]
  <2>1. x \in Workflow /\ x.run = runs /\ x.shot = shot /\ x.attempt = Number
    BY <1>t, JobTyped DEF Job
  <2>2. /\ jobs' = Append(jobs, x) /\ pc = "queue" /\ pc' = "wait"
        /\ UNCHANGED <<runs, shot, staged>>
    BY <1>2 DEF Queue, Fixed, stage
  <2> HIDE DEF x
  <2>3. Counted' /\ Numbered'
    BY <2>1, <2>2, CountQueued, NumberedQueued
  <2> QED BY <1>t, <2>2, <2>3 DEF CInv, AtQueue
<1>3. CASE QueueFails
  <2>1. /\ Job \in Workflow /\ Job.run = runs /\ Job.shot = shot
        /\ Job.attempt = Number /\ ~Job.answered
    BY <1>t, JobTyped DEF Job
  <2>2. /\ pc = "queue" /\ UNCHANGED <<runs, shot, staged>>
        /\ Retry
        /\ jobs' = jobs \/ jobs' = Append(jobs, Job)
    BY <1>3 DEF QueueFails, Fixed, Retry, Raise, stage
  <2> HIDE DEF Job
  <2>3. \/ tries < MaxRetries /\ pc' = "queue" /\ tries' = tries + 1
        \/ pc' = "failed"
    BY <2>2 DEF Retry, Raise
  <2>4. Number' = Number
    BY <2>2 DEF Number
  <2>5. CASE jobs' = Append(jobs, Job)
    <3>1. /\ Counted' /\ Numbered'
          /\ Cardinality(Same(jobs', runs, shot, Number)) < tries + 1
          /\ Told(jobs', runs, shot, Number) = {}
      BY <2>1, <2>2, <2>3, <2>5, CountQueued, NumberedQueued
    <3>2. AtQueue'
      BY <2>2, <2>3, <2>4, <3>1 DEF AtQueue
    <3> QED BY <1>t, <3>1, <3>2 DEF CInv
  <2>6. CASE jobs' = jobs
    <3>1. CASE pc' = "failed"
      BY <1>t, <2>2, <2>6, <3>1, CountRaised
    <3>2. CASE pc' = "queue" /\ tries' = tries + 1
      <4>1. Counted'
        BY <1>t, <2>6, CountKept
      <4>2. Numbered'
        BY <2>2, <2>4, <2>6, <3>2 DEF CInv, Numbered, Running, Reached
      <4>3. Cardinality(Same(jobs, runs, shot, Number)) \in Nat
        BY <1>t, Finite DEF Typed
      <4>4. AtQueue'
        BY <1>f, <2>2, <2>4, <2>6, <3>2, <4>3 DEF CInv, AtQueue
      <4> QED BY <1>t, <4>1, <4>2, <4>4 DEF CInv
    <3> QED BY <2>3, <3>1, <3>2
  <2> QED BY <2>2, <2>5, <2>6
<1>4. CASE GetFails
  <2>1. pc # "queue" /\ Retry /\ UNCHANGED <<jobs, runs>> /\ UNCHANGED stage
    BY <1>4 DEF GetFails, Fixed, Retry, Raise
  <2> QED BY <1>t, <2>1, CountRetried
<1>5. CASE Breaks
  <2>1. /\ pc' = "failed" /\ UNCHANGED <<runs, shot, staged>>
        /\ \/ UNCHANGED jobs
           \/ pc = "queue" /\ jobs' = Append(jobs, Job)
    BY <1>5 DEF Breaks, Raise, Fixed, stage
  <2>2. CASE UNCHANGED jobs
    BY <1>t, <2>1, <2>2, CountRaised
  <2>3. CASE pc = "queue" /\ jobs' = Append(jobs, Job)
    <3>1. /\ Job \in Workflow /\ Job.run = runs /\ Job.shot = shot
          /\ Job.attempt = Number
      BY <1>t, JobTyped DEF Job
    <3> HIDE DEF Job
    <3>2. Counted' /\ Numbered'
      BY <2>1, <2>3, <3>1, CountQueued, NumberedQueued
    <3> QED BY <1>t, <2>1, <3>2 DEF CInv, AtQueue
  <2> QED BY <2>1, <2>2, <2>3
<1>6. CASE Pending
  <2>1. UNCHANGED <<jobs, runs, shot, staged>> /\ pc = "wait"
        /\ pc' \in {"wait", "failed"}
    BY <1>6 DEF Pending, Raise, Fixed, stage
  <2> QED BY <1>t, <2>1, CountGoesOn
<1>7. CASE Finished
  <2>1. UNCHANGED <<jobs, runs, shot, staged>> /\ pc = "wait"
        /\ pc' \in {"download", "failed"}
    BY <1>7 DEF Finished, Raise, Fixed, stage
  <2> QED BY <1>t, <2>1, CountGoesOn
<1>8. CASE Download
  <2>1. UNCHANGED <<jobs, runs, shot, staged>> /\ pc = "download"
        /\ pc' = "stage"
    BY <1>8 DEF Download, Fixed, stage
  <2> QED BY <1>t, <2>1, CountGoesOn
<1>9. CASE Stage
  <2>1. UNCHANGED <<jobs, runs>> /\ pc = "stage"
    BY <1>9 DEF Stage, Fixed
  <2>2. CASE Raise
    BY <1>t, <2>1, <2>2, CountRaised DEF Raise
  <2>3. CASE jobs[prompt].state # "bad"
    <3>1. /\ staged' = Append(staged, Attempt) /\ UNCHANGED shot
          /\ \/ pc' = "accept" /\ UNCHANGED <<fixes, tries>>
             \/ pc' = "queue" /\ tries' = 1
      BY <1>9, <2>3 DEF Stage
    <3>2. Attempt \in Render
      BY <1>t, AttemptTyped
    <3> HIDE DEF Attempt
    <3>3. Len(staged') = Len(staged) + 1
      BY <1>t, <3>1, <3>2 DEF Typed
    <3>4. \A j \in 1..Len(jobs) :
             /\ jobs[j].run <= runs
             /\ jobs[j].run = runs =>
                   /\ jobs[j].shot <= shot
                   /\ jobs[j].shot = shot => jobs[j].attempt <= Number
      BY <2>1 DEF CInv, Numbered, Running, Reached
    <3>5. CASE pc' = "queue" /\ tries' = 1
      <4>1. Number' = Number + 1
        BY <1>f, <3>3 DEF Number
      <4>2. \A j \in 1..Len(jobs) :
               /\ jobs[j].run <= runs
               /\ jobs[j].run = runs =>
                     /\ jobs[j].shot <= shot
                     /\ jobs[j].shot = shot => jobs[j].attempt < Number'
        BY <1>f, <1>n, <3>4, <4>1
      <4> QED BY <1>t, <2>1, <3>1, <3>5, <4>2, CountBegins
    <3>6. CASE pc' = "accept"
      <4>1. Reached' = Number
        BY <3>3, <3>6 DEF Reached, Number
      <4>2. Numbered'
        BY <2>1, <3>1, <3>4, <4>1 DEF Numbered, Running
      <4>3. Counted'
        BY <1>t, <2>1, CountKept
      <4> QED BY <1>t, <3>6, <4>2, <4>3 DEF CInv, AtQueue
    <3> QED BY <3>1, <3>5, <3>6
  <2> QED BY <1>9, <2>2, <2>3 DEF Stage
<1>10. CASE Accept
  <2>1. UNCHANGED <<jobs, runs>> /\ pc = "accept"
    BY <1>10 DEF Accept, Fixed
  <2>2. CASE Raise
    BY <1>t, <2>1, <2>2, CountRaised DEF Raise
  <2>3. CASE ~Raise
    <3>1. pc' = "archive" /\ UNCHANGED <<shot, staged>>
      BY <1>10, <2>3 DEF Accept
    <3> QED BY <1>t, <2>1, <3>1, CountGoesOn
  <2> QED BY <2>2, <2>3
<1>11. CASE Archive
  <2>1. /\ UNCHANGED <<jobs, runs>> /\ pc = "archive" /\ tries' = 1
        /\ staged' = <<>>
        /\ \/ shot = Len(input) /\ pc' = "complete"
           \/ shot # Len(input) /\ pc' = "queue" /\ shot' = shot + 1
    BY <1>11 DEF Archive, Fixed
  <2>2. CASE pc' = "complete"
    <3>1. Counted'
      BY <1>t, <2>1, CountKept
    <3> QED BY <1>t, <2>1, <2>2, <3>1
            DEF CInv, AtQueue, Numbered, Running
  <2>3. CASE pc' = "queue" /\ shot' = shot + 1
    <3>1. \A j \in 1..Len(jobs) :
             /\ jobs[j].run <= runs
             /\ jobs[j].run = runs => jobs[j].shot < shot'
      BY <1>f, <1>n, <2>1, <2>3 DEF CInv, Numbered, Running
    <3>2. shot' \in Nat
      BY <1>f, <2>3
    <3> QED BY <1>t, <1>n, <2>1, <2>3, <3>1, <3>2, CountBegins
  <2> QED BY <2>1, <2>2, <2>3
<1>12. CASE Server
  <2>1. PICK j \in 1..Len(jobs), o \in Outcomes :
            /\ jobs[j].state = "queued"
            /\ jobs' = [jobs EXCEPT ![j].state = o]
    BY <1>12 DEF Server
  <2>2. UNCHANGED <<runs, pc, shot, staged, tries>>
    BY <1>12 DEF Server, stage, client
  <2>3. /\ Len(jobs') = Len(jobs)
        /\ \A i \in 1..Len(jobs) :
              /\ jobs'[i].run = jobs[i].run /\ jobs'[i].shot = jobs[i].shot
              /\ jobs'[i].attempt = jobs[i].attempt
              /\ jobs'[i].answered = jobs[i].answered
    <3>1. jobs \in Seq(Workflow)
      BY <1>t DEF Typed
    <3> QED BY <2>1, <3>1, Executed
  <2>4. /\ Counted'
        /\ \A r, s, a : /\ Same(jobs', r, s, a) = Same(jobs, r, s, a)
                        /\ Told(jobs', r, s, a) = Told(jobs, r, s, a)
    BY <1>t, <2>3, CountKept
  <2>5. Numbered'
    BY <2>2, <2>3 DEF CInv, Numbered, Running, Reached, Number
  <2>6. AtQueue'
    BY <2>2, <2>4 DEF CInv, AtQueue, Number
  <2> QED BY <1>t, <2>4, <2>5, <2>6 DEF CInv
<1>13. CASE UNCHANGED vars
  <2>1. UNCHANGED <<runs, pc, shot, staged, tries, jobs>>
    BY <1>13 DEF vars, stage, client
  <2>2. Counted'
    BY <1>t, <2>1, CountKept
  <2> QED BY <1>t, <2>1, <2>2
          DEF CInv, Numbered, Running, Reached, Number, AtQueue
<1> QED BY <1>1, <1>2, <1>3, <1>4, <1>5, <1>6, <1>7, <1>8, <1>9, <1>10,
           <1>11, <1>12, <1>13 DEF Next, Proceeds

(* Whatever answers are lost: at most one workflow of an attempt is ever   *)
(* answered, and the server is sent no more than the client may retry.     *)
THEOREM OneWorkflow == Spec => []OneWorkflowPerAttempt
<1>1. CInv => OneWorkflowPerAttempt
  <2> SUFFICES ASSUME CInv, NEW j \in 1..Len(jobs)
               PROVE  /\ Cardinality({i \in WorkflowsOf(j) :
                                         jobs[i].answered}) <= 1
                      /\ Cardinality(WorkflowsOf(j)) <= MaxRetries
    BY DEF OneWorkflowPerAttempt
  <2>1. jobs[j] \in Workflow
    BY Element DEF CInv, Typed
  <2>2. jobs[j].run \in Nat /\ jobs[j].shot \in Nat /\ jobs[j].attempt \in Nat
    BY <2>1 DEF Workflow
  <2>3. WorkflowsOf(j) = Same(jobs, jobs[j].run, jobs[j].shot, jobs[j].attempt)
    BY DEF WorkflowsOf, Same
  <2>4. {i \in WorkflowsOf(j) : jobs[i].answered}
            = Told(jobs, jobs[j].run, jobs[j].shot, jobs[j].attempt)
    BY <2>3 DEF Told
  <2> QED BY <2>2, <2>3, <2>4 DEF CInv, Counted
<1> QED BY CountInit, CountStep, <1>1, PTL DEF Spec

-----------------------------------------------------------------------------
(* The files                                                               *)

(* Different renders have different names.                                 *)
LEMMA Names ==
    /\ \A j, n, k : /\ Output(j) # Staged(n, k) /\ Output(j) # Final(n)
                    /\ Output(j) # Rejected(n, k)
    /\ \A n, k, m, l : /\ Staged(n, k) # Final(m)
                       /\ Staged(n, k) # Rejected(m, l)
                       /\ Final(m) # Rejected(n, k)
                       /\ Staged(n, k) = Staged(m, l) => n = m /\ k = l
                       /\ Rejected(n, k) = Rejected(m, l) => n = m /\ k = l
                       /\ Final(n) = Final(m) => n = m
    /\ \A n, k : /\ Final(n).kind = "final"
                 /\ Rejected(n, k).kind = "rejected"
                 /\ Staged(n, k).kind = "staged"
    /\ \A j : Output(j).kind = "output"
  BY DEF Output, Staged, Final, Rejected, Name

(* What a name holds after a file was written.                             *)
LEMMA HeldPut ==
    ASSUME NEW fs, NEW name, NEW j
    PROVE  /\ Held(Put(fs, name, j), name) = {j}
           /\ \A m : m # name => Held(Put(fs, name, j), m) = Held(fs, m)
           /\ \A f \in Put(fs, name, j) :
                 \/ f \in fs /\ f.name # name
                 \/ f.name = name /\ f.job = j
<1> DEFINE x == [name |-> name, job |-> j]
           fs2 == Put(fs, name, j)
<1>1. x.name = name /\ x.job = j
  OBVIOUS
<1> HIDE DEF x
<1>2. \A f : f \in fs2 <=> (f \in fs /\ f.name # name) \/ f = x
  BY DEF Put, x
<1> HIDE DEF fs2
<1>3. Held(fs2, name) = {j}
  BY <1>1, <1>2 DEF Held
<1>4. ASSUME NEW m, m # name PROVE Held(fs2, m) = Held(fs, m)
  BY <1>1, <1>2, <1>4 DEF Held
<1>5. \A f \in fs2 : \/ f \in fs /\ f.name # name
                     \/ f.name = name /\ f.job = j
  BY <1>1, <1>2
<1> QED BY <1>3, <1>4, <1>5 DEF fs2

(* What a name holds after a file was renamed.                             *)
LEMMA HeldMoved ==
    ASSUME NEW fs, NEW from, NEW to, from # to
    PROVE  /\ Held(Moved(fs, from, to), to) = Held(fs, from)
           /\ \A m : m # from /\ m # to =>
                 Held(Moved(fs, from, to), m) = Held(fs, m)
           /\ \A f \in Moved(fs, from, to) :
                 \/ f \in fs /\ f.name # from
                 \/ /\ f.name = to
                    /\ \E g \in fs : g.name = from /\ g.job = f.job
<1> DEFINE fs2 == Moved(fs, from, to)
<1>1. \A f : f \in fs2 <=> \/ f \in fs /\ f.name # from /\ f.name # to
                           \/ \E j \in Held(fs, from) :
                                 f = [name |-> to, job |-> j]
  BY DEF Moved
<1>2. \A j : j \in Held(fs, from) <=>
                 \E g \in fs : g.name = from /\ g.job = j
  BY DEF Held
<1>3. \A m, j : j \in Held(fs2, m) <=>
                 \E g \in fs2 : g.name = m /\ g.job = j
  BY DEF Held
<1> HIDE DEF fs2
<1>4. Held(fs2, to) = Held(fs, from)
  <2>1. \A j \in Held(fs2, to) : j \in Held(fs, from)
    BY <1>1, <1>3
  <2>2. ASSUME NEW j \in Held(fs, from) PROVE j \in Held(fs2, to)
    <3> DEFINE f == [name |-> to, job |-> j]
    <3>1. f \in fs2 /\ f.name = to /\ f.job = j
      BY <1>1, <2>2
    <3> QED BY <1>3, <3>1
  <2> QED BY <2>1, <2>2
<1>5. ASSUME NEW m, m # from, m # to PROVE Held(fs2, m) = Held(fs, m)
  <2>1. \A f : f \in fs2 /\ f.name = m <=> f \in fs /\ f.name = m
    BY <1>1, <1>5
  <2> QED BY <2>1 DEF Held
<1>6. \A f \in fs2 : \/ f \in fs /\ f.name # from
                     \/ /\ f.name = to
                        /\ \E g \in fs : g.name = from /\ g.job = f.job
  BY <1>1, <1>2
<1> QED BY <1>4, <1>5, <1>6 DEF fs2

(* Every file holds a render of the server.                                *)
Known == \A f \in files : f.job \in 1..Len(jobs)

(* It does so whatever happens.                                            *)
LEMMA KnownStep == Typed /\ Typed' /\ Known /\ [Next]_vars => Known'
<1> SUFFICES ASSUME Typed, Typed', Known, [Next]_vars PROVE Known'
  OBVIOUS
<1>1. Len(jobs) \in Nat /\ jobs \in Seq(Workflow)
  BY Facts DEF Typed
<1>2. Len(jobs') >= Len(jobs) /\ Len(jobs') \in Nat
  <2>1. CASE UNCHANGED jobs
    BY <1>1, <2>1
  <2>2. CASE \E x \in Workflow : jobs' = Append(jobs, x)
    BY <1>1, <2>2, Queued
  <2>3. CASE Server
    <3>1. PICK j \in 1..Len(jobs), o \in Outcomes :
              /\ jobs[j].state = "queued"
              /\ jobs' = [jobs EXCEPT ![j].state = o]
      BY <2>3 DEF Server
    <3> QED BY <1>1, <3>1, Executed
  <2>4. \/ UNCHANGED jobs \/ Server
        \/ jobs' = Append(jobs, Job)
        \/ jobs' = Append(jobs, [Job EXCEPT !.answered = TRUE])
    BY DEF Next, Proceeds, vars, Execute, Queue, QueueFails, GetFails, Breaks,
           Pending, Finished, Download, Stage, Accept, Archive
  <2> QED BY <2>1, <2>2, <2>3, <2>4, JobTyped
<1>3. \A j \in 1..Len(jobs) : j \in 1..Len(jobs')
  BY <1>1, <1>2
<1>4. CASE Download
  <2>1. files' = Put(files, Output(prompt), prompt) /\ prompt \in 1..Len(jobs)
    BY <1>4 DEF Download, Typed, TypeOK, OfThisRun
  <2>2. \A f \in files' : f \in files \/ f.job = prompt
    BY <2>1, HeldPut
  <2> QED BY <1>3, <2>1, <2>2 DEF Known
<1>5. CASE Stage
  <2>1. files' = Moved(files, Output(prompt), Staged(shot, Number))
    BY <1>5 DEF Stage
  <2>2. \A f \in files' : \E g \in files : f.job = g.job
    BY <2>1, Names, HeldMoved
  <2> QED BY <1>3, <2>2 DEF Known
<1>6. CASE Accept
  <2>1. files' = Moved(files, StagedAt(Best), Final(shot))
    BY <1>6 DEF Accept
  <2>2. StagedAt(Best) # Final(shot)
    BY Names DEF StagedAt
  <2>3. \A f \in files' : \E g \in files : f.job = g.job
    BY <2>1, <2>2, HeldMoved
  <2> QED BY <1>3, <2>3 DEF Known
<1>7. CASE Archive
  <2>1. files' = Archived
    BY <1>7 DEF Archive
  <2>2. \A f \in files' : \E g \in files : f.job = g.job
    BY <2>1 DEF Archived, Held
  <2> QED BY <1>3, <2>2 DEF Known
<1>8. CASE UNCHANGED files
  BY <1>3, <1>8 DEF Known
<1> QED BY <1>4, <1>5, <1>6, <1>7, <1>8
        DEF Next, Proceeds, vars, Execute, Queue, QueueFails, GetFails, Breaks,
            Pending, Finished, Server

-----------------------------------------------------------------------------
(* The manifest of a run that has not failed                               *)

(* Workflow j made attempt a at shot n of this run, and it went well.      *)
Made(js, r, j, n, a, mended) ==
    /\ j \in 1..Len(js)
    /\ js[j].run = r /\ js[j].shot = n /\ js[j].attempt = a
    /\ js[j].mended = mended /\ js[j].state = "done" /\ js[j].answered

Assets ==
    /\ Len(images) = IF pc = "complete" THEN Len(input) ELSE shot - 1
    /\ \A n \in 1..Len(images) :
          /\ Held(files, Final(n)) = {images[n].job}
          /\ Made(jobs, runs, images[n].job, n, images[n].attempt,
                  images[n].mended)
          /\ settings.critic /\ settings.strict => images[n].passed

Rejects == \A r \in rejected :
    /\ r.shot \in 1..Len(images)
    /\ Held(files, Rejected(r.shot, r.attempt)) = {r.job}
    /\ \E m : Made(jobs, runs, r.job, r.shot, r.attempt, m)
    /\ r.score <= images[r.shot].score
    /\ r.score = images[r.shot].score => r.attempt > images[r.shot].attempt

Gone(i) == pc = "archive" /\ i = best
Staging ==
    /\ pc \in {"idle", "complete"} => Len(staged) = 0
    /\ \A i \in 1..Len(staged) :
          /\ staged[i].attempt = i
          /\ Made(jobs, runs, staged[i].job, shot, i, staged[i].mended)
          /\ ~Gone(i) => Held(files, Staged(shot, i)) = {staged[i].job}

Accepted == pc = "archive" =>
    /\ best \in 1..Len(staged)
    /\ Held(files, Final(shot)) = {staged[best].job}
    /\ \A k \in 1..Len(staged) : Beats(staged, best, k)
    /\ settings.critic /\ settings.strict => staged[best].passed

Downloaded == pc = "stage" => Held(files, Output(prompt)) = {prompt}

(* The working names that are in use.                                      *)
InUse(name) == \/ pc = "stage" /\ name = Output(prompt)
               \/ \E i \in 1..Len(staged) :
                     name = Staged(shot, i) /\ ~Gone(i)
Tidy == \A f \in files :
    f.name.kind \in {"staged", "output"} /\ jobs[f.job].run = runs =>
        InUse(f.name)

(* Where the render of an answered workflow went.                          *)
Kept(j) == \/ \E n \in 1..Len(images) : images[n].job = j
           \/ \E r \in rejected : r.job = j
           \/ \E i \in 1..Len(staged) : staged[i].job = j
           \/ pc \in {"wait", "download", "stage"} /\ j = prompt
Accounted == \A j \in 1..Len(jobs) :
    jobs[j].run = runs /\ jobs[j].answered => Kept(j)

Manifest == /\ Assets /\ Rejects /\ Staging /\ Accepted /\ Downloaded
            /\ Tidy /\ Accounted

MInv == CInv /\ Known /\ (pc # "failed" => Manifest)

(* The server and the client only add to what is known of a workflow.      *)
LEMMA MadeStays ==
    ASSUME NEW js, NEW ks, Len(js) \in Nat, Len(ks) \in Nat,
           Len(js) <= Len(ks),
           \A i \in 1..Len(js) :
              /\ ks[i].run = js[i].run /\ ks[i].shot = js[i].shot
              /\ ks[i].attempt = js[i].attempt
              /\ ks[i].mended = js[i].mended
              /\ ks[i].answered = js[i].answered
              /\ js[i].state # "queued" => ks[i].state = js[i].state,
           NEW r, NEW j, NEW n, NEW a, NEW m, Made(js, r, j, n, a, m)
    PROVE  Made(ks, r, j, n, a, m)
  BY DEF Made

(* A step of the client or the server that touches no file.                *)
LEMMA Outside ==
    ASSUME Typed, Known, Manifest,
           UNCHANGED <<input, settings, runs, stage, files>>,
           \/ pc' = pc /\ UNCHANGED prompt
           \/ {pc, pc'} \subseteq {"queue", "wait", "download"},
           Len(jobs') \in Nat, Len(jobs) <= Len(jobs'),
           \A i \in 1..Len(jobs) :
              /\ jobs'[i].run = jobs[i].run /\ jobs'[i].shot = jobs[i].shot
              /\ jobs'[i].attempt = jobs[i].attempt
              /\ jobs'[i].mended = jobs[i].mended
              /\ jobs'[i].answered = jobs[i].answered
              /\ jobs[i].state # "queued" => jobs'[i].state = jobs[i].state
    PROVE  Assets' /\ Rejects' /\ Staging' /\ Accepted' /\ Downloaded' /\ Tidy'
<1>1. Len(jobs) \in Nat
  BY Facts
<1>2. \A j, n, a, m : Made(jobs, runs, j, n, a, m)
                         => Made(jobs', runs, j, n, a, m)
  BY <1>1, MadeStays
<1>3. UNCHANGED <<input, settings, runs, shot, staged, best, images, rejected,
                  files>>
  BY DEF stage
<1>4. /\ pc' = "archive" <=> pc = "archive"
      /\ pc' = "complete" <=> pc = "complete"
      /\ pc' = "idle" <=> pc = "idle"
      /\ pc' = "stage" <=> pc = "stage"
      /\ pc = "stage" => prompt' = prompt
  OBVIOUS
<1>5. Assets'
  BY <1>2, <1>3, <1>4 DEF Manifest, Assets
<1>6. Rejects'
  BY <1>2, <1>3 DEF Manifest, Rejects
<1>7. \A i : Gone(i)' <=> Gone(i)
  BY <1>3, <1>4 DEF Gone
<1>8. Staging'
  BY <1>2, <1>3, <1>4, <1>7 DEF Manifest, Staging
<1>9. Accepted' /\ Downloaded'
  BY <1>3, <1>4 DEF Manifest, Accepted, Downloaded
<1>10. \A name : InUse(name) => InUse(name)'
  BY <1>3, <1>4, <1>7 DEF InUse
<1>11. Tidy'
  BY <1>3, <1>10 DEF Manifest, Tidy, Known
<1> QED BY <1>5, <1>6, <1>8, <1>9, <1>11

(* A run begins: nothing it finds is of its own making.                    *)
LEMMA ManifestBegins ==
    ASSUME CInv, Known, Execute PROVE Manifest'
<1>1. /\ pc' = "queue" /\ shot' = 1 /\ staged' = <<>> /\ images' = <<>>
      /\ rejected' = {} /\ runs' = runs + 1 /\ UNCHANGED <<jobs, files>>
  BY DEF Execute
<1>2. \A j \in 1..Len(jobs) : jobs[j].run # runs'
  <2>1. \A j \in 1..Len(jobs) : jobs[j] \in Workflow
    BY Element DEF CInv, Typed
  <2>2. \A j \in 1..Len(jobs) : jobs[j].run \in Nat /\ jobs[j].run <= runs
    BY <2>1 DEF Workflow, CInv, Numbered
  <2>3. runs \in Nat
    BY Facts DEF CInv
  <2> QED BY <1>1, <2>2, <2>3
<1>3. Len(images') = 0 /\ Len(staged') = 0
  BY <1>1
<1>4. Assets'
  BY <1>1, <1>3 DEF Assets
<1>5. Rejects' /\ Staging'
  BY <1>1, <1>3 DEF Rejects, Staging
<1>6. Accepted' /\ Downloaded'
  BY <1>1 DEF Accepted, Downloaded
<1>7. Tidy' /\ Accounted'
  BY <1>1, <1>2 DEF Tidy, Accounted, Known
<1> QED BY <1>4, <1>5, <1>6, <1>7 DEF Manifest

(* The image is in the directory.                                          *)
LEMMA ManifestDownload ==
    ASSUME Typed, Known, Manifest, Download PROVE Manifest'
<1>1. /\ pc = "download" /\ pc' = "stage"
      /\ files' = Put(files, Output(prompt), prompt)
      /\ UNCHANGED <<input, settings, runs, shot, staged, best, images,
                     rejected, prompt, jobs>>
  BY DEF Download, Fixed, stage, client
<1>2. /\ Held(files', Output(prompt)) = {prompt}
      /\ \A m : m # Output(prompt) => Held(files', m) = Held(files, m)
      /\ \A f \in files' : f \in files \/ f.name = Output(prompt)
  BY <1>1, HeldPut
<1>3. \A i : ~Gone(i) /\ ~Gone(i)'
  BY <1>1 DEF Gone
<1>4. Assets'
  BY <1>1, <1>2, Names DEF Manifest, Assets
<1>5. Rejects'
  BY <1>1, <1>2, Names DEF Manifest, Rejects
<1>6. Staging'
  BY <1>1, <1>2, <1>3, Names DEF Manifest, Staging
<1>7. Accepted' /\ Downloaded'
  BY <1>1, <1>2 DEF Accepted, Downloaded
<1>8. Tidy'
  <2>1. \A name : InUse(name) => InUse(name)'
    BY <1>1, <1>3 DEF InUse
  <2>2. InUse(Output(prompt))'
    BY <1>1 DEF InUse
  <2>3. ASSUME NEW f \in files', f.name.kind \in {"staged", "output"},
               jobs'[f.job].run = runs'
        PROVE  InUse(f.name)'
    BY <1>1, <1>2, <2>1, <2>2, <2>3 DEF Manifest, Tidy
  <2> QED BY <2>3 DEF Tidy
<1>9. Accounted'
  BY <1>1 DEF Manifest, Accounted, Kept
<1> QED BY <1>4, <1>5, <1>6, <1>7, <1>8, <1>9 DEF Manifest

(* The render is staged under the number of its attempt.                   *)
LEMMA ManifestStage ==
    ASSUME Typed, Known, Manifest, Stage, jobs[prompt].state # "bad"
    PROVE  Manifest'
<1>1. /\ pc = "stage" /\ pc' \in {"accept", "queue"}
      /\ files' = Moved(files, Output(prompt), Staged(shot, Number))
      /\ staged' = Append(staged, Attempt)
      /\ UNCHANGED <<input, settings, runs, shot, images, rejected, prompt,
                     jobs>>
  BY DEF Stage, Fixed
<1>2. /\ Held(files', Staged(shot, Number)) = Held(files, Output(prompt))
      /\ \A m : m # Output(prompt) /\ m # Staged(shot, Number)
                  => Held(files', m) = Held(files, m)
      /\ \A f \in files' : \/ f \in files /\ f.name # Output(prompt)
                           \/ f.name = Staged(shot, Number)
  BY <1>1, Names, HeldMoved
<1>3. Held(files', Staged(shot, Number)) = {prompt}
  BY <1>1, <1>2 DEF Manifest, Downloaded
<1>4. \A i : ~Gone(i) /\ ~Gone(i)'
  BY <1>1 DEF Gone
<1>5. /\ Attempt \in Render /\ Attempt.attempt = Number
      /\ Attempt.job = prompt /\ Attempt.mended = fixes
  BY AttemptTyped
<1>6. Made(jobs, runs, prompt, shot, Number, fixes)
  BY <1>1 DEF Made, Typed, TypeOK, OfThisRun
<1> HIDE DEF Attempt
<1>7. /\ Len(staged) \in Nat /\ Len(staged') = Number /\ Number \in Nat
      /\ Number = Len(staged) + 1
      /\ \A i \in 1..Len(staged) : staged'[i] = staged[i]
      /\ staged'[Number] = Attempt
  BY <1>1, <1>5, Facts DEF Typed, Number
<1> HIDE DEF Number
<1>f. \A n, k : /\ Held(files', Final(n)) = Held(files, Final(n))
                /\ Held(files', Rejected(n, k)) = Held(files, Rejected(n, k))
  BY <1>2, Names
<1>8. Assets'
  BY <1>1, <1>f DEF Manifest, Assets
<1>9. Rejects'
  BY <1>1, <1>f DEF Manifest, Rejects
<1>10. Staging'
  <2>1. ASSUME NEW i \in 1..Len(staged')
        PROVE  /\ staged'[i].attempt = i
               /\ Made(jobs, runs, staged'[i].job, shot, i, staged'[i].mended)
               /\ Held(files', Staged(shot, i)) = {staged'[i].job}
    <3>1. CASE i = Number
      BY <1>3, <1>5, <1>6, <1>7, <3>1
    <3>2. CASE i \in 1..Len(staged)
      <4>1. i # Number
        BY <1>7, <3>2
      <4>2. Held(files', Staged(shot, i)) = Held(files, Staged(shot, i))
        BY <1>2, <4>1, Names
      <4> QED BY <1>4, <1>7, <3>2, <4>2 DEF Manifest, Staging
    <3> QED BY <1>7, <3>1, <3>2
  <2> QED BY <1>1, <2>1 DEF Staging
<1>11. Accepted' /\ Downloaded'
  BY <1>1 DEF Accepted, Downloaded
<1>12. Tidy'
  <2>1. \A name : (\E i \in 1..Number : name = Staged(shot, i))
                     => InUse(name)'
    BY <1>1, <1>4, <1>7 DEF InUse
  <2>2. ASSUME NEW f \in files', f.name.kind \in {"staged", "output"},
               jobs'[f.job].run = runs'
        PROVE  InUse(f.name)'
    <3>1. CASE f.name = Staged(shot, Number)
      BY <1>7, <2>1, <3>1
    <3>2. CASE f \in files /\ f.name # Output(prompt)
      <4>1. InUse(f.name)
        BY <1>1, <2>2, <3>2 DEF Manifest, Tidy
      <4>2. PICK i \in 1..Len(staged) : f.name = Staged(shot, i)
        BY <3>2, <4>1 DEF InUse
      <4>3. i \in 1..Number
        BY <1>7
      <4> QED BY <2>1, <4>2, <4>3
    <3> QED BY <1>2, <3>1, <3>2
  <2> QED BY <2>2 DEF Tidy
<1>13. Accounted'
  <2>1. ASSUME NEW j \in 1..Len(jobs), jobs[j].run = runs, jobs[j].answered
        PROVE  Kept(j)'
    <3>1. Kept(j)
      BY <2>1 DEF Manifest, Accounted
    <3>2. CASE j = prompt
      <4>1. staged'[Number].job = j /\ Number \in 1..Len(staged')
        BY <1>5, <1>7, <3>2
      <4> QED BY <4>1 DEF Kept
    <3>3. CASE \E i \in 1..Len(staged) : staged[i].job = j
      <4>1. PICK i \in 1..Len(staged) : staged[i].job = j
        BY <3>3
      <4>2. staged'[i].job = j /\ i \in 1..Len(staged')
        BY <1>7, <4>1
      <4> QED BY <4>2 DEF Kept
    <3> QED BY <1>1, <3>1, <3>2, <3>3 DEF Kept
  <2> QED BY <1>1, <2>1 DEF Accounted
<1> QED BY <1>8, <1>9, <1>10, <1>11, <1>12, <1>13 DEF Manifest

(* The best of them gets the final name.                                   *)
LEMMA ManifestAccept ==
    ASSUME Typed, Known, Manifest, Accept, pc' # "failed"
    PROVE  Manifest'
<1>1. /\ pc = "accept" /\ pc' = "archive" /\ best' = Best
      /\ files' = Moved(files, StagedAt(Best), Final(shot))
      /\ UNCHANGED <<input, settings, runs, shot, staged, images, rejected,
                     prompt, jobs>>
      /\ settings.critic /\ settings.strict => staged[Best].passed
  BY DEF Accept, Raise, Fixed, client
<1>2. /\ Best \in 1..Len(staged)
      /\ \A k \in 1..Len(staged) : Better(Best, k)
  BY <1>1, BestIsFirst DEF Typed
<1>3. \A i : ~Gone(i)
  BY <1>1 DEF Gone
<1>4. /\ staged[Best].attempt = Best
      /\ Held(files, Staged(shot, Best)) = {staged[Best].job}
  BY <1>2, <1>3 DEF Manifest, Staging
<1>5. StagedAt(Best) = Staged(shot, Best)
  BY <1>4 DEF StagedAt
<1> HIDE DEF Best
<1>6. /\ Held(files', Final(shot)) = {staged[Best].job}
      /\ \A m : m # Staged(shot, Best) /\ m # Final(shot)
                  => Held(files', m) = Held(files, m)
      /\ \A f \in files' : \/ f \in files /\ f.name # Staged(shot, Best)
                           \/ f.name = Final(shot)
  BY <1>1, <1>4, <1>5, Names, HeldMoved
<1>7. shot \in Nat /\ Len(images) = shot - 1
  BY <1>1, Facts DEF Manifest, Assets
<1>8. Assets'
  <2>1. \A n \in 1..Len(images) : n # shot
    BY <1>7
  <2>2. \A n \in 1..Len(images) : Held(files', Final(n)) = Held(files, Final(n))
    BY <1>6, <2>1, Names
  <2> QED BY <1>1, <2>2 DEF Manifest, Assets
<1>9. Rejects'
  BY <1>1, <1>6, Names DEF Manifest, Rejects
<1>10. Staging'
  <2>1. ASSUME NEW i \in 1..Len(staged), ~Gone(i)'
        PROVE  Held(files', Staged(shot, i)) = {staged[i].job}
    <3>1. i # Best
      BY <1>1, <2>1 DEF Gone
    <3>2. Held(files', Staged(shot, i)) = Held(files, Staged(shot, i))
      BY <1>6, <3>1, Names
    <3> QED BY <1>3, <3>2 DEF Manifest, Staging
  <2> QED BY <1>1, <2>1 DEF Manifest, Staging
<1>11. Accepted' /\ Downloaded'
  BY <1>1, <1>2, <1>6 DEF Accepted, Downloaded, Better, Beats
<1>12. Tidy'
  <2>1. ASSUME NEW f \in files', f.name.kind \in {"staged", "output"},
               jobs'[f.job].run = runs'
        PROVE  InUse(f.name)'
    <3>1. f \in files /\ f.name # Staged(shot, Best)
      BY <1>6, <2>1, Names
    <3>2. InUse(f.name)
      BY <1>1, <2>1, <3>1 DEF Manifest, Tidy
    <3>3. PICK i \in 1..Len(staged) : f.name = Staged(shot, i)
      BY <1>1, <3>2 DEF InUse
    <3>4. i # Best
      BY <3>1, <3>3
    <3>5. ~Gone(i)'
      BY <1>1, <3>4 DEF Gone
    <3> QED BY <1>1, <3>3, <3>5 DEF InUse
  <2> QED BY <2>1 DEF Tidy
<1>13. Accounted'
  BY <1>1 DEF Manifest, Accounted, Kept
<1> QED BY <1>8, <1>9, <1>10, <1>11, <1>12, <1>13 DEF Manifest

(* What the names hold when the others were moved to rejected/.            *)
LEMMA HeldArchived ==
    ASSUME Typed, Manifest, pc = "archive"
    PROVE  /\ Losers = 1..Len(staged) \ {best}
           /\ \A i \in Losers :
                 Held(Archived, Rejected(shot, i)) = {staged[i].job}
           /\ \A name : (\A i \in Losers : /\ name # Staged(shot, i)
                                           /\ name # Rejected(shot, i))
                 => Held(Archived, name) = Held(files, name)
           /\ \A f \in Archived :
                 \/ /\ f \in files
                    /\ \A i \in Losers : f.name # Staged(shot, i)
                 \/ f.name.kind = "rejected"
<1>1. /\ best \in 1..Len(staged)
      /\ \A i \in 1..Len(staged) : staged[i].attempt = i
  BY DEF Manifest, Accepted, Staging
<1>2. \A i \in 1..Len(staged) : StagedAt(i) = Staged(shot, i)
  BY <1>1 DEF StagedAt
<1>3. Losers = 1..Len(staged) \ {best}
  BY <1>1, <1>2, Names DEF Losers
<1>4. \A i \in Losers : /\ StagedAt(i) = Staged(shot, i)
                        /\ staged[i].attempt = i
                        /\ Held(files, Staged(shot, i)) = {staged[i].job}
  BY <1>1, <1>2, <1>3 DEF Manifest, Staging, Gone
<1>5. \A f : f \in Archived <=>
          \/ /\ f \in files
             /\ \A i \in Losers : /\ f.name # Staged(shot, i)
                                  /\ f.name # Rejected(shot, i)
          \/ \E i \in Losers :
                f = [name |-> Rejected(shot, i), job |-> staged[i].job]
  BY <1>4 DEF Archived
<1> DEFINE gs == Archived
<1> HIDE DEF gs
<1>6. \A f : f \in gs <=>
          \/ /\ f \in files
             /\ \A i \in Losers : /\ f.name # Staged(shot, i)
                                  /\ f.name # Rejected(shot, i)
          \/ \E i \in Losers :
                f = [name |-> Rejected(shot, i), job |-> staged[i].job]
  BY <1>5 DEF gs
<1>7. ASSUME NEW i \in Losers
      PROVE  Held(gs, Rejected(shot, i)) = {staged[i].job}
  <2> DEFINE x == [name |-> Rejected(shot, i), job |-> staged[i].job]
  <2>1. x \in gs /\ x.name = Rejected(shot, i) /\ x.job = staged[i].job
    BY <1>6
  <2>2. ASSUME NEW f \in gs, f.name = Rejected(shot, i)
        PROVE  f.job = staged[i].job
    <3>1. PICK k \in Losers :
              f = [name |-> Rejected(shot, k), job |-> staged[k].job]
      BY <1>6, <2>2
    <3>2. k = i
      BY <2>2, <3>1, Names
    <3> QED BY <3>1, <3>2
  <2> HIDE DEF x
  <2> QED BY <2>1, <2>2 DEF Held
<1>8. ASSUME NEW name, \A i \in Losers : /\ name # Staged(shot, i)
                                         /\ name # Rejected(shot, i)
      PROVE  Held(gs, name) = Held(files, name)
  <2>1. \A f : f \in gs /\ f.name = name <=> f \in files /\ f.name = name
    BY <1>6, <1>8
  <2> QED BY <2>1 DEF Held
<1>9. \A f \in gs : \/ /\ f \in files
                       /\ \A i \in Losers : f.name # Staged(shot, i)
                    \/ f.name.kind = "rejected"
  BY <1>6, Names
<1> QED BY <1>3, <1>7, <1>8, <1>9 DEF gs

(* The shot is finished.                                                   *)
LEMMA ManifestArchive ==
    ASSUME Typed, Known, Manifest, Archive PROVE Manifest'
<1> DEFINE reject(i) == [shot |-> shot, attempt |-> staged[i].attempt,
                         job |-> staged[i].job, score |-> staged[i].score]
<1>1. /\ pc = "archive" /\ files' = Archived
      /\ rejected' = rejected \cup {reject(i) : i \in Losers}
      /\ images' = Append(images, staged[best])
      /\ \/ shot = Len(input) /\ pc' = "complete" /\ UNCHANGED shot
         \/ shot # Len(input) /\ pc' = "queue" /\ shot' = shot + 1
      /\ staged' = <<>> /\ UNCHANGED <<input, settings, runs, jobs>>
  BY DEF Archive, Fixed
<1>2. /\ Losers = 1..Len(staged) \ {best}
      /\ \A i \in Losers :
            Held(files', Rejected(shot, i)) = {staged[i].job}
      /\ \A name : (\A i \in Losers : /\ name # Staged(shot, i)
                                      /\ name # Rejected(shot, i))
            => Held(files', name) = Held(files, name)
      /\ \A f \in files' :
            \/ f \in files /\ \A i \in Losers : f.name # Staged(shot, i)
            \/ f.name.kind = "rejected"
  BY <1>1, HeldArchived
<1> HIDE DEF Losers, reject
<1>3. /\ best \in 1..Len(staged)
      /\ Held(files, Final(shot)) = {staged[best].job}
      /\ \A k \in 1..Len(staged) : Beats(staged, best, k)
      /\ settings.critic /\ settings.strict => staged[best].passed
      /\ \A i \in 1..Len(staged) :
            /\ staged[i].attempt = i
            /\ Made(jobs, runs, staged[i].job, shot, i, staged[i].mended)
  BY <1>1 DEF Manifest, Accepted, Staging
<1>4. /\ \A i \in 1..Len(staged) : staged[i] \in Render
      /\ images \in Seq(Render)
  BY Element DEF Typed
<1>5. shot \in Nat /\ Len(images) = shot - 1 /\ Len(input) \in Nat
      /\ shot <= Len(input) /\ shot > 0 /\ Len(staged) \in Nat
  BY <1>1, Facts DEF Manifest, Assets
<1>6. /\ Len(images') = shot /\ images'[shot] = staged[best]
      /\ \A n \in 1..Len(images) : images'[n] = images[n] /\ n # shot
      /\ \A n \in 1..Len(images') : n \in 1..Len(images) \/ n = shot
      /\ \A n \in 1..Len(images) : n \in 1..Len(images')
      /\ shot \in 1..Len(images')
  <2>1. staged[best] \in Render
    BY <1>3, <1>4
  <2> QED BY <1>1, <1>4, <1>5, <2>1
<1>7. \A n : Held(files', Final(n)) = Held(files, Final(n))
  BY <1>2, Names
<1>8. Assets'
  <2>1. Len(images') = IF pc' = "complete" THEN Len(input') ELSE shot' - 1
    BY <1>1, <1>5, <1>6
  <2>2. ASSUME NEW n \in 1..Len(images')
        PROVE  /\ Held(files', Final(n)) = {images'[n].job}
               /\ Made(jobs, runs, images'[n].job, n, images'[n].attempt,
                       images'[n].mended)
               /\ settings.critic /\ settings.strict => images'[n].passed
    <3>1. CASE n = shot
      BY <1>3, <1>6, <1>7, <3>1
    <3>2. CASE n \in 1..Len(images)
      BY <1>6, <1>7, <3>2 DEF Manifest, Assets
    <3> QED BY <1>6, <3>1, <3>2
  <2> QED BY <1>1, <2>1, <2>2 DEF Assets
<1>9. Rejects'
  <2>1. ASSUME NEW r \in rejected
        PROVE  /\ r.shot \in 1..Len(images')
               /\ Held(files', Rejected(r.shot, r.attempt)) = {r.job}
               /\ \E m : Made(jobs, runs, r.job, r.shot, r.attempt, m)
               /\ r.score <= images'[r.shot].score
               /\ r.score = images'[r.shot].score =>
                     r.attempt > images'[r.shot].attempt
    <3>1. /\ r.shot \in 1..Len(images)
          /\ Held(files, Rejected(r.shot, r.attempt)) = {r.job}
          /\ \E m : Made(jobs, runs, r.job, r.shot, r.attempt, m)
          /\ r.score <= images[r.shot].score
          /\ r.score = images[r.shot].score =>
                r.attempt > images[r.shot].attempt
      BY DEF Manifest, Rejects
    <3>2. images'[r.shot] = images[r.shot] /\ r.shot # shot
      BY <1>6, <3>1
    <3>3. Held(files', Rejected(r.shot, r.attempt))
              = Held(files, Rejected(r.shot, r.attempt))
      BY <1>2, <3>2, Names
    <3> QED BY <1>6, <3>1, <3>2, <3>3
  <2>2. ASSUME NEW i \in Losers, NEW r, r = reject(i)
        PROVE  /\ r.shot \in 1..Len(images')
               /\ Held(files', Rejected(r.shot, r.attempt)) = {r.job}
               /\ \E m : Made(jobs, runs, r.job, r.shot, r.attempt, m)
               /\ r.score <= images'[r.shot].score
               /\ r.score = images'[r.shot].score =>
                     r.attempt > images'[r.shot].attempt
    <3>1. /\ r.shot = shot /\ r.attempt = i /\ r.job = staged[i].job
          /\ r.score = staged[i].score /\ i \in 1..Len(staged) /\ i # best
      BY <1>2, <1>3, <2>2 DEF reject
    <3>2. /\ staged[i].score \in Int /\ staged[best].score \in Int
          /\ i \in Nat /\ best \in Nat
      BY <1>3, <1>4, <3>1 DEF Render
    <3>3. Beats(staged, best, i) /\ staged[best].attempt = best
      BY <1>3, <3>1
    <3>4. /\ r.score <= images'[shot].score
          /\ r.score = images'[shot].score => r.attempt > images'[shot].attempt
      BY <1>6, <3>1, <3>2, <3>3 DEF Beats
    <3> QED BY <1>2, <1>3, <1>6, <3>1, <3>4
  <2>3. \A r \in rejected' : r \in rejected \/ \E i \in Losers : r = reject(i)
    BY <1>1
  <2> QED BY <1>1, <2>1, <2>2, <2>3 DEF Rejects
<1>10. /\ Len(staged') = 0 /\ ~(pc' = "archive") /\ ~(pc' = "stage")
       /\ 1..Len(staged') = {}
  BY <1>1
<1>11. Staging' /\ Accepted' /\ Downloaded'
  BY <1>10 DEF Staging, Accepted, Downloaded
<1>12. Tidy'
  <2>1. ASSUME NEW f \in files', f.name.kind \in {"staged", "output"},
               jobs[f.job].run = runs
        PROVE  FALSE
    <3>1. f \in files /\ \A i \in Losers : f.name # Staged(shot, i)
      BY <1>2, <2>1
    <3>2. InUse(f.name)
      BY <2>1, <3>1 DEF Manifest, Tidy
    <3>3. PICK i \in 1..Len(staged) : f.name = Staged(shot, i) /\ ~Gone(i)
      BY <1>1, <3>2 DEF InUse
    <3>4. i \in Losers
      BY <1>1, <1>2, <3>3 DEF Gone
    <3> QED BY <3>1, <3>3, <3>4
  <2> QED BY <1>1, <2>1 DEF Tidy
<1>13. Accounted'
  <2>1. ASSUME NEW j \in 1..Len(jobs), jobs[j].run = runs, jobs[j].answered
        PROVE  Kept(j)'
    <3>1. \/ \E n \in 1..Len(images) : images[n].job = j
          \/ \E r \in rejected : r.job = j
          \/ \E i \in 1..Len(staged) : staged[i].job = j
      BY <1>1, <2>1 DEF Manifest, Accounted, Kept
    <3>2. CASE \E n \in 1..Len(images) : images[n].job = j
      <4>1. \E n \in 1..Len(images') : images'[n].job = j
        BY <1>6, <3>2
      <4> QED BY <4>1 DEF Kept
    <3>3. CASE \E r \in rejected : r.job = j
      <4>1. \E r \in rejected' : r.job = j
        BY <1>1, <3>3
      <4> QED BY <4>1 DEF Kept
    <3>4. CASE \E i \in 1..Len(staged) : staged[i].job = j
      <4>1. PICK i \in 1..Len(staged) : staged[i].job = j
        BY <3>4
      <4>2. CASE i = best
        <5>1. \E n \in 1..Len(images') : images'[n].job = j
          BY <1>6, <4>1, <4>2
        <5> QED BY <5>1 DEF Kept
      <4>3. CASE i # best
        <5>1. i \in Losers /\ reject(i) \in rejected' /\ reject(i).job = j
          BY <1>1, <1>2, <4>1, <4>3 DEF reject
        <5> QED BY <5>1 DEF Kept
      <4> QED BY <4>2, <4>3
    <3> QED BY <3>1, <3>2, <3>3, <3>4
  <2> QED BY <1>1, <2>1 DEF Accounted
<1> QED BY <1>8, <1>9, <1>11, <1>12, <1>13 DEF Manifest

(* A render waits for nothing but its own workflow: whatever the client    *)
(* and the server do in between is accounted for.                          *)
LEMMA ManifestGoesOn ==
    ASSUME Typed, Known, Manifest, pc' # "failed",
           \/ Queue \/ QueueFails \/ GetFails \/ Pending \/ Finished \/ Server
           \/ UNCHANGED vars
    PROVE  Manifest'
<1>t. jobs \in Seq(Workflow) /\ Len(jobs) \in Nat
  BY Facts DEF Typed
<1>1. UNCHANGED <<input, settings, runs, stage, files>>
  BY DEF Queue, QueueFails, GetFails, Pending, Finished, Server, vars, Retry,
         Raise, Fixed, stage
<1>2. \/ pc' = pc /\ UNCHANGED prompt
      \/ {pc, pc'} \subseteq {"queue", "wait", "download"}
  BY DEF Queue, QueueFails, GetFails, Pending, Finished, Server, vars, Retry,
         Raise, client
<1>3. \/ UNCHANGED jobs
      \/ jobs' = Append(jobs, Job) /\ QueueFails
      \/ jobs' = Append(jobs, [Job EXCEPT !.answered = TRUE]) /\ Queue
      \/ \E j \in 1..Len(jobs), o \in Outcomes :
            jobs[j].state = "queued" /\ jobs' = [jobs EXCEPT ![j].state = o]
  <2>1. QueueFails => UNCHANGED jobs \/ jobs' = Append(jobs, Job)
    BY DEF QueueFails
  <2>2. Queue => jobs' = Append(jobs, [Job EXCEPT !.answered = TRUE])
    BY DEF Queue
  <2>3. GetFails \/ Pending \/ Finished \/ UNCHANGED vars => UNCHANGED jobs
    BY DEF GetFails, Pending, Finished, vars
  <2>4. Server => \E j \in 1..Len(jobs), o \in Outcomes :
            jobs[j].state = "queued" /\ jobs' = [jobs EXCEPT ![j].state = o]
    BY DEF Server
  <2> QED BY <2>1, <2>2, <2>3, <2>4
<1>4. /\ Len(jobs') \in Nat /\ Len(jobs) <= Len(jobs')
      /\ \A i \in 1..Len(jobs) :
            /\ jobs'[i].run = jobs[i].run /\ jobs'[i].shot = jobs[i].shot
            /\ jobs'[i].attempt = jobs[i].attempt
            /\ jobs'[i].mended = jobs[i].mended
            /\ jobs'[i].answered = jobs[i].answered
            /\ jobs[i].state # "queued" => jobs'[i].state = jobs[i].state
  <2>1. CASE UNCHANGED jobs
    BY <1>t, <2>1
  <2>2. CASE \E x \in Workflow : jobs' = Append(jobs, x)
    <3>1. PICK x \in Workflow : jobs' = Append(jobs, x)
      BY <2>2
    <3>2. /\ Len(jobs') = Len(jobs) + 1
          /\ \A i \in 1..Len(jobs) : jobs'[i] = jobs[i]
      BY <1>t, <3>1, Queued
    <3> QED BY <1>t, <3>2
  <2>3. CASE \E j \in 1..Len(jobs), o \in Outcomes :
                jobs[j].state = "queued" /\ jobs' = [jobs EXCEPT ![j].state = o]
    <3>1. PICK j \in 1..Len(jobs), o \in Outcomes :
                jobs[j].state = "queued" /\ jobs' = [jobs EXCEPT ![j].state = o]
      BY <2>3
    <3> QED BY <1>t, <3>1, Executed
  <2> QED BY <1>3, <2>1, <2>2, <2>3, JobTyped
<1>5. Assets' /\ Rejects' /\ Staging' /\ Accepted' /\ Downloaded' /\ Tidy'
  BY <1>1, <1>2, <1>4, Outside
<1>6. UNCHANGED <<images, rejected, staged, runs>>
  BY <1>1 DEF stage
<1>7. \A j : Kept(j) => Kept(j)'
  <2>1. \A j : pc \in {"wait", "download", "stage"} /\ j = prompt =>
            pc' \in {"wait", "download", "stage"} /\ j = prompt'
    BY DEF Queue, QueueFails, GetFails, Pending, Finished, Server, vars, Retry,
           Raise, client
  <2> QED BY <1>6, <2>1 DEF Kept
<1>8. \A j \in 1..Len(jobs') : jobs'[j].answered =>
          j \in 1..Len(jobs) \/ Kept(j)'
  <2>1. CASE Len(jobs') = Len(jobs)
    BY <2>1
  <2>2. CASE jobs' = Append(jobs, Job) /\ QueueFails
    <3>1. Len(jobs') = Len(jobs) + 1 /\ jobs'[Len(jobs) + 1] = Job
      BY <1>t, <2>2, Queued, JobTyped
    <3>2. ~Job.answered
      BY DEF Job
    <3> QED BY <1>t, <3>1, <3>2
  <2>3. CASE jobs' = Append(jobs, [Job EXCEPT !.answered = TRUE]) /\ Queue
    <3>1. Len(jobs') = Len(jobs) + 1
      BY <1>t, <2>3, Queued, JobTyped
    <3>2. prompt' = Len(jobs) + 1 /\ pc' = "wait"
      BY <2>3 DEF Queue
    <3>3. \A j : j = prompt' => Kept(j)'
      BY <3>2 DEF Kept
    <3> QED BY <1>t, <3>1, <3>2, <3>3
  <2>4. CASE \E j \in 1..Len(jobs), o \in Outcomes :
                jobs[j].state = "queued" /\ jobs' = [jobs EXCEPT ![j].state = o]
    BY <1>t, <2>1, <2>4, Executed
  <2> QED BY <1>3, <2>1, <2>2, <2>3, <2>4
<1>9. Accounted'
  <2>1. ASSUME NEW j \in 1..Len(jobs'), jobs'[j].run = runs',
               jobs'[j].answered
        PROVE  Kept(j)'
    <3>1. CASE j \in 1..Len(jobs)
      <4>1. jobs[j].run = runs /\ jobs[j].answered
        BY <1>4, <1>6, <2>1, <3>1
      <4>2. Kept(j)
        BY <3>1, <4>1 DEF Manifest, Accounted
      <4> QED BY <1>7, <4>2
    <3> QED BY <1>8, <2>1, <3>1
  <2> QED BY <2>1 DEF Accounted
<1> QED BY <1>5, <1>9 DEF Manifest

(* Nothing is claimed before the first run.                                *)
LEMMA ManifestInit == Init => MInv
<1> SUFFICES ASSUME Init PROVE MInv
  OBVIOUS
<1>1. CInv
  BY CountInit
<1>2. /\ pc = "idle" /\ shot = 1 /\ jobs = <<>> /\ files = {} /\ images = <<>>
      /\ rejected = {} /\ staged = <<>>
  BY DEF Init
<1>3. Len(jobs) = 0 /\ Len(images) = 0 /\ Len(staged) = 0
  BY <1>2
<1>4. Assets /\ Rejects /\ Staging /\ Accepted /\ Downloaded
  BY <1>2, <1>3 DEF Assets, Rejects, Staging, Accepted, Downloaded
<1>5. Tidy /\ Accounted /\ Known
  BY <1>2, <1>3 DEF Tidy, Accounted, Known
<1> QED BY <1>1, <1>4, <1>5 DEF MInv, Manifest

(* Every step keeps the account, or ends the run.                          *)
LEMMA ManifestStep == MInv /\ [Next]_vars => MInv'
<1> SUFFICES ASSUME MInv, [Next]_vars PROVE MInv'
  OBVIOUS
<1>1. CInv /\ CInv' /\ Typed /\ Typed' /\ Known
  BY CountStep DEF MInv, CInv
<1>2. Known'
  BY <1>1, KnownStep
<1>3. ASSUME pc' # "failed" PROVE Manifest'
  <2>1. CASE Execute
    BY <1>1, <2>1, ManifestBegins
  <2>2. CASE pc = "failed" /\ ~Execute
    <3>1. Server \/ UNCHANGED vars
      BY <2>2 DEF Next, Proceeds, Queue, QueueFails, GetFails, Breaks, Pending,
                  Finished, Download, Stage, Accept, Archive
    <3>2. UNCHANGED pc
      BY <3>1 DEF Server, vars
    <3> QED BY <1>3, <2>2, <3>2
  <2>3. CASE pc # "failed" /\ ~Execute
    <3>1. Manifest
      BY <2>3 DEF MInv
    <3>2. CASE Download
      BY <1>1, <3>1, <3>2, ManifestDownload
    <3>3. CASE Stage
      <4>1. jobs[prompt].state # "bad"
        BY <1>3, <3>3 DEF Stage, Raise
      <4> QED BY <1>1, <3>1, <3>3, <4>1, ManifestStage
    <3>4. CASE Accept
      BY <1>1, <1>3, <3>1, <3>4, ManifestAccept
    <3>5. CASE Archive
      BY <1>1, <3>1, <3>5, ManifestArchive
    <3>6. ~Breaks
      BY <1>3 DEF Breaks, Raise
    <3>7. CASE \/ Queue \/ QueueFails \/ GetFails \/ Pending \/ Finished
               \/ Server \/ UNCHANGED vars
      BY <1>1, <1>3, <3>1, <3>7, ManifestGoesOn
    <3> QED BY <2>3, <3>2, <3>3, <3>4, <3>5, <3>6, <3>7 DEF Next, Proceeds
  <2> QED BY <2>1, <2>2, <2>3
<1> QED BY <1>1, <1>2, <1>3 DEF MInv

(* A manifest is true, for any shots, scores, faults and number of runs.   *)
THEOREM ManifestAlwaysTrue == Spec => []ManifestIsTrue
<1>1. MInv => ManifestIsTrue
  <2> SUFFICES ASSUME MInv, pc = "complete"
               PROVE  AssetsAreTheirs /\ RejectsAreKept /\ NoneIsForgotten
    BY DEF ManifestIsTrue
  <2>1. Typed /\ Manifest
    BY DEF MInv, CInv
  <2>2. Len(images) = Len(input) /\ Positions = 1..Len(images)
    BY <2>1 DEF Manifest, Assets, Positions
  <2>3. AssetsAreTheirs
    BY <2>1, <2>2 DEF Manifest, Assets, AssetsAreTheirs, Made
  <2>4. RejectsAreKept
    <3> SUFFICES ASSUME NEW r \in rejected
                 PROVE  /\ Held(files, Rejected(r.shot, r.attempt)) = {r.job}
                        /\ jobs[r.job].run = runs
                        /\ jobs[r.job].shot = r.shot
                        /\ jobs[r.job].attempt = r.attempt
                        /\ r.score <= images[r.shot].score
                        /\ r.score = images[r.shot].score =>
                              r.attempt > images[r.shot].attempt
      BY DEF RejectsAreKept
    <3> QED BY <2>1 DEF Manifest, Rejects, Made
  <2>5. Len(staged) = 0
    BY <2>1 DEF Manifest, Staging
  <2>6. \A name : ~InUse(name)
    BY <2>5 DEF InUse
  <2>7. \A f \in files : f.name.kind \in {"staged", "output"} =>
            jobs[f.job].run # runs
    BY <2>1, <2>6 DEF Manifest, Tidy
  <2>8. ASSUME NEW j
        PROVE  j \in {i \in OfThisRun : jobs[i].answered} <=>
                  \/ \E n \in Positions : images[n].job = j
                  \/ \E r \in rejected : r.job = j
    <3>1. CASE j \in {i \in OfThisRun : jobs[i].answered}
      <4>1. Kept(j)
        BY <2>1, <3>1 DEF Manifest, Accounted, OfThisRun
      <4> QED BY <2>2, <2>5, <4>1, <3>1 DEF Kept
    <3>2. CASE \E n \in Positions : images[n].job = j
      BY <2>1, <2>2, <3>2 DEF Manifest, Assets, Made, OfThisRun
    <3>3. CASE \E r \in rejected : r.job = j
      BY <2>1, <3>3 DEF Manifest, Rejects, Made, OfThisRun
    <3> QED BY <3>1, <3>2, <3>3
  <2>9. {j \in OfThisRun : jobs[j].answered} =
            {images[n].job : n \in Positions} \cup {r.job : r \in rejected}
    BY <2>8
  <2> QED BY <2>3, <2>4, <2>7, <2>9 DEF NoneIsForgotten
<1> QED BY ManifestInit, ManifestStep, <1>1, PTL DEF Spec

-----------------------------------------------------------------------------
(* A run of the stage runs out of steps                                    *)

(* What the client may still do at its request, this one included.         *)
RequestSteps == MaxRetries - tries + 1

(* Of an attempt: one request each to queue and to download, one for each  *)
(* poll, and the inspection.                                               *)
AttemptSteps == (MaxPolls + 3) * MaxRetries + 1
InAttempt == CASE pc = "queue" -> RequestSteps + (MaxPolls + 2) * MaxRetries + 1
               [] pc = "wait" ->
                     RequestSteps + (MaxPolls - polls + 1) * MaxRetries + 1
               [] pc = "download" -> RequestSteps + 1
               [] OTHER -> 1

(* Of a shot: the attempts its budget leaves, accepting and archiving.     *)
Attempting == {"queue", "wait", "download", "stage"}
ShotSteps == (MaxAttempts + Candidates) * AttemptSteps + 2
LaterAttempts == (Budget - Number) * AttemptSteps
InShot == CASE pc \in Attempting -> LaterAttempts + InAttempt + 2
            [] pc = "accept" -> 2
            [] OTHER -> 1

(* Of the run: the shots behind this one, and what is left of it.          *)
LaterShots == (Len(input) - shot) * ShotSteps
StepsLeft == IF Running THEN LaterShots + InShot ELSE 0

(* The budget of a shot is not exceeded, whatever number of candidates or  *)
(* attempts it has, and what is left of a run is a bounded number of       *)
(* steps, some of them as long as it runs.                                 *)
HasStep ==
    /\ pc \in Attempting => Number <= Budget
    /\ StepsLeft \in 0..(Len(input) * ShotSteps)
    /\ Running <=> StepsLeft > 0

(* Whatever the stage or its client does takes a step, failing requests    *)
(* included; the server gives none back.                                   *)
StepTaken ==
    /\ Running => StepsLeft' <= StepsLeft
    /\ Proceeds \/ QueueFails \/ GetFails \/ Breaks => StepsLeft' < StepsLeft

(* Products, as far as they are needed.                                    *)
LEMMA Products ==
    ASSUME NEW a \in Int, NEW b \in Int, NEW k \in Nat
    PROVE  /\ a * k \in Int
           /\ (a - 1) * k = a * k - k
           /\ a <= b => a * k <= b * k
           /\ 0 <= a => 0 <= a * k
  OBVIOUS

(* The sizes of attempts, shots and budgets.                               *)
LEMMA Sizes ==
    ASSUME Typed
    PROVE  /\ AttemptSteps \in Nat \ {0} /\ ShotSteps \in Nat \ {0}
           /\ Budget \in Nat \ {0}
           /\ Budget <= MaxAttempts + Candidates - 1
           /\ MaxAttempts + Candidates \in Nat
           /\ LaterAttempts \in Int /\ LaterShots \in Nat
<1>1. /\ MaxAttempts \in Nat \ {0} /\ Candidates \in Nat \ {0}
      /\ MaxRetries \in Nat \ {0} /\ MaxPolls \in Nat
  BY ConstantsAssumption DEF ConstantsAssumption
<1>2. (MaxPolls + 3) * MaxRetries \in Nat
  BY <1>1
<1>3. AttemptSteps \in Nat \ {0}
  BY <1>2 DEF AttemptSteps
<1>4. (MaxAttempts + Candidates) * AttemptSteps \in Nat
  BY <1>1, <1>3
<1>5. ShotSteps \in Nat \ {0}
  BY <1>4 DEF ShotSteps
<1>6. Budget \in Nat \ {0} /\ Budget <= MaxAttempts + Candidates - 1
  BY <1>1 DEF Budget
<1>7. LaterAttempts \in Int
  BY <1>3, <1>6, Facts, Products DEF LaterAttempts
<1>8. LaterShots \in Nat
  <2>1. Len(input) - shot \in Nat
    BY Facts
  <2>. QED
    BY <2>1, <1>5 DEF LaterShots
<1>. QED
  BY <1>1, <1>2, <1>3, <1>4, <1>5, <1>6, <1>7, <1>8

(* A shot's budget bounds its attempts.                                    *)
WithinBudget == pc \in Attempting => Number <= Budget
BInv == Typed /\ WithinBudget

(* Of an attempt there is something left, and no more than all of it.      *)
LEMMA AttemptLeft ==
    ASSUME Typed
    PROVE  /\ InAttempt \in 1..AttemptSteps
           /\ pc = "queue" => InAttempt = AttemptSteps - tries + 1
<1>1. /\ MaxRetries \in Nat /\ MaxRetries > 0 /\ tries \in 1..MaxRetries
      /\ MaxPolls \in Nat /\ polls \in 0..MaxPolls
  BY Facts DEF Typed, TypeOK
<1>2. RequestSteps \in 1..MaxRetries
  BY <1>1 DEF RequestSteps
<1>3. /\ (MaxPolls + 2) * MaxRetries \in Nat
      /\ (MaxPolls - polls + 1) * MaxRetries \in Nat
      /\ (MaxPolls + 3) * MaxRetries = (MaxPolls + 2) * MaxRetries + MaxRetries
      /\ (MaxPolls - polls + 1) * MaxRetries <= (MaxPolls + 2) * MaxRetries
  <2>1. MaxPolls - polls + 1 \in Nat /\ MaxPolls - polls + 1 <= MaxPolls + 2
    BY <1>1
  <2>2. (MaxPolls - polls + 1) * MaxRetries \in Nat
    BY <2>1, <1>1
  <2>3. ((MaxPolls + 3) - 1) * MaxRetries = (MaxPolls + 3) * MaxRetries - MaxRetries
    BY <1>1, Products
  <2>4. (MaxPolls + 3) - 1 = MaxPolls + 2
    BY <1>1
  <2>5. (MaxPolls + 3) * MaxRetries \in Int /\ (MaxPolls + 2) * MaxRetries \in Nat
    BY <1>1
  <2>6. (MaxPolls - polls + 1) * MaxRetries <= (MaxPolls + 2) * MaxRetries
    BY <2>1, <1>1, Products
  <2>. QED
    BY <2>2, <2>3, <2>4, <2>5, <2>6, <1>1
<1>. DEFINE p == (MaxPolls + 2) * MaxRetries
            q == (MaxPolls - polls + 1) * MaxRetries
<1>4. /\ p \in Nat /\ q \in Nat /\ q <= p
      /\ AttemptSteps = p + MaxRetries + 1
  BY <1>3, <1>1 DEF AttemptSteps
<1>5. InAttempt = CASE pc = "queue" -> RequestSteps + p + 1
                    [] pc = "wait" -> RequestSteps + q + 1
                    [] pc = "download" -> RequestSteps + 1
                    [] OTHER -> 1
  BY DEF InAttempt
<1>. HIDE DEF p, q
<1>6. CASE pc = "queue"
  BY <1>1, <1>2, <1>4, <1>5, <1>6 DEF RequestSteps
<1>7. CASE pc = "wait"
  BY <1>1, <1>2, <1>4, <1>5, <1>7
<1>8. CASE pc \notin {"queue", "wait"}
  BY <1>1, <1>2, <1>4, <1>5, <1>8
<1>. QED
  BY <1>6, <1>7, <1>8

(* Of a run there is something left while it runs.                         *)
LEMMA RunLeft ==
    BInv => HasStep /\ StepsLeft \in Nat /\ InShot \in 1..ShotSteps
<1>. SUFFICES ASSUME BInv
              PROVE  HasStep /\ StepsLeft \in Nat /\ InShot \in 1..ShotSteps
  OBVIOUS
<1>1. Typed /\ WithinBudget
  BY DEF BInv
<1>s. /\ AttemptSteps \in Nat /\ ShotSteps \in Nat
      /\ Budget \in Nat /\ MaxAttempts + Candidates \in Nat
      /\ Budget <= MaxAttempts + Candidates - 1
      /\ LaterAttempts \in Int /\ LaterShots \in Nat
  BY <1>1, Sizes
<1>n. Number \in Nat \ {0} /\ Len(input) \in Nat /\ shot \in 1..Len(input)
  BY <1>1, Facts
<1>. DEFINE most == MaxAttempts + Candidates
            all == most * AttemptSteps
            total == Len(input) * ShotSteps
<1>2. /\ all \in Int /\ ShotSteps = all + 2
      /\ LaterAttempts <= all - AttemptSteps
  <2>. HIDE DEF most
  <2>1. /\ Budget - Number \in Int /\ most - 1 \in Int /\ most \in Int
        /\ Budget - Number <= most - 1
    BY <1>s, <1>n, ConstantsAssumption DEF most, ConstantsAssumption
  <2>2. /\ LaterAttempts <= (most - 1) * AttemptSteps
        /\ (most - 1) * AttemptSteps = all - AttemptSteps
    BY <2>1, <1>s, Products DEF LaterAttempts
  <2>3. all \in Int
    BY <2>1, <1>s, Products
  <2>. QED
    BY <2>2, <2>3 DEF ShotSteps, most
<1>3. pc \in Attempting => LaterAttempts >= 0
  <2>. SUFFICES ASSUME pc \in Attempting PROVE LaterAttempts >= 0
    OBVIOUS
  <2>1. Budget - Number \in Int /\ 0 <= Budget - Number
    BY <1>1, <1>s, <1>n DEF WithinBudget
  <2>2. 0 <= LaterAttempts
    BY <2>1, <1>s, Products DEF LaterAttempts
  <2>. QED
    BY <2>2, <1>s
<1>4. InShot \in 1..ShotSteps
  <2>. HIDE DEF all
  <2>1. InAttempt \in 1..AttemptSteps
    BY <1>1, AttemptLeft
  <2>2. CASE pc \in Attempting
    <3>1. LaterAttempts >= 0 /\ InShot = LaterAttempts + InAttempt + 2
      BY <1>3, <2>2 DEF InShot, Attempting
    <3>. QED
      BY <3>1, <1>2, <1>s, <2>1
  <2>3. CASE pc \notin Attempting
    <3>1. InShot \in {1, 2}
      BY <2>3 DEF InShot
    <3>2. ShotSteps >= 2
      <4>1. 0 <= all
        BY <1>s, Products DEF all
      <4>. QED
        BY <4>1, <1>2
    <3>. QED
      BY <3>1, <3>2, <1>s
  <2>. QED
    BY <2>2, <2>3
<1>5. total \in Nat /\ LaterShots <= total - ShotSteps
  <2>1. /\ Len(input) - shot \in Int /\ Len(input) - 1 \in Int
        /\ Len(input) - shot <= Len(input) - 1
    BY <1>n
  <2>2. /\ LaterShots <= (Len(input) - 1) * ShotSteps
        /\ (Len(input) - 1) * ShotSteps = total - ShotSteps
        /\ total \in Int /\ 0 <= total
    BY <2>1, <1>n, <1>s, Products DEF LaterShots
  <2>. QED
    BY <2>2
<1>. HIDE DEF total
<1>6. StepsLeft \in 0..total /\ (Running <=> StepsLeft > 0) /\ StepsLeft \in Nat
  BY <1>4, <1>5, <1>s DEF StepsLeft
<1>. QED
  BY <1>1, <1>4, <1>6 DEF HasStep, WithinBudget, total

(* A first attempt is within every budget, and so is another one of a shot *)
(* that has some left.                                                     *)
LEMMA BudgetStep == BInv /\ [Next]_vars => BInv'
<1>. SUFFICES ASSUME BInv, [Next]_vars PROVE BInv'
  OBVIOUS
<1>1. Typed /\ Typed' /\ WithinBudget
  BY TypedStep DEF BInv
<1>2. Budget \in Nat \ {0} /\ Budget' \in Nat \ {0} /\ Number \in Nat
  <2>1. (Typed => Budget \in Nat \ {0})'
    BY Sizes, PTL
  <2>. QED
    BY <1>1, <2>1, Sizes, Facts
<1>. SUFFICES WithinBudget'
  BY <1>1 DEF BInv
<1>3. ASSUME Len(staged') = 0 PROVE WithinBudget'
  BY <1>2, <1>3 DEF WithinBudget, Number
<1>4. ASSUME UNCHANGED <<input, settings, shot, staged>>,
             pc' \in Attempting => pc \in Attempting
      PROVE  WithinBudget'
  BY <1>1, <1>4 DEF WithinBudget, Number, Budget
<1>5. CASE Execute \/ Archive
  BY <1>3, <1>5 DEF Execute, Archive
<1>6. CASE Stage
  <2>1. CASE jobs[prompt].state = "bad"
    BY <1>4, <1>6, <2>1 DEF Stage, Raise, stage, Fixed, Attempting
  <2>2. CASE /\ jobs[prompt].state # "bad"
             /\ ~(Attempt.passed \/ Number = Budget)
    <3>1. /\ Number <= Budget /\ Number # Budget
          /\ staged' = Append(staged, Attempt)
          /\ UNCHANGED <<input, settings, shot>>
      BY <1>1, <1>6, <2>2 DEF Stage, Fixed, WithinBudget, Attempting
    <3>2. Len(staged') = Len(staged) + 1 /\ Len(staged) \in Nat
      BY <1>1, <3>1, AttemptTyped DEF Typed
    <3>3. Number' = Number + 1 /\ Budget' = Budget
      BY <3>1, <3>2 DEF Number, Budget
    <3>. QED
      BY <1>2, <3>1, <3>3 DEF WithinBudget
  <2>3. CASE jobs[prompt].state # "bad" /\ (Attempt.passed \/ Number = Budget)
    BY <1>6, <2>3 DEF Stage, WithinBudget, Attempting
  <2>. QED
    BY <2>1, <2>2, <2>3
<1>7. CASE Queue \/ QueueFails \/ GetFails \/ Breaks
  BY <1>4, <1>7 DEF Queue, QueueFails, GetFails, Breaks, Retry, Raise, stage,
     Fixed, Attempting
<1>8. CASE Pending \/ Finished \/ Download \/ Accept
  BY <1>4, <1>8 DEF Pending, Finished, Download, Accept, Raise, stage, Fixed,
     Attempting
<1>9. CASE Server \/ UNCHANGED vars
  BY <1>4, <1>9 DEF Server, vars, stage
<1>. QED
  BY <1>5, <1>6, <1>7, <1>8, <1>9 DEF Next, Proceeds

(* What is left of an attempt is a number, before and after a step.        *)
LEMMA AttemptNumbers ==
    ASSUME Typed, Typed'
    PROVE  /\ InAttempt \in Nat \ {0} /\ InAttempt' \in Nat \ {0}
           /\ InAttempt <= AttemptSteps /\ InAttempt' <= AttemptSteps
<1>1. (Typed => InAttempt \in 1..AttemptSteps)'
  BY AttemptLeft, PTL
<1>2. AttemptSteps' = AttemptSteps
  BY DEF AttemptSteps
<1>3. InAttempt \in 1..AttemptSteps /\ InAttempt' \in 1..AttemptSteps
  BY <1>1, <1>2, AttemptLeft
<1>. QED
  BY <1>3, Sizes

(* A step within an attempt leaves the rest of the run as it was.          *)
LEMMA AttemptGoesOn ==
    ASSUME Typed, Typed', UNCHANGED <<input, settings, shot, staged>>,
           pc \in Attempting, pc' \in Attempting, InAttempt' < InAttempt
    PROVE  StepsLeft' < StepsLeft
<1>1. /\ LaterAttempts \in Int /\ LaterShots \in Nat
      /\ LaterAttempts' = LaterAttempts /\ LaterShots' = LaterShots
  BY Sizes DEF LaterAttempts, LaterShots, Budget, Number
<1>2. InAttempt \in Nat /\ InAttempt' \in Nat
  BY AttemptNumbers
<1>3. PICK n \in Nat : n = InAttempt'
  BY <1>2
<1>4. /\ StepsLeft = LaterShots + (LaterAttempts + InAttempt + 2)
      /\ StepsLeft' = LaterShots + (LaterAttempts + n + 2)
  BY <1>1, <1>3 DEF StepsLeft, InShot, Running, Attempting
<1>5. n < InAttempt
  BY <1>3
<1>. QED
  BY <1>1, <1>2, <1>4, <1>5

(* A run that has ended has nothing left.                                  *)
LEMMA RunEnds ==
    ASSUME BInv, Running, pc' \in {"failed", "complete"}
    PROVE  StepsLeft' < StepsLeft
<1>1. StepsLeft > 0
  BY RunLeft DEF HasStep
<1>2. StepsLeft' = 0
  BY DEF StepsLeft, Running
<1>. QED
  BY <1>1, <1>2

(* What is left of an attempt at a request, a poll or a download.          *)
LEMMA RequestsLeft ==
    ASSUME Typed
    PROVE  /\ RequestSteps \in Nat \ {0} /\ MaxRetries \in Nat
           /\ (MaxPolls - polls + 1) * MaxRetries \in Nat
           /\ (MaxPolls + 2) * MaxRetries \in Nat
           /\ (MaxPolls + 2) * MaxRetries
                = (MaxPolls - 0 + 1) * MaxRetries + MaxRetries
           /\ MaxRetries <= (MaxPolls - polls + 1) * MaxRetries
           /\ (MaxPolls - (polls + 1) + 1) * MaxRetries
                = (MaxPolls - polls + 1) * MaxRetries - MaxRetries
<1>1. /\ MaxRetries \in Nat /\ tries \in 1..MaxRetries
      /\ MaxPolls \in Nat /\ polls \in 0..MaxPolls
  BY Facts DEF Typed, TypeOK
<1>. DEFINE a == MaxPolls - polls + 1
            b == MaxPolls + 2
<1>2. /\ a \in Int /\ 1 \in Int /\ 1 <= a /\ b \in Int /\ 0 <= a /\ 0 <= b
      /\ MaxPolls - (polls + 1) + 1 = a - 1 /\ MaxPolls - 0 + 1 = b - 1
  BY <1>1
<1>3. RequestSteps \in Nat \ {0}
  BY <1>1 DEF RequestSteps
<1>. HIDE DEF a, b
<1>4. /\ a * MaxRetries \in Int /\ 0 <= a * MaxRetries
      /\ (a - 1) * MaxRetries = a * MaxRetries - MaxRetries
      /\ b * MaxRetries \in Int /\ 0 <= b * MaxRetries
      /\ (b - 1) * MaxRetries = b * MaxRetries - MaxRetries
      /\ 1 * MaxRetries <= a * MaxRetries
      /\ 1 * MaxRetries = MaxRetries
  BY <1>1, <1>2, Products
<1>5. /\ a * MaxRetries \in Nat /\ b * MaxRetries \in Nat
      /\ b * MaxRetries = (b - 1) * MaxRetries + MaxRetries
      /\ MaxRetries <= a * MaxRetries
  BY <1>4, <1>1
<1>. QED
  BY <1>1, <1>2, <1>3, <1>4, <1>5 DEF a, b

(* A failing request takes one of the tries, or ends the run.              *)
LEMMA RequestGoesOn ==
    ASSUME BInv, BInv', pc \in {"queue", "wait", "download"}, Retry, Fixed
    PROVE  StepsLeft' < StepsLeft
<1>1. CASE tries < MaxRetries
  <2>1. /\ tries' = tries + 1 /\ pc' = pc /\ polls' = polls
        /\ UNCHANGED <<input, settings, shot, staged>>
    BY <1>1 DEF Retry, Fixed, stage
  <2>2. RequestSteps' = RequestSteps - 1 /\ RequestSteps \in Nat \ {0}
    <3>1. tries \in Nat /\ MaxRetries \in Nat
      BY Facts DEF BInv
    <3>2. RequestSteps' = RequestSteps - 1
      BY <2>1, <3>1 DEF RequestSteps
    <3>. QED
      BY <3>2, RequestsLeft DEF BInv
  <2>3. InAttempt' = InAttempt - 1
    <3>. DEFINE p == (MaxPolls + 2) * MaxRetries
                q == (MaxPolls - polls + 1) * MaxRetries
    <3>1. p \in Nat /\ q \in Nat /\ q' = q
      BY <2>1, RequestsLeft DEF BInv
    <3>2. /\ InAttempt = CASE pc = "queue" -> RequestSteps + p + 1
                           [] pc = "wait" -> RequestSteps + q + 1
                           [] pc = "download" -> RequestSteps + 1
                           [] OTHER -> 1
          /\ InAttempt' = CASE pc = "queue" -> RequestSteps' + p + 1
                            [] pc = "wait" -> RequestSteps' + q + 1
                            [] pc = "download" -> RequestSteps' + 1
                            [] OTHER -> 1
      BY <2>1 DEF InAttempt
    <3>. HIDE DEF p, q
    <3>. QED
      BY <2>2, <3>1, <3>2
  <2>4. InAttempt \in Nat
    BY AttemptNumbers DEF BInv
  <2>. QED
    BY <2>1, <2>3, <2>4, AttemptGoesOn DEF BInv, Attempting
<1>2. CASE ~(tries < MaxRetries)
  BY <1>2, RunEnds DEF Retry, Raise, Running
<1>. QED
  BY <1>1, <1>2

(* Each step of an attempt to its end takes one.                           *)
LEMMA AttemptTaken ==
    ASSUME BInv, BInv', Queue \/ Pending \/ Finished \/ Download
    PROVE  StepsLeft' < StepsLeft
<1>. DEFINE p == (MaxPolls + 2) * MaxRetries
            w(n) == (MaxPolls - n + 1) * MaxRetries
<1>0. /\ RequestSteps \in Nat \ {0} /\ MaxRetries \in Nat
      /\ p \in Nat /\ w(polls) \in Nat /\ p = w(0) + MaxRetries
      /\ MaxRetries <= w(polls) /\ w(polls + 1) = w(polls) - MaxRetries
  BY RequestsLeft DEF BInv
<1>1. /\ InAttempt = CASE pc = "queue" -> RequestSteps + p + 1
                       [] pc = "wait" -> RequestSteps + w(polls) + 1
                       [] pc = "download" -> RequestSteps + 1
                       [] OTHER -> 1
      /\ InAttempt' = CASE pc' = "queue" -> RequestSteps' + p + 1
                        [] pc' = "wait" -> RequestSteps' + w(polls') + 1
                        [] pc' = "download" -> RequestSteps' + 1
                        [] OTHER -> 1
      /\ tries' = 1 => RequestSteps' = MaxRetries
  BY <1>0 DEF InAttempt, RequestSteps
<1>. HIDE DEF p, w
<1>2. CASE Queue
  <2>1. /\ pc = "queue" /\ pc' = "wait" /\ tries' = 1 /\ polls' = 0
        /\ UNCHANGED <<input, settings, shot, staged>>
    BY <1>2 DEF Queue, Fixed, stage
  <2>2. /\ InAttempt = RequestSteps + p + 1
        /\ InAttempt' = RequestSteps' + w(0) + 1
        /\ RequestSteps' = MaxRetries
    BY <1>1, <2>1
  <2>3. w(0) \in Int
    <3>1. MaxPolls - 0 + 1 \in Int
      BY ConstantsAssumption DEF ConstantsAssumption
    <3>. QED
      BY <1>0, <3>1, Products DEF w
  <2>4. InAttempt' < InAttempt
    BY <1>0, <2>2, <2>3
  <2>. QED
    BY <2>1, <2>4, AttemptGoesOn DEF BInv, Attempting
<1>3. CASE Pending
  <2>1. CASE Raise
    BY <1>3, <2>1, RunEnds DEF Pending, Raise, Running
  <2>2. CASE ~Raise
    <3>1. /\ pc = "wait" /\ pc' = "wait" /\ tries' = 1 /\ polls' = polls + 1
          /\ UNCHANGED <<input, settings, shot, staged>>
      BY <1>3, <2>2 DEF Pending, Fixed, stage
    <3>2. InAttempt' < InAttempt
      BY <1>0, <1>1, <3>1
    <3>. QED
      BY <3>1, <3>2, AttemptGoesOn DEF BInv, Attempting
  <2>. QED
    BY <2>1, <2>2
<1>4. CASE Finished
  <2>1. CASE Raise
    BY <1>4, <2>1, RunEnds DEF Finished, Raise, Running
  <2>2. CASE ~Raise
    <3>1. /\ pc = "wait" /\ pc' = "download" /\ tries' = 1
          /\ UNCHANGED <<input, settings, shot, staged>>
      BY <1>4, <2>2 DEF Finished, Fixed, stage
    <3>2. InAttempt' < InAttempt
      BY <1>0, <1>1, <3>1
    <3>. QED
      BY <3>1, <3>2, AttemptGoesOn DEF BInv, Attempting
  <2>. QED
    BY <2>1, <2>2
<1>5. CASE Download
  <2>1. /\ pc = "download" /\ pc' = "stage"
        /\ UNCHANGED <<input, settings, shot, staged>>
    BY <1>5 DEF Download, Fixed, stage
  <2>2. InAttempt' < InAttempt
    BY <1>0, <1>1, <2>1
  <2>. QED
    BY <2>1, <2>2, AttemptGoesOn DEF BInv, Attempting
<1>. QED
  BY <1>2, <1>3, <1>4, <1>5

(* A new attempt is paid for by the budget of its shot.                    *)
LEMMA StageTaken == ASSUME BInv, BInv', Stage PROVE StepsLeft' < StepsLeft
<1>1. /\ Typed /\ Typed' /\ LaterShots \in Nat /\ LaterAttempts \in Int
      /\ AttemptSteps \in Nat /\ Budget \in Nat /\ Number \in Nat
  BY Sizes, Facts DEF BInv
<1>2. CASE jobs[prompt].state = "bad"
  BY <1>2, RunEnds DEF Stage, Raise, Running
<1>3. CASE jobs[prompt].state # "bad"
  <2>1. /\ pc = "stage" /\ staged' = Append(staged, Attempt)
        /\ UNCHANGED <<input, settings, shot>>
        /\ pc' = "accept" \/ (pc' = "queue" /\ tries' = 1)
    BY <1>3 DEF Stage, Fixed
  <2>2. InAttempt = 1 /\ LaterShots' = LaterShots
    BY <2>1 DEF InAttempt, LaterShots
  <2>3. StepsLeft = LaterShots + (LaterAttempts + 3)
    BY <1>1, <2>1, <2>2 DEF StepsLeft, InShot, Running, Attempting
  <2>4. Number' = Number + 1 /\ Budget' = Budget
    <3>1. Len(staged') = Len(staged) + 1 /\ Len(staged) \in Nat
      BY <1>1, <2>1, AttemptTyped DEF Typed
    <3>. QED
      BY <2>1, <3>1 DEF Number, Budget
  <2>5. CASE pc' = "accept"
    <3>1. StepsLeft' = LaterShots + 2
      BY <2>2, <2>5 DEF StepsLeft, InShot, Running, Attempting
    <3>2. 0 <= LaterAttempts
      <4>1. Budget - Number \in Int /\ 0 <= Budget - Number
        BY <1>1, <2>1 DEF BInv, WithinBudget, Attempting
      <4>. QED
        BY <4>1, <1>1, Products DEF LaterAttempts
    <3>. QED
      BY <1>1, <2>3, <3>1, <3>2
  <2>6. CASE pc' = "queue"
    <3>1. LaterAttempts' = LaterAttempts - AttemptSteps
      <4>1. Budget' - Number' = (Budget - Number) - 1 /\ Budget - Number \in Int
        BY <1>1, <2>4
      <4>2. LaterAttempts' = ((Budget - Number) - 1) * AttemptSteps
        BY <4>1 DEF LaterAttempts, AttemptSteps
      <4>. QED
        BY <4>1, <4>2, <1>1, Products DEF LaterAttempts
    <3>2. PICK n \in Nat : n = InAttempt' /\ n <= AttemptSteps
      BY <1>1, AttemptNumbers
    <3>3. StepsLeft' = LaterShots + ((LaterAttempts - AttemptSteps) + n + 2)
      BY <2>2, <2>6, <3>1, <3>2 DEF StepsLeft, InShot, Running, Attempting
    <3>4. LaterShots + ((LaterAttempts - AttemptSteps) + n + 2)
             < LaterShots + (LaterAttempts + 3)
      <4>1. /\ LaterShots \in Int /\ LaterAttempts \in Int
            /\ AttemptSteps \in Int /\ n \in Int /\ n <= AttemptSteps
        BY <1>1, <3>2
      <4>. QED
        BY ONLY <4>1
    <3>. QED
      BY <2>3, <3>3, <3>4
  <2>. QED
    BY <2>1, <2>5, <2>6
<1>. QED
  BY <1>2, <1>3

(* Accepting and archiving take a step each; the next shot has its own.    *)
LEMMA ShotTaken ==
    ASSUME BInv, BInv', Accept \/ Archive
    PROVE  StepsLeft' < StepsLeft
<1>1. LaterShots \in Nat /\ Typed /\ Typed'
  BY Sizes DEF BInv
<1>2. CASE Accept /\ Raise
  BY <1>2, RunEnds DEF Accept, Raise, Running
<1>3. CASE Accept /\ ~Raise
  <2>1. pc = "accept" /\ pc' = "archive" /\ UNCHANGED <<input, shot>>
    BY <1>3 DEF Accept, Fixed
  <2>2. StepsLeft = LaterShots + 2 /\ StepsLeft' = LaterShots + 1
    BY <2>1 DEF StepsLeft, InShot, Running, Attempting, LaterShots, ShotSteps
  <2>. QED
    BY <1>1, <2>2
<1>4. CASE Archive /\ shot = Len(input)
  BY <1>4, RunEnds DEF Archive, Running
<1>5. CASE Archive /\ shot # Len(input)
  <2>1. /\ pc = "archive" /\ pc' = "queue" /\ shot' = shot + 1
        /\ input' = input /\ staged' = <<>>
    BY <1>5 DEF Archive, Fixed
  <2>2. StepsLeft = LaterShots + 1
    BY <2>1 DEF StepsLeft, InShot, Running, Attempting
  <2>3. ShotSteps \in Nat /\ Len(input) \in Nat /\ shot \in Nat
    BY <1>1, Facts, Sizes
  <2>4. LaterShots' = LaterShots - ShotSteps
    <3>1. /\ Len(input') - shot' = (Len(input) - shot) - 1
          /\ Len(input) - shot \in Int
      BY <2>1, <2>3
    <3>2. LaterShots' = ((Len(input) - shot) - 1) * ShotSteps
      BY <3>1 DEF LaterShots, ShotSteps, AttemptSteps
    <3>. QED
      BY <2>3, <3>1, <3>2, Products DEF LaterShots
  <2>5. InShot' \in 1..ShotSteps
    <3>1. (BInv => InShot \in 1..ShotSteps)'
      BY RunLeft, PTL
    <3>2. ShotSteps' = ShotSteps
      BY DEF ShotSteps, AttemptSteps
    <3>. QED
      BY <3>1, <3>2
  <2>6. PICK n \in 1..ShotSteps : n = InShot'
    BY <2>5
  <2>7. StepsLeft' = (LaterShots - ShotSteps) + n
    BY <2>1, <2>4, <2>6 DEF StepsLeft, Running
  <2>8. (LaterShots - ShotSteps) + n < LaterShots + 1
    <3>1. /\ LaterShots \in Int /\ ShotSteps \in Int /\ n \in Int
          /\ n <= ShotSteps
      BY <1>1, <2>3, <2>6
    <3>. QED
      BY ONLY <3>1
  <2>. QED
    BY <2>2, <2>7, <2>8
<1>. QED
  BY <1>2, <1>3, <1>4, <1>5

(* Whatever the stage or the client does takes a step, and nothing else    *)
(* gives one back while a run is under way.                                *)
LEMMA StepIsTaken == BInv /\ BInv' /\ [Next]_vars => [StepTaken]_vars
<1>. SUFFICES ASSUME BInv, BInv', Next PROVE StepTaken
  OBVIOUS
<1>1. ASSUME Proceeds PROVE StepsLeft' < StepsLeft
  BY <1>1, AttemptTaken, StageTaken, ShotTaken DEF Proceeds
<1>2. ASSUME QueueFails \/ GetFails PROVE StepsLeft' < StepsLeft
  BY <1>2, RequestGoesOn DEF QueueFails, GetFails
<1>3. ASSUME Breaks PROVE StepsLeft' < StepsLeft
  BY <1>3, RunEnds DEF Breaks, Raise, Running
<1>4. StepsLeft \in Nat
  BY RunLeft
<1>5. StepsLeft' \in Nat
  <2>1. (BInv => StepsLeft \in Nat)'
    BY RunLeft, PTL
  <2>. QED
    BY <2>1
<1>6. CASE Proceeds \/ QueueFails \/ GetFails \/ Breaks
  <2>1. StepsLeft' < StepsLeft
    BY <1>1, <1>2, <1>3, <1>6
  <2>. QED
    BY <1>4, <1>5, <2>1 DEF StepTaken
<1>7. CASE ~(Proceeds \/ QueueFails \/ GetFails \/ Breaks)
  <2>1. CASE Execute
    BY <1>7, <2>1 DEF Execute, StepTaken, Running
  <2>2. CASE Server
    <3>1. UNCHANGED <<input, settings, pc, shot, staged, tries, polls>>
      BY <2>2 DEF Server, stage, client
    <3>2. StepsLeft' = StepsLeft
      BY <3>1 DEF StepsLeft, Running, LaterShots, InShot, ShotSteps,
         AttemptSteps, LaterAttempts, InAttempt, RequestSteps, Budget, Number
    <3>. QED
      BY <1>4, <1>7, <3>2 DEF StepTaken
  <2>. QED
    BY <1>7, <2>1, <2>2 DEF Next
<1>. QED
  BY <1>6, <1>7

(* A run of the stage ends after a bounded number of steps of its own, for *)
(* any shots and scores: every request, poll, attempt and rename brings it *)
(* nearer, a failing one too, and no answer of the server takes it back.   *)
(* No shot gets more attempts than it may have.                            *)
THEOREM RunsRunOut == Spec => []HasStep /\ [][StepTaken]_vars
<1>1. Init => BInv
  <2>1. Init => pc \notin Attempting
    BY DEF Init, Attempting
  <2>. QED
    BY <2>1, TypedInit DEF BInv, WithinBudget
<1>2. BInv => HasStep
  BY RunLeft
<1>. QED
  BY <1>1, <1>2, BudgetStep, StepIsTaken, PTL DEF Spec
=============================================================================
