-------------------------- MODULE ImageGeneration --------------------------
(***************************************************************************)
(* The image stage of the pr1me package                                    *)
(* (src/src/pr1me/stages/image_generation_stage.py): for every shot it has *)
(* ComfyUI render the frame, criticises the render, renders again with the *)
(* critic's corrections while the gate fails and the budget lasts, and     *)
(* keeps the best render.  The ComfyUI client (providers/comfyui.py)       *)
(* queues a workflow, polls its history and downloads its image; every     *)
(* request is sent again after a transport error or a retryable status.    *)
(*                                                                         *)
(* The ComfyUI server is external: it executes the queued workflows one    *)
(* after the other, also those nobody waits for any more.  The workflow of *)
(* the repository saves one image.  A render is named by the number of its *)
(* workflow on the server.                                                 *)
(***************************************************************************)
EXTENDS Naturals, Sequences, FiniteSets

CONSTANTS
    Inputs,       \* what the stage may be given: sequences of shots
    Settings,     \* [critic, strict: BOOLEAN] it may run with
    Threshold,    \* image_critic_threshold
    MaxAttempts,  \* image_critic_max_attempts
    Candidates,   \* image_critic_thumbnail_candidates
    MaxRetries,   \* of the client, for each request
    NoScore,      \* the validation score of a shot of the legacy path
    MaxPolls,     \* bound: polls before the deadline has passed
    MaxRuns,      \* bound: runs of the stage in one directory
    MaxFaults     \* bound: failing requests, workflows and processes

(* What the critic looks for in a composed prompt and a scene may lack.    *)
Cues == {"teaching", "focus", "camera", "lighting"}

(* A shot of the visual plan, or the frame the workflow builder made of it *)
(* with the score of the prompt validator.                                 *)
Shot == [score : (0..100) \cup {NoScore}, thumb : BOOLEAN, cues : SUBSET Cues]

ASSUME ConstantsAssumption ==
    /\ NoScore \notin 0..100
    /\ Settings \subseteq [critic : BOOLEAN, strict : BOOLEAN]
    /\ Inputs \subseteq Seq(Shot) /\ \A i \in Inputs : Len(i) > 0
    /\ Threshold \in 1..100
    /\ MaxAttempts \in Nat \ {0} /\ Candidates \in Nat \ {0}
    /\ MaxRetries \in Nat \ {0}
    /\ MaxPolls \in Nat /\ MaxRuns \in Nat /\ MaxFaults \in Nat

VARIABLES
    input, settings,
    (* The stage *)
    pc,        \* "idle", "queue", "wait", "download", "stage", "accept",
               \* "archive", "complete" or "failed"
    shot,      \* position of the shot being rendered
    fixes,     \* corrections: the dimensions the next prompt is to mend
    staged,    \* the attempts at this shot
    best,      \* position of the accepted one in staged
    images,    \* assets of the manifest
    rejected,  \* rejected renders of the report
    (* The client *)
    tries,     \* at the present request, from 1
    polls,     \* of the present workflow
    prompt,    \* the workflow it waits for
    (* What is outside *)
    jobs,      \* workflows on the server, by prompt id
    files,     \* images_dir: the render each name holds
    runs, faults

stage == <<shot, fixes, staged, best, images, rejected>>
client == <<tries, polls, prompt>>
vars == <<input, settings, pc, stage, client, jobs, files, runs, faults>>

-----------------------------------------------------------------------------
(* The critic                                                              *)

Weight == [engineering_correctness |-> 12, teaching_effectiveness |-> 12,
           composition |-> 11, readability |-> 9, object_hierarchy |-> 10,
           visual_clutter |-> 10, camera_quality |-> 10, lighting |-> 8,
           consistency |-> 8, thumbnail_potential |-> 10]
Dimensions == DOMAIN Weight

(* The validator's score stands for every dimension of a frame.            *)
Carried(score) == IF score >= 100 THEN 10
                  ELSE IF score >= 95 THEN 9 ELSE score \div 10

(* Of a prompt the legacy path composed, the fixed negatives and the       *)
(* channel's qualifier prove some dimensions and can never prove that the  *)
(* shots are consistent; the others need a cue.                            *)
CueFor == [teaching_effectiveness |-> "teaching", composition |-> "focus",
           object_hierarchy |-> "focus", camera_quality |-> "camera",
           lighting |-> "lighting"]
Proven(d, cues) == /\ d # "consistency"
                   /\ d \in DOMAIN CueFor => CueFor[d] \in cues

(* The cues the wording of a dimension's correction brings.                *)
Brings(d) ==
    CASE d \in {"teaching_effectiveness", "composition"} -> {"focus"}
      [] d = "camera_quality" -> {"camera"}
      [] d \in {"lighting", "consistency"} -> {"lighting"}
      [] OTHER -> {}

Evidence(s, mended) == [d \in Dimensions |->
    IF d = "thumbnail_potential" /\ ~s.thumb THEN 10
    ELSE IF s.score # NoScore THEN Carried(s.score)
    ELSE IF Proven(d, s.cues \cup UNION {Brings(m) : m \in mended}) THEN 10
    ELSE 0]

Points(e, d) == (e[d] * Weight[d]) \div 10
Score(e) ==
      Points(e, "engineering_correctness") + Points(e, "teaching_effectiveness")
    + Points(e, "composition") + Points(e, "readability")
    + Points(e, "object_hierarchy") + Points(e, "visual_clutter")
    + Points(e, "camera_quality") + Points(e, "lighting")
    + Points(e, "consistency") + Points(e, "thumbnail_potential")
Corrections(e) == {d \in Dimensions : e[d] < 10}

(* critique_render, for a shot and the corrections in its prompt.          *)
Critique(s, mended) == LET e == Evidence(s, mended) IN
    [score |-> Score(e), passed |-> Score(e) >= Threshold,
     corrections |-> Corrections(e)]

(* Without a critic a render counts as perfect and is the only one.        *)
NoCritique == [score |-> 100, passed |-> TRUE, corrections |-> {}]
Verdict(s, mended) ==
    IF settings.critic THEN Critique(s, mended) ELSE NoCritique

-----------------------------------------------------------------------------
(* The directory                                                           *)

Name(kind, n, k) == [kind |-> kind, of |-> <<n, k>>]
Output(j) == Name("output", j, 0)
(* Mutant: the attempts at a shot share a name.                            *)
StagedMutant(n, k) == Name("staged", n, 1)
Staged(n, k) == Name("staged", n, k)
Final(n) == Name("final", n, 0)
Rejected(n, k) == Name("rejected", n, k)

Put(fs, name, j) == {f \in fs : f.name # name} \cup {[name |-> name, job |-> j]}
Held(fs, name) == {f.job : f \in {g \in fs : g.name = name}}
(* os.replace                                                              *)
Moved(fs, from, to) ==
    {f \in fs : f.name \notin {from, to}}
        \cup {[name |-> to, job |-> j] : j \in Held(fs, from)}

-----------------------------------------------------------------------------
Init ==
    /\ input \in Inputs /\ settings \in Settings
    /\ pc = "idle" /\ shot = 1 /\ fixes = {} /\ staged = <<>> /\ best = 0
    /\ images = <<>> /\ rejected = {}
    /\ tries = 1 /\ polls = 0 /\ prompt = 0
    /\ jobs = <<>> /\ files = {}
    /\ runs = 0 /\ faults = 0

Fault == faults < MaxFaults /\ faults' = faults + 1
Fixed == UNCHANGED <<input, settings, runs>>

(* execute: what an earlier run left in the directory stays there.         *)
Execute ==
    /\ pc \in {"idle", "complete", "failed"} /\ runs < MaxRuns
    /\ runs' = runs + 1
    /\ pc' = "queue" /\ shot' = 1 /\ fixes' = {} /\ staged' = <<>> /\ best' = 0
    /\ images' = <<>> /\ rejected' = {}
    /\ tries' = 1 /\ polls' = 0 /\ prompt' = 0
    /\ UNCHANGED <<input, settings, jobs, files, faults>>

(* A PipelineError, or one that BaseStage.run makes one, ends the run.     *)
Raise == pc' = "failed" /\ UNCHANGED <<stage, client>>

Number == Len(staged) + 1
Budget == IF input[shot].thumb /\ settings.critic THEN Candidates
                                                  ELSE MaxAttempts

-----------------------------------------------------------------------------
(* Requests of the client                                                  *)

(* The variables of an attempt: its seed follows from its number.          *)
Job == [run |-> runs, shot |-> shot, attempt |-> Number, mended |-> fixes,
        state |-> "queued", answered |-> FALSE]

(* Mutant: one attempt too many.                                           *)
RetryMutant == IF tries <= MaxRetries
               THEN tries' = tries + 1 /\ UNCHANGED <<pc, stage, polls, prompt>>
               ELSE Raise

(* _retried_post, _retried_get and _retried_get_bytes give an error of the *)
(* last attempt to their caller.                                           *)
Retry == IF tries < MaxRetries
         THEN tries' = tries + 1 /\ UNCHANGED <<pc, stage, polls, prompt>>
         ELSE Raise

(* POST /prompt is answered with a prompt id.                              *)
Queue ==
    /\ pc = "queue" /\ pc' = "wait"
    /\ jobs' = Append(jobs, [Job EXCEPT !.answered = TRUE])
    /\ prompt' = Len(jobs) + 1 /\ tries' = 1 /\ polls' = 0
    /\ Fixed /\ UNCHANGED <<stage, files, faults>>

(* A transport error or a retryable status; the server may have queued the *)
(* workflow all the same.                                                  *)
QueueFails ==
    /\ pc = "queue" /\ Fault
    /\ Retry
    /\ jobs' \in {jobs, Append(jobs, Job)}
    /\ Fixed /\ UNCHANGED files

GetFails ==
    /\ pc \in {"wait", "download"} /\ Fault
    /\ Retry
    /\ Fixed /\ UNCHANGED <<jobs, files>>

(* Another status, node errors, an answer that is not what it should be, a *)
(* file that cannot be written, or the process is killed.                  *)
Breaks ==
    /\ pc \notin {"idle", "complete", "failed"} /\ Fault
    /\ Raise
    /\ jobs' \in {jobs} \cup IF pc = "queue" THEN {Append(jobs, Job)} ELSE {}
    /\ Fixed /\ UNCHANGED files

(* GET /history: a workflow that failed without being marked completed     *)
(* looks like one that is still to be executed.                            *)
Completed == jobs[prompt].state \in {"done", "bad", "empty", "error"}

(* Mutant: the deadline is left out.                                       *)
PendingMutant ==
    /\ pc = "wait" /\ ~Completed
    /\ tries' = 1 /\ UNCHANGED <<pc, polls, prompt, stage>>
    /\ Fixed /\ UNCHANGED <<jobs, files, faults>>

(* Not completed: it polls again, until the deadline has passed.           *)
Pending ==
    /\ pc = "wait" /\ ~Completed
    /\ \/ /\ polls < MaxPolls
          /\ polls' = polls + 1 /\ tries' = 1 /\ UNCHANGED <<pc, prompt, stage>>
       \/ Raise
    /\ Fixed /\ UNCHANGED <<jobs, files, faults>>

(* Completed: with an image, or render raises.                             *)
Finished ==
    /\ pc = "wait" /\ Completed
    /\ IF jobs[prompt].state \in {"done", "bad"}
       THEN /\ pc' = "download" /\ tries' = 1
            /\ UNCHANGED <<polls, prompt, stage>>
       ELSE Raise
    /\ Fixed /\ UNCHANGED <<jobs, files, faults>>

(* GET /view, and the image is written into images_dir.                    *)
Download ==
    /\ pc = "download" /\ pc' = "stage"
    /\ files' = Put(files, Output(prompt), prompt)
    /\ Fixed /\ UNCHANGED <<stage, client, jobs, faults>>

-----------------------------------------------------------------------------
(* _render_with_critic                                                     *)

Attempt == LET v == Verdict(input[shot], fixes) IN
    [attempt |-> Number, job |-> prompt, mended |-> fixes, score |-> v.score,
     passed |-> v.passed]

(* The download is renamed, inspected and criticised, and another attempt  *)
(* is made when it failed and the budget lasts.                            *)
Stage ==
    /\ pc = "stage"
    /\ files' = Moved(files, Output(prompt), Staged(shot, Number))
    /\ IF jobs[prompt].state = "bad" THEN Raise
       ELSE /\ staged' = Append(staged, Attempt)
            /\ IF Attempt.passed \/ Number = Budget
               THEN pc' = "accept" /\ UNCHANGED <<fixes, tries>>
               ELSE /\ pc' = "queue" /\ tries' = 1
                    /\ fixes' = Verdict(input[shot], fixes).corrections
            /\ UNCHANGED <<shot, best, images, rejected, polls, prompt>>
    /\ Fixed /\ UNCHANGED <<jobs, faults>>

Better(i, k) == \/ staged[i].score > staged[k].score
                \/ staged[i].score = staged[k].score /\ i <= k
Best == CHOOSE i \in 1..Len(staged) :
            \A k \in 1..Len(staged) : Better(i, k)

StagedAt(i) == Staged(shot, staged[i].attempt)

(* The best is renamed before the gate is asked: in a strict run a failing *)
(* render has the final name when the run fails.                           *)
Accept ==
    /\ pc = "accept"
    /\ files' = Moved(files, StagedAt(Best), Final(shot))
    /\ IF settings.critic /\ settings.strict /\ ~staged[Best].passed
       THEN Raise
       ELSE /\ pc' = "archive" /\ best' = Best
            /\ UNCHANGED <<shot, fixes, staged, images, rejected, client>>
    /\ Fixed /\ UNCHANGED <<jobs, faults>>

Losers == {i \in 1..Len(staged) : StagedAt(i) # StagedAt(best)}
Archived ==
    {f \in files : \A i \in Losers :
        f.name \notin {StagedAt(i), Rejected(shot, staged[i].attempt)}}
    \cup UNION {{[name |-> Rejected(shot, staged[i].attempt), job |-> j] :
                    j \in Held(files, StagedAt(i))} : i \in Losers}

(* The others go to rejected/, the asset to the manifest.                  *)
Archive ==
    /\ pc = "archive"
    /\ files' = Archived
    /\ rejected' = rejected \cup
          {[shot |-> shot, attempt |-> staged[i].attempt, job |-> staged[i].job,
            score |-> staged[i].score] : i \in Losers}
    /\ images' = Append(images, staged[best])
    /\ IF shot = Len(input) THEN pc' = "complete" /\ UNCHANGED shot
                            ELSE pc' = "queue" /\ shot' = shot + 1
    /\ fixes' = {} /\ staged' = <<>> /\ best' = 0
    /\ tries' = 1 /\ polls' = 0 /\ prompt' = 0
    /\ Fixed /\ UNCHANGED <<jobs, faults>>

-----------------------------------------------------------------------------
(* The server executes its queue in order.  An execution error leaves the  *)
(* workflow's status without "completed".                                  *)
Outcomes == {"done", "bad", "empty", "error", "failed"}

Server ==
    \E j \in 1..Len(jobs), o \in Outcomes :
        /\ jobs[j].state = "queued"
        /\ \A i \in 1..(j - 1) : jobs[i].state # "queued"
        /\ IF o = "done" THEN UNCHANGED faults ELSE Fault
        /\ jobs' = [jobs EXCEPT ![j].state = o]
        /\ UNCHANGED <<input, settings, pc, stage, client, files, runs>>

Proceeds == Queue \/ Pending \/ Finished \/ Download \/ Stage \/ Accept
            \/ Archive
Next == Execute \/ Proceeds \/ QueueFails \/ GetFails \/ Breaks \/ Server

Spec == Init /\ [][Next]_vars

(* The stage's own process goes on; the server may never answer for what   *)
(* it queued.                                                              *)
FairSpec == Spec /\ WF_vars(Proceeds)

-----------------------------------------------------------------------------
(* Properties                                                              *)

Running == pc \notin {"idle", "complete", "failed"}
Positions == 1..Len(input)
OfThisRun == {j \in 1..Len(jobs) : jobs[j].run = runs}

(* Every variable keeps its shape, and the stage waits for, downloads and  *)
(* stages a workflow it queued in this run for the attempt it is at.       *)
TypeOK ==
    /\ input \in Inputs /\ settings \in Settings
    /\ pc \in {"idle", "queue", "wait", "download", "stage", "accept",
               "archive", "complete", "failed"}
    /\ shot \in Positions /\ fixes \subseteq Dimensions
    /\ tries \in 1..MaxRetries /\ polls \in 0..MaxPolls
    /\ runs \in 0..MaxRuns /\ faults \in 0..MaxFaults
    /\ pc = "archive" => best \in 1..Len(staged)
    /\ pc \in {"wait", "download", "stage"} =>
           /\ prompt \in OfThisRun /\ jobs[prompt].answered
           /\ jobs[prompt].shot = shot /\ jobs[prompt].attempt = Number
           /\ jobs[prompt].mended = fixes
    /\ pc \in {"download", "stage"} => jobs[prompt].state \in {"done", "bad"}

(* What the manifest says of an asset is so: the file holds the render of  *)
(* the workflow it names, made in this run for this shot with the prompt   *)
(* and seed it records, and a strict run has accepted none that failed.    *)
AssetsAreTheirs == \A n \in Positions :
    LET a == images[n]
        j == jobs[a.job]
    IN  /\ Held(files, Final(n)) = {a.job}
        /\ j.run = runs /\ j.shot = n /\ j.state = "done"
        /\ j.attempt = a.attempt /\ j.mended = a.mended
        /\ settings.critic /\ settings.strict => a.passed

(* Every rejected render is in rejected/ under its own number, and no      *)
(* better than the accepted one.                                           *)
RejectsAreKept == \A r \in rejected :
    /\ Held(files, Rejected(r.shot, r.attempt)) = {r.job}
    /\ jobs[r.job].run = runs
    /\ jobs[r.job].shot = r.shot /\ jobs[r.job].attempt = r.attempt
    /\ r.score <= images[r.shot].score
    /\ r.score = images[r.shot].score => r.attempt > images[r.shot].attempt

(* Every workflow of the run that was answered is accounted for, and the   *)
(* run left none of its renders under a working name.                      *)
NoneIsForgotten ==
    /\ {j \in OfThisRun : jobs[j].answered} =
           {images[n].job : n \in Positions} \cup {r.job : r \in rejected}
    /\ \A f \in files : f.name.kind \in {"staged", "output"} =>
           jobs[f.job].run # runs

(* A manifest is true, whatever failed before, also in earlier runs in the *)
(* same directory.                                                         *)
ManifestIsTrue ==
    pc = "complete" => AssetsAreTheirs /\ RejectsAreKept /\ NoneIsForgotten

(* An attempt is queued once, and again only while the answer of the       *)
(* server was lost: at most one of its workflows was ever answered, and    *)
(* there are never more than the client may retry.                         *)
WorkflowsOf(j) == {i \in 1..Len(jobs) :
    /\ jobs[i].run = jobs[j].run /\ jobs[i].shot = jobs[j].shot
    /\ jobs[i].attempt = jobs[j].attempt}
OneWorkflowPerAttempt == \A j \in 1..Len(jobs) :
    /\ Cardinality({i \in WorkflowsOf(j) : jobs[i].answered}) <= 1
    /\ Cardinality(WorkflowsOf(j)) <= MaxRetries

(* A run ends, also when the server never finishes what it was given, and  *)
(* when a workflow ended in an error that is not marked as completed.      *)
EveryRunEnds == Running ~> ~Running
=============================================================================
