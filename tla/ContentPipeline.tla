--------------------------- MODULE ContentPipeline ---------------------------
(***************************************************************************)
(* pr1me run without a knowledge row (src/src/pr1me/cli/run.py): fifteen   *)
(* stages run one after the other (pipeline/runner.py), from a topic a     *)
(* language model proposes to an upload.  Every stage answers with a       *)
(* record the runner saves as an artifact at once; some also write media   *)
(* under a fixed name.  The first failing stage ends the run; nothing is   *)
(* resumed, the next run starts over in the same directory.  Only after a  *)
(* complete run are the outputs written under their documented names.      *)
(*                                                                         *)
(* A file is named by the run that wrote it.  The image stage, the         *)
(* thumbnail's client and the upload have modules of their own             *)
(* (ImageGeneration, YouTubePublish); here they succeed or fail.           *)
(***************************************************************************)
EXTENDS VideoAssembly

CONSTANTS
    ShotPlans,    \* sequences of durations the visual architecture may plan
    VisualPlans,  \* sequences of [start, duration] of the visual director
    Narrations,   \* lengths the mastered narration may have
    Pads,         \* ticks the encoder may add to the video
    Environments, \* what a run may be started with, see Environment
    MaxTries,     \* max_retries of a provider
    MaxRuns,      \* bound: runs in one directory
    MaxFaults,    \* bound: failing calls, writes and processes
    Torn          \* what a write that was cut short leaves

Stages == <<"topic", "script", "fact_check", "visual", "visual_architecture",
    "workflow_builder", "image_generation", "voice_generation", "audio_mix",
    "motion_graphics", "video_assembly", "video_render", "metadata",
    "thumbnail", "publisher">>
StageIds == {Stages[i] : i \in DOMAIN Stages}
Last == Len(Stages)

DependsOn == [s \in StageIds |->
    CASE s = "topic" -> {}
      [] s = "script" -> {"topic"}
      [] s = "fact_check" -> {"script"}
      [] s = "visual" -> {"script", "fact_check"}
      [] s = "visual_architecture" -> {"topic", "script", "fact_check"}
      [] s = "workflow_builder" -> {"visual_architecture"}
      [] s = "image_generation" -> {"workflow_builder"}
      [] s = "voice_generation" -> {"image_generation", "script"}
      [] s = "audio_mix" -> {"voice_generation", "image_generation"}
      [] s = "motion_graphics" -> {"script", "visual"}
      [] s = "video_assembly" -> {"image_generation", "voice_generation",
                                  "audio_mix", "motion_graphics"}
      [] s = "video_render" -> {"video_assembly"}
      [] s = "metadata" -> {"topic", "script", "video_render"}
      [] s = "thumbnail" -> {"topic", "script", "video_render"}
      [] s = "publisher" -> {"video_render", "metadata", "thumbnail"}]

(* StageRegistry.execution_order: the registration order already has every *)
(* stage behind those it depends on, so the sort returns it.               *)
ASSUME RegisteredInOrder ==
    \A i \in DOMAIN Stages : \A d \in DependsOn[Stages[i]] :
        \E j \in 1..(i - 1) : Stages[j] = d

Places == {"work", "elsewhere"}
(* PR1ME_RENDER_OUTPUT_DIR, PR1ME_THUMBNAIL_OUTPUT_DIR and                 *)
(* PR1ME_PUBLISH_OUTPUT_DIR, --output, --dry-run and strict mode.          *)
Environment == [render : Places, thumbnail : Places, publish : Places,
                topic_output : BOOLEAN, dry_run : BOOLEAN, strict : BOOLEAN]

ASSUME PipelineAssumption ==
    /\ Environments \subseteq Environment
    /\ Narrations \subseteq Nat /\ Pads \subseteq Nat
    /\ ShotPlans \subseteq Seq(Nat \ {0})
    /\ VisualPlans \subseteq Seq([start : Int, duration : Int])
    /\ MaxTries \in Nat \ {0} /\ MaxRuns \in Nat /\ MaxFaults \in Nat
    /\ Torn \notin Nat

VARIABLES
    env,
    run,       \* number of the present or latest run
    pc,        \* "idle", "run", "save", "write", "complete" or "failed"
    at,        \* position of the stage that runs, or whose output is written
    tries,     \* at the stage's provider, from 1
    plan,      \* what this run has made: shots, visual, narration, timeline
    artifact,  \* cli_<stage>.json
    output,    \* topic.json, script.json, ...
    media,     \* images, audio, short.mp4 and thumbnail.png
    cut,       \* runs whose short.mp4 ends before their narration
    uploads,   \* what YouTube was sent
    faults

files == <<artifact, output, media>>
vars == <<env, run, pc, at, tries, plan, files, cut, uploads, faults>>

Stage == Stages[at]
NoPlan == [shots |-> << >>, visual |-> << >>, narration |-> 0]
Images == <<"images", "work">>
Narration == <<"narration", "work">>
Master == <<"master", "work">>
Media == {Images, Narration, Master}
         \cup ({"short", "thumbnail"} \X Places)
Short == <<"short", env.render>>
Thumbnail == <<"thumbnail", env.thumbnail>>

Init ==
    /\ env \in Environments
    /\ run = 0 /\ pc = "idle" /\ at = 1 /\ tries = 1 /\ plan = NoPlan
    /\ artifact = [s \in StageIds |-> 0]
    /\ output = [s \in StageIds |-> 0]
    /\ media = [f \in Media |-> 0]
    /\ cut = {} /\ uploads = {} /\ faults = 0

Start ==
    /\ pc \in {"idle", "complete", "failed"} /\ run < MaxRuns
    /\ env' \in Environments
    /\ run' = run + 1 /\ pc' = "run" /\ at' = 1 /\ tries' = 1
    /\ UNCHANGED <<plan, files, cut, uploads, faults>>

-----------------------------------------------------------------------------
(* How a stage ends                                                        *)

Fault == faults < MaxFaults /\ faults' = faults + 1

(* The runner has the stage's record and is to save it.                    *)
Returns ==
    /\ pc' = "save" /\ tries' = 1
    /\ UNCHANGED <<env, run, at, artifact, output>>

Ends == pc' = "failed" /\ plan' = NoPlan

(* Mutant: the run goes on with the next stage.                            *)
RaisesMutant ==
    /\ pc' = IF at = Last THEN "write" ELSE "run"
    /\ at' = IF at = Last THEN 1 ELSE at + 1
    /\ tries' = 1
    /\ UNCHANGED <<env, run, plan, artifact, output>>
(* The first failure ends the run.                                         *)
Raises ==
    /\ Ends /\ tries' = 1
    /\ UNCHANGED <<env, run, at, artifact, output>>

Executes(s) == pc = "run" /\ Stage = s

-----------------------------------------------------------------------------
(* Providers: a language model, the voice, the mixer and the encoder all   *)
(* repeat a call that failed in transport or timed out.                    *)

Directed == {"topic", "script", "fact_check", "visual", "metadata",
             "thumbnail"}
Provided == Directed \cup {"visual_architecture", "voice_generation",
                           "audio_mix", "video_render"}

(* Mutant: the last try is followed by another.                            *)
RetryMutant ==
    /\ pc = "run" /\ Stage \in Provided /\ tries <= MaxTries /\ Fault
    /\ tries' = tries + 1
    /\ UNCHANGED <<env, run, pc, at, plan, files, cut, uploads>>
Retry ==
    /\ pc = "run" /\ Stage \in Provided /\ tries < MaxTries /\ Fault
    /\ tries' = tries + 1
    /\ UNCHANGED <<env, run, pc, at, plan, files, cut, uploads>>

(* The last try failed, the status forbids another, or the answer is no    *)
(* JSON or breaks the contract: an answer that came is never asked again.  *)
ProviderFails ==
    /\ pc = "run" /\ Stage \in Provided \ {"visual_architecture"} /\ Fault
    /\ Raises
    /\ UNCHANGED <<media, cut, uploads>>

(* The record of a stage that only asks the model.                         *)
ModelAnswers ==
    /\ pc = "run" /\ Stage \in Directed \ {"thumbnail", "visual"}
    /\ Returns
    /\ UNCHANGED <<plan, media, cut, uploads, faults>>

VisualDirected ==
    /\ Executes("visual")
    /\ \E v \in VisualPlans : plan' = [plan EXCEPT !.visual = v]
    /\ Returns
    /\ UNCHANGED <<media, cut, uploads, faults>>

(* Every step of the visual architecture falls back on its own rules when  *)
(* the model fails, so it always has a plan ...                            *)
ArchitecturePlans ==
    /\ Executes("visual_architecture")
    /\ \E s \in ShotPlans : plan' = [plan EXCEPT !.shots = s]
    /\ IF env.strict THEN UNCHANGED faults
       ELSE faults' \in faults..Smaller(faults + 1, MaxFaults)
    /\ Returns
    /\ UNCHANGED <<media, cut, uploads>>

(* ... unless it is strict.                                                *)
ArchitectureRaises ==
    /\ Executes("visual_architecture") /\ env.strict /\ Fault
    /\ Raises
    /\ UNCHANGED <<media, cut, uploads>>

-----------------------------------------------------------------------------
(* The media                                                               *)

BuildWorkflows ==
    /\ Executes("workflow_builder")
    /\ Returns
    /\ UNCHANGED <<plan, media, cut, uploads, faults>>

(* The stage may fail behind some of the frames it renders.                *)
RenderImages ==
    /\ Executes("image_generation")
    /\ \/ /\ media' = [media EXCEPT ![Images] = run]
          /\ Returns /\ UNCHANGED <<plan, faults>>
       \/ /\ Fault
          /\ \/ UNCHANGED media
             \/ media' = [media EXCEPT ![Images] = Torn]
          /\ Raises
    /\ UNCHANGED <<cut, uploads>>

(* The narration is saved before it is looked at: audio of another format  *)
(* takes the place of the narration that was there.                        *)
Speak ==
    /\ Executes("voice_generation")
    /\ media' = [media EXCEPT ![Narration] = run]
    /\ \/ Returns /\ UNCHANGED <<plan, faults>>
       \/ Fault /\ Raises
    /\ UNCHANGED <<cut, uploads>>

(* So is the master; its length is what the timeline is made for.          *)
Mix ==
    /\ Executes("audio_mix")
    /\ media' = [media EXCEPT ![Master] = run]
    /\ \E n \in Narrations :
          IF n > 0
          THEN Returns /\ plan' = [plan EXCEPT !.narration = n]
          ELSE Raises
    /\ UNCHANGED <<cut, uploads, faults>>

DesignOverlays ==
    /\ Executes("motion_graphics")
    /\ IF CanOverlay(plan.visual) THEN Returns /\ UNCHANGED plan ELSE Raises
    /\ UNCHANGED <<media, cut, uploads, faults>>

(* The overlays were made from the visual director's plan, the clips from  *)
(* the visual architecture's: they need not fit.                           *)
Assemble ==
    /\ Executes("video_assembly")
    /\ IF CanAssemble(plan.shots, Overlays(plan.visual), plan.narration)
       THEN Returns /\ UNCHANGED plan
       ELSE Raises
    /\ UNCHANGED <<media, cut, uploads, faults>>

Assembled ==
    Timeline(plan.shots, Overlays(plan.visual), plan.narration)

(* The checks of the render stage on the file it has just written.         *)
(* Its inputs are there: nothing ever removes a file.                      *)
(* Mutant: the narration may be cut.                                       *)
VerifiedMutant(encoded) == encoded > 0 /\ WithinBudget(encoded)
Verified(encoded) ==
    /\ encoded > 0 /\ WithinBudget(encoded)
    /\ CoversNarration(encoded, plan.narration)

(* short.mp4 is written in place and checked afterwards.                   *)
Encode ==
    /\ Executes("video_render")
    /\ media' = [media EXCEPT ![Short] = run]
    /\ \E pad \in Pads :
          LET encoded == Encoded(Assembled, plan.shots, pad) IN
          /\ IF Verified(encoded) THEN Returns /\ UNCHANGED plan ELSE Raises
          /\ cut' = IF CoversNarration(encoded, plan.narration) THEN cut
                    ELSE cut \cup {run}
    /\ UNCHANGED <<uploads, faults>>

(* The render replaces the thumbnail in one step and is checked then.      *)
RenderThumbnail ==
    /\ Executes("thumbnail")
    /\ media' = [media EXCEPT ![Thumbnail] = run]
    /\ \/ Returns /\ UNCHANGED <<plan, faults>>
       \/ Fault /\ Raises
    /\ UNCHANGED <<cut, uploads>>

-----------------------------------------------------------------------------
(* Publishing                                                              *)

ToUpload == [run |-> run,
             here |-> env.render = env.publish /\ env.thumbnail = env.publish,
             video |-> media[<<"short", env.publish>>],
             thumbnail |-> media[<<"thumbnail", env.publish>>]]

AssetsThere == ToUpload.video # 0 /\ ToUpload.thumbnail # 0

PublishRefuses ==
    /\ Executes("publisher")
    /\ \/ ~AssetsThere /\ UNCHANGED faults
       \/ Fault  \* metadata without a schedule, an unknown category
    /\ Raises
    /\ UNCHANGED <<media, cut, uploads>>

DryRun ==
    /\ Executes("publisher") /\ AssetsThere /\ env.dry_run
    /\ Returns
    /\ UNCHANGED <<plan, media, cut, uploads, faults>>

(* The video may be up when the provider or the comparison of the          *)
(* visibilities raises.                                                    *)
Publish ==
    /\ Executes("publisher") /\ AssetsThere /\ ~env.dry_run
    /\ \/ /\ uploads' = uploads \cup {ToUpload}
          /\ Returns /\ UNCHANGED <<plan, faults>>
       \/ /\ uploads' = uploads \cup {ToUpload}
          /\ Fault /\ Raises
    /\ UNCHANGED <<media, cut>>

-----------------------------------------------------------------------------
(* The runner and the command                                              *)

(* Every output is saved before the next stage starts.                     *)
SaveArtifact ==
    /\ pc = "save"
    /\ artifact' = [artifact EXCEPT ![Stage] = run]
    /\ pc' = IF at = Last THEN "write" ELSE "run"
    /\ at' = IF at = Last THEN 1 ELSE at + 1
    /\ UNCHANGED <<env, run, tries, plan, output, media, cut, uploads,
                   faults>>

(* An artifact that cannot be saved ends the run like a failing stage, but *)
(* outside the handler: no report is left.                                 *)
SaveFails ==
    /\ pc = "save" /\ Fault
    /\ \/ UNCHANGED artifact
       \/ artifact' = [artifact EXCEPT ![Stage] = Torn]
    /\ Ends
    /\ UNCHANGED <<env, run, at, tries, output, media, cut, uploads>>

Written(s) == ~(s = "topic" /\ env.topic_output)

(* The outputs are written one by one, the topic elsewhere if told so.     *)
WriteOutput ==
    /\ pc = "write"
    /\ output' = IF Written(Stage) THEN [output EXCEPT ![Stage] = run]
                 ELSE output
    /\ IF at = Last
       THEN pc' = "complete" /\ plan' = NoPlan /\ UNCHANGED at
       ELSE at' = at + 1 /\ UNCHANGED <<pc, plan>>
    /\ UNCHANGED <<env, run, tries, artifact, media, cut, uploads,
                   faults>>

(* A write is cut short, by an error or with the process.                  *)
WriteFails ==
    /\ pc = "write" /\ Fault
    /\ output' = IF Written(Stage) THEN [output EXCEPT ![Stage] = Torn]
                 ELSE output
    /\ Ends
    /\ UNCHANGED <<env, run, at, tries, artifact, media, cut, uploads>>

Writes == [voice_generation |-> Narration, audio_mix |-> Master,
           video_render |-> Short]

(* The process dies, perhaps while a provider writes its file.             *)
Kill ==
    /\ pc \in {"run", "save", "write"} /\ Fault
    /\ \/ UNCHANGED media
       \/ /\ pc = "run" /\ Stage \in DOMAIN Writes
          /\ media' = [media EXCEPT ![Writes[Stage]] = Torn]
    /\ Ends
    /\ UNCHANGED <<env, run, at, tries, artifact, output, cut, uploads>>

Next ==
    \/ Start \/ Retry \/ ProviderFails
    \/ ModelAnswers \/ VisualDirected \/ ArchitecturePlans
    \/ ArchitectureRaises \/ BuildWorkflows \/ RenderImages \/ Speak \/ Mix
    \/ DesignOverlays \/ Assemble \/ Encode \/ RenderThumbnail
    \/ PublishRefuses \/ DryRun \/ Publish
    \/ SaveArtifact \/ SaveFails \/ WriteOutput \/ WriteFails \/ Kill

Spec == Init /\ [][Next]_vars

-----------------------------------------------------------------------------
(* Properties                                                              *)

Version == 0..MaxRuns \cup {Torn}

(* The types of the state; a provider is never asked more often than       *)
(* max_retries allows.                                                     *)
TypeOK ==
    /\ env \in Environment
    /\ run \in 0..MaxRuns
    /\ pc \in {"idle", "run", "save", "write", "complete", "failed"}
    /\ at \in 1..Last /\ tries \in 1..MaxTries
    /\ plan \in [shots : Seq(Nat), visual : Seq([start : Int, duration : Int]),
                 narration : Nat]
    /\ artifact \in [StageIds -> Version]
    /\ output \in [StageIds -> Version]
    /\ media \in [Media -> Version]
    /\ cut \subseteq 1..MaxRuns
    /\ uploads \subseteq [run : 1..MaxRuns, here : BOOLEAN,
                          video : Version, thumbnail : Version]
    /\ faults \in 0..MaxFaults

(* What a run uploads was there; it is the run's own video and thumbnail,  *)
(* and a video that does not cut its narration, unless the stages were     *)
(* told to write to and publish from different directories.  A run uploads *)
(* at most once, and exactly once if it completes without --dry-run.       *)
UploadIsOfItsRun ==
    /\ \A u \in uploads :
          /\ u.video # 0 /\ u.thumbnail # 0
          /\ u.here => /\ u.video = u.run /\ u.thumbnail = u.run
                       /\ u.run \notin cut
    /\ \A u, v \in uploads : u.run = v.run => u = v
    /\ pc = "complete" => (~env.dry_run <=> \E u \in uploads : u.run = run)

NoOlder(a, b) == a = Torn \/ b = Torn \/ a >= b

MediaOf == [image_generation |-> Images, voice_generation |-> Narration,
            audio_mix |-> Master]

(* However often a directory is run over, and wherever those runs ended,   *)
(* an artifact is never newer than one it was made from, a media file      *)
(* never older than the artifact that describes it, an output never newer  *)
(* than one written before it (the topic may be written elsewhere); after  *)
(* a complete run everything is of that run.                               *)
FilesAgree ==
    /\ \A s \in StageIds : \A d \in DependsOn[s] :
          NoOlder(artifact[d], artifact[s])
    /\ \A s \in DOMAIN MediaOf : NoOlder(media[MediaOf[s]], artifact[s])
    /\ \A i, j \in 2..Last :
          i < j => NoOlder(output[Stages[i]], output[Stages[j]])
    /\ pc = "complete" =>
          /\ \A s \in StageIds : artifact[s] = run
          /\ \A s \in StageIds : Written(s) => output[s] = run
          /\ \A f \in {Images, Narration, Master, Short, Thumbnail} :
                media[f] = run

HasTimeline ==
    /\ pc \in {"run", "save"}
    /\ \/ at = 11 /\ pc = "save"
       \/ at > 11

(* Every timeline the assembly stage approves cuts the video into clips of *)
(* at least a frame, holds every overlay inside its clip, and lasts as     *)
(* long as its target up to the frames given to vanishing shots; unless    *)
(* the narration is beyond the budget, what a faithful encoder makes of it *)
(* does not cut the narration.                                             *)
TimelineHolds ==
    HasTimeline =>
        LET t == Assembled
            n == Len(plan.shots)
            target == FrameAt(Target(plan.narration), 1)
        IN  /\ t.cuts[0] = 0
            /\ \A i \in 1..n : t.cuts[i - 1] < t.cuts[i]
            /\ \A i \in DOMAIN t.overlays : LET o == t.overlays[i] IN
                  /\ t.cuts[o.owner - 1] <= o.first
                  /\ o.first < o.end
                  /\ o.end <= t.cuts[o.owner]
            /\ Frames(t, plan.shots) \in target..(target + n - 1)
            /\ plan.narration <= Budget =>
                  CoversNarration(Encoded(t, plan.shots, 0), plan.narration)
=============================================================================
