------------------------- MODULE ProductionPipeline -------------------------
(***************************************************************************)
(* One run directory of the production pipeline (runtime/pipeline.py) and  *)
(* the runs an operator starts on it, one after another: fresh runs and    *)
(* resumed ones, with their own row and seed, interrupted by failing       *)
(* stages, failing disk writes and killed processes.                       *)
(*                                                                         *)
(* Data is modelled by its PROVENANCE: the content of an output or of a    *)
(* file is the set of tokens (knowledge row, seed, ...) it was made from.  *)
(* Every stage is deterministic, so two contents of one kind are equal     *)
(* exactly when their provenances are.  The empty set is a file that does  *)
(* not exist, and Torn marks one whose write was cut short.                *)
(***************************************************************************)
EXTENDS Integers, FiniteSets

CONSTANTS
    Rows,        \* knowledge rows (each with its own topic)
    Seeds,       \* render seeds
    Durations,   \* video lengths after clamping to the Shorts budget
    TargetDuration, \* [Rows -> Durations]: clamped narration length of a row
    Publishable, \* rows whose category maps to a YouTube category id
    Torn,        \* provenance of a half-written file
    MaxScenes,   \* scenes of the longest storyboard
    SceneCount,  \* [Rows -> 1..MaxScenes]: scenes of a row's storyboard
    ThumbScene,  \* its thumbnail scene
    Refused,     \* <<row, stage>>: execute() raises for this row in every run
    Rejected,    \* <<row, seed, scene>>: so does the render loop for the scene
    Requests,    \* what the operator may start: a set of Request records
    MaxRuns,     \* bound: runs started on the directory
    MaxFaults,   \* bound: passing failures of stages and writes, and kills
    MaxLosses,   \* bound: files removed or damaged between two runs
    LossKinds    \* which of those losses happen

Scenes == 1..MaxScenes
Token == Rows \cup Seeds \cup Durations \cup Scenes
           \cup {Torn} \cup (0..MaxRuns)
Content == SUBSET Token
Request == [row : Rows, seed : Seeds, publish : BOOLEAN, resume : BOOLEAN]

(* The scenes scene_prioritizer keeps of a row: S1, S2, ... without a gap. *)
SceneIds(row) == 1..SceneCount[row]

ASSUME ConstantsAssumption ==
    /\ MaxScenes \in Nat \ {0}
    /\ SceneCount \in [Rows -> Scenes]
    /\ ThumbScene \in [Rows -> Scenes]
    /\ \A r \in Rows : ThumbScene[r] <= SceneCount[r]
    /\ TargetDuration \in [Rows -> Durations]
    /\ Publishable \subseteq Rows
    /\ Rows \cap Seeds = {} /\ Durations \cap Scenes = {}
    /\ Requests \subseteq Request
    /\ MaxRuns \in Nat \ {0} /\ MaxFaults \in Nat /\ MaxLosses \in Nat

-----------------------------------------------------------------------------
(* STAGE_ORDER: a stage is its position in the canonical order.            *)
knowledge_load       == 1
educational_director == 2
ai_director          == 3
visual_intelligence  == 4
model_director       == 5
prompt_compiler      == 6
workflow_builder     == 7
render_loop          == 8
voice                == 9
subtitles            == 10
video_assembly       == 11
video_render         == 12
thumbnail            == 13
metadata             == 14
publisher            == 15

Stages == knowledge_load..publisher

(* Stages that write one side file beside their JSON output; render_loop   *)
(* writes an image and workflow_builder a workflow per scene, the others   *)
(* nothing.                                                                *)
FileStages == {voice, subtitles, video_render,
               thumbnail, metadata, publisher}

VARIABLES
    (* The run directory *)
    checkpoints,  \* checkpoints/<stage>.json
    artifacts,    \* artifacts/<stage>/output.<version>.json, all versions
    damaged,      \* those of them whose bytes no longer match their version
    history,      \* history/<topic>/<scene>/: the winning attempt's image
    images,       \* images/<scene>.png: the approved image
    workflows,    \* workflow/<scene>.json
    files,        \* the side file of each stage in FileStages
    manifest,     \* manifest.json of the last run that wrote one
    (* The running process *)
    request,      \* the directives of the current (or last) run
    status,       \* "idle", "running", "complete", "failed" or "killed"
    stage,        \* the stage the runner is at
    step,         \* where it is within the stage
    rendered,     \* scenes approved by this execution of render_loop
    result,       \* the output execute() returned
    outputs,      \* ctx.outputs
    (* The world outside *)
    uploads,      \* videos accepted by YouTube
    runs, faults, losses  \* how much of each bound is used

disk == <<checkpoints, artifacts, damaged, history, images, workflows, files,
          manifest>>
process == <<request, status, stage, step, rendered, result, outputs>>
bounds == <<runs, faults, losses>>
vars == <<checkpoints, artifacts, damaged, history, images, workflows, files,
          manifest, request, status, stage, step, rendered, result, outputs,
          uploads, runs, faults, losses>>

-----------------------------------------------------------------------------
(* What a stage sees and what it makes                                     *)

(* The upstream outputs whose content inputs() puts in the fingerprint.    *)
(* video_assembly, video_render and publisher list their files by path     *)
(* only, and a path is the same in every run of the directory.             *)
FingerprintReads == [s \in Stages |->
    CASE s = educational_director -> {knowledge_load}
      [] s = ai_director          -> {educational_director}
      [] s = visual_intelligence  -> {educational_director, ai_director}
      [] s = model_director       -> {ai_director, visual_intelligence}
      [] s = prompt_compiler      -> {visual_intelligence}
      [] s = workflow_builder     -> {prompt_compiler, visual_intelligence,
                                      model_director}
      [] s = voice                -> {educational_director}
      [] s = subtitles            -> {voice}
      [] s = video_render         -> {video_assembly}
      [] s = thumbnail            -> {render_loop}
      [] s = metadata             -> {knowledge_load, educational_director}
      [] s = publisher            -> {metadata}
      [] OTHER                    -> {}]

(* The scenes of the storyboard of this run.                               *)
Storyboard ==
    {k \in Scenes : \E r \in outputs[visual_intelligence] \cap Rows :
                        k \in SceneIds(r)}

(* The clamped length of the narration, the one thing video_assembly takes *)
(* from it beside its path.                                                *)
Duration == {TargetDuration[r] : r \in outputs[voice] \cap Rows}

(* The rest of inputs(): directives the stage takes from the context, and  *)
(* of the images video_assembly lists the names only.                      *)
Directives(s) ==
    CASE s = knowledge_load -> {request.row}
      [] s = render_loop    -> {request.row, request.seed}
      [] s = video_assembly -> Duration \cup Storyboard
      [] s = publisher      -> IF request.publish THEN {1} ELSE {0}
      [] OTHER              -> {}

(* Mutant: something of the run itself gets into the fingerprint.          *)
FingerprintMutant(s) ==
    [read |-> [d \in Stages |->
                  IF d \in FingerprintReads[s] THEN outputs[d] ELSE {}],
     own  |-> Directives(s) \cup {runs}]

Fingerprint(s) ==
    [read |-> [d \in Stages |->
                  IF d \in FingerprintReads[s] THEN outputs[d] ELSE {}],
     own  |-> Directives(s)]

(* inputs() itself refuses to list an image that is not on the disk.       *)
InputsAvailable(s) ==
    s = video_assembly => \A k \in Storyboard : images[k] # {}

(* What the renderer makes of the storyboard, the plan and the seed.       *)
SceneImage == outputs[educational_director] \cup outputs[visual_intelligence]
                \cup outputs[model_director] \cup {request.seed}

(* What ffmpeg makes of the files the assembly names.                      *)
Segments == outputs[video_assembly] \cap Scenes
EncodedVideo == (UNION {images[k] : k \in Segments}) \cup files[voice]

(* The image the winning attempt of the thumbnail scene left in history.   *)
WinnerImage ==
    UNION {history[r][ThumbScene[r]] : r \in outputs[render_loop] \cap Rows}

(* execute(): the JSON output of each stage.  The publisher's names the    *)
(* video id, new in every run; subtitles' and thumbnail's name paths and   *)
(* counts that follow their input.                                         *)
Output(s) ==
    CASE s = knowledge_load -> {request.row}
      [] s = model_director -> outputs[ai_director]
      [] s = render_loop    -> SceneImage
      [] s = video_assembly -> Duration \cup Storyboard
      [] s = video_render   -> EncodedVideo
      [] s = publisher      -> {runs}
      [] OTHER -> UNION {outputs[d] : d \in FingerprintReads[s]}

(* execute(): the bytes of the side file.                                  *)
SideFile(s) == IF s = thumbnail THEN WinnerImage ELSE Output(s)

(* A row a stage refuses (one that knowledge_load finds invalid, say), a   *)
(* missing input file or an unmapped category makes execute() raise, and   *)
(* does so again whenever the run is repeated as it is.                    *)
CanExecute(s) ==
    /\ <<request.row, s>> \notin Refused
    /\ s = video_render => /\ files[voice] # {}
                           /\ \A k \in Segments : images[k] # {}
    /\ s = thumbnail => WinnerImage # {}
    /\ s = publisher /\ request.publish =>
          /\ outputs[metadata] \subseteq Publishable
          /\ files[video_render] # {} /\ files[thumbnail] # {}

-----------------------------------------------------------------------------
(* ArtifactStore, CheckpointStore and ResumePlanner                        *)

NoFingerprint == [read |-> [d \in Stages |-> {}], own |-> {}]
NoCheckpoint == [status |-> "absent", fingerprint |-> NoFingerprint,
                 output |-> {}]

Has(s, content) == content \in artifacts[s] /\ content \notin damaged[s]

(* _match_reason: why a checkpoint lets its stage be skipped.              *)
Matches(s) ==
    LET c == checkpoints[s] IN
    /\ c.status = "completed"
    /\ c.fingerprint = Fingerprint(s)
    /\ Has(s, c.output)

(* Mutant: a run that was not asked to resume skips too.                   *)
SkipsMutant(s) == Matches(s)

Skips(s) == request.resume /\ Matches(s)

-----------------------------------------------------------------------------
NoRequest == [row |-> {}, seed |-> {}, publish |-> FALSE, resume |-> FALSE]

(* manifest.json: the outcome, of which directives, and the scenes whose   *)
(* images and workflows final_artifacts lists.                             *)
Manifest(outcome, q, pictures, graphs) ==
    [status |-> outcome, request |-> q, images |-> pictures,
     workflows |-> graphs]

Init ==
    /\ checkpoints = [s \in Stages |-> NoCheckpoint]
    /\ artifacts = [s \in Stages |-> {}]
    /\ damaged = [s \in Stages |-> {}]
    /\ history = [r \in Rows |-> [k \in Scenes |-> {}]]
    /\ images = [k \in Scenes |-> {}]
    /\ workflows = [k \in Scenes |-> {}]
    /\ files = [s \in FileStages |-> {}]
    /\ manifest = Manifest("absent", NoRequest, {}, {})
    /\ request = NoRequest
    /\ status = "idle"
    /\ stage = knowledge_load
    /\ step = "plan"
    /\ rendered = 0
    /\ result = {}
    /\ outputs = [s \in Stages |-> {}]
    /\ uploads = {}
    /\ runs = 0 /\ faults = 0 /\ losses = 0

(* ProductionPipeline.run() begins on the directory; nothing is removed.   *)
Start(q) ==
    /\ status # "running"
    /\ runs < MaxRuns
    /\ request' = q
    /\ status' = "running"
    /\ stage' = knowledge_load
    /\ step' = "plan"
    /\ rendered' = 0
    /\ result' = {}
    /\ outputs' = [s \in Stages |-> {}]
    /\ runs' = runs + 1
    /\ UNCHANGED <<disk, uploads, faults, losses>>

(* Mutant: the loop goes one stage too far.                                *)
RecordMutant(content) ==
    /\ outputs' = [outputs EXCEPT ![stage] = content]
    /\ step' = "plan" /\ stage' = stage + 1

(* ctx.record_stage() and the next turn of the loop over the stages.       *)
Record(content) ==
    /\ outputs' = [outputs EXCEPT ![stage] = content]
    /\ IF stage = publisher
       THEN step' = "report" /\ stage' = stage
       ELSE step' = "plan" /\ stage' = stage + 1

(* Mutant: the loop goes on after a failed stage.                          *)
AbortMutant == /\ step' = "plan"
               /\ stage' = IF stage = publisher THEN stage ELSE stage + 1

(* The except branch of the loop: the remaining stages are not visited.    *)
Abort == step' = "abort" /\ stage' = stage

(* The planner skips: the output is restored, no file is touched.          *)
Skip ==
    /\ status = "running" /\ step = "plan"
    /\ InputsAvailable(stage)
    /\ Skips(stage)
    /\ Record(checkpoints[stage].output)
    /\ UNCHANGED <<disk, request, status, rendered, result, uploads, bounds>>

(* inputs() raises before anything is planned: the run fails, but neither  *)
(* a "failed" checkpoint nor a STAGE_FAILED event is written.              *)
InputsFail ==
    /\ status = "running" /\ step = "plan"
    /\ ~InputsAvailable(stage)
    /\ Abort
    /\ UNCHANGED <<disk, request, status, rendered, result, outputs,
                   uploads, bounds>>

(* The planner does not skip: execute() begins.                            *)
Begin ==
    /\ status = "running" /\ step = "plan"
    /\ InputsAvailable(stage)
    /\ ~Skips(stage)
    /\ step' = "execute"
    /\ rendered' = 0
    /\ UNCHANGED <<disk, request, status, stage, result, outputs,
                   uploads, bounds>>

Executing == status = "running" /\ step = "execute"

(* The scene render_loop's execute() is at, while one is left.             *)
NextScene == rendered + 1
Rendering == Executing /\ stage = render_loop /\ NextScene \in Storyboard
Passes == <<request.row, request.seed, NextScene>> \notin Rejected

(* Mutant: an image that is already there is kept.                         *)
RenderSceneMutant ==
    /\ Rendering /\ Passes
    /\ rendered' = NextScene
    /\ history' = [history EXCEPT ![request.row][NextScene] = SceneImage]
    /\ images' = IF images[NextScene] # {} THEN images
                 ELSE [images EXCEPT ![NextScene] = SceneImage]
    /\ UNCHANGED <<checkpoints, artifacts, damaged, workflows, files, manifest,
                   request, status, stage, step, result, outputs, uploads,
                   bounds>>

(* One turn of render_loop's execute(): the scene's loop saves its winning *)
(* attempt in the history, and _save_approved copies it to images/.        *)
RenderScene ==
    /\ Rendering /\ Passes
    /\ rendered' = NextScene
    /\ history' = [history EXCEPT ![request.row][NextScene] = SceneImage]
    /\ images' = [images EXCEPT ![NextScene] = SceneImage]
    /\ UNCHANGED <<checkpoints, artifacts, damaged, workflows, files, manifest,
                   request, status, stage, step, result, outputs, uploads,
                   bounds>>

(* The video, its thumbnail and metadata as YouTube accepted them.         *)
Upload == [run |-> runs, request |-> request, video |-> files[video_render],
           thumbnail |-> files[thumbnail], metadata |-> outputs[metadata]]

Uploaded == IF stage = publisher /\ request.publish
            THEN uploads \cup {Upload} ELSE uploads

(* execute() returns: the side file is written, the publisher uploads.     *)
Execute ==
    /\ Executing /\ ~Rendering
    /\ CanExecute(stage)
    /\ result' = Output(stage)
    /\ workflows' = IF stage = workflow_builder
                    THEN [k \in Scenes |-> IF k \in Storyboard
                                           THEN Output(stage)
                                           ELSE workflows[k]]
                    ELSE workflows
    /\ files' = IF stage \in FileStages
                THEN [files EXCEPT ![stage] = SideFile(stage)] ELSE files
    /\ uploads' = Uploaded
    /\ step' = "executed"
    /\ UNCHANGED <<checkpoints, artifacts, damaged, history, images, manifest,
                   request, status, stage, rendered, outputs, bounds>>

(* _record_failure: a "failed" checkpoint replaces whatever was there.     *)
FailedCheckpoint ==
    checkpoints' = [checkpoints EXCEPT ![stage] =
        [status |-> "failed", fingerprint |-> Fingerprint(stage),
         output |-> {}]]

(* execute() raises on its own: the row is not one it takes, or something  *)
(* it needs is not there.                                                  *)
ExecuteRaises ==
    /\ Executing
    /\ ~CanExecute(stage)
    /\ FailedCheckpoint
    /\ Abort
    /\ UNCHANGED <<artifacts, damaged, history, images, workflows, files,
                   manifest, request, status, rendered, result, outputs,
                   uploads, bounds>>

(* The scene's loop ends without an approved image, or in the TypeError of *)
(* a directed loop whose image is rejected: render_loop raises, in every   *)
(* run of this row and seed.  Its attempts lie in the directories those of *)
(* earlier runs had, so the earlier winner may be overwritten.             *)
RenderRejected ==
    /\ Rendering /\ ~Passes
    /\ history' \in {history, [history EXCEPT ![request.row][NextScene]
                                                 = SceneImage]}
    /\ FailedCheckpoint
    /\ Abort
    /\ UNCHANGED <<artifacts, damaged, images, workflows, files, manifest,
                   request, status, rendered, result, outputs, uploads,
                   bounds>>

(* What an execute() that does not return may already have done: write its *)
(* side file or scene images whole or in part, upload the video.           *)
PartlyExecuted ==
    /\ \/ UNCHANGED <<history, images, workflows, files>>
       \/ /\ stage \in FileStages /\ CanExecute(stage)
          /\ \E content \in {SideFile(stage), {Torn}} :
                files' = [files EXCEPT ![stage] = content]
          /\ UNCHANGED <<history, images, workflows>>
       \/ /\ stage = workflow_builder /\ CanExecute(stage)
          /\ \E last \in Storyboard :
             \E content \in {Output(stage), {Torn}} :
                workflows' = [k \in Scenes |->
                    IF k < last THEN Output(stage)
                    ELSE IF k = last THEN content ELSE workflows[k]]
          /\ UNCHANGED <<history, images, files>>
       \/ /\ Rendering
          /\ \E content \in {SceneImage, {Torn}} :
                history' = [history EXCEPT ![request.row][NextScene]
                                             = content]
          /\ images' \in {images, [images EXCEPT ![NextScene] = {Torn}]}
          /\ UNCHANGED <<workflows, files>>
    /\ \/ UNCHANGED uploads
       \/ CanExecute(stage) /\ uploads' = Uploaded

(* execute() raises because a provider or a write fails.  Saving the       *)
(* "failed" checkpoint may fail too; that error is swallowed.              *)
ExecuteFails ==
    /\ Executing
    /\ faults < MaxFaults
    /\ faults' = faults + 1
    /\ PartlyExecuted
    /\ FailedCheckpoint \/ UNCHANGED checkpoints
    /\ Abort
    /\ UNCHANGED <<artifacts, damaged, manifest, request, status, rendered,
                   result, outputs, runs, losses>>

(* ArtifactStore.save_json: the file is named by its content, and one that *)
(* exists is never written again.                                          *)
SaveArtifact ==
    /\ status = "running" /\ step = "executed"
    /\ artifacts' = [artifacts EXCEPT ![stage] = @ \cup {result}]
    /\ step' = "stored"
    /\ UNCHANGED <<checkpoints, damaged, history, images, workflows, files,
                   manifest, request, status, stage, rendered, result,
                   outputs, uploads, bounds>>

(* CheckpointStore.save (atomic), then the stage is recorded.              *)
SaveCheckpoint ==
    /\ status = "running" /\ step = "stored"
    /\ checkpoints' = [checkpoints EXCEPT ![stage] =
          [status |-> "completed", fingerprint |-> Fingerprint(stage),
           output |-> result]]
    /\ Record(result)
    /\ UNCHANGED <<artifacts, damaged, history, images, workflows, files,
                   manifest, request, status, rendered, result, uploads,
                   bounds>>

(* Either save raises OSError: outside the runner's try block, so the      *)
(* checkpoint stays what it was.                                           *)
SaveFails ==
    /\ status = "running" /\ step \in {"executed", "stored"}
    /\ faults < MaxFaults
    /\ faults' = faults + 1
    /\ Abort
    /\ UNCHANGED <<disk, request, status, rendered, result, outputs,
                   uploads, runs, losses>>

(* _final_artifacts: whatever images/S*.png and workflow/S*.json there are *)
(* once the stage that makes them is recorded, also those of other runs.   *)
ListedImages ==
    {k \in Scenes : images[k] # {} /\ outputs[render_loop] # {}}
ListedWorkflows ==
    {k \in Scenes : workflows[k] # {} /\ outputs[workflow_builder] # {}}

(* Mutant: a run reports "complete" although a stage failed.               *)
ReportMutant ==
    /\ status = "running" /\ step \in {"report", "abort"}
    /\ status' = "complete"
    /\ manifest' = Manifest(status', request, ListedImages, ListedWorkflows)
    /\ UNCHANGED <<checkpoints, artifacts, damaged, history, images,
                   workflows, files, request, stage, step, rendered, result, outputs, uploads,
                   bounds>>

(* Mutant: an aborted run never gets to its report.                        *)
ReportHangs ==
    /\ status = "running" /\ step = "report"
    /\ status' = "complete"
    /\ manifest' = Manifest(status', request, ListedImages, ListedWorkflows)
    /\ UNCHANGED <<checkpoints, artifacts, damaged, history, images,
                   workflows, files, request, stage, step, rendered, result, outputs, uploads,
                   bounds>>

(* The end of run(): the manifest is written over the previous run's.      *)
Report ==
    /\ status = "running" /\ step \in {"report", "abort"}
    /\ status' = IF step = "report" THEN "complete" ELSE "failed"
    /\ manifest' = Manifest(status', request, ListedImages, ListedWorkflows)
    /\ UNCHANGED <<checkpoints, artifacts, damaged, history, images,
                   workflows, files, request, stage, step, rendered, result, outputs, uploads,
                   bounds>>

(* The process is killed, or one of the final writes raises out of run():  *)
(* what it held in memory is gone, what it was writing is written in part. *)
Kill ==
    /\ status = "running"
    /\ faults < MaxFaults
    /\ faults' = faults + 1
    /\ status' = "killed"
    /\ IF step = "execute" THEN PartlyExecuted
       ELSE UNCHANGED <<history, images, workflows, files, uploads>>
    /\ \/ UNCHANGED manifest
       \/ /\ step \in {"report", "abort"}
          /\ manifest' = Manifest("torn", NoRequest, {}, {})
    /\ outputs' = [s \in Stages |-> {}]
    /\ result' = {}
    /\ UNCHANGED <<checkpoints, artifacts, damaged, request, stage, step,
                   rendered, runs, losses>>

(* Between two runs something else removes or damages a file of the run    *)
(* directory.  A checkpoint that does not parse loads as an absent one.    *)
Lose ==
    /\ status # "running"
    /\ losses < MaxLosses
    /\ losses' = losses + 1
    /\ \/ /\ "file" \in LossKinds
          /\ \/ /\ \E s \in FileStages : files' = [files EXCEPT ![s] = {}]
                /\ UNCHANGED workflows
             \/ /\ \E k \in Scenes :
                      workflows' = [workflows EXCEPT ![k] = {}]
                /\ UNCHANGED files
          /\ UNCHANGED <<checkpoints, artifacts, damaged, images>>
       \/ /\ "image" \in LossKinds
          /\ \E k \in Scenes : images' = [images EXCEPT ![k] = {}]
          /\ UNCHANGED <<checkpoints, artifacts, damaged, workflows, files>>
       \/ /\ "artifact" \in LossKinds
          /\ \E s \in Stages : \E content \in artifacts[s] :
                /\ artifacts' = [artifacts EXCEPT ![s] = @ \ {content}]
                /\ damaged' = [damaged EXCEPT ![s] = @ \ {content}]
          /\ UNCHANGED <<checkpoints, images, workflows, files>>
       \/ /\ "damage" \in LossKinds
          /\ \E s \in Stages : \E content \in artifacts[s] :
                damaged' = [damaged EXCEPT ![s] = @ \cup {content}]
          /\ UNCHANGED <<checkpoints, artifacts, images, workflows, files>>
       \/ /\ "checkpoint" \in LossKinds
          /\ \E s \in Stages :
                checkpoints' = [checkpoints EXCEPT ![s] = NoCheckpoint]
          /\ UNCHANGED <<artifacts, damaged, images, workflows, files>>
    /\ UNCHANGED <<history, manifest, process, uploads, runs, faults>>

-----------------------------------------------------------------------------
(* The process: one step of a run that nothing has gone wrong with.        *)
Advance ==
    \/ Skip \/ InputsFail \/ Begin \/ RenderScene \/ RenderRejected
    \/ Execute \/ ExecuteRaises
    \/ SaveArtifact \/ SaveCheckpoint \/ Report

Next ==
    \/ \E q \in Requests : Start(q)
    \/ Advance
    \/ ExecuteFails \/ SaveFails \/ Kill
    \/ Lose

Spec == Init /\ [][Next]_vars

(* Every wait of a stage is bounded by a provider timeout, so a run that   *)
(* is not killed goes on; the operator starts a run again until they run   *)
(* out of runs.                                                            *)
FairSpec ==
    /\ Spec
    /\ WF_vars(Advance)
    /\ WF_vars(\E q \in Requests : Start(q))

-----------------------------------------------------------------------------
(* Properties                                                              *)

Statuses == {"idle", "running", "complete", "failed", "killed"}
Steps == {"plan", "execute", "executed", "stored", "report", "abort"}

Checkpoint == [status : {"absent", "failed", "completed"},
               fingerprint : [read : [Stages -> Content], own : Content],
               output : Content]

UploadRecord == [run : 0..MaxRuns, request : Request, video : Content,
                 thumbnail : Content, metadata : Content]

(* Every variable keeps the shape the code gives it: outputs and files are *)
(* contents, the runner is at one of the stages and steps.                 *)
TypeOK ==
    /\ checkpoints \in [Stages -> Checkpoint]
    /\ artifacts \in [Stages -> SUBSET Content]
    /\ damaged \in [Stages -> SUBSET Content]
    /\ history \in [Rows -> [Scenes -> Content]]
    /\ images \in [Scenes -> Content]
    /\ workflows \in [Scenes -> Content]
    /\ files \in [FileStages -> Content]
    /\ manifest \in [status : {"absent", "torn", "complete", "failed"},
                    request : Request \cup {NoRequest},
                    images : SUBSET Scenes, workflows : SUBSET Scenes]
    /\ request \in Request \cup {NoRequest}
    /\ status # "idle" => request \in Request
    /\ status \in Statuses
    /\ stage \in Stages
    /\ step \in Steps
    /\ rendered \in 0..MaxScenes
    /\ result \in Content
    /\ outputs \in [Stages -> Content]
    /\ uploads \subseteq UploadRecord
    /\ runs \in 0..MaxRuns /\ faults \in 0..MaxFaults
    /\ losses \in 0..MaxLosses

(* What a run with directives q makes in an empty directory.               *)
ImageOf(q) == {q.row, q.seed}

FileOf(q) == [s \in FileStages |->
    IF s \in {video_render, thumbnail} THEN ImageOf(q) ELSE {q.row}]

(* The files a Short is delivered with are those of a run of q in an empty *)
(* directory.  (The publish manifest names the run, so it is no part.)     *)
Delivers(q) ==
    /\ \A k \in SceneIds(q.row) : /\ images[k] = ImageOf(q)
                                  /\ workflows[k] = {q.row}
    /\ \A s \in FileStages \ {publisher} : files[s] = FileOf(q)[s]

(* Every stage is recorded and the run is about to be reported complete.   *)
Completing == status = "running" /\ step = "report"

(* A run that ends "complete" leaves exactly the deliverable of its own    *)
(* directives, whatever earlier runs left in the directory: the promise of *)
(* stage_fingerprint and of the checkpoints.                               *)
CompleteRunIsExact == Completing => Delivers(request)

(* No stage refuses the row, no scene of it is rejected with this seed,    *)
(* and its category is known where it is to be published.                  *)
CanBeMade(q) ==
    /\ \A s \in Stages : <<q.row, s>> \notin Refused
    /\ \A k \in SceneIds(q.row) : <<q.row, q.seed, k>> \notin Rejected
    /\ q.publish => q.row \in Publishable

(* A scene the manifest lists beyond those of the run is left over from a  *)
(* longer row, whose own render loop went that far.                        *)
LeftOver(k) == \E r \in Rows : k \in SceneIds(r) /\ history[r][k] # {}
LeftWorkflow(k) ==
    \E r \in Rows : k \in SceneIds(r) /\ workflows[k] \in {{r}, {Torn}}

(* A run that was not resumed delivers exactly its own Short whatever is   *)
(* in the directory, lists all of it, and reports complete only what can   *)
(* be made; the one thing earlier runs leave in its manifest are scenes    *)
(* its row does not have, and these are of a row that has them.            *)
FreshRunIsExact == Completing /\ ~request.resume =>
    /\ Delivers(request) /\ CanBeMade(request)
    /\ SceneIds(request.row) \subseteq ListedImages \cap ListedWorkflows
    /\ \A k \in ListedImages \ SceneIds(request.row) : LeftOver(k)
    /\ \A k \in ListedWorkflows \ SceneIds(request.row) : LeftWorkflow(k)

(* The manifest may be trusted: as long as it says "complete" the          *)
(* deliverable of its directives is in the directory and listed, also      *)
(* while later runs are under way or have been cut short.  (A run that     *)
(* makes again what something else removed does so under the old manifest.)*)
ManifestIsHonest == manifest.status = "complete" /\ losses = 0 =>
    /\ Delivers(manifest.request)
    /\ SceneIds(manifest.request.row)
          \subseteq manifest.images \cap manifest.workflows

(* What a run uploads is the Short of its own directives, with the         *)
(* metadata of the row it shows.                                           *)
UploadsAreExact == \A u \in uploads :
    /\ u.video = ImageOf(u.request) /\ u.thumbnail = ImageOf(u.request)
    /\ u.metadata = {u.request.row}

(* Publication is at least once, and more often only at the price of a     *)
(* fault or of a lost record: a run that finds the publication recorded    *)
(* never uploads again.                                                    *)
UploadsNeedFaults == Cardinality(uploads) <= faults + losses + 1

(* A completed checkpoint is never ahead of its artifact: unless something *)
(* else removed it, a kill between the two saves cannot leave a record of  *)
(* a file that was never written.                                          *)
CheckpointsAreBacked == losses = 0 => \A s \in Stages :
    checkpoints[s].status = "completed" =>
        checkpoints[s].output \in artifacts[s]

(* When a run ends "complete", the artifact each checkpoint records is on  *)
(* the disk with the recorded checksum.                                    *)
RecordedArtifactsIntact == Completing =>
    \A s \in Stages : checkpoints[s].output \in artifacts[s] \ damaged[s]

(* Resuming repeats nothing: a stage of a Short that can be made is not    *)
(* executed again once a run completed it, as long as the artifact of its  *)
(* checkpoint is there, also when an earlier stage had to be or a run of a *)
(* refused row came between.                                               *)
ResumeRepeatsNothing ==
    [][step = "plan" /\ step' = "execute" /\ CanBeMade(request)
         => \/ checkpoints[stage].status # "completed"
            \/ checkpoints[stage].output \notin artifacts[stage]]_vars

(* A run fails only when something went wrong in it or before it, or when  *)
(* the Short cannot be made.                                               *)
FailsOnlyByFault ==
    status = "failed" => faults > 0 \/ ~CanBeMade(request)

(* The outcome a run reports is true: "complete" with exactly the          *)
(* deliverable of its directives and never of a Short that cannot be made, *)
(* "failed" only after a fault or because it cannot.                       *)
OutcomeIsTrue ==
    /\ CompleteRunIsExact /\ FailsOnlyByFault
    /\ Completing => CanBeMade(request)

(* What a run leaves on record is true: the manifest names what is in the  *)
(* directory, a checkpoint has its artifact, and a complete run every      *)
(* artifact intact.                                                        *)
RecordsAreTrue ==
    ManifestIsHonest /\ CheckpointsAreBacked /\ RecordedArtifactsIntact

(* Every upload is the run's own Short, and a repeated one the price of a  *)
(* fault or a loss.                                                        *)
UploadsAreSound == UploadsAreExact /\ UploadsNeedFaults

(* However the runs are cut short, an operator who keeps resuming a Short  *)
(* that can be made gets it: no left-over file or checkpoint stands in the *)
(* way.  One that cannot be made fails in every run.                       *)
EventuallyComplete ==
    [](status # "idle" => CanBeMade(request))
        => <>(manifest.status = "complete")
=============================================================================
