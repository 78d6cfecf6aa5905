---------------------- MODULE ProductionPipelineProofs ----------------------
(***************************************************************************)
(* Theorems about ProductionPipeline for every set of rows, seeds, scenes  *)
(* and requests and for every bound on runs, faults and losses.            *)
(***************************************************************************)
EXTENDS ProductionPipeline, FiniteSetTheorems, TLAPS

(* The stages are numbers everywhere below, so that "earlier in            *)
(* STAGE_ORDER" is arithmetic.                                             *)
USE DEF Stages, knowledge_load, educational_director, ai_director,
        visual_intelligence, model_director, prompt_compiler,
        workflow_builder, render_loop, voice, subtitles, video_assembly,
        video_render, thumbnail, metadata, publisher

-----------------------------------------------------------------------------
(* Assigning a value of the right type keeps a function's type.            *)

LEMMA UpdateType ==
    ASSUME NEW S, NEW T, NEW f \in [S -> T], NEW x, NEW v \in T
    PROVE  [f EXCEPT ![x] = v] \in [S -> T]
  OBVIOUS

LEMMA HistoryUpdateType ==
    ASSUME TypeOK, NEW r \in Rows, NEW k \in Scenes, NEW content \in Content
    PROVE  [history EXCEPT ![r][k] = content] \in [Rows -> [Scenes -> Content]]
  BY UpdateType DEF TypeOK

-----------------------------------------------------------------------------
(* What the operators make of well-typed state is well-typed.              *)

LEMMA StoryboardType ==
    ASSUME ConstantsAssumption
    PROVE  Storyboard \in Content /\ Storyboard \subseteq Scenes
  BY DEF Storyboard, Content, Token

LEMMA DirectivesType ==
    ASSUME ConstantsAssumption, TypeOK, status = "running", NEW s \in Stages
    PROVE  Directives(s) \in Content
<1>1. request.row \in Token /\ request.seed \in Token
  BY DEF TypeOK, Request, Token
<1>2. Duration \cup Storyboard \in Content
  <2>1. Duration \in Content
    BY DEF TypeOK, Duration, ConstantsAssumption, Content, Token
  <2> QED
    BY <2>1, StoryboardType DEF Content
<1>3. {0} \in Content /\ {1} \in Content /\ {} \in Content
  BY DEF ConstantsAssumption, Content, Token
<1> QED
  BY <1>1, <1>2, <1>3 DEF Directives, Content

LEMMA FingerprintType ==
    ASSUME ConstantsAssumption, TypeOK, status = "running", NEW s \in Stages
    PROVE  Fingerprint(s) \in [read : [Stages -> Content], own : Content]
<1>1. \A d \in Stages : outputs[d] \in Content
  BY DEF TypeOK
<1>2. {} \in Content
  BY DEF Content
<1> QED
  BY <1>1, <1>2, DirectivesType DEF Fingerprint

LEMMA SceneImageType ==
    ASSUME TypeOK, status = "running"
    PROVE  SceneImage \in Content
  BY DEF TypeOK, SceneImage, Content, Request, Token

LEMMA EncodedVideoType ==
    ASSUME TypeOK
    PROVE  EncodedVideo \in Content
<1>1. \A k \in Scenes : images[k] \in SUBSET Token
  BY DEF TypeOK, Content
<1>2. files[video_render] \in SUBSET Token /\ files[voice] \in SUBSET Token
  BY DEF TypeOK, Content, FileStages
<1> QED
  BY <1>1, <1>2 DEF EncodedVideo, Segments, Content

LEMMA WinnerImageType ==
    ASSUME ConstantsAssumption, TypeOK
    PROVE  WinnerImage \in Content
<1>1. \A r \in Rows : history[r][ThumbScene[r]] \in SUBSET Token
  BY DEF TypeOK, Content, ConstantsAssumption
<1> QED
  BY <1>1 DEF WinnerImage, Content

LEMMA OutputType ==
    ASSUME ConstantsAssumption, TypeOK, status = "running", NEW s \in Stages
    PROVE  Output(s) \in Content /\ SideFile(s) \in Content
<1>1. request.row \in Token
  BY DEF TypeOK, Request, Token
<1>2. Duration \cup Storyboard \in Content
  <2>1. Duration \in Content
    BY DEF TypeOK, Duration, ConstantsAssumption, Content, Token
  <2> QED
    BY <2>1, StoryboardType DEF Content
<1>3. {runs} \in Content
  BY DEF TypeOK, Content, Token
<1>4. UNION {outputs[d] : d \in FingerprintReads[s]} \in Content
  <2>1. FingerprintReads[s] \subseteq Stages
    BY DEF FingerprintReads
  <2>2. \A d \in FingerprintReads[s] : outputs[d] \in SUBSET Token
    BY <2>1 DEF TypeOK, Content
  <2> QED
    BY <2>2 DEF Content
<1>5. outputs[ai_director] \in Content
  BY DEF TypeOK
<1>6. Output(s) \in Content
  <2> HIDE DEF Stages
  <2> QED
    BY <1>1, <1>2, <1>3, <1>4, <1>5, SceneImageType, EncodedVideoType
    DEF Output, Content
<1> QED
  BY <1>6, WinnerImageType DEF SideFile

-----------------------------------------------------------------------------
(* TypeOK is inductive as it stands.                                       *)

LEMMA InitTypeOK ==
    ASSUME ConstantsAssumption
    PROVE  Init => TypeOK
<1>1. {} \in Content /\ NoCheckpoint \in Checkpoint
  BY DEF Content, NoCheckpoint, NoFingerprint, Checkpoint
<1> QED
  BY <1>1 DEF Init, TypeOK, ConstantsAssumption, NoRequest, Manifest, Statuses,
            Steps

(* A step of PartlyExecuted leaves whole or torn contents.                 *)
LEMMA PartlyExecutedType ==
    ASSUME ConstantsAssumption, TypeOK, status = "running", PartlyExecuted
    PROVE  /\ history' \in [Rows -> [Scenes -> Content]]
           /\ images' \in [Scenes -> Content]
           /\ workflows' \in [Scenes -> Content]
           /\ files' \in [FileStages -> Content]
           /\ uploads' \subseteq UploadRecord
<1>1. {Torn} \in Content
  BY DEF Content, Token
<1>2. SceneImage \in Content
  BY SceneImageType
<1>3. SideFile(stage) \in Content /\ Output(stage) \in Content
  BY OutputType DEF TypeOK
<1>4. /\ history' \in [Rows -> [Scenes -> Content]]
      /\ images' \in [Scenes -> Content]
      /\ workflows' \in [Scenes -> Content]
      /\ files' \in [FileStages -> Content]
  <2>1. CASE UNCHANGED <<history, images, workflows, files>>
    BY <2>1 DEF TypeOK
  <2>2. CASE /\ stage \in FileStages
             /\ \E content \in {SideFile(stage), {Torn}} :
                   files' = [files EXCEPT ![stage] = content]
             /\ UNCHANGED <<history, images, workflows>>
    <3>1. PICK content \in {SideFile(stage), {Torn}} :
             files' = [files EXCEPT ![stage] = content]
      BY <2>2
    <3>2. content \in Content /\ files \in [FileStages -> Content]
      BY <1>1, <1>3, <3>1 DEF TypeOK
    <3>3. files' \in [FileStages -> Content]
      BY ONLY <3>1, <3>2, UpdateType
    <3> QED
      BY <2>2, <3>3 DEF TypeOK
  <2>4. CASE /\ \E last \in Storyboard :
                \E content \in {Output(stage), {Torn}} :
                   workflows' = [k \in Scenes |->
                       IF k < last THEN Output(stage)
                       ELSE IF k = last THEN content ELSE workflows[k]]
             /\ UNCHANGED <<history, images, files>>
    <3>1. workflows \in [Scenes -> Content]
      BY DEF TypeOK
    <3>2. workflows' \in [Scenes -> Content]
      <4>1. PICK last \in Storyboard, content \in {Output(stage), {Torn}} :
               workflows' = [k \in Scenes |->
                   IF k < last THEN Output(stage)
                   ELSE IF k = last THEN content ELSE workflows[k]]
        BY <2>4
      <4>2. content \in Content /\ Output(stage) \in Content
        BY <1>1, <1>3
      <4>3. ASSUME NEW k \in Scenes
            PROVE  (IF k < last THEN Output(stage)
                    ELSE IF k = last THEN content ELSE workflows[k])
                       \in Content
        BY ONLY <3>1, <4>2
      <4> QED
        BY ONLY <4>1, <4>3
    <3> QED
      BY <2>4, <3>2 DEF TypeOK
  <2>3. CASE /\ Rendering
             /\ \E content \in {SceneImage, {Torn}} :
                   history' = [history EXCEPT ![request.row][NextScene]
                                                = content]
             /\ images' \in {images,
                             [images EXCEPT ![NextScene] = {Torn}]}
             /\ UNCHANGED <<workflows, files>>
    <3>1. PICK content \in {SceneImage, {Torn}} :
             history' = [history EXCEPT ![request.row][NextScene] = content]
      BY <2>3
    <3>2. request.row \in Rows /\ NextScene \in Scenes
      BY <2>3, StoryboardType DEF TypeOK, Request, Rendering
    <3>3. history' \in [Rows -> [Scenes -> Content]]
      BY <1>1, <1>2, <3>1, <3>2, HistoryUpdateType
    <3>4. images' \in [Scenes -> Content]
      <4>1. images \in [Scenes -> Content]
        BY DEF TypeOK
      <4>2. [images EXCEPT ![NextScene] = {Torn}] \in [Scenes -> Content]
        BY ONLY <1>1, <4>1, UpdateType
      <4> QED
        BY <2>3, <4>1, <4>2
    <3> QED
      BY <2>3, <3>3, <3>4 DEF TypeOK
  <2> QED
    BY <2>1, <2>2, <2>3, <2>4 DEF PartlyExecuted
<1>5. uploads' \subseteq UploadRecord
  <2>1. Upload \in UploadRecord
    <3> files[video_render] \in Content /\ files[thumbnail] \in Content
      BY DEF TypeOK, FileStages
    <3> outputs[metadata] \in Content
      BY DEF TypeOK
    <3> QED
      BY DEF Upload, UploadRecord, TypeOK
  <2>2. Uploaded \subseteq UploadRecord
    BY <2>1 DEF Uploaded, TypeOK
  <2> QED
    BY <2>2 DEF PartlyExecuted, TypeOK
<1> QED
  BY <1>4, <1>5

LEMMA NextTypeOK ==
    ASSUME ConstantsAssumption, TypeOK, [Next]_vars
    PROVE  TypeOK'
<1> {} \in Content /\ {Torn} \in Content
  BY DEF Content, Token
<1> USE DEF disk, process, bounds, Statuses, Steps
<1>1. ASSUME NEW q \in Requests, Start(q) PROVE TypeOK'
  BY <1>1 DEF TypeOK, Start, ConstantsAssumption
<1>2. CASE Skip
  <2>1. checkpoints[stage].output \in Content
    BY DEF TypeOK, Checkpoint
  <2> QED
    BY <1>2, <2>1 DEF TypeOK, Skip, Record
<1>3. CASE InputsFail
  BY <1>3 DEF TypeOK, InputsFail, Abort
<1>4. CASE Begin
  BY <1>4 DEF TypeOK, Begin, ConstantsAssumption
<1>5. CASE RenderScene
  <2>1. SceneImage \in Content /\ NextScene \in Scenes
    BY <1>5, SceneImageType, StoryboardType
    DEF RenderScene, Rendering, Executing
  <2>2. request.row \in Rows
    BY <1>5 DEF RenderScene, Rendering, Executing, TypeOK, Request
  <2>3. history' \in [Rows -> [Scenes -> Content]]
    BY <1>5, <2>1, <2>2, HistoryUpdateType DEF RenderScene
  <2>4. images' \in [Scenes -> Content]
    BY <1>5, <2>1, UpdateType DEF RenderScene, TypeOK
  <2>5. rendered' \in 0..MaxScenes
    BY <1>5, <2>1 DEF RenderScene, Scenes, ConstantsAssumption
  <2> QED
    BY <1>5, <2>3, <2>4, <2>5 DEF TypeOK, RenderScene, Rendering, Executing
<1>16. CASE RenderRejected
  <2>1. status = "running" /\ SceneImage \in Content /\ NextScene \in Scenes
    BY <1>16, SceneImageType, StoryboardType
    DEF RenderRejected, Rendering, Executing
  <2>2. request.row \in Rows
    BY <2>1 DEF TypeOK, Request
  <2>3. history' \in [Rows -> [Scenes -> Content]]
    <3>1. history \in [Rows -> [Scenes -> Content]]
      BY DEF TypeOK
    <3>2. [history EXCEPT ![request.row][NextScene] = SceneImage]
             \in [Rows -> [Scenes -> Content]]
      BY <2>1, <2>2, HistoryUpdateType
    <3> QED
      BY <1>16, <3>1, <3>2 DEF RenderRejected
  <2>4. Fingerprint(stage) \in [read : [Stages -> Content], own : Content]
    BY <2>1, FingerprintType DEF TypeOK
  <2>5. checkpoints' \in [Stages -> Checkpoint]
    BY <1>16, <2>4 DEF RenderRejected, FailedCheckpoint, Checkpoint, TypeOK
  <2> QED
    BY <1>16, <2>3, <2>5 DEF TypeOK, RenderRejected, Abort
<1>6. CASE Execute
  <2>1. status = "running"
    BY <1>6 DEF Execute, Executing
  <2>2. Output(stage) \in Content /\ SideFile(stage) \in Content
    BY <2>1, OutputType DEF TypeOK
  <2>3. Upload \in UploadRecord
    <3> files[video_render] \in Content /\ files[thumbnail] \in Content
      BY DEF TypeOK, FileStages
    <3> outputs[metadata] \in Content
      BY DEF TypeOK
    <3> QED
      BY <2>1 DEF Upload, UploadRecord, TypeOK
  <2>4. Uploaded \subseteq UploadRecord
    BY <2>3 DEF Uploaded, TypeOK
  <2>5. workflows' \in [Scenes -> Content]
    <3>1. workflows \in [Scenes -> Content]
      BY DEF TypeOK
    <3> QED
      BY <1>6, <2>2, <3>1 DEF Execute
  <2>6. files' \in [FileStages -> Content]
    BY <1>6, <2>2 DEF Execute, TypeOK
  <2> QED
    BY <1>6, <2>2, <2>4, <2>5, <2>6 DEF TypeOK, Execute, Executing
<1>7. CASE ExecuteRaises
  <2>1. Fingerprint(stage) \in [read : [Stages -> Content], own : Content]
    BY <1>7, FingerprintType DEF ExecuteRaises, Executing, TypeOK
  <2>2. checkpoints' \in [Stages -> Checkpoint]
    BY <1>7, <2>1 DEF ExecuteRaises, FailedCheckpoint, Checkpoint, TypeOK
  <2> QED
    BY <1>7, <2>2 DEF TypeOK, ExecuteRaises, Abort
<1>8. CASE SaveArtifact
  BY <1>8 DEF TypeOK, SaveArtifact
<1>9. CASE SaveCheckpoint
  <2>1. Fingerprint(stage) \in [read : [Stages -> Content], own : Content]
    BY <1>9, FingerprintType DEF SaveCheckpoint, TypeOK
  <2>2. checkpoints' \in [Stages -> Checkpoint]
    BY <1>9, <2>1 DEF SaveCheckpoint, Checkpoint, TypeOK
  <2> QED
    BY <1>9, <2>2 DEF TypeOK, SaveCheckpoint, Record
<1>10. CASE Report
  <2>1. ListedImages \subseteq Scenes /\ ListedWorkflows \subseteq Scenes
    BY DEF ListedImages, ListedWorkflows
  <2>2. request \in Request /\ status' \in {"complete", "failed"}
    BY <1>10 DEF TypeOK, Report
  <2>3. manifest' \in [status : {"absent", "torn", "complete", "failed"},
                       request : Request \cup {NoRequest},
                       images : SUBSET Scenes, workflows : SUBSET Scenes]
    BY <1>10, <2>1, <2>2 DEF Report, Manifest
  <2> QED
    BY <1>10, <2>2, <2>3 DEF TypeOK, Report
<1>11. CASE ExecuteFails
  <2>1. status = "running" /\ PartlyExecuted
    BY <1>11 DEF ExecuteFails, Executing
  <2>2. Fingerprint(stage) \in [read : [Stages -> Content], own : Content]
    BY <2>1, FingerprintType DEF TypeOK
  <2>3. checkpoints' \in [Stages -> Checkpoint]
    <3>1. [status |-> "failed", fingerprint |-> Fingerprint(stage),
           output |-> {}] \in Checkpoint
      BY <2>2 DEF Checkpoint
    <3>2. checkpoints \in [Stages -> Checkpoint]
      BY DEF TypeOK
    <3>3. CASE FailedCheckpoint
      BY <3>1, <3>2, <3>3, UpdateType DEF FailedCheckpoint
    <3>4. CASE UNCHANGED checkpoints
      BY <3>2, <3>4
    <3> QED
      BY <1>11, <3>3, <3>4 DEF ExecuteFails
  <2> QED
    BY <1>11, <2>1, <2>3, PartlyExecutedType
    DEF TypeOK, ExecuteFails, Abort, ConstantsAssumption
<1>12. CASE SaveFails
  BY <1>12 DEF TypeOK, SaveFails, Abort, ConstantsAssumption
<1>13. CASE Kill
  <2>1. /\ history' \in [Rows -> [Scenes -> Content]]
        /\ images' \in [Scenes -> Content]
        /\ workflows' \in [Scenes -> Content]
        /\ files' \in [FileStages -> Content]
        /\ uploads' \subseteq UploadRecord
    BY <1>13, PartlyExecutedType DEF Kill, TypeOK
  <2>2. /\ manifest' \in [status : {"absent", "torn", "complete", "failed"},
                          request : Request \cup {NoRequest},
                          images : SUBSET Scenes, workflows : SUBSET Scenes]
        /\ outputs' \in [Stages -> Content]
    BY <1>13 DEF Kill, TypeOK, Manifest
  <2> QED
    BY <1>13, <2>1, <2>2 DEF TypeOK, Kill, ConstantsAssumption
<1>14. CASE Lose
  <2>1. NoCheckpoint \in Checkpoint
    BY DEF NoCheckpoint, NoFingerprint, Checkpoint
  <2>2. checkpoints' \in [Stages -> Checkpoint]
    BY <1>14, <2>1, UpdateType DEF Lose, TypeOK
  <2>3. artifacts' \in [Stages -> SUBSET Content]
    BY <1>14 DEF Lose, TypeOK
  <2>4. damaged' \in [Stages -> SUBSET Content]
    <3>1. damaged \in [Stages -> SUBSET Content]
      BY DEF TypeOK
    <3>2. \A s \in Stages : \A content \in Content :
             /\ [damaged EXCEPT ![s] = @ \ {content}]
                   \in [Stages -> SUBSET Content]
             /\ [damaged EXCEPT ![s] = @ \cup {content}]
                   \in [Stages -> SUBSET Content]
      BY <3>1
    <3>3. \A s \in Stages : artifacts[s] \subseteq Content
      BY DEF TypeOK
    <3> QED
      BY <1>14, <3>1, <3>2, <3>3 DEF Lose
  <2>5. images' \in [Scenes -> Content]
    <3>1. images \in [Scenes -> Content]
      BY DEF TypeOK
    <3>2. \A k \in Scenes :
             [images EXCEPT ![k] = {}] \in [Scenes -> Content]
      BY <3>1, UpdateType
    <3> QED
      BY <1>14, <3>1, <3>2 DEF Lose
  <2>6. files' \in [FileStages -> Content]
    <3>1. files \in [FileStages -> Content]
      BY DEF TypeOK
    <3>2. \A s \in FileStages :
             [files EXCEPT ![s] = {}] \in [FileStages -> Content]
      BY <3>1, UpdateType
    <3> QED
      BY <1>14, <3>1, <3>2 DEF Lose
  <2>7. workflows' \in [Scenes -> Content]
    <3>1. workflows \in [Scenes -> Content]
      BY DEF TypeOK
    <3>2. \A k \in Scenes :
             [workflows EXCEPT ![k] = {}] \in [Scenes -> Content]
      BY <3>1, UpdateType
    <3> QED
      BY <1>14, <3>1, <3>2 DEF Lose
  <2> QED
    BY <1>14, <2>2, <2>3, <2>4, <2>5, <2>6, <2>7
    DEF TypeOK, Lose, ConstantsAssumption
<1>15. CASE UNCHANGED vars
  BY <1>15 DEF TypeOK, vars
<1> QED
  BY <1>1, <1>2, <1>3, <1>4, <1>5, <1>6, <1>7, <1>8, <1>9, <1>10, <1>11,
     <1>12, <1>13, <1>14, <1>15, <1>16 DEF Next, Advance

(* The variables keep the shape the code gives them in every behaviour.    *)
THEOREM Typing == Spec => []TypeOK
<1>1. Init => TypeOK
  BY InitTypeOK, ConstantsAssumption
<1>2. TypeOK /\ [Next]_vars => TypeOK'
  BY NextTypeOK, ConstantsAssumption
<1> QED
  BY <1>1, <1>2, PTL DEF Spec

-----------------------------------------------------------------------------
(* A run that was not resumed.  FreshRunIsExact speaks of its end only; the *)
(* invariant that is inductive follows the run from stage to stage.         *)

(* What each stage returns in a run of q in an empty directory.             *)
IdealOutput(q) == [s \in Stages |->
    CASE s \in {render_loop, video_render, thumbnail} -> ImageOf(q)
      [] s = video_assembly -> {TargetDuration[q.row]} \cup SceneIds(q.row)
      [] OTHER -> {q.row}]

(* The scenes this run has approved an image for.                           *)
Approved ==
    IF stage > render_loop \/ (stage = render_loop
                                 /\ step \in {"executed", "stored"})
    THEN SceneIds(request.row)
    ELSE IF stage = render_loop /\ step = "execute" THEN 1..rendered ELSE {}

(* The scenes it has written a workflow for.                                *)
Drawn ==
    IF stage > workflow_builder \/ (stage = workflow_builder
                                      /\ step \in {"executed", "stored"})
    THEN SceneIds(request.row) ELSE {}

OutputsExact == \A s \in Stages \ {publisher} :
    s < stage => outputs[s] = IdealOutput(request)[s]

FilesExact == \A s \in FileStages \ {publisher} :
    s < stage => files[s] = FileOf(request)[s]

SceneFilesExact ==
    /\ \A k \in Approved : /\ images[k] = ImageOf(request)
                           /\ history[request.row][k] = ImageOf(request)
    /\ \A k \in Drawn : workflows[k] = {request.row}

ResultExact ==
    step \in {"executed", "stored"} /\ stage # publisher =>
        /\ result = IdealOutput(request)[stage]
        /\ stage \in FileStages => files[stage] = FileOf(request)[stage]

RunExact ==
    /\ OutputsExact /\ FilesExact /\ SceneFilesExact /\ ResultExact
    /\ step = "report" => stage = publisher

FreshInv == status = "running" /\ ~request.resume => RunExact

(* What the present stage has left on the disk when its output is content. *)
StageExact(content) == stage # publisher =>
    /\ content = IdealOutput(request)[stage]
    /\ stage \in FileStages => files[stage] = FileOf(request)[stage]
    /\ stage = render_loop => \A k \in SceneIds(request.row) :
          /\ images[k] = ImageOf(request)
          /\ history[request.row][k] = ImageOf(request)
    /\ stage = workflow_builder =>
          \A k \in SceneIds(request.row) : workflows[k] = {request.row}

(* The scenes of a row are among all, and its thumbnail among them.        *)
LEMMA SceneIdsAreScenes ==
    ASSUME ConstantsAssumption, NEW r \in Rows
    PROVE  /\ SceneIds(r) \subseteq Scenes /\ SceneIds(r) # {}
           /\ ThumbScene[r] \in SceneIds(r)
           /\ SceneCount[r] \in Nat \ {0}
<1>1. SceneCount[r] \in 1..MaxScenes /\ MaxScenes \in Nat
  BY DEF ConstantsAssumption, Scenes
<1>2. ThumbScene[r] \in 1..SceneCount[r]
  BY <1>1 DEF ConstantsAssumption, Scenes
<1> QED
  BY <1>1, <1>2 DEF SceneIds, Scenes

(* The storyboard and the assembly of a run that is exact so far.          *)
LEMMA StoryboardExact ==
    ASSUME ConstantsAssumption, TypeOK, OutputsExact, status = "running"
    PROVE  /\ stage > visual_intelligence =>
                 Storyboard = SceneIds(request.row)
           /\ stage > video_assembly => Segments = SceneIds(request.row)
           /\ stage > voice => Duration = {TargetDuration[request.row]}
<1>1. request.row \in Rows /\ SceneIds(request.row) \subseteq Scenes
  BY SceneIdsAreScenes DEF TypeOK, Request
<1>2. \A d \in 1..14 : d < stage => outputs[d] = IdealOutput(request)[d]
  BY DEF OutputsExact
<1>3. ASSUME stage > 4 PROVE Storyboard = SceneIds(request.row)
  <2>1. outputs[4] = {request.row}
    BY <1>2, <1>3 DEF IdealOutput
  <2>2. outputs[4] \cap Rows = {request.row}
    BY <1>1, <2>1
  <2> QED
    BY <1>1, <2>2 DEF Storyboard
<1>4. ASSUME stage > 11 PROVE Segments = SceneIds(request.row)
  <2>1. outputs[11] = {TargetDuration[request.row]} \cup SceneIds(request.row)
    BY <1>2, <1>4 DEF IdealOutput
  <2>2. TargetDuration[request.row] \notin Scenes
    BY <1>1 DEF ConstantsAssumption
  <2> QED
    BY <1>1, <2>1, <2>2 DEF Segments
<1>5. ASSUME stage > 9 PROVE Duration = {TargetDuration[request.row]}
  <2>1. outputs[9] = {request.row}
    BY <1>2, <1>5 DEF IdealOutput
  <2>2. outputs[9] \cap Rows = {request.row}
    BY <1>1, <2>1
  <2> QED
    BY <2>2 DEF Duration
<1> QED
  BY <1>3, <1>4, <1>5

(* The union of a family whose members are all the same.                   *)
LEMMA UnionOfEqual ==
    ASSUME NEW S, NEW f, NEW c, S # {}, \A x \in S : f[x] = c
    PROVE  UNION {f[x] : x \in S} = c
<1>1. PICK x \in S : TRUE
  OBVIOUS
<1>2. {f[y] : y \in S} = {c}
  BY <1>1
<1> QED
  BY <1>2

(* What execute() returns and writes is exact, given what it reads is.     *)
LEMMA ExactExecution ==
    ASSUME ConstantsAssumption, TypeOK, OutputsExact, FilesExact, SceneFilesExact,
           status = "running", step = "execute"
    PROVE  stage # publisher =>
             /\ Output(stage) = IdealOutput(request)[stage]
             /\ stage \in FileStages =>
                   SideFile(stage) = FileOf(request)[stage]
<1> DEFINE q == request
<1>0. /\ stage \in 1..15 /\ q.row \in Rows /\ q.seed \in Seeds
      /\ q.row \notin Seeds /\ q.seed \notin Rows
  BY DEF TypeOK, Request, ConstantsAssumption
<1>1. \A d \in 1..14 : d < stage => outputs[d] = IdealOutput(q)[d]
  BY DEF OutputsExact
<1> SUFFICES ASSUME stage # publisher
             PROVE  /\ Output(stage) = IdealOutput(q)[stage]
                    /\ stage \in FileStages =>
                          SideFile(stage) = FileOf(q)[stage]
  OBVIOUS
<1>2. CASE stage \in {1, 5}
  <2>1. CASE stage = 1
    BY <2>1 DEF Output, IdealOutput, FileStages
  <2>2. CASE stage = 5
    BY <1>1, <2>2 DEF Output, IdealOutput, FileStages
  <2> QED
    BY <1>2, <2>1, <2>2
<1>3. CASE stage = 8
  <2>1. SceneImage = ImageOf(q)
    BY <1>0, <1>1, <1>3 DEF SceneImage, ImageOf, IdealOutput
  <2> QED
    BY <1>3, <2>1 DEF Output, IdealOutput, FileStages
<1>4. CASE stage \in {2, 3, 4, 6, 7, 9, 10, 14}
  <2> DEFINE Reads == FingerprintReads[stage]
  <2>1. Reads # {} /\ \A d \in Reads : d \in {1, 2, 3, 4, 5, 6, 9} /\ d < stage
    <3>1. /\ FingerprintReads[2] = {1} /\ FingerprintReads[3] = {2}
          /\ FingerprintReads[4] = {2, 3} /\ FingerprintReads[6] = {4}
          /\ FingerprintReads[7] = {6, 4, 5} /\ FingerprintReads[9] = {2}
          /\ FingerprintReads[10] = {9} /\ FingerprintReads[14] = {1, 2}
      BY DEF FingerprintReads
    <3> QED
      BY <1>4, <3>1
  <2>2. \A d \in Reads : outputs[d] = {q.row}
    BY <1>0, <1>1, <2>1 DEF IdealOutput
  <2>3. UNION {outputs[d] : d \in Reads} = {q.row}
    BY ONLY <2>1, <2>2, UnionOfEqual
  <2>4. Output(stage) = {q.row}
    BY <1>4, <2>3 DEF Output
  <2>5. SideFile(stage) = {q.row}
    BY <1>4, <2>4 DEF SideFile
  <2>6. IdealOutput(q)[stage] = {q.row}
    BY <1>4 DEF IdealOutput
  <2>7. stage \in FileStages => FileOf(q)[stage] = {q.row}
    BY <1>4 DEF FileOf
  <2> QED
    BY <2>4, <2>5, <2>6, <2>7
<1>5. CASE stage = 11
  <2>1. Duration = {TargetDuration[q.row]} /\ Storyboard = SceneIds(q.row)
    BY <1>5, StoryboardExact
  <2> QED
    BY <1>5, <2>1 DEF Output, IdealOutput, FileStages
<1>6. CASE stage = 12
  <2>1. Segments = SceneIds(q.row) /\ \A k \in Segments : images[k] = ImageOf(q)
    BY <1>6, StoryboardExact DEF SceneFilesExact, Approved
  <2>2. UNION {images[k] : k \in Segments} = ImageOf(q)
    <3>1. Segments # {}
      BY <1>0, <2>1, SceneIdsAreScenes
    <3> QED
      BY ONLY <2>1, <3>1, UnionOfEqual
  <2>3. files[9] = {q.row}
    <3>1. 9 \in FileStages /\ 9 # 15 /\ 9 < stage
      BY <1>6 DEF FileStages
    <3>2. files[9] = FileOf(q)[9]
      BY <3>1 DEF FilesExact
    <3> QED
      BY <3>1, <3>2 DEF FileOf
  <2>4. EncodedVideo = ImageOf(q)
    BY <2>2, <2>3 DEF EncodedVideo, ImageOf
  <2> QED
    BY <1>6, <2>4 DEF Output, SideFile, IdealOutput, FileOf, FileStages
<1>7. CASE stage = 13
  <2>1. outputs[8] = ImageOf(q)
    BY <1>0, <1>1, <1>7 DEF IdealOutput
  <2>2. outputs[8] \cap Rows = {q.row}
    BY <1>0, <2>1 DEF ImageOf
  <2>3. history[q.row][ThumbScene[q.row]] = ImageOf(q)
    BY <1>0, <1>7, SceneIdsAreScenes DEF SceneFilesExact, Approved
  <2>4. WinnerImage = ImageOf(q)
    BY <2>2, <2>3 DEF WinnerImage
  <2>5. Output(13) = outputs[8]
    BY DEF Output, FingerprintReads
  <2> QED
    BY <1>7, <2>1, <2>4, <2>5 DEF SideFile, IdealOutput, FileOf, FileStages
<1> QED
  BY <1>0, <1>2, <1>3, <1>4, <1>5, <1>6, <1>7

(* The renderer's image of a scene, given what it reads is exact.          *)
LEMMA ExactSceneImage ==
    ASSUME TypeOK, OutputsExact, stage = render_loop
    PROVE  SceneImage = ImageOf(request)
<1>1. \A d \in {2, 4, 5} : outputs[d] = IdealOutput(request)[d]
  BY DEF OutputsExact
<1>2. \A d \in {2, 4, 5} : IdealOutput(request)[d] = {request.row}
  BY DEF IdealOutput
<1> QED
  BY <1>1, <1>2 DEF SceneImage, ImageOf

(* A step that stays in the stage and writes only this stage's files       *)
(* disturbs nothing that is said of the earlier ones.                      *)
LEMMA EarlierStagesKept ==
    ASSUME TypeOK, OutputsExact, FilesExact,
           stage' = stage, request' = request, outputs' = outputs,
           \A s \in FileStages : s # stage => files'[s] = files[s]
    PROVE  OutputsExact' /\ FilesExact'
<1>1. OutputsExact'
  BY DEF OutputsExact
<1>2. FilesExact'
  <2>1. \A s \in FileStages \ {publisher} : s < stage => files'[s] = files[s]
    BY DEF TypeOK
  <2> QED
    BY <2>1 DEF FilesExact
<1> QED
  BY <1>1, <1>2

(* Recording a stage that is exact.                                        *)
LEMMA RecordExact ==
    ASSUME TypeOK, RunExact, NEW content, StageExact(content),
           step \in {"plan", "stored"}, Record(content),
           UNCHANGED <<request, files, images, workflows, history>>
    PROVE  RunExact'
<1>0. stage \in 1..15 /\ outputs \in [Stages -> Content]
  BY DEF TypeOK
<1>1. CASE stage = publisher
  <2>1. stage' = stage /\ step' = "report"
    BY <1>1 DEF Record
  <2>2. OutputsExact'
    BY <1>0, <1>1, <2>1 DEF RunExact, OutputsExact, Record
  <2>3. FilesExact'
    BY <2>1 DEF RunExact, FilesExact
  <2> QED
    BY <1>1, <2>1, <2>2, <2>3
    DEF RunExact, SceneFilesExact, Approved, Drawn, ResultExact
<1>2. CASE stage # publisher
  <2>1. stage' = stage + 1 /\ step' = "plan"
    BY <1>2 DEF Record
  <2>2. OutputsExact'
    <3>1. outputs' = [outputs EXCEPT ![stage] = content]
      BY DEF Record
    <3>2. ASSUME NEW s \in Stages \ {publisher}, s < stage'
          PROVE  outputs'[s] = IdealOutput(request)[s]
      <4>1. s = stage \/ s < stage
        BY <1>0, <2>1, <3>2
      <4> QED
        BY <1>0, <1>2, <3>1, <4>1 DEF RunExact, OutputsExact, StageExact
    <3> QED
      BY <3>2 DEF OutputsExact
  <2>3. FilesExact'
    <3>1. ASSUME NEW s \in FileStages \ {publisher}, s < stage'
          PROVE  files'[s] = FileOf(request)[s]
      <4>1. s = stage \/ s < stage
        BY <1>0, <2>1, <3>1 DEF FileStages
      <4> QED
        BY <1>2, <3>1, <4>1 DEF RunExact, FilesExact, StageExact
    <3> QED
      BY <3>1 DEF FilesExact
  <2>4. SceneFilesExact'
    <3>1. CASE stage = render_loop
      <4>1. Approved' = SceneIds(request.row) /\ Drawn' = Drawn
        BY <2>1, <3>1 DEF Approved, Drawn
      <4> QED
        BY <3>1, <4>1 DEF RunExact, SceneFilesExact, StageExact
    <3>2. CASE stage = workflow_builder
      <4>1. Drawn' = SceneIds(request.row) /\ Approved' = {}
        BY <2>1, <3>2 DEF Approved, Drawn
      <4> QED
        BY <3>2, <4>1 DEF SceneFilesExact, StageExact
    <3>3. CASE stage \notin {render_loop, workflow_builder}
      <4>1. Approved' = Approved /\ Drawn' = Drawn
        BY <1>0, <2>1, <3>3 DEF Approved, Drawn
      <4> QED
        BY <4>1 DEF RunExact, SceneFilesExact
    <3> QED
      BY <3>1, <3>2, <3>3
  <2> QED
    BY <2>1, <2>2, <2>3, <2>4 DEF RunExact, ResultExact
<1> QED
  BY <1>1, <1>2

(* execute() of render_loop returns only after every scene's turn.         *)
LEMMA AllScenesRendered ==
    ASSUME ConstantsAssumption, TypeOK, OutputsExact, Execute
    PROVE  Approved' \subseteq Approved
<1>1. /\ status = "running" /\ step = "execute" /\ step' = "executed"
      /\ stage' = stage /\ request' = request
  BY DEF Execute, Executing
<1>2. CASE stage = render_loop
  <2>1. /\ Storyboard = SceneIds(request.row)
        /\ request.row \in Rows /\ rendered \in Nat
    BY <1>1, <1>2, StoryboardExact DEF TypeOK, Request
  <2>2. rendered + 1 \notin 1..SceneCount[request.row]
    BY <1>2, <2>1 DEF Execute, Rendering, NextScene, SceneIds
  <2>3. 1..SceneCount[request.row] \subseteq 1..rendered
    <3>1. SceneCount[request.row] \in Nat
      BY <2>1, SceneIdsAreScenes
    <3> QED
      BY ONLY <2>1, <2>2, <3>1
  <2>4. Approved' = SceneIds(request.row) /\ Approved = 1..rendered
    BY <1>1, <1>2 DEF Approved
  <2> QED
    BY <2>3, <2>4 DEF SceneIds
<1>3. CASE stage # render_loop
  BY <1>1, <1>3 DEF Approved
<1> QED
  BY <1>2, <1>3

(* Every step of a run that is exact so far keeps it so, if the stages it  *)
(* skips are.                                                              *)
LEMMA NextRunExact ==
    ASSUME ConstantsAssumption, TypeOK, [Next]_vars, status' = "running",
           status = "running" => RunExact,
           Skip => StageExact(checkpoints[stage].output)
    PROVE  RunExact'
<1> USE DEF disk, process, bounds
<1> SUFFICES /\ OutputsExact' /\ FilesExact'
             /\ SceneFilesExact' /\ ResultExact'
             /\ step' = "report" => stage' = publisher
  BY DEF RunExact
<1>0. stage \in 1..15
  BY DEF TypeOK
<1>1. ASSUME NEW q \in Requests, Start(q)
      PROVE  /\ OutputsExact' /\ FilesExact'
             /\ SceneFilesExact' /\ ResultExact'
             /\ step' = "report" => stage' = publisher
  <2>1. stage' = 1 /\ step' = "plan"
    BY <1>1 DEF Start
  <2>2. OutputsExact'
    BY <2>1 DEF OutputsExact
  <2>3. FilesExact'
    BY <2>1 DEF FilesExact, FileStages
  <2>4. SceneFilesExact' /\ ResultExact'
    BY <2>1 DEF SceneFilesExact, Approved, Drawn, ResultExact
  <2> QED
    BY <2>1, <2>2, <2>3, <2>4
<1>2. CASE UNCHANGED vars
  BY <1>2 DEF vars, RunExact, OutputsExact, FilesExact, SceneFilesExact, Approved, Drawn,
              ResultExact
(* Every other step that leaves the run running is a step of a run that    *)
(* was already running.                                                    *)
<1> DEFINE Kept == /\ status = "running" /\ request' = request
                   /\ OutputsExact /\ FilesExact /\ SceneFilesExact /\ ResultExact
                   /\ step = "report" => stage = publisher
<1>3. CASE Skip
  <2>1. RunExact'
    BY <1>3, RecordExact DEF Skip
  <2> QED
    BY <2>1 DEF RunExact
<1>4. CASE InputsFail
  <2>1. Kept
    BY <1>4 DEF InputsFail, RunExact
  <2>2. /\ stage' = stage /\ step' = "abort"
        /\ UNCHANGED <<outputs, files, images, workflows, history>>
    BY <1>4 DEF InputsFail, Abort
  <2>3. OutputsExact' /\ FilesExact'
    BY <2>1, <2>2, EarlierStagesKept
  <2> QED
    BY <2>1, <2>2, <2>3 DEF SceneFilesExact, Approved, Drawn, ResultExact
<1>5. CASE Begin
  <2>1. Kept
    BY <1>5 DEF Begin, RunExact
  <2>2. /\ stage' = stage /\ step' = "execute" /\ rendered' = 0
        /\ UNCHANGED <<outputs, files, images, workflows, history>>
    BY <1>5 DEF Begin
  <2>3. OutputsExact' /\ FilesExact'
    BY <2>1, <2>2, EarlierStagesKept
  <2> QED
    BY <2>1, <2>2, <2>3 DEF SceneFilesExact, Approved, Drawn, ResultExact
<1>6. CASE RenderScene
  <2>1. Kept
    BY <1>6 DEF RenderScene, Rendering, Executing, RunExact
  <2>2. /\ stage = render_loop /\ step = "execute" /\ rendered \in Nat
        /\ UNCHANGED <<stage, step, outputs, files, workflows>>
        /\ rendered' = rendered + 1
    BY <1>6 DEF RenderScene, Rendering, Executing, TypeOK, NextScene
  <2>3. OutputsExact' /\ FilesExact'
    BY <2>1, <2>2, EarlierStagesKept
  <2>4. SceneImage = ImageOf(request)
    BY <2>1, <2>2, ExactSceneImage
  <2>5. /\ request.row \in Rows /\ rendered + 1 \in Scenes
        /\ images \in [Scenes -> Content]
        /\ history \in [Rows -> [Scenes -> Content]]
        /\ Approved = 1..rendered /\ Approved \subseteq Scenes
    <3>1. rendered + 1 \in Scenes
      BY <1>6, StoryboardType DEF RenderScene, Rendering, NextScene
    <3>2. Approved = 1..rendered
      BY <2>2 DEF Approved
    <3>3. 1..rendered \subseteq Scenes
      BY <2>2, <3>1 DEF Scenes, ConstantsAssumption
    <3> QED
      BY <2>1, <3>1, <3>2, <3>3 DEF TypeOK, Request
  <2>6. Approved' = Approved \cup {rendered + 1}
    <3>1. Approved' = 1..(rendered + 1)
      BY <2>2 DEF Approved
    <3>2. 1..(rendered + 1) = (1..rendered) \cup {rendered + 1}
      BY <2>2
    <3> QED
      BY <2>5, <3>1, <3>2
  <2>7. /\ images' = [images EXCEPT ![rendered + 1] = SceneImage]
        /\ history' = [history EXCEPT ![request.row][rendered + 1]
                                         = SceneImage]
    BY <1>6 DEF RenderScene, NextScene
  <2>8. SceneFilesExact'
    <3>1. images'[rendered + 1] = ImageOf(request)
      BY <2>4, <2>5, <2>7
    <3>2. history'[request.row][rendered + 1] = ImageOf(request)
      BY <2>4, <2>5, <2>7
    <3>3. \A k \in Approved :
             /\ images'[k] = ImageOf(request)
             /\ history'[request.row][k] = ImageOf(request)
      <4> SUFFICES ASSUME NEW k \in Approved
                   PROVE  /\ images'[k] = ImageOf(request)
                          /\ history'[request.row][k] = ImageOf(request)
        OBVIOUS
      <4>1. k \in Scenes /\ k # rendered + 1
        BY <2>2, <2>5
      <4>2. /\ images[k] = ImageOf(request)
            /\ history[request.row][k] = ImageOf(request)
        BY <2>1 DEF SceneFilesExact
      <4>3. images'[k] = images[k]
        BY <2>5, <2>7, <4>1
      <4>4. history'[request.row][k] = history[request.row][k]
        BY <2>5, <2>7, <4>1
      <4> QED
        BY <4>2, <4>3, <4>4
    <3>4. \A k \in Drawn' : workflows'[k] = {request.row}
      BY <2>1, <2>2 DEF SceneFilesExact, Drawn
    <3> QED
      BY <2>1, <2>6, <3>1, <3>2, <3>3, <3>4 DEF SceneFilesExact
  <2> QED
    BY <2>1, <2>2, <2>3, <2>8 DEF ResultExact
<1>7. CASE Execute
  <2>1. Kept
    BY <1>7 DEF Execute, Executing, RunExact
  <2>2. /\ step = "execute"
        /\ stage' = stage /\ step' = "executed"
        /\ UNCHANGED <<outputs, images, history>>
        /\ result' = Output(stage)
        /\ files' = IF stage \in FileStages
                    THEN [files EXCEPT ![stage] = SideFile(stage)] ELSE files
    BY <1>7 DEF Execute, Executing
  <2>3. files \in [FileStages -> Content]
    BY DEF TypeOK
  <2>4. OutputsExact' /\ FilesExact'
    <3>1. \A s \in FileStages : s # stage => files'[s] = files[s]
      BY <2>2, <2>3
    <3> QED
      BY <2>1, <2>2, <3>1, EarlierStagesKept
  <2>5. SceneFilesExact'
    <3>1. Approved' \subseteq Approved
      BY <1>7, <2>1, AllScenesRendered
    <3>2. \A k \in Drawn' : workflows'[k] = {request.row}
      <4>1. CASE stage = workflow_builder
        <5>1. /\ Storyboard = SceneIds(request.row)
              /\ SceneIds(request.row) \subseteq Scenes
          BY <2>1, <4>1, StoryboardExact, SceneIdsAreScenes
          DEF TypeOK, Request
        <5>2. Output(stage) = {request.row}
          BY <2>1, <2>2, <4>1, ExactExecution DEF IdealOutput
        <5>3. Drawn' = SceneIds(request.row)
          BY <2>1, <2>2, <4>1 DEF Drawn
        <5> QED
          BY <1>7, <4>1, <5>1, <5>2, <5>3 DEF Execute
      <4>2. CASE stage # workflow_builder
        <5>1. workflows' = workflows /\ Drawn' = Drawn
          BY <1>7, <2>1, <2>2, <4>2 DEF Execute, Drawn
        <5> QED
          BY <2>1, <5>1 DEF SceneFilesExact
      <4> QED
        BY <4>1, <4>2
    <3> QED
      BY <2>1, <2>2, <3>1, <3>2 DEF SceneFilesExact
  <2>6. ResultExact'
    <3>1. stage # publisher =>
             /\ Output(stage) = IdealOutput(request)[stage]
             /\ stage \in FileStages =>
                   SideFile(stage) = FileOf(request)[stage]
      BY <2>1, <2>2, ExactExecution
    <3>2. stage \in FileStages => files'[stage] = SideFile(stage)
      BY <2>2, <2>3
    <3> QED
      BY <2>1, <2>2, <3>1, <3>2 DEF ResultExact
  <2> QED
    BY <2>2, <2>4, <2>5, <2>6
<1>8. CASE ExecuteRaises
  <2>1. Kept
    BY <1>8 DEF ExecuteRaises, Executing, RunExact
  <2>2. /\ stage' = stage /\ step' = "abort"
        /\ UNCHANGED <<outputs, files, images, workflows, history>>
    BY <1>8 DEF ExecuteRaises, Abort
  <2>3. OutputsExact' /\ FilesExact'
    BY <2>1, <2>2, EarlierStagesKept
  <2> QED
    BY <2>1, <2>2, <2>3 DEF SceneFilesExact, Approved, Drawn, ResultExact
<1>16. CASE RenderRejected
  <2>1. Kept
    BY <1>16 DEF RenderRejected, Rendering, Executing, RunExact
  <2>2. /\ stage' = stage /\ step' = "abort" /\ stage = render_loop
        /\ UNCHANGED <<outputs, files, images, workflows>>
    BY <1>16 DEF RenderRejected, Rendering, Abort
  <2>3. OutputsExact' /\ FilesExact'
    BY <2>1, <2>2, EarlierStagesKept
  <2>4. Approved' = {} /\ Drawn' = Drawn
    BY <2>1, <2>2 DEF Approved, Drawn
  <2> QED
    BY <2>1, <2>2, <2>3, <2>4 DEF SceneFilesExact, ResultExact
<1>9. CASE SaveArtifact
  <2>1. Kept
    BY <1>9 DEF SaveArtifact, RunExact
  <2>2. /\ step = "executed" /\ step' = "stored"
        /\ UNCHANGED <<stage, outputs, files, images, workflows, history,
                       result>>
    BY <1>9 DEF SaveArtifact
  <2>3. OutputsExact' /\ FilesExact'
    BY <2>1, <2>2, EarlierStagesKept
  <2> QED
    BY <2>1, <2>2, <2>3 DEF SceneFilesExact, Approved, Drawn, ResultExact
<1>10. CASE SaveCheckpoint
  <2>1. Kept /\ RunExact
    BY <1>10 DEF SaveCheckpoint, RunExact
  <2>2. /\ step = "stored" /\ Record(result)
        /\ UNCHANGED <<request, files, images, workflows, history>>
    BY <1>10 DEF SaveCheckpoint
  <2>3. StageExact(result)
    BY <2>1, <2>2 DEF StageExact, ResultExact, SceneFilesExact, Approved, Drawn
  <2>4. RunExact'
    BY <2>1, <2>2, <2>3, RecordExact
  <2> QED
    BY <2>4 DEF RunExact
<1>11. CASE ExecuteFails
  <2>1. Kept
    BY <1>11 DEF ExecuteFails, Executing, RunExact
  <2>2. /\ stage' = stage /\ step' = "abort" /\ outputs' = outputs
        /\ PartlyExecuted
    BY <1>11 DEF ExecuteFails, Abort
  <2>3. OutputsExact' /\ FilesExact'
    <3>1. \A s \in FileStages : s # stage => files'[s] = files[s]
      <4>1. files \in [FileStages -> Content]
        BY DEF TypeOK
      <4> QED
        BY <2>2, <4>1 DEF PartlyExecuted
    <3> QED
      BY <2>1, <2>2, <3>1, EarlierStagesKept
  <2>4. SceneFilesExact'
    <3>1. CASE stage = render_loop
      <4>1. workflows' = workflows /\ Approved' = {} /\ Drawn' = Drawn
        BY <2>1, <2>2, <3>1 DEF PartlyExecuted, FileStages, Approved, Drawn
      <4> QED
        BY <2>1, <4>1 DEF SceneFilesExact
    <3>2. CASE stage = workflow_builder
      <4>1. Approved' = {} /\ Drawn' = {}
        BY <2>1, <2>2, <3>2 DEF Approved, Drawn
      <4> QED
        BY <4>1 DEF SceneFilesExact
    <3>3. CASE stage \notin {render_loop, workflow_builder}
      <4>1. UNCHANGED <<images, history, workflows>>
        BY <2>2, <3>3 DEF PartlyExecuted, Rendering
      <4>2. Approved' = Approved /\ Drawn' = Drawn
        BY <2>1, <2>2, <3>3 DEF Approved, Drawn
      <4> QED
        BY <2>1, <4>1, <4>2 DEF SceneFilesExact
    <3> QED
      BY <3>1, <3>2, <3>3
  <2> QED
    BY <2>2, <2>3, <2>4 DEF ResultExact
<1>12. CASE SaveFails
  <2>1. Kept
    BY <1>12 DEF SaveFails, RunExact
  <2>2. /\ stage' = stage /\ step' = "abort"
        /\ UNCHANGED <<outputs, files, images, workflows, history>>
    BY <1>12 DEF SaveFails, Abort
  <2>3. OutputsExact' /\ FilesExact'
    BY <2>1, <2>2, EarlierStagesKept
  <2> QED
    BY <2>1, <2>2, <2>3 DEF SceneFilesExact, Approved, Drawn, ResultExact
<1>13. CASE Report
  BY <1>13 DEF Report
<1>14. CASE Kill
  BY <1>14 DEF Kill
<1>15. CASE Lose
  BY <1>15 DEF Lose
<1> QED
  BY <1>1, <1>2, <1>3, <1>4, <1>5, <1>6, <1>7, <1>8, <1>9, <1>10, <1>11,
     <1>12, <1>13, <1>14, <1>15, <1>16 DEF Next, Advance

(* A run that was not resumed skips nothing.                               *)
LEMMA NextFreshInv ==
    ASSUME ConstantsAssumption, TypeOK, FreshInv, [Next]_vars
    PROVE  FreshInv'
<1> USE DEF disk, process, bounds
<1> SUFFICES ASSUME status' = "running", ~request'.resume PROVE RunExact'
  BY DEF FreshInv
<1>1. CASE \E q \in Requests : Start(q)
  <2>1. stage' = 1 /\ step' = "plan"
    BY <1>1 DEF Start
  <2>2. OutputsExact' /\ SceneFilesExact' /\ ResultExact'
    BY <2>1 DEF OutputsExact, SceneFilesExact, Approved, Drawn, ResultExact
  <2>3. FilesExact'
    BY <2>1 DEF FilesExact, FileStages
  <2> QED
    BY <2>1, <2>2, <2>3 DEF RunExact
<1>2. CASE ~\E q \in Requests : Start(q)
  <2>1. UNCHANGED request
    BY <1>2 DEF Next, Advance, vars, Skip, InputsFail, Begin, RenderScene,
       RenderRejected, Execute, ExecuteRaises, SaveArtifact, SaveCheckpoint,
       Report, ExecuteFails, SaveFails, Kill, Lose
  <2>2. ~Skip
    BY <2>1 DEF Skip, Skips
  <2>3. status = "running" => RunExact
    BY <2>1 DEF FreshInv
  <2> QED
    BY <2>2, <2>3, NextRunExact
<1> QED
  BY <1>1, <1>2

(* A run that is exact to its end delivers its Short, and its manifest      *)
(* lists every scene of it.                                                 *)
AllListed(q, pictures, graphs) == SceneIds(q.row) \subseteq pictures \cap graphs

LEMMA ExactRunDelivers ==
    ASSUME ConstantsAssumption, TypeOK, RunExact, status = "running",
           step = "report"
    PROVE  /\ Delivers(request)
           /\ AllListed(request, ListedImages, ListedWorkflows)
<1>1. stage = publisher /\ OutputsExact /\ FilesExact /\ SceneFilesExact
  BY DEF RunExact
<1>2. \A s \in FileStages \ {publisher} : files[s] = FileOf(request)[s]
  BY <1>1 DEF FilesExact, FileStages
<1>3. \A k \in SceneIds(request.row) : /\ images[k] = ImageOf(request)
                                      /\ workflows[k] = {request.row}
  BY <1>1 DEF SceneFilesExact, Approved, Drawn
<1>4. outputs[render_loop] # {} /\ outputs[workflow_builder] # {}
  <2>1. /\ outputs[8] = IdealOutput(request)[8]
        /\ outputs[7] = IdealOutput(request)[7]
    BY <1>1 DEF OutputsExact
  <2> QED
    BY <2>1 DEF IdealOutput, ImageOf
<1>5. SceneIds(request.row) \subseteq Scenes
  BY SceneIdsAreScenes DEF TypeOK, Request
<1>6. AllListed(request, ListedImages, ListedWorkflows)
  BY <1>3, <1>4, <1>5 DEF AllListed, ListedImages, ListedWorkflows, ImageOf
<1> QED
  BY <1>2, <1>3, <1>6 DEF Delivers

-----------------------------------------------------------------------------
(* Up to workflow_builder every stage reads its input by content, so that   *)
(* these stages are the run's own also in a run that was resumed after runs *)
(* of other rows: a record of another row never matches.                    *)

Planning == knowledge_load..workflow_builder

(* The output of a planning stage follows from what its fingerprint holds.  *)
Determined(s, f) ==
    CASE s = knowledge_load -> f.own
      [] s = model_director -> f.read[ai_director]
      [] OTHER -> UNION {f.read[d] : d \in FingerprintReads[s]}

PlanRecords == \A s \in Planning : checkpoints[s].status = "completed" =>
    checkpoints[s].output = Determined(s, checkpoints[s].fingerprint)

PlanIsOwn == status = "running" =>
    \A s \in Planning : s < stage => outputs[s] = {request.row}

ResultIsOwn ==
    status = "running" /\ step \in {"executed", "stored"}
      /\ stage \in Planning => result = {request.row}

PlanInv == PlanRecords /\ PlanIsOwn /\ ResultIsOwn

LEMMA PlannedOutput ==
    ASSUME TypeOK, PlanIsOwn, status = "running", stage \in Planning
    PROVE  /\ Output(stage) = {request.row}
           /\ Determined(stage, Fingerprint(stage)) = {request.row}
<1>1. \A d \in 1..7 : d < stage => outputs[d] = {request.row}
  BY DEF PlanIsOwn, Planning
<1>2. \A d \in Stages : Fingerprint(stage).read[d] =
         IF d \in FingerprintReads[stage] THEN outputs[d] ELSE {}
  BY DEF Fingerprint
<1>3. CASE stage = 1
  BY <1>3 DEF Output, Determined, Fingerprint, Directives
<1>4. CASE stage = 5
  <2>1. 3 \in FingerprintReads[5]
    BY DEF FingerprintReads
  <2> QED
    BY <1>1, <1>2, <1>4, <2>1 DEF Output, Determined
<1>5. CASE stage \in {2, 3, 4, 6, 7}
  <2> DEFINE Reads == FingerprintReads[stage]
             Read == Fingerprint(stage).read
  <2>1. Reads # {} /\ \A d \in Reads : d \in 1..6 /\ d < stage
    <3>1. /\ FingerprintReads[2] = {1} /\ FingerprintReads[3] = {2}
          /\ FingerprintReads[4] = {2, 3} /\ FingerprintReads[6] = {4}
          /\ FingerprintReads[7] = {6, 4, 5}
      BY DEF FingerprintReads
    <3> QED
      BY <1>5, <3>1
  <2>2. \A d \in Reads : outputs[d] = {request.row} /\ Read[d] = {request.row}
    BY <1>1, <1>2, <2>1
  <2>3. UNION {outputs[d] : d \in Reads} = {request.row}
    BY ONLY <2>1, <2>2, UnionOfEqual
  <2>4. UNION {Read[d] : d \in Reads} = {request.row}
    <3> HIDE DEF Read, Reads
    <3> QED
      BY ONLY <2>1, <2>2, UnionOfEqual
  <2> QED
    BY <1>5, <2>3, <2>4 DEF Output, Determined
<1> QED
  BY <1>3, <1>4, <1>5 DEF Planning

(* Recording a planning stage whose output is the run's own.                *)
LEMMA RecordOwn ==
    ASSUME TypeOK, PlanIsOwn, status = "running", NEW content,
           Record(content), request' = request,
           stage \in Planning => content = {request.row}
    PROVE  PlanIsOwn' /\ ResultIsOwn'
<1>1. stage \in 1..15 /\ outputs \in [Stages -> Content]
  BY DEF TypeOK
<1>2. /\ outputs' = [outputs EXCEPT ![stage] = content]
      /\ step' \in {"plan", "report"}
      /\ \/ stage' = stage + 1
         \/ stage = 15 /\ stage' = 15
  BY DEF Record
<1>3. \A s \in Planning : s < stage' => outputs'[s] = {request.row}
  BY <1>1, <1>2 DEF PlanIsOwn, Planning
<1> QED
  BY <1>2, <1>3 DEF PlanIsOwn, ResultIsOwn

LEMMA NextPlanInv ==
    ASSUME TypeOK, PlanInv, [Next]_vars
    PROVE  PlanInv'
<1> USE DEF disk, process, bounds
<1>0. /\ stage \in Stages /\ checkpoints \in [Stages -> Checkpoint]
      /\ PlanRecords /\ PlanIsOwn /\ ResultIsOwn
  BY DEF TypeOK, PlanInv
<1>a. ASSUME \A s \in Stages : checkpoints'[s].status = "completed" =>
                checkpoints'[s] = checkpoints[s]
      PROVE  PlanRecords'
  BY <1>a, <1>0 DEF PlanRecords, Planning
<1>b. FailedCheckpoint \/ UNCHANGED checkpoints => PlanRecords'
  <2>1. FailedCheckpoint =>
           \A s \in Stages : checkpoints'[s].status = "completed" =>
              checkpoints'[s] = checkpoints[s]
    BY <1>0 DEF FailedCheckpoint
  <2> QED
    BY <2>1, <1>a
<1>c. ASSUME UNCHANGED <<status, request, stage, outputs>>,
             step' \notin {"executed", "stored"}
      PROVE  PlanIsOwn' /\ ResultIsOwn'
  BY <1>0, <1>c DEF PlanIsOwn, ResultIsOwn
<1>1. ASSUME NEW q \in Requests, Start(q) PROVE PlanInv'
  <2>1. stage' = 1 /\ step' = "plan" /\ UNCHANGED checkpoints
    BY <1>1 DEF Start
  <2>2. PlanIsOwn' /\ ResultIsOwn'
    BY <2>1 DEF PlanIsOwn, ResultIsOwn, Planning
  <2> QED
    BY <2>1, <2>2, <1>b DEF PlanInv
<1>2. CASE UNCHANGED vars
  BY <1>2, <1>0, <1>b DEF vars, PlanInv, PlanIsOwn, ResultIsOwn
<1>3. CASE Skip
  <2>1. /\ status = "running" /\ request' = request /\ UNCHANGED checkpoints
        /\ Record(checkpoints[stage].output)
        /\ checkpoints[stage].status = "completed"
        /\ checkpoints[stage].fingerprint = Fingerprint(stage)
    BY <1>3 DEF Skip, Skips, Matches
  <2>2. stage \in Planning => checkpoints[stage].output = {request.row}
    BY <1>0, <2>1, PlannedOutput DEF PlanRecords
  <2> QED
    BY <1>0, <2>1, <2>2, <1>b, RecordOwn DEF PlanInv
<1>4. CASE InputsFail \/ Begin \/ RenderScene
  BY <1>4, <1>b, <1>c
  DEF InputsFail, Begin, RenderScene, Rendering, Executing, Abort, PlanInv
<1>5. CASE Execute
  <2>1. /\ status = "running" /\ result' = Output(stage)
        /\ UNCHANGED <<checkpoints, request, status, stage, outputs>>
    BY <1>5 DEF Execute, Executing
  <2>2. PlanIsOwn'
    BY <1>0, <2>1 DEF PlanIsOwn
  <2>3. ResultIsOwn'
    BY <1>0, <2>1, PlannedOutput DEF ResultIsOwn
  <2> QED
    BY <2>1, <2>2, <2>3, <1>b DEF PlanInv
<1>6. CASE ExecuteRaises \/ RenderRejected
  BY <1>6, <1>b, <1>c DEF ExecuteRaises, RenderRejected, Abort, PlanInv
<1>7. CASE SaveArtifact
  <2>1. /\ step = "executed"
        /\ UNCHANGED <<checkpoints, request, status, stage, outputs, result>>
    BY <1>7 DEF SaveArtifact
  <2> QED
    BY <1>0, <2>1, <1>b DEF PlanInv, PlanIsOwn, ResultIsOwn
<1>8. CASE SaveCheckpoint
  <2>1. /\ status = "running" /\ step = "stored" /\ Record(result)
        /\ request' = request
        /\ \A s \in Stages : s # stage => checkpoints'[s] = checkpoints[s]
        /\ checkpoints'[stage].fingerprint = Fingerprint(stage)
        /\ checkpoints'[stage].output = result
    BY <1>0, <1>8 DEF SaveCheckpoint
  <2>2. stage \in Planning =>
           /\ result = {request.row}
           /\ Determined(stage, Fingerprint(stage)) = {request.row}
    BY <1>0, <2>1, PlannedOutput DEF ResultIsOwn
  <2>3. ASSUME NEW s \in Planning, checkpoints'[s].status = "completed"
        PROVE  checkpoints'[s].output =
                  Determined(s, checkpoints'[s].fingerprint)
    <3>1. CASE s = stage
      BY <2>1, <2>2, <3>1
    <3>2. CASE s # stage
      <4>1. checkpoints'[s] = checkpoints[s]
        BY <2>1, <3>2 DEF Planning
      <4> QED
        BY <1>0, <2>3, <4>1 DEF PlanRecords
    <3> QED
      BY <3>1, <3>2
  <2>4. PlanRecords'
    BY <2>3 DEF PlanRecords
  <2> QED
    BY <1>0, <2>1, <2>2, <2>4, RecordOwn DEF PlanInv
<1>9. CASE Report
  BY <1>9, <1>b DEF Report, PlanInv, PlanIsOwn, ResultIsOwn
<1>10. CASE ExecuteFails \/ SaveFails
  BY <1>10, <1>b, <1>c DEF ExecuteFails, SaveFails, Abort, PlanInv
<1>11. CASE Kill
  BY <1>11, <1>b DEF Kill, PlanInv, PlanIsOwn, ResultIsOwn
<1>12. CASE Lose
  <2>1. \A s \in Stages : checkpoints'[s].status = "completed" =>
           checkpoints'[s] = checkpoints[s]
    BY <1>0, <1>12 DEF Lose, NoCheckpoint
  <2>2. status' # "running"
    BY <1>12 DEF Lose
  <2> QED
    BY <2>1, <2>2, <1>a DEF PlanInv, PlanIsOwn, ResultIsOwn
<1> QED
  BY <1>1, <1>2, <1>3, <1>4, <1>5, <1>6, <1>7, <1>8, <1>9, <1>10, <1>11,
     <1>12 DEF Next, Advance

LEMMA PlanInvHolds == Spec => []PlanInv
<1>1. Init => PlanInv
  BY DEF Init, PlanInv, PlanRecords, PlanIsOwn, ResultIsOwn, Planning,
         NoCheckpoint
<1>2. TypeOK /\ PlanInv /\ [Next]_vars => PlanInv'
  BY NextPlanInv
<1> QED
  BY <1>1, <1>2, Typing, PTL DEF Spec

(* Whatever the runs ask for and however they are cut short: the plan, the  *)
(* storyboard, the prompts and the workflows a run works with are those of  *)
(* its own row, skipped or executed.                                        *)
THEOREM PlanAlwaysOwn == Spec => []PlanIsOwn
<1>1. PlanInv => PlanIsOwn
  BY DEF PlanInv
<1> QED
  BY <1>1, PlanInvHolds, PTL

-----------------------------------------------------------------------------
(* What lies in images/ and workflow/ is of rows that have such a scene.    *)

LeftInv == \A k \in Scenes : /\ images[k] # {} => LeftOver(k)
                             /\ workflows[k] # {} => LeftWorkflow(k)

LEMMA OwnStoryboard ==
    ASSUME ConstantsAssumption, TypeOK, PlanIsOwn, status = "running",
           stage > visual_intelligence
    PROVE  Storyboard = SceneIds(request.row)
<1>1. request.row \in Rows /\ SceneIds(request.row) \subseteq Scenes
  BY SceneIdsAreScenes DEF TypeOK, Request
<1>2. outputs[4] = {request.row}
  BY DEF PlanIsOwn, Planning
<1>3. outputs[4] \cap Rows = {request.row}
  BY <1>1, <1>2
<1> QED
  BY <1>1, <1>3 DEF Storyboard

(* A scene's history is never emptied, so that what lies in images/ stays   *)
(* accounted for when only other scenes change.                             *)
LEMMA LeftKept ==
    ASSUME ConstantsAssumption, TypeOK, LeftInv, NEW r \in Rows,
           NEW k \in SceneIds(r), NEW content \in Content, content # {},
           \/ history' = history /\ images' = images
           \/ /\ history' = [history EXCEPT ![r][k] = content]
              /\ \A l \in Scenes : l # k => images'[l] = images[l]
    PROVE  \A l \in Scenes : images'[l] # {} => LeftOver(l)'
<1>1. /\ history \in [Rows -> [Scenes -> Content]] /\ k \in Scenes
  BY SceneIdsAreScenes DEF TypeOK
<1>2. \A l \in Scenes : images[l] # {} => LeftOver(l)
  BY DEF LeftInv
<1>3. CASE history' = history /\ images' = images
  BY <1>2, <1>3 DEF LeftOver
<1>4. CASE /\ history' = [history EXCEPT ![r][k] = content]
           /\ \A l \in Scenes : l # k => images'[l] = images[l]
  <2>1. history'[r][k] # {}
    BY <1>1, <1>4
  <2>2. \A p \in Rows : \A l \in Scenes :
           history[p][l] # {} => history'[p][l] # {}
    BY <1>1, <1>4
  <2>3. LeftOver(k)'
    BY <2>1 DEF LeftOver
  <2>4. ASSUME NEW l \in Scenes, l # k, images'[l] # {} PROVE LeftOver(l)'
    <3>1. PICK p \in Rows : l \in SceneIds(p) /\ history[p][l] # {}
      BY <1>2, <1>4, <2>4 DEF LeftOver
    <3>2. history'[p][l] # {}
      BY <2>2, <3>1
    <3> QED
      BY <3>1, <3>2 DEF LeftOver
  <2> QED
    BY <2>3, <2>4
<1> QED
  BY <1>3, <1>4

LEMMA SceneImageMade ==
    ASSUME TypeOK, status = "running"
    PROVE  SceneImage # {} /\ SceneImage \in Content
  BY SceneImageType DEF SceneImage

LEMMA PartlyExecutedLeft ==
    ASSUME ConstantsAssumption, TypeOK, PlanIsOwn, LeftInv,
           status = "running", PartlyExecuted
    PROVE  LeftInv'
<1>0. request.row \in Rows /\ {Torn} \in Content
  BY DEF TypeOK, Request, Content, Token
<1>1. ASSUME workflows' = workflows
      PROVE  \A k \in Scenes : workflows'[k] # {} => LeftWorkflow(k)'
  BY <1>1 DEF LeftInv, LeftWorkflow
<1>2. ASSUME UNCHANGED <<history, images>>
      PROVE  \A k \in Scenes : images'[k] # {} => LeftOver(k)'
  BY <1>2 DEF LeftInv, LeftOver
<1>3. CASE UNCHANGED <<history, images, workflows>>
  BY <1>1, <1>2, <1>3 DEF LeftInv
<1>4. CASE /\ stage = workflow_builder
           /\ \E last \in Storyboard :
              \E content \in {Output(stage), {Torn}} :
                 workflows' = [k \in Scenes |->
                     IF k < last THEN Output(stage)
                     ELSE IF k = last THEN content ELSE workflows[k]]
           /\ UNCHANGED <<history, images, files>>
  <2>1. Storyboard = SceneIds(request.row) /\ Output(stage) = {request.row}
    BY <1>4, OwnStoryboard, PlannedOutput DEF Planning
  <2>0. PICK last \in Storyboard : \E content \in {Output(stage), {Torn}} :
           workflows' = [k \in Scenes |->
               IF k < last THEN Output(stage)
               ELSE IF k = last THEN content ELSE workflows[k]]
    BY <1>4
  <2>5. PICK content \in {Output(stage), {Torn}} :
           workflows' = [k \in Scenes |->
               IF k < last THEN Output(stage)
               ELSE IF k = last THEN content ELSE workflows[k]]
    BY <2>0
  <2>2. \A k \in Scenes : workflows'[k] =
           IF k < last THEN Output(stage)
           ELSE IF k = last THEN content ELSE workflows[k]
    BY <2>5
  <2>3. \A k \in Scenes : k < last => k \in SceneIds(request.row)
    <3>1. SceneCount[request.row] \in Nat /\ last \in SceneIds(request.row)
      BY <1>0, <2>1, <2>0, SceneIdsAreScenes
    <3> QED
      BY <3>1 DEF SceneIds, Scenes, ConstantsAssumption
  <2>4. ASSUME NEW k \in Scenes, workflows'[k] # {} PROVE LeftWorkflow(k)'
    <3>1. CASE k < last \/ k = last
      <4>1. k \in SceneIds(request.row)
        BY <2>1, <2>3, <3>1
      <4>2. workflows'[k] \in {{request.row}, {Torn}}
        BY <2>1, <2>2, <2>5, <3>1
      <4> QED
        BY <1>0, <4>1, <4>2 DEF LeftWorkflow
    <3>2. CASE ~(k < last \/ k = last)
      BY <2>2, <2>4, <3>2 DEF LeftInv, LeftWorkflow
    <3> QED
      BY <3>1, <3>2
  <2> QED
    BY <1>2, <1>4, <2>4 DEF LeftInv
<1>5. CASE /\ Rendering
           /\ \E content \in {SceneImage, {Torn}} :
                 history' = [history EXCEPT ![request.row][NextScene]
                                              = content]
           /\ images' \in {images, [images EXCEPT ![NextScene] = {Torn}]}
           /\ UNCHANGED <<workflows, files>>
  <2>1. NextScene \in SceneIds(request.row)
    BY <1>5, OwnStoryboard DEF Rendering
  <2>2. PICK content \in {SceneImage, {Torn}} :
           history' = [history EXCEPT ![request.row][NextScene] = content]
    BY <1>5
  <2>3. content \in Content /\ content # {}
    BY <1>0, <2>2, SceneImageMade
  <2>4. \A l \in Scenes : l # NextScene => images'[l] = images[l]
    BY <1>5 DEF TypeOK
  <2>5. \A k \in Scenes : images'[k] # {} => LeftOver(k)'
    BY <1>0, <2>1, <2>2, <2>3, <2>4, LeftKept
  <2> QED
    BY <1>1, <1>5, <2>5 DEF LeftInv
<1> QED
  BY <1>3, <1>4, <1>5 DEF PartlyExecuted

LEMMA NextLeftInv ==
    ASSUME ConstantsAssumption, TypeOK, PlanInv, LeftInv, [Next]_vars
    PROVE  LeftInv'
<1> USE DEF disk, process, bounds
<1>0. PlanIsOwn
  BY DEF PlanInv
<1>1. ASSUME UNCHANGED <<history, images, workflows>> PROVE LeftInv'
  BY <1>1 DEF LeftInv, LeftOver, LeftWorkflow
<1>2. ASSUME workflows' = workflows
      PROVE  \A k \in Scenes : workflows'[k] # {} => LeftWorkflow(k)'
  BY <1>2 DEF LeftInv, LeftWorkflow
<1>3. CASE RenderScene \/ RenderRejected
  <2>1. /\ status = "running" /\ Rendering /\ workflows' = workflows
        /\ \/ history' = history /\ images' = images
           \/ /\ history' = [history EXCEPT ![request.row][NextScene]
                                               = SceneImage]
              /\ \A l \in Scenes : l # NextScene => images'[l] = images[l]
    BY <1>3 DEF RenderScene, RenderRejected, Rendering, Executing, TypeOK
  <2>2. request.row \in Rows /\ NextScene \in SceneIds(request.row)
    BY <1>0, <2>1, OwnStoryboard DEF Rendering, TypeOK, Request
  <2>3. \A k \in Scenes : images'[k] # {} => LeftOver(k)'
    BY <2>1, <2>2, SceneImageMade, LeftKept
  <2> QED
    BY <1>2, <2>1, <2>3 DEF LeftInv
<1>4. CASE Execute
  <2>1. status = "running" /\ UNCHANGED <<history, images>>
    BY <1>4 DEF Execute, Executing
  <2>2. \A k \in Scenes : images'[k] # {} => LeftOver(k)'
    BY <2>1 DEF LeftInv, LeftOver
  <2>3. CASE stage = workflow_builder
    <3>1. /\ Storyboard = SceneIds(request.row) /\ request.row \in Rows
          /\ Output(stage) = {request.row}
      BY <1>0, <2>1, <2>3, OwnStoryboard, PlannedOutput
      DEF Planning, TypeOK, Request
    <3>2. workflows' = [k \in Scenes |->
             IF k \in SceneIds(request.row) THEN {request.row}
             ELSE workflows[k]]
      BY <1>4, <2>3, <3>1 DEF Execute
    <3>3. ASSUME NEW k \in Scenes, workflows'[k] # {} PROVE LeftWorkflow(k)'
      BY <3>1, <3>2, <3>3 DEF LeftInv, LeftWorkflow
    <3> QED
      BY <2>2, <3>3 DEF LeftInv
  <2>4. CASE stage # workflow_builder
    BY <1>1, <1>4, <2>1, <2>4 DEF Execute
  <2> QED
    BY <2>3, <2>4
<1>5. CASE ExecuteFails
  BY <1>0, <1>5, PartlyExecutedLeft DEF ExecuteFails, Executing
<1>6. CASE Kill
  <2>1. CASE step = "execute"
    BY <1>0, <1>6, <2>1, PartlyExecutedLeft DEF Kill
  <2>2. CASE step # "execute"
    BY <1>1, <1>6, <2>2 DEF Kill
  <2> QED
    BY <2>1, <2>2
<1>7. CASE Lose
  <2>1. history' = history
    BY <1>7 DEF Lose
  <2>2. \A k \in Scenes :
           /\ images'[k] = images[k] \/ images'[k] = {}
           /\ workflows'[k] = workflows[k] \/ workflows'[k] = {}
    <3>1. images \in [Scenes -> Content] /\ workflows \in [Scenes -> Content]
      BY DEF TypeOK
    <3> QED
      BY <1>7, <3>1 DEF Lose
  <2> SUFFICES ASSUME NEW k \in Scenes
               PROVE  /\ images'[k] # {} => LeftOver(k)'
                      /\ workflows'[k] # {} => LeftWorkflow(k)'
    BY DEF LeftInv
  <2>3. ASSUME images'[k] # {} PROVE LeftOver(k)'
    <3>0. images[k] # {}
      BY ONLY <2>2, <2>3, k \in Scenes, Zenon
    <3>1. LeftOver(k)
      BY ONLY <3>0, LeftInv, k \in Scenes DEF LeftInv
    <3> QED
      BY <2>1, <3>1 DEF LeftOver
  <2>4. ASSUME workflows'[k] # {} PROVE LeftWorkflow(k)'
    <3>0. workflows[k] # {} /\ workflows'[k] = workflows[k]
      BY ONLY <2>2, <2>4, k \in Scenes, Zenon
    <3>1. LeftWorkflow(k)
      BY ONLY <3>0, LeftInv, k \in Scenes DEF LeftInv
    <3> QED
      BY <3>0, <3>1 DEF LeftWorkflow
  <2> QED
    BY <2>3, <2>4
<1>8. CASE ~(RenderScene \/ RenderRejected \/ Execute \/ ExecuteFails
               \/ Kill \/ Lose)
  <2>1. UNCHANGED <<history, images, workflows>>
    BY <1>8 DEF Next, Advance, vars, Start, Skip, InputsFail, Begin,
       ExecuteRaises, SaveArtifact, SaveCheckpoint, Report, SaveFails
  <2> QED
    BY <1>1, <2>1
<1> QED
  BY <1>3, <1>4, <1>5, <1>6, <1>7, <1>8

LEMMA LeftInvHolds == Spec => []LeftInv
<1>1. Init => LeftInv
  BY DEF Init, LeftInv
<1>2. TypeOK /\ PlanInv /\ LeftInv /\ [Next]_vars => LeftInv'
  BY NextLeftInv, ConstantsAssumption
<1> QED
  BY <1>1, <1>2, Typing, PlanInvHolds, PTL DEF Spec

-----------------------------------------------------------------------------
(* A run that was not resumed gets past a stage or a scene only if it can   *)
(* be made so far.                                                          *)

Done(s) == s < stage \/ (s = stage /\ step \in {"executed", "stored", "report"})

MadeSoFar ==
    /\ \A s \in Stages : Done(s) => <<request.row, s>> \notin Refused
    /\ \A k \in Approved : <<request.row, request.seed, k>> \notin Rejected
    /\ Done(publisher) /\ request.publish => request.row \in Publishable

MadeInv == status = "running" /\ ~request.resume => MadeSoFar

LEMMA NextMadeInv ==
    ASSUME ConstantsAssumption, TypeOK, FreshInv, MadeInv, [Next]_vars
    PROVE  MadeInv'
<1> USE DEF disk, process, bounds
<1> SUFFICES ASSUME status' = "running", ~request'.resume PROVE MadeSoFar'
  BY DEF MadeInv
<1>0. stage \in 1..15 /\ rendered \in Nat
  BY DEF TypeOK
<1>1. ASSUME NEW q \in Requests, Start(q) PROVE MadeSoFar'
  <2>1. stage' = 1 /\ step' = "plan"
    BY <1>1 DEF Start
  <2> QED
    BY <2>1 DEF MadeSoFar, Done, Approved
<1>2. ASSUME MadeSoFar, request' = request, Approved' \subseteq Approved,
             \A s \in Stages : Done(s)' => Done(s)
      PROVE  MadeSoFar'
  BY <1>2 DEF MadeSoFar
<1>3. CASE UNCHANGED vars
  BY <1>3 DEF vars, MadeInv, MadeSoFar, Done, Approved
<1>4. CASE Execute
  <2>1. /\ MadeSoFar /\ RunExact /\ request' = request
        /\ CanExecute(stage) /\ stage' = stage /\ step' = "executed"
    BY <1>4 DEF Execute, Executing, MadeInv, FreshInv
  <2>2. Approved' \subseteq Approved
    BY <1>4, <2>1, AllScenesRendered DEF RunExact
  <2>3. \A s \in Stages : Done(s)' => Done(s) \/ s = stage
    BY <2>1 DEF Done
  <2>4. <<request.row, stage>> \notin Refused
    BY <2>1 DEF CanExecute
  <2>5. stage = publisher /\ request.publish => request.row \in Publishable
    <3>1. stage = 15 => outputs[14] = IdealOutput(request)[14]
      BY <2>1 DEF RunExact, OutputsExact
    <3>2. IdealOutput(request)[14] = {request.row}
      BY DEF IdealOutput
    <3> QED
      BY <2>1, <3>1, <3>2 DEF CanExecute
  <2> QED
    BY <2>1, <2>2, <2>3, <2>4, <2>5 DEF MadeSoFar
<1>5. CASE RenderScene
  <2>1. /\ MadeSoFar /\ UNCHANGED <<request, stage, step>>
        /\ rendered' = rendered + 1 /\ stage = render_loop
        /\ step = "execute"
        /\ <<request.row, request.seed, rendered + 1>> \notin Rejected
    BY <1>5 DEF RenderScene, Rendering, Passes, NextScene, Executing, MadeInv
  <2>2. Approved' = 1..(rendered + 1) /\ Approved = 1..rendered
    BY <2>1 DEF Approved
  <2>3. \A k \in Approved' : k \in Approved \/ k = rendered + 1
    BY <1>0, <2>2
  <2>4. \A s \in Stages : Done(s)' => Done(s)
    BY <2>1 DEF Done
  <2> QED
    BY <2>1, <2>3, <2>4 DEF MadeSoFar
<1>6. CASE SaveCheckpoint
  <2>1. /\ MadeSoFar /\ request' = request /\ step = "stored"
        /\ \/ step' = "report" /\ stage' = stage /\ stage = publisher
           \/ step' = "plan" /\ stage' = stage + 1
    BY <1>6 DEF SaveCheckpoint, Record, MadeInv
  <2>2. Approved' \subseteq Approved /\ \A s \in Stages : Done(s)' => Done(s)
    BY <1>0, <2>1 DEF Approved, Done
  <2> QED
    BY <1>2, <2>1, <2>2
<1>7. CASE InputsFail \/ Begin \/ ExecuteRaises \/ RenderRejected
             \/ ExecuteFails \/ SaveFails
  <2>1. /\ MadeSoFar /\ UNCHANGED <<request, stage>>
        /\ \/ step' = "abort"
           \/ step = "plan" /\ step' = "execute" /\ rendered' = 0
    BY <1>7 DEF InputsFail, Begin, ExecuteRaises, RenderRejected,
       ExecuteFails, SaveFails, Abort, Executing, MadeInv, Rendering
  <2>2. Approved' \subseteq Approved /\ \A s \in Stages : Done(s)' => Done(s)
    BY <1>0, <2>1 DEF Approved, Done
  <2> QED
    BY <1>2, <2>1, <2>2
<1>8. CASE SaveArtifact
  <2>1. /\ MadeSoFar /\ UNCHANGED <<request, stage>>
        /\ step = "executed" /\ step' = "stored"
    BY <1>8 DEF SaveArtifact, MadeInv
  <2>2. Approved' \subseteq Approved /\ \A s \in Stages : Done(s)' => Done(s)
    BY <1>0, <2>1 DEF Approved, Done
  <2> QED
    BY <1>2, <2>1, <2>2
<1>9. CASE Skip
  BY <1>9 DEF Skip, Skips
<1>10. CASE Report \/ Kill \/ Lose
  BY <1>10 DEF Report, Kill, Lose
<1> QED
  BY <1>1, <1>3, <1>4, <1>5, <1>6, <1>7, <1>8, <1>9, <1>10 DEF Next, Advance

LEMMA FreshInvImpliesExact ==
    ASSUME ConstantsAssumption, TypeOK, FreshInv, MadeInv, LeftInv
    PROVE  FreshRunIsExact
<1> SUFFICES ASSUME Completing, ~request.resume
             PROVE  /\ Delivers(request) /\ CanBeMade(request)
                    /\ SceneIds(request.row)
                          \subseteq ListedImages \cap ListedWorkflows
                    /\ \A k \in ListedImages \ SceneIds(request.row) :
                          LeftOver(k)
                    /\ \A k \in ListedWorkflows \ SceneIds(request.row) :
                          LeftWorkflow(k)
  BY DEF FreshRunIsExact
<1>1. RunExact /\ status = "running" /\ step = "report"
  BY DEF FreshInv, Completing
<1>2. Delivers(request) /\ AllListed(request, ListedImages, ListedWorkflows)
  BY <1>1, ExactRunDelivers
<1>3. CanBeMade(request)
  <2>1. MadeSoFar /\ stage = publisher
    BY <1>1 DEF MadeInv, RunExact
  <2>2. Approved = SceneIds(request.row) /\ \A s \in Stages : Done(s)
    BY <1>1, <2>1 DEF Approved, Done
  <2> QED
    BY <2>1, <2>2 DEF MadeSoFar, CanBeMade
<1>4. /\ \A k \in ListedImages : LeftOver(k)
      /\ \A k \in ListedWorkflows : LeftWorkflow(k)
  BY DEF ListedImages, ListedWorkflows, LeftInv
<1> QED
  BY <1>2, <1>3, <1>4 DEF AllListed

(* A run that was not resumed delivers and lists exactly the Short of its   *)
(* own directives, whatever earlier runs, faults and losses left behind,    *)
(* and whatever else it lists are scenes its row does not have, of a row    *)
(* that has them.                                                           *)
THEOREM FreshRun == Spec => []FreshRunIsExact
<1>1. Init => FreshInv /\ MadeInv
  BY DEF Init, FreshInv, MadeInv
<1>2. TypeOK /\ FreshInv /\ MadeInv /\ [Next]_vars => FreshInv' /\ MadeInv'
  BY NextFreshInv, NextMadeInv, ConstantsAssumption
<1>3. TypeOK /\ FreshInv /\ MadeInv /\ LeftInv => FreshRunIsExact
  BY FreshInvImpliesExact, ConstantsAssumption
<1> QED
  BY <1>1, <1>2, <1>3, Typing, LeftInvHolds, PTL DEF Spec

-----------------------------------------------------------------------------
(* Checkpoints and artifacts: what every run keeps, resumed or not.        *)

Completed(s) == checkpoints[s].status = "completed"

(* The checkpoint lets its stage be skipped, the fingerprint apart.        *)
Recorded(s) == Completed(s) /\ Has(s, checkpoints[s].output)

(* Nothing changes the bytes of an artifact behind the store's back.       *)
Undamaged == "damage" \notin LossKinds

(* The stages the running process is done with.                            *)
Behind(s) == s < stage \/ step = "report"

NothingDamaged == losses = 0 \/ Undamaged => \A s \in Stages : damaged[s] = {}

RunIsBacked == status = "running" =>
    /\ step = "stored" => result \in artifacts[stage]
    /\ step = "report" => stage = publisher
    /\ \A s \in Stages : Behind(s) =>
          Completed(s) /\ checkpoints[s].output \in artifacts[s]

Backing == NothingDamaged /\ CheckpointsAreBacked /\ RunIsBacked

LEMMA InitBacking == Init => Backing
  BY DEF Init, Backing, NothingDamaged, CheckpointsAreBacked, RunIsBacked,
         NoCheckpoint

(* Recording a stage whose checkpoint is backed.                           *)
LEMMA RecordBacked ==
    ASSUME TypeOK, RunIsBacked, NEW content, Record(content),
           status = "running", step \in {"plan", "stored"},
           artifacts' = artifacts,
           \A s \in Stages : s # stage => checkpoints'[s] = checkpoints[s],
           checkpoints'[stage].status = "completed",
           checkpoints'[stage].output \in artifacts[stage]
    PROVE  RunIsBacked'
<1>0. stage \in 1..15
  BY DEF TypeOK
<1>1. \A s \in Stages : s < stage \/ s = stage =>
         /\ checkpoints'[s].status = "completed"
         /\ checkpoints'[s].output \in artifacts'[s]
  BY DEF RunIsBacked, Behind, Completed
<1>2. /\ step' \in {"plan", "report"}
      /\ step' = "report" => stage = 15 /\ stage' = 15
      /\ step' = "plan" => stage' = stage + 1
  BY DEF Record
<1>3. \A s \in Stages : s < stage' \/ step' = "report" => s < stage \/ s = stage
  BY <1>0, <1>2
<1> QED
  BY <1>1, <1>2, <1>3 DEF RunIsBacked, Behind, Completed

LEMMA NextBacking ==
    ASSUME TypeOK, Backing, [Next]_vars
    PROVE  Backing'
<1> USE DEF disk, process, bounds
<1>0. stage \in Stages /\ losses \in Nat
  BY DEF TypeOK
<1> DEFINE Same == UNCHANGED <<checkpoints, artifacts, damaged, losses>>
<1>a. ASSUME Same, RunIsBacked' PROVE Backing'
  BY <1>a DEF Backing, NothingDamaged, CheckpointsAreBacked
<1>b. ASSUME Same, UNCHANGED <<status, stage, result>>,
             step' \notin {"stored", "report"}
      PROVE  Backing'
  BY <1>a, <1>b DEF Backing, RunIsBacked, Behind, Completed
<1>c. ASSUME Same, status' # "running" PROVE Backing'
  BY <1>a, <1>c DEF RunIsBacked
(* A failed checkpoint takes the place of whatever was there.              *)
<1>d. ASSUME FailedCheckpoint, UNCHANGED <<artifacts, damaged, losses>>,
             status' = status, stage' = stage, step = "execute",
             step' = "abort"
      PROVE  Backing'
  <2>1. \A s \in Stages : s # stage => checkpoints'[s] = checkpoints[s]
    BY <1>d DEF FailedCheckpoint, TypeOK
  <2>2. checkpoints'[stage].status = "failed"
    BY <1>0, <1>d DEF FailedCheckpoint, TypeOK
  <2>3. CheckpointsAreBacked'
    BY <1>d, <2>1, <2>2 DEF Backing, CheckpointsAreBacked
  <2>4. RunIsBacked'
    BY <1>d, <2>1 DEF Backing, RunIsBacked, Behind, Completed
  <2> QED
    BY <1>d, <2>3, <2>4 DEF Backing, NothingDamaged
<1>1. ASSUME NEW q \in Requests, Start(q) PROVE Backing'
  <2>1. Same /\ stage' = 1 /\ step' = "plan"
    BY <1>1 DEF Start
  <2>2. RunIsBacked'
    BY <2>1 DEF RunIsBacked, Behind
  <2> QED
    BY <2>1, <2>2, <1>a
<1>2. CASE UNCHANGED vars
  <2>1. Same /\ RunIsBacked'
    BY <1>2 DEF vars, Backing, RunIsBacked, Behind, Completed
  <2> QED
    BY <2>1, <1>a
<1>3. CASE Skip
  <2>1. /\ Completed(stage) /\ checkpoints[stage].output \in artifacts[stage]
        /\ Record(checkpoints[stage].output) /\ Same
        /\ status = "running" /\ step = "plan"
    BY <1>3 DEF Skip, Skips, Matches, Has, Completed
  <2>2. RunIsBacked'
    BY <2>1, RecordBacked DEF Backing, Completed
  <2> QED
    BY <2>1, <2>2, <1>a
<1>4. CASE InputsFail \/ Begin \/ RenderScene
  BY <1>4, <1>b DEF InputsFail, Begin, RenderScene, Rendering, Abort, Executing
<1>5. CASE Execute
  <2>1. Same /\ stage' = stage /\ step' = "executed" /\ step = "execute"
    BY <1>5 DEF Execute, Executing
  <2>2. RunIsBacked'
    BY <1>5, <2>1 DEF Execute, Executing, Backing, RunIsBacked, Behind, Completed
  <2> QED
    BY <2>1, <2>2, <1>a
<1>6. CASE ExecuteRaises \/ RenderRejected
  BY <1>6, <1>d DEF ExecuteRaises, RenderRejected, Rendering, Executing, Abort
<1>7. CASE SaveArtifact
  <2>1. /\ UNCHANGED <<checkpoints, damaged, losses, status, stage, result>>
        /\ step = "executed" /\ step' = "stored" /\ status = "running"
        /\ artifacts' = [artifacts EXCEPT ![stage] = @ \cup {result}]
        /\ artifacts \in [Stages -> SUBSET Content]
    BY <1>7 DEF SaveArtifact, TypeOK
  <2>2. /\ \A s \in Stages : artifacts[s] \subseteq artifacts'[s]
        /\ result \in artifacts'[stage]
    BY <1>0, <2>1
  <2>3. CheckpointsAreBacked'
    BY <2>1, <2>2 DEF Backing, CheckpointsAreBacked
  <2>4. RunIsBacked'
    BY <2>1, <2>2 DEF Backing, RunIsBacked, Behind, Completed
  <2> QED
    BY <2>1, <2>3, <2>4 DEF Backing, NothingDamaged
<1>8. CASE SaveCheckpoint
  <2>1. /\ UNCHANGED <<artifacts, damaged, losses, status>>
        /\ status = "running" /\ step = "stored" /\ Record(result)
    BY <1>8 DEF SaveCheckpoint
  <2>2. \A s \in Stages : s # stage => checkpoints'[s] = checkpoints[s]
    BY <1>8 DEF SaveCheckpoint, TypeOK
  <2>3. /\ checkpoints'[stage].status = "completed"
        /\ checkpoints'[stage].output = result
    BY <1>0, <1>8 DEF SaveCheckpoint, TypeOK
  <2>4. result \in artifacts[stage]
    BY <2>1 DEF Backing, RunIsBacked
  <2>5. RunIsBacked'
    BY <2>1, <2>2, <2>3, <2>4, RecordBacked DEF Backing
  <2>6. CheckpointsAreBacked'
    BY <2>1, <2>2, <2>3, <2>4 DEF Backing, CheckpointsAreBacked
  <2> QED
    BY <2>1, <2>5, <2>6 DEF Backing, NothingDamaged
<1>9. CASE Report
  BY <1>9, <1>c DEF Report
<1>10. CASE ExecuteFails
  <2>1. CASE FailedCheckpoint
    BY <1>10, <2>1, <1>d DEF ExecuteFails, Executing, Abort
  <2>2. CASE UNCHANGED checkpoints
    BY <1>10, <2>2, <1>b DEF ExecuteFails, Executing, Abort
  <2> QED
    BY <1>10, <2>1, <2>2 DEF ExecuteFails
<1>11. CASE SaveFails
  BY <1>11, <1>b DEF SaveFails, Abort
<1>12. CASE Kill
  BY <1>12, <1>c DEF Kill
<1>13. CASE Lose
  <2>1. losses' = losses + 1 /\ status # "running" /\ status' = status
    BY <1>13 DEF Lose
  <2>2. CheckpointsAreBacked' /\ RunIsBacked'
    BY <1>0, <2>1 DEF CheckpointsAreBacked, RunIsBacked
  <2>3. NothingDamaged'
    <3>1. ASSUME Undamaged, NEW s \in Stages PROVE damaged'[s] = {}
      <4>1. damaged[s] = {} /\ damaged \in [Stages -> SUBSET Content]
        BY <3>1 DEF Backing, NothingDamaged, TypeOK
      <4> QED
        BY <1>13, <3>1, <4>1 DEF Lose, Undamaged
    <3> QED
      BY <1>0, <2>1, <3>1 DEF NothingDamaged
  <2> QED
    BY <2>2, <2>3 DEF Backing
<1> QED
  BY <1>1, <1>2, <1>3, <1>4, <1>5, <1>6, <1>7, <1>8, <1>9, <1>10, <1>11,
     <1>12, <1>13 DEF Next, Advance

LEMMA BackingHolds == Spec => []Backing
<1>1. Init => Backing
  BY InitBacking
<1>2. TypeOK /\ Backing /\ [Next]_vars => Backing'
  BY NextBacking
<1> QED
  BY <1>1, <1>2, Typing, PTL DEF Spec

(* A completed checkpoint is never ahead of its artifact, however the runs *)
(* are asked for and cut short.                                            *)
THEOREM CheckpointsBacked == Spec => []CheckpointsAreBacked
<1>1. Backing => CheckpointsAreBacked
  BY DEF Backing
<1> QED
  BY <1>1, BackingHolds, PTL

LEMMA BackingIntact ==
    ASSUME Undamaged, Backing
    PROVE  RecordedArtifactsIntact
  BY DEF Backing, NothingDamaged, RunIsBacked, RecordedArtifactsIntact,
         Completing, Behind

(* Where no artifact is damaged behind the store's back, a run that ends   *)
(* "complete" leaves every artifact its checkpoints record intact.         *)
THEOREM ArtifactsIntact ==
    ASSUME Undamaged
    PROVE  Spec => []RecordedArtifactsIntact
<1>1. Backing => RecordedArtifactsIntact
  BY BackingIntact
<1> QED
  BY <1>1, BackingHolds, PTL

-----------------------------------------------------------------------------
(* One Short, resumed until it is complete.  Every run that can be made     *)
(* names the same row and seed, every other row is one knowledge_load       *)
(* refuses, every run resumes, and nothing else removes the files of the    *)
(* Short: without any of these a stage may be skipped whose files are       *)
(* another Short's or are gone.                                             *)
Makeable == {q \in Requests : CanBeMade(q)}

SameShort ==
    /\ \A p, q \in Makeable : p.row = q.row /\ p.seed = q.seed
    /\ \A q \in Requests :
          q.resume /\ (CanBeMade(q) \/ <<q.row, knowledge_load>> \in Refused)
    /\ LossKinds \cap {"file", "image"} = {}

(* The fingerprint a stage has in a run of q in an empty directory.         *)
IdealDirectives(q, s) ==
    CASE s = knowledge_load -> {q.row}
      [] s = render_loop    -> {q.row, q.seed}
      [] s = video_assembly -> {TargetDuration[q.row]} \cup SceneIds(q.row)
      [] s = publisher      -> IF q.publish THEN {1} ELSE {0}
      [] OTHER              -> {}

IdealFingerprint(q, s) ==
    [read |-> [d \in Stages |->
                  IF d \in FingerprintReads[s] THEN IdealOutput(q)[d] ELSE {}],
     own  |-> IdealDirectives(q, s)]

(* Every completed checkpoint is one an undisturbed run would have written. *)
TrueRecords == \A s \in Stages : Completed(s) =>
    \E q \in Makeable :
        /\ checkpoints[s].fingerprint = IdealFingerprint(q, s)
        /\ s # publisher => checkpoints[s].output = IdealOutput(q)[s]

(* The files of stage s are those of a run of q.                            *)
FilesOf(q, s) ==
    /\ s \in FileStages => files[s] = FileOf(q)[s]
    /\ s = render_loop => \A k \in SceneIds(q.row) :
          /\ images[k] = ImageOf(q)
          /\ history[q.row][k] = ImageOf(q)
    /\ s = workflow_builder =>
          \A k \in SceneIds(q.row) : workflows[k] = {q.row}

(* The files of a stage that may be skipped are whole.                      *)
Whole == \A s \in Stages \ {publisher} : \A q \in Makeable :
    Recorded(s) => FilesOf(q, s)

AskedFor == status # "idle" => request \in Requests

(* A run of a Short that cannot be made ends at its first stage.            *)
RefusedAtOnce == status = "running" /\ ~CanBeMade(request) =>
    /\ stage = knowledge_load /\ step \in {"plan", "execute", "abort"}
    /\ <<request.row, knowledge_load>> \in Refused

RunningIsExact == status = "running" => RunExact

(* What is being executed had to be.                                        *)
ExecutesTheUnmatched ==
    status = "running" /\ step = "execute" => ~Matches(stage)

FailsByFault ==
    /\ status = "running" /\ step = "abort" =>
          faults > 0 \/ ~CanBeMade(request)
    /\ FailsOnlyByFault

(* A directory that says "complete" and has lost nothing has every stage    *)
(* on record, knowledge_load apart, whose record a refused row replaces.    *)
ManifestIsBacked == manifest.status = "complete" =>
    /\ manifest.request \in Makeable
    /\ AllListed(manifest.request, manifest.images, manifest.workflows)
    /\ losses = 0 =>
          \A s \in Stages \ {knowledge_load, publisher} : Recorded(s)

ResumeInv ==
    /\ AskedFor /\ RefusedAtOnce /\ TrueRecords /\ Whole /\ RunningIsExact
    /\ ExecutesTheUnmatched /\ FailsByFault /\ ManifestIsBacked
    /\ UploadsAreExact

(* Requests that differ in "publish" only ask for the same stages.          *)
LEMMA SameIdeals ==
    ASSUME SameShort, NEW p \in Makeable, NEW q \in Makeable
    PROVE  /\ ImageOf(p) = ImageOf(q)
           /\ \A s \in Stages : IdealOutput(p)[s] = IdealOutput(q)[s]
           /\ \A s \in FileStages : FileOf(p)[s] = FileOf(q)[s]
           /\ \A s \in Stages \ {publisher} :
                 IdealFingerprint(p, s) = IdealFingerprint(q, s)
           /\ p.publish = q.publish =>
                 IdealFingerprint(p, publisher) = IdealFingerprint(q, publisher)
<1>1. p.row = q.row /\ p.seed = q.seed
  BY DEF SameShort
<1>2. ImageOf(p) = ImageOf(q)
  BY <1>1 DEF ImageOf
<1>3. IdealOutput(p) = IdealOutput(q)
  BY <1>1, <1>2 DEF IdealOutput
<1>4. FileOf(p) = FileOf(q)
  BY <1>1, <1>2 DEF FileOf
<1>5. \A s \in Stages \ {publisher} : IdealDirectives(p, s) = IdealDirectives(q, s)
  BY <1>1 DEF IdealDirectives
<1>6. p.publish = q.publish =>
         IdealDirectives(p, publisher) = IdealDirectives(q, publisher)
  BY <1>1 DEF IdealDirectives
<1> QED
  BY <1>2, <1>3, <1>4, <1>5, <1>6 DEF IdealFingerprint

LEMMA SameFiles ==
    ASSUME SameShort, NEW p \in Makeable, NEW q \in Makeable, NEW s \in Stages,
           FilesOf(p, s)
    PROVE  FilesOf(q, s)
<1>1. p.row = q.row
  BY DEF SameShort
<1> QED
  BY <1>1, SameIdeals DEF FilesOf

(* The fingerprint of the stage an exact run is at.                         *)
LEMMA ExactFingerprint ==
    ASSUME ConstantsAssumption, TypeOK, OutputsExact, status = "running"
    PROVE  Fingerprint(stage) = IdealFingerprint(request, stage)
<1>0. /\ stage \in 1..15 /\ request.row \in Rows /\ request.row \notin Seeds
  BY DEF TypeOK, Request, ConstantsAssumption
<1>1. \A d \in FingerprintReads[stage] : d \in 1..14 /\ d < stage
  BY <1>0 DEF FingerprintReads
<1>2. \A d \in Stages : d \in FingerprintReads[stage] =>
         outputs[d] = IdealOutput(request)[d]
  BY <1>1 DEF OutputsExact
<1>3. stage = 11 => /\ Duration = {TargetDuration[request.row]}
                    /\ Storyboard = SceneIds(request.row)
  BY StoryboardExact
<1>4. Directives(stage) = IdealDirectives(request, stage)
  BY <1>0, <1>3 DEF Directives, IdealDirectives
<1> QED
  BY <1>2, <1>4 DEF Fingerprint, IdealFingerprint

(* A stage that is executed has no record that a resumed run could use: the *)
(* record's fingerprint could only be the one the stage has now.            *)
LEMMA ExecutedIsUnrecorded ==
    ASSUME ConstantsAssumption, TypeOK, SameShort, ResumeInv,
           status = "running", request \in Makeable, ~Matches(stage),
           stage # publisher \/ \A p, q \in Makeable : p.publish = q.publish
    PROVE  ~Recorded(stage)
<1>0. stage \in Stages /\ OutputsExact
  BY DEF TypeOK, ResumeInv, RunningIsExact, RunExact
<1>1. SUFFICES ASSUME Recorded(stage) PROVE FALSE
  OBVIOUS
<1>2. PICK q \in Makeable :
         checkpoints[stage].fingerprint = IdealFingerprint(q, stage)
  BY <1>0, <1>1 DEF ResumeInv, TrueRecords, Recorded
<1>3. IdealFingerprint(q, stage) = IdealFingerprint(request, stage)
  BY <1>0, SameIdeals
<1>4. Fingerprint(stage) = IdealFingerprint(request, stage)
  BY <1>0, ExactFingerprint
<1> QED
  BY <1>1, <1>2, <1>3, <1>4 DEF Matches, Recorded, Completed

(* The row of a Short that cannot be made matches no record of another.     *)
LEMMA SkippedIsMakeable ==
    ASSUME TypeOK, ResumeInv, Skip
    PROVE  request \in Makeable
<1>1. /\ status = "running" /\ request \in Requests /\ stage \in Stages
      /\ Completed(stage)
      /\ checkpoints[stage].fingerprint = Fingerprint(stage)
  BY DEF TypeOK, ResumeInv, AskedFor, Skip, Skips, Matches, Completed
<1>2. SUFFICES ASSUME ~CanBeMade(request) PROVE FALSE
  BY <1>1 DEF Makeable
<1>3. stage = knowledge_load /\ <<request.row, knowledge_load>> \in Refused
  BY <1>1, <1>2 DEF ResumeInv, RefusedAtOnce
<1>4. PICK q \in Makeable :
         checkpoints[stage].fingerprint = IdealFingerprint(q, stage)
  BY <1>1 DEF ResumeInv, TrueRecords
<1>5. {request.row} = {q.row}
  BY <1>1, <1>3, <1>4
  DEF Fingerprint, Directives, IdealFingerprint, IdealDirectives
<1>6. request.row = q.row
  BY <1>5
<1>7. <<q.row, knowledge_load>> \notin Refused
  BY DEF Makeable, CanBeMade
<1> QED
  BY <1>3, <1>6, <1>7

(* The files of a skipped stage are the ones the run would have made.       *)
LEMMA SkippedIsExact ==
    ASSUME TypeOK, SameShort, ResumeInv, Skip
    PROVE  StageExact(checkpoints[stage].output)
<1>0. stage \in Stages /\ request \in Makeable
  BY SkippedIsMakeable DEF TypeOK
<1>1. Recorded(stage)
  BY DEF Skip, Skips, Matches, Recorded, Completed
<1>2. SUFFICES ASSUME stage # publisher
               PROVE  StageExact(checkpoints[stage].output)
  BY DEF StageExact
<1>3. FilesOf(request, stage)
  BY <1>0, <1>1, <1>2 DEF ResumeInv, Whole
<1>4. PICK q \in Makeable : checkpoints[stage].output = IdealOutput(q)[stage]
  BY <1>0, <1>1, <1>2 DEF ResumeInv, TrueRecords, Recorded
<1>5. IdealOutput(q)[stage] = IdealOutput(request)[stage]
  BY <1>0, SameIdeals
<1> QED
  BY <1>3, <1>4, <1>5 DEF StageExact, FilesOf

(* Nothing an exact run needs is missing.                                   *)
LEMMA ExactRunFindsItsInputs ==
    ASSUME ConstantsAssumption, TypeOK, SameShort, status = "running",
           request \in Makeable, RunExact
    PROVE  /\ step = "plan" => InputsAvailable(stage)
           /\ step = "execute" => CanExecute(stage)
<1>0. /\ stage \in 1..15 /\ request.row \in Rows /\ request.seed \in Seeds
      /\ request.row \notin Seeds /\ request.seed \notin Rows
      /\ OutputsExact /\ FilesExact /\ SceneFilesExact
      /\ request.publish => request.row \in Publishable
      /\ <<request.row, stage>> \notin Refused
  BY DEF TypeOK, Request, ConstantsAssumption, Makeable, CanBeMade, RunExact
<1>1. ImageOf(request) # {}
  BY DEF ImageOf
<1>2. stage > 8 => \A k \in SceneIds(request.row) :
         images[k] # {} /\ history[request.row][k] = ImageOf(request)
  BY <1>0, <1>1 DEF SceneFilesExact, Approved
<1>3. \A s \in FileStages \ {15} : s < stage => files[s] # {}
  <2>1. \A s \in FileStages \ {15} : FileOf(request)[s] # {}
    BY <1>1 DEF FileOf
  <2> QED
    BY <1>0, <2>1 DEF FilesExact
<1>4. InputsAvailable(stage)
  BY <1>0, <1>2, StoryboardExact DEF InputsAvailable
<1>5. ASSUME step = "execute" PROVE CanExecute(stage)
  <2>1. CASE stage = 12
    <3>1. files[9] # {}
      BY <1>3, <2>1 DEF FileStages
    <3>2. Segments = SceneIds(request.row)
      BY <1>0, <2>1, StoryboardExact
    <3> QED
      BY <1>0, <1>2, <2>1, <3>1, <3>2 DEF CanExecute
  <2>2. CASE stage = 13
    <3>1. outputs[8] = ImageOf(request)
      <4>1. outputs[8] = IdealOutput(request)[8]
        BY <1>0, <2>2 DEF OutputsExact
      <4> QED
        BY <4>1 DEF IdealOutput
    <3>2. outputs[8] \cap Rows = {request.row}
      BY <1>0, <3>1 DEF ImageOf
    <3>3. history[request.row][ThumbScene[request.row]] = ImageOf(request)
      BY <1>0, <1>2, <2>2, SceneIdsAreScenes
    <3>4. WinnerImage = ImageOf(request)
      BY <3>2, <3>3 DEF WinnerImage
    <3> QED
      BY <1>0, <1>1, <2>2, <3>4 DEF CanExecute
  <2>3. CASE stage = 15
    <3>1. files[12] # {} /\ files[13] # {}
      BY <1>3, <2>3 DEF FileStages
    <3>2. outputs[14] = {request.row}
      <4>1. outputs[14] = IdealOutput(request)[14]
        BY <1>0, <2>3 DEF OutputsExact
      <4> QED
        BY <4>1 DEF IdealOutput
    <3> QED
      BY <1>0, <2>3, <3>1, <3>2 DEF CanExecute
  <2> QED
    BY <1>0, <2>1, <2>2, <2>3 DEF CanExecute
<1> QED
  BY <1>4, <1>5

(* A step that records nothing new and leaves the files of the recorded     *)
(* stages alone.                                                            *)
LEMMA WholeKept ==
    ASSUME Whole,
           \A s \in Stages \ {publisher} : Recorded(s)' =>
              /\ Recorded(s)
              /\ s \in FileStages => files'[s] = files[s]
              /\ s = render_loop => UNCHANGED <<images, history>>
              /\ s = workflow_builder => workflows' = workflows
    PROVE  Whole'
<1> SUFFICES ASSUME NEW s \in Stages \ {publisher}, NEW q \in Makeable,
                    Recorded(s)'
             PROVE  FilesOf(q, s)'
  BY DEF Whole
<1>1. /\ Recorded(s)
      /\ s \in FileStages => files'[s] = files[s]
      /\ s = render_loop => images' = images /\ history' = history
      /\ s = workflow_builder => workflows' = workflows
  OBVIOUS
<1>2. FilesOf(q, s)
  BY <1>1 DEF Whole
<1> QED
  BY <1>1, <1>2 DEF FilesOf

(* Executing a stage changes the files of no other.                         *)
LEMMA PartlyExecutedKeeps ==
    ASSUME TypeOK, PartlyExecuted
    PROVE  \A s \in Stages : s # stage =>
              /\ s \in FileStages => files'[s] = files[s]
              /\ s = render_loop => UNCHANGED <<images, history>>
              /\ s = workflow_builder => workflows' = workflows
<1>1. files \in [FileStages -> Content]
  BY DEF TypeOK
<1>2. CASE UNCHANGED <<history, images, workflows, files>>
  BY <1>2
<1>3. CASE /\ \E content \in {SideFile(stage), {Torn}} :
                 files' = [files EXCEPT ![stage] = content]
           /\ UNCHANGED <<history, images, workflows>>
  BY <1>1, <1>3
<1>4. CASE stage = render_loop /\ UNCHANGED <<workflows, files>>
  BY <1>4
<1>5. CASE stage = workflow_builder /\ UNCHANGED <<history, images, files>>
  BY <1>5
<1> QED
  BY <1>2, <1>3, <1>4, <1>5 DEF PartlyExecuted, Rendering

(* Whatever a stage uploads, whole or cut short, is the run's own Short.    *)
LEMMA ExactUpload ==
    ASSUME TypeOK, RunExact, status = "running", stage = publisher
    PROVE  /\ Upload.video = ImageOf(Upload.request)
           /\ Upload.thumbnail = ImageOf(Upload.request)
           /\ Upload.metadata = {Upload.request.row}
<1>1. files[12] = FileOf(request)[12] /\ files[13] = FileOf(request)[13]
  BY DEF RunExact, FilesExact, FileStages
<1>2. outputs[14] = {request.row}
  <2>1. outputs[14] = IdealOutput(request)[14]
    BY DEF RunExact, OutputsExact
  <2> QED
    BY <2>1 DEF IdealOutput
<1>3. FileOf(request)[12] = ImageOf(request) /\ FileOf(request)[13] = ImageOf(request)
  BY DEF FileOf, FileStages
<1> QED
  BY <1>1, <1>2, <1>3 DEF Upload

LEMMA UploadedExact ==
    ASSUME TypeOK, RunExact, status = "running", UploadsAreExact,
           uploads' = uploads \/ uploads' = Uploaded
    PROVE  UploadsAreExact'
<1>1. \A u \in uploads' : u \in uploads \/ (stage = publisher /\ u = Upload)
  BY DEF Uploaded
<1> QED
  BY <1>1, ExactUpload DEF UploadsAreExact

(* So a run fails on its own only at once and of a row that is refused.     *)
LEMMA NothingIsMissing ==
    ASSUME ConstantsAssumption, TypeOK, SameShort, ResumeInv
    PROVE  /\ ~InputsFail /\ ~RenderRejected
           /\ ExecuteRaises => ~CanBeMade(request) /\ stage = knowledge_load
<1>1. status = "running" =>
         /\ RunExact
         /\ CanBeMade(request) => request \in Makeable
         /\ ~CanBeMade(request) => stage = knowledge_load
  BY DEF ResumeInv, AskedFor, RunningIsExact, RefusedAtOnce, Makeable
<1>2. ~InputsFail
  BY <1>1, ExactRunFindsItsInputs DEF InputsFail, InputsAvailable
<1>3. ExecuteRaises => ~CanBeMade(request) /\ stage = knowledge_load
  BY <1>1, ExactRunFindsItsInputs DEF ExecuteRaises, Executing
<1>4. ~RenderRejected
  <2> SUFFICES ASSUME RenderRejected PROVE FALSE
    OBVIOUS
  <2>1. /\ status = "running" /\ stage = render_loop
        /\ NextScene \in Storyboard /\ ~Passes
    BY DEF RenderRejected, Rendering, Executing
  <2>2. CanBeMade(request) /\ Storyboard = SceneIds(request.row)
    BY <1>1, <2>1, StoryboardExact DEF RunExact
  <2> QED
    BY <2>1, <2>2 DEF CanBeMade, Passes
<1> QED
  BY <1>2, <1>3, <1>4

(* The stage being executed is not on record, the two ends apart.           *)
LEMMA ExecutingIsUnrecorded ==
    ASSUME ConstantsAssumption, TypeOK, SameShort, ResumeInv, Executing
    PROVE  stage \notin {knowledge_load, publisher} => ~Recorded(stage)
<1>1. status = "running" /\ ~Matches(stage)
  BY DEF ResumeInv, ExecutesTheUnmatched, Executing
<1>2. stage # knowledge_load => request \in Makeable
  BY <1>1 DEF ResumeInv, AskedFor, RefusedAtOnce, Makeable
<1> QED
  BY <1>1, <1>2, ExecutedIsUnrecorded

(* What the checkpoint of a stage that has just been executed says is true. *)
LEMMA SavedIsTrue ==
    ASSUME ConstantsAssumption, TypeOK, ResumeInv, SaveCheckpoint
    PROVE  /\ request \in Makeable
           /\ Fingerprint(stage) = IdealFingerprint(request, stage)
           /\ stage # publisher => result = IdealOutput(request)[stage]
<1>1. status = "running" /\ step = "stored"
  BY DEF SaveCheckpoint
<1>2. request \in Makeable /\ OutputsExact /\ ResultExact
  BY <1>1 DEF ResumeInv, AskedFor, RefusedAtOnce, Makeable, RunningIsExact,
              RunExact
<1>3. Fingerprint(stage) = IdealFingerprint(request, stage)
  BY <1>1, <1>2, ExactFingerprint
<1> QED
  BY <1>1, <1>2, <1>3 DEF ResultExact

LEMMA NextAskedFor ==
    ASSUME AskedFor, TypeOK, [Next]_vars
    PROVE  AskedFor'
<1> USE DEF disk, process, bounds, AskedFor
<1>1. ASSUME NEW q \in Requests, Start(q) PROVE AskedFor'
  BY <1>1 DEF Start
<1>2. CASE ~\E q \in Requests : Start(q)
  BY <1>2 DEF Next, Advance, vars, Skip, InputsFail, Begin, RenderScene,
     RenderRejected, Rendering, Execute, ExecuteRaises, SaveArtifact,
     SaveCheckpoint, Report, ExecuteFails, SaveFails, Kill, Lose, Executing
<1> QED
  BY <1>1, <1>2

LEMMA NextRefusedAtOnce ==
    ASSUME TypeOK, SameShort, ResumeInv, [Next]_vars
    PROVE  RefusedAtOnce'
<1> USE DEF disk, process, bounds
<1>0. RefusedAtOnce
  BY DEF ResumeInv
<1>1. ASSUME NEW q \in Requests, Start(q) PROVE RefusedAtOnce'
  <2>1. request' = q /\ stage' = 1 /\ step' = "plan"
    BY <1>1 DEF Start
  <2> QED
    BY <2>1 DEF SameShort, RefusedAtOnce
<1>2. CASE Skip
  <2>1. CanBeMade(request) /\ request' = request
    BY <1>2, SkippedIsMakeable DEF Skip, Makeable
  <2> QED
    BY <2>1 DEF RefusedAtOnce
<1>3. CASE Begin \/ InputsFail \/ ExecuteRaises \/ ExecuteFails \/ SaveFails
             \/ RenderScene \/ RenderRejected \/ UNCHANGED vars
  <2>1. /\ UNCHANGED <<request, status, stage>>
        /\ step' \in {"execute", "abort"} \/ step' = step
    BY <1>3 DEF Begin, InputsFail, ExecuteRaises, ExecuteFails, SaveFails,
       RenderScene, RenderRejected, Abort, vars
  <2> QED
    BY <1>0, <2>1 DEF RefusedAtOnce
<1>4. CASE Execute
  <2>1. /\ status = "running" /\ request' = request
        /\ <<request.row, stage>> \notin Refused
    BY <1>4 DEF Execute, Executing, CanExecute
  <2>2. CanBeMade(request)
    BY <1>0, <2>1 DEF RefusedAtOnce
  <2> QED
    BY <2>1, <2>2 DEF RefusedAtOnce
<1>5. CASE SaveArtifact \/ SaveCheckpoint
  <2>1. /\ status = "running" /\ request' = request
        /\ step \in {"executed", "stored"}
    BY <1>5 DEF SaveArtifact, SaveCheckpoint
  <2>2. CanBeMade(request)
    BY <1>0, <2>1 DEF RefusedAtOnce
  <2> QED
    BY <2>1, <2>2 DEF RefusedAtOnce
<1>6. CASE Report \/ Kill \/ Lose
  BY <1>6 DEF Report, Kill, Lose, RefusedAtOnce
<1> QED
  BY <1>1, <1>2, <1>3, <1>4, <1>5, <1>6 DEF Next, Advance

LEMMA NextTrueRecords ==
    ASSUME ConstantsAssumption, TypeOK, SameShort, ResumeInv, [Next]_vars
    PROVE  TrueRecords'
<1> USE DEF disk, process, bounds
<1>0. /\ stage \in Stages /\ checkpoints \in [Stages -> Checkpoint]
      /\ TrueRecords
  BY DEF TypeOK, ResumeInv
(* A checkpoint that stays or is no completed one says nothing new.         *)
<1>1. ASSUME \A s \in Stages : checkpoints'[s].status = "completed" =>
                checkpoints'[s] = checkpoints[s]
      PROVE  TrueRecords'
  BY <1>0, <1>1 DEF TrueRecords, Completed
<1>2. CASE SaveCheckpoint
  <2>1. \A s \in Stages : s # stage => checkpoints'[s] = checkpoints[s]
    BY <1>0, <1>2 DEF SaveCheckpoint
  <2>2. /\ checkpoints'[stage].fingerprint = Fingerprint(stage)
        /\ checkpoints'[stage].output = result
    BY <1>0, <1>2 DEF SaveCheckpoint
  <2> SUFFICES ASSUME NEW s \in Stages, checkpoints'[s].status = "completed"
               PROVE  \E q \in Makeable :
                  /\ checkpoints'[s].fingerprint = IdealFingerprint(q, s)
                  /\ s # publisher =>
                        checkpoints'[s].output = IdealOutput(q)[s]
    BY DEF TrueRecords, Completed
  <2>3. CASE s = stage
    BY <1>2, <2>2, <2>3, SavedIsTrue
  <2>4. CASE s # stage
    BY <1>0, <2>1, <2>4 DEF TrueRecords, Completed
  <2> QED
    BY <2>3, <2>4
<1>3. CASE ExecuteFails \/ ExecuteRaises \/ RenderRejected
  <2>1. FailedCheckpoint \/ UNCHANGED checkpoints
    BY <1>3 DEF ExecuteFails, ExecuteRaises, RenderRejected
  <2>2. CASE FailedCheckpoint
    <3>1. \A s \in Stages : checkpoints'[s].status = "completed" =>
             checkpoints'[s] = checkpoints[s]
      BY <1>0, <2>2 DEF FailedCheckpoint
    <3> QED
      BY <3>1, <1>1
  <2> QED
    BY <2>1, <2>2, <1>1
<1>4. CASE Lose
  <2>1. \A s \in Stages : checkpoints'[s].status = "completed" =>
           checkpoints'[s] = checkpoints[s]
    BY <1>0, <1>4 DEF Lose, NoCheckpoint
  <2> QED
    BY <2>1, <1>1
<1>5. CASE ~(SaveCheckpoint \/ ExecuteFails \/ ExecuteRaises
               \/ RenderRejected \/ Lose)
  <2>1. UNCHANGED checkpoints
    BY <1>5 DEF Next, Advance, vars, Start, Skip, InputsFail, Begin,
       RenderScene, Execute, SaveArtifact, Report, SaveFails, Kill
  <2> QED
    BY <2>1, <1>1
<1> QED
  BY <1>2, <1>3, <1>4, <1>5

LEMMA NextWhole ==
    ASSUME ConstantsAssumption, TypeOK, SameShort, ResumeInv, [Next]_vars
    PROVE  Whole'
<1> USE DEF disk, process, bounds
<1>0. /\ stage \in Stages /\ checkpoints \in [Stages -> Checkpoint]
      /\ artifacts \in [Stages -> SUBSET Content]
      /\ damaged \in [Stages -> SUBSET Content]
      /\ files \in [FileStages -> Content]
      /\ Whole
  BY DEF TypeOK, ResumeInv
(* What is executed is not on record; its files may be anything.            *)
<1>1. ASSUME Executing,
             UNCHANGED <<artifacts, damaged>>,
             FailedCheckpoint \/ UNCHANGED checkpoints,
             \A s \in Stages : s # stage =>
                /\ s \in FileStages => files'[s] = files[s]
                /\ s = render_loop => UNCHANGED <<images, history>>
                /\ s = workflow_builder => workflows' = workflows
      PROVE  Whole'
  <2>1. stage \notin {knowledge_load, publisher} => ~Recorded(stage)
    BY <1>1, ExecutingIsUnrecorded
  <2>2. \A s \in Stages : checkpoints'[s].status = "completed" =>
           checkpoints'[s] = checkpoints[s]
    BY <1>0, <1>1 DEF FailedCheckpoint
  <2>3. \A s \in Stages : Recorded(s)' => Recorded(s)
    BY <1>1, <2>2 DEF Recorded, Completed, Has
  <2>4. knowledge_load \notin FileStages
    BY DEF FileStages
  <2> QED
    BY <1>0, <1>1, <2>1, <2>3, <2>4, WholeKept
<1>12. CASE ExecuteRaises
  BY <1>1, <1>12 DEF ExecuteRaises
<1>2. CASE RenderScene
  <2>1. /\ stage = render_loop /\ UNCHANGED <<workflows, files, checkpoints>>
        /\ Executing
    BY <1>2 DEF RenderScene, Rendering
  <2> QED
    BY <1>1, <1>2, <2>1 DEF RenderScene
<1>3. CASE Execute
  BY <1>0, <1>1, <1>3 DEF Execute
<1>4. CASE ExecuteFails
  BY <1>1, <1>4, PartlyExecutedKeeps DEF ExecuteFails
<1>5. CASE Kill
  <2>1. UNCHANGED <<artifacts, damaged, checkpoints>> /\ status = "running"
    BY <1>5 DEF Kill
  <2>2. CASE step = "execute"
    BY <1>1, <1>5, <2>1, <2>2, PartlyExecutedKeeps DEF Kill, Executing
  <2>3. CASE step # "execute"
    <3>1. UNCHANGED <<history, images, workflows, files>>
      BY <1>5, <2>3 DEF Kill
    <3> QED
      BY <1>0, <2>1, <3>1, WholeKept DEF Recorded, Completed, Has
  <2> QED
    BY <2>2, <2>3
(* The stage that gets its record has just been executed.                   *)
<1>6. ASSUME status = "running", step \in {"executed", "stored"},
             stage # publisher
      PROVE  \A q \in Makeable : FilesOf(q, stage)
  <2>1. request \in Makeable /\ ResultExact /\ SceneFilesExact
    BY <1>6 DEF ResumeInv, AskedFor, RefusedAtOnce, Makeable, RunningIsExact,
                RunExact
  <2>2. /\ stage = render_loop => Approved = SceneIds(request.row)
        /\ stage = workflow_builder => Drawn = SceneIds(request.row)
    BY <1>6 DEF Approved, Drawn
  <2>3. FilesOf(request, stage)
    BY <1>6, <2>1, <2>2 DEF FilesOf, ResultExact, SceneFilesExact
  <2> QED
    BY <1>0, <2>1, <2>3, SameFiles
<1>7. ASSUME status = "running", step \in {"executed", "stored"},
             \A s \in Stages : s # stage => (Recorded(s)' => Recorded(s)),
             UNCHANGED <<files, images, workflows, history>>
      PROVE  Whole'
  <2> SUFFICES ASSUME NEW s \in Stages \ {publisher}, NEW q \in Makeable,
                      Recorded(s)'
               PROVE  FilesOf(q, s)'
    BY DEF Whole
  <2>1. FilesOf(q, s)
    BY <1>0, <1>6, <1>7 DEF Whole
  <2> QED
    BY <1>7, <2>1 DEF FilesOf
<1>8. CASE SaveArtifact
  <2>1. \A s \in Stages : s # stage => (Recorded(s)' => Recorded(s))
    BY <1>0, <1>8 DEF SaveArtifact, Recorded, Completed, Has
  <2> QED
    BY <1>7, <1>8, <2>1 DEF SaveArtifact
<1>9. CASE SaveCheckpoint
  <2>1. \A s \in Stages : s # stage => (Recorded(s)' => Recorded(s))
    BY <1>0, <1>9 DEF SaveCheckpoint, Recorded, Completed, Has
  <2> QED
    BY <1>7, <1>9, <2>1 DEF SaveCheckpoint
<1>10. CASE Lose
  <2>1. UNCHANGED <<files, images, workflows, history>>
    BY <1>10 DEF Lose, SameShort
  <2>2. \A s \in Stages : Recorded(s)' => Recorded(s)
    <3>1. CASE UNCHANGED <<artifacts, damaged>>
      <4>1. \A s \in Stages : checkpoints'[s].status = "completed" =>
               checkpoints'[s] = checkpoints[s]
        BY <1>0, <1>10 DEF Lose, NoCheckpoint
      <4> QED
        BY <3>1, <4>1 DEF Recorded, Completed, Has
    <3>2. CASE \E s \in Stages : \E content \in artifacts[s] :
                  /\ artifacts' = [artifacts EXCEPT ![s] = @ \ {content}]
                  /\ damaged' = [damaged EXCEPT ![s] = @ \ {content}]
                  /\ UNCHANGED checkpoints
      BY <1>0, <3>2 DEF Recorded, Completed, Has
    <3>3. CASE \E s \in Stages : \E content \in artifacts[s] :
                  /\ damaged' = [damaged EXCEPT ![s] = @ \cup {content}]
                  /\ UNCHANGED <<artifacts, checkpoints>>
      BY <1>0, <3>3 DEF Recorded, Completed, Has
    <3> QED
      BY <1>10, <3>1, <3>2, <3>3 DEF Lose
  <2> QED
    BY <1>0, <2>1, <2>2, WholeKept
<1>11. CASE ~(RenderScene \/ Execute \/ ExecuteRaises \/ ExecuteFails
                \/ Kill \/ SaveArtifact \/ SaveCheckpoint \/ Lose)
  <2>1. UNCHANGED <<checkpoints, artifacts, damaged, files, images,
                    workflows, history>>
    BY <1>11, NothingIsMissing DEF Next, Advance, vars, Start, Skip, Begin,
       Report, SaveFails
  <2> QED
    BY <1>0, <2>1, WholeKept DEF Recorded, Completed, Has
<1> QED
  BY <1>2, <1>3, <1>4, <1>5, <1>8, <1>9, <1>10, <1>11, <1>12

LEMMA NextRunningIsExact ==
    ASSUME ConstantsAssumption, TypeOK, SameShort, ResumeInv, [Next]_vars
    PROVE  RunningIsExact'
<1>1. status = "running" => RunExact
  BY DEF ResumeInv, RunningIsExact
<1>2. Skip => StageExact(checkpoints[stage].output)
  BY SkippedIsExact
<1>3. ASSUME status' = "running" PROVE RunExact'
  BY <1>1, <1>2, <1>3, NextRunExact
<1> QED
  BY <1>3 DEF RunningIsExact

LEMMA NextExecutesTheUnmatched ==
    ASSUME TypeOK, SameShort, ResumeInv, [Next]_vars
    PROVE  ExecutesTheUnmatched'
<1> USE DEF disk, process, bounds
<1> SUFFICES ASSUME status' = "running", step' = "execute"
             PROVE  ~Matches(stage)'
  BY DEF ExecutesTheUnmatched
<1>1. ASSUME UNCHANGED <<request, outputs, checkpoints, artifacts, damaged,
                         stage>>,
             ~Matches(stage)
      PROVE  ~Matches(stage)'
  BY <1>1 DEF Matches, Has, Fingerprint, Directives, Duration, Storyboard
<1>2. CASE Begin
  <2>1. ~Matches(stage)
    BY <1>2 DEF Begin, Skips, ResumeInv, AskedFor, SameShort
  <2> QED
    BY <1>1, <1>2, <2>1 DEF Begin
<1>3. CASE RenderScene
  <2>1. ~Matches(stage)
    BY <1>3 DEF RenderScene, Rendering, Executing, ResumeInv,
                ExecutesTheUnmatched
  <2> QED
    BY <1>1, <1>3, <2>1 DEF RenderScene
<1>4. CASE UNCHANGED vars
  <2>1. ~Matches(stage)
    BY <1>4 DEF vars, ResumeInv, ExecutesTheUnmatched
  <2> QED
    BY <1>1, <1>4, <2>1 DEF vars
<1>5. CASE Lose
  BY <1>5 DEF Lose
<1> QED
  BY <1>2, <1>3, <1>4, <1>5 DEF Next, Advance, Start, Skip, InputsFail,
     RenderRejected, Execute, ExecuteRaises, SaveArtifact, SaveCheckpoint, Report,
     ExecuteFails, SaveFails, Kill, Record, Abort

LEMMA NextFailsByFault ==
    ASSUME ConstantsAssumption, TypeOK, SameShort, ResumeInv, [Next]_vars
    PROVE  FailsByFault'
<1> USE DEF disk, process, bounds
<1> DEFINE Excused == faults > 0 \/ ~CanBeMade(request)
<1>0. /\ faults \in Nat
      /\ status = "running" /\ step = "abort" => Excused
      /\ status = "failed" => Excused
  BY DEF TypeOK, ResumeInv, FailsByFault, FailsOnlyByFault
<1> SUFFICES /\ status' = "running" /\ step' = "abort" => Excused'
             /\ status' = "failed" => Excused'
  BY DEF FailsByFault, FailsOnlyByFault
<1>1. CASE ExecuteFails \/ SaveFails \/ Kill
  BY <1>0, <1>1 DEF ExecuteFails, SaveFails, Kill
<1>2. CASE Report
  <2>1. /\ UNCHANGED <<request, faults>> /\ status = "running"
        /\ status' \in {"complete", "failed"}
        /\ status' = "failed" => step = "abort"
    BY <1>2 DEF Report
  <2> QED
    BY <1>0, <2>1
<1>3. CASE Lose \/ UNCHANGED vars
  <2>1. UNCHANGED <<request, faults, status, step>>
    BY <1>3 DEF Lose, vars
  <2> QED
    BY <1>0, <2>1
<1>5. CASE ExecuteRaises
  <2>1. UNCHANGED <<request, faults>> /\ ~CanBeMade(request)
    BY <1>5, NothingIsMissing DEF ExecuteRaises
  <2> QED
    BY <2>1
<1>4. CASE ~(ExecuteFails \/ SaveFails \/ Kill \/ Report \/ Lose
               \/ ExecuteRaises \/ UNCHANGED vars)
  <2>1. status' = "running" /\ step' # "abort"
    BY <1>4, NothingIsMissing DEF Next, Advance, Start, Skip, Begin,
       RenderScene, Rendering, Execute, Executing, SaveArtifact,
       SaveCheckpoint, Record
  <2> QED
    BY <2>1
<1> QED
  BY <1>1, <1>2, <1>3, <1>4, <1>5

(* While nothing is lost no step takes a record away.                       *)
LEMMA RecordsStay ==
    ASSUME ConstantsAssumption, TypeOK, SameShort, Backing, ResumeInv,
           [Next]_vars, losses' = 0
    PROVE  \A s \in Stages \ {knowledge_load, publisher} :
              Recorded(s) => Recorded(s)'
<1> USE DEF disk, process, bounds
<1>0. /\ stage \in Stages /\ checkpoints \in [Stages -> Checkpoint]
      /\ artifacts \in [Stages -> SUBSET Content] /\ losses \in Nat
  BY DEF TypeOK
<1>1. ~Lose /\ losses = 0
  <2>1. ~Lose
    BY <1>0 DEF Lose
  <2> QED
    BY <2>1 DEF Next, Advance, vars, Start, Skip, InputsFail, Begin,
       RenderScene, RenderRejected, Execute, ExecuteRaises, SaveArtifact,
       SaveCheckpoint, Report, ExecuteFails, SaveFails, Kill
<1>2. CASE ExecuteFails \/ ExecuteRaises
  <2>1. stage \notin {knowledge_load, publisher} => ~Recorded(stage)
    BY <1>2, ExecutingIsUnrecorded DEF ExecuteFails, ExecuteRaises
  <2>2. \A s \in Stages : s # stage => checkpoints'[s] = checkpoints[s]
    BY <1>0, <1>2 DEF ExecuteFails, ExecuteRaises, FailedCheckpoint
  <2>3. UNCHANGED <<artifacts, damaged>>
    BY <1>2 DEF ExecuteFails, ExecuteRaises
  <2> QED
    BY <2>1, <2>2, <2>3 DEF Recorded, Completed, Has
<1>3. CASE SaveArtifact
  <2>1. \A s \in Stages : artifacts[s] \subseteq artifacts'[s]
    BY <1>0, <1>3 DEF SaveArtifact
  <2>2. UNCHANGED <<checkpoints, damaged>>
    BY <1>3 DEF SaveArtifact
  <2> QED
    BY <2>1, <2>2 DEF Recorded, Completed, Has
<1>4. CASE SaveCheckpoint
  <2>1. /\ UNCHANGED <<artifacts, damaged>>
        /\ \A s \in Stages : s # stage => checkpoints'[s] = checkpoints[s]
        /\ checkpoints'[stage].status = "completed"
        /\ checkpoints'[stage].output = result
    BY <1>0, <1>4 DEF SaveCheckpoint
  <2>2. result \in artifacts[stage] /\ damaged[stage] = {}
    BY <1>0, <1>1, <1>4 DEF SaveCheckpoint, Backing, RunIsBacked, NothingDamaged
  <2> QED
    BY <2>1, <2>2 DEF Recorded, Completed, Has
<1>5. CASE ~(ExecuteFails \/ ExecuteRaises \/ SaveArtifact \/ SaveCheckpoint)
  <2>1. UNCHANGED <<checkpoints, artifacts, damaged>>
    BY <1>1, <1>5, NothingIsMissing DEF Next, Advance, vars, Start, Skip,
       Begin, RenderScene, Execute, Report, SaveFails, Kill
  <2> QED
    BY <2>1 DEF Recorded, Completed, Has
<1> QED
  BY <1>2, <1>3, <1>4, <1>5

LEMMA NextManifestIsBacked ==
    ASSUME ConstantsAssumption, TypeOK, SameShort, Backing, ResumeInv,
           [Next]_vars
    PROVE  ManifestIsBacked'
<1> USE DEF disk, process, bounds
<1> SUFFICES ASSUME manifest'.status = "complete"
             PROVE  /\ manifest'.request \in Makeable
                    /\ AllListed(manifest.request, manifest.images,
                                 manifest.workflows)'
                    /\ losses' = 0 =>
                          \A s \in Stages \ {knowledge_load, publisher} :
                             Recorded(s)'
  BY DEF ManifestIsBacked
<1>1. CASE Report
  <2>1. /\ status = "running" /\ UNCHANGED <<checkpoints, artifacts, damaged>>
        /\ manifest' = Manifest(status', request, ListedImages,
                                ListedWorkflows)
        /\ losses' = losses
        /\ status' = IF step = "report" THEN "complete" ELSE "failed"
    BY <1>1 DEF Report
  <2>2. step = "report"
    BY <2>1 DEF Manifest
  <2>3. request \in Makeable /\ RunExact
    BY <2>1, <2>2 DEF ResumeInv, AskedFor, RefusedAtOnce, Makeable,
                      RunningIsExact
  <2>7. AllListed(request, ListedImages, ListedWorkflows)
    BY <2>1, <2>2, <2>3, ExactRunDelivers
  <2>8. /\ manifest'.request = request /\ manifest'.images = ListedImages
        /\ manifest'.workflows = ListedWorkflows
    BY <2>1 DEF Manifest
  <2>9. AllListed(manifest.request, manifest.images, manifest.workflows)'
    BY <2>7, <2>8 DEF AllListed
  <2>4. \A s \in Stages : Completed(s) /\ checkpoints[s].output \in artifacts[s]
    BY <2>1, <2>2 DEF Backing, RunIsBacked, Behind
  <2>5. losses = 0 => \A s \in Stages : damaged[s] = {}
    BY DEF Backing, NothingDamaged
  <2>6. losses = 0 => \A s \in Stages : Recorded(s)
    BY <2>4, <2>5 DEF Recorded, Has
  <2> QED
    BY <2>1, <2>3, <2>6, <2>8, <2>9 DEF Recorded, Completed, Has
<1>2. CASE ~Report
  <2>1. UNCHANGED manifest
    <3>1. CASE Advance
      BY <1>2, <3>1 DEF Advance, Skip, InputsFail, Begin, RenderScene,
         RenderRejected, Execute, ExecuteRaises, SaveArtifact, SaveCheckpoint
    <3>2. CASE UNCHANGED vars
      BY <3>2 DEF vars
    <3>3. CASE Lose
      BY <3>3 DEF Lose
    <3>4. CASE Kill
      <4>1. Manifest("torn", NoRequest, {}, {}).status # "complete"
        BY DEF Manifest
      <4> QED
        BY <3>4, <4>1 DEF Kill
    <3>5. CASE ExecuteFails \/ SaveFails
      BY <3>5 DEF ExecuteFails, SaveFails
    <3>6. CASE \E q \in Requests : Start(q)
      BY <3>6 DEF Start
    <3> QED BY <3>1, <3>2, <3>3, <3>4, <3>5, <3>6 DEF Next
  <2>2. losses' = 0 => losses = 0
    <3>1. losses \in Nat
      BY DEF TypeOK
    <3> QED
      BY <1>2, <3>1 DEF Next, Advance, vars, Start, Skip, InputsFail, Begin,
         RenderScene, RenderRejected, Execute, ExecuteRaises, SaveArtifact,
         SaveCheckpoint, ExecuteFails, SaveFails, Kill, Lose
  <2>3. /\ manifest.request \in Makeable
        /\ AllListed(manifest.request, manifest.images, manifest.workflows)
        /\ losses = 0 =>
              \A s \in Stages \ {knowledge_load, publisher} : Recorded(s)
    BY <2>1 DEF ResumeInv, ManifestIsBacked
  <2>4. AllListed(manifest.request, manifest.images, manifest.workflows)'
    BY <2>1, <2>3 DEF AllListed
  <2> QED
    BY <2>1, <2>2, <2>3, <2>4, RecordsStay
<1> QED
  BY <1>1, <1>2

LEMMA NextUploadsAreExact ==
    ASSUME ConstantsAssumption, TypeOK, SameShort, ResumeInv, [Next]_vars
    PROVE  UploadsAreExact'
<1> USE DEF disk, process, bounds
<1>1. UploadsAreExact /\ (status = "running" => RunExact)
  BY DEF ResumeInv, RunningIsExact
<1>2. CASE UNCHANGED uploads
  BY <1>1, <1>2 DEF UploadsAreExact
<1>3. CASE Execute \/ ExecuteFails \/ Kill
  <2>1. status = "running"
    BY <1>3 DEF Execute, ExecuteFails, Executing, Kill
  <2>2. uploads' = uploads \/ uploads' = Uploaded
    BY <1>3 DEF Execute, ExecuteFails, Kill, PartlyExecuted
  <2> QED
    BY <1>1, <2>1, <2>2, UploadedExact
<1>4. CASE ~(Execute \/ ExecuteFails \/ Kill)
  <2>1. UNCHANGED uploads
    BY <1>4 DEF Next, Advance, vars, Start, Skip, InputsFail, Begin,
       RenderScene, RenderRejected, ExecuteRaises, SaveArtifact,
       SaveCheckpoint, Report, SaveFails, Lose
  <2> QED
    BY <2>1, <1>2
<1> QED
  BY <1>3, <1>4

LEMMA InitResumeInv == Init => ResumeInv
  BY DEF Init, Manifest, ResumeInv, AskedFor, RefusedAtOnce, TrueRecords,
         Whole, RunningIsExact, ExecutesTheUnmatched, FailsByFault,
         FailsOnlyByFault,
         ManifestIsBacked, UploadsAreExact, Recorded, Completed, NoCheckpoint

LEMMA NextResumeInv ==
    ASSUME SameShort, TypeOK, Backing, ResumeInv, [Next]_vars
    PROVE  ResumeInv'
<1>1. AskedFor' /\ RefusedAtOnce'
  BY NextAskedFor, NextRefusedAtOnce DEF ResumeInv
<1>2. TrueRecords' /\ Whole' /\ RunningIsExact'
  BY NextTrueRecords, NextWhole, NextRunningIsExact, ConstantsAssumption
<1>3. ExecutesTheUnmatched' /\ FailsByFault'
  BY NextExecutesTheUnmatched, NextFailsByFault, ConstantsAssumption
<1>4. ManifestIsBacked' /\ UploadsAreExact'
  BY NextManifestIsBacked, NextUploadsAreExact, ConstantsAssumption
<1> QED
  BY <1>1, <1>2, <1>3, <1>4 DEF ResumeInv

LEMMA ResumeInvHolds ==
    ASSUME SameShort
    PROVE  Spec => []ResumeInv
<1>1. Init => ResumeInv
  BY InitResumeInv
<1>2. TypeOK /\ Backing /\ ResumeInv /\ [Next]_vars => ResumeInv'
  BY NextResumeInv
<1> QED
  BY <1>1, <1>2, Typing, BackingHolds, PTL DEF Spec

(* A run ends "complete" with exactly the deliverable of its directives and *)
(* only if it can be made, "failed" only after a fault or because it        *)
(* cannot, however often the Short was interrupted and resumed.             *)
THEOREM OutcomeAlwaysTrue ==
    ASSUME SameShort
    PROVE  Spec => []OutcomeIsTrue
<1>1. TypeOK /\ ResumeInv => OutcomeIsTrue
  BY ExactRunDelivers, ConstantsAssumption
  DEF OutcomeIsTrue, CompleteRunIsExact, Completing, ResumeInv,
      RunningIsExact, RefusedAtOnce, FailsByFault
<1> QED
  BY <1>1, Typing, ResumeInvHolds, PTL

LEMMA ManifestHonest ==
    ASSUME ResumeInv
    PROVE  ManifestIsHonest
<1> SUFFICES ASSUME manifest.status = "complete", losses = 0
             PROVE  /\ Delivers(manifest.request)
                    /\ AllListed(manifest.request, manifest.images,
                                 manifest.workflows)
  BY DEF ManifestIsHonest, AllListed
<1>1. /\ manifest.request \in Makeable
      /\ AllListed(manifest.request, manifest.images, manifest.workflows)
      /\ \A s \in Stages \ {knowledge_load, publisher} : Recorded(s)
  BY DEF ResumeInv, ManifestIsBacked
<1>2. \A s \in Stages \ {knowledge_load, publisher} :
         FilesOf(manifest.request, s)
  BY <1>1 DEF ResumeInv, Whole
<1>3. FileStages \subseteq Stages \ {knowledge_load}
  BY DEF FileStages
<1> QED
  BY <1>1, <1>2, <1>3 DEF FilesOf, Delivers

(* What the directory has on record is true, also while later runs of the   *)
(* same Short are under way or have been cut short.                         *)
THEOREM RecordsAlwaysTrue ==
    ASSUME SameShort, Undamaged
    PROVE  Spec => []RecordsAreTrue
<1>1. Backing /\ ResumeInv => RecordsAreTrue
  BY ManifestHonest, BackingIntact DEF RecordsAreTrue, Backing
<1> QED
  BY <1>1, BackingHolds, ResumeInvHolds, PTL

-----------------------------------------------------------------------------
(* The same Short, and every run asked to publish or none.                  *)
Steady == SameShort /\ Undamaged /\ \A p, q \in Makeable : p.publish = q.publish

(* The publication is on record, or about to be.                            *)
Published ==
    \/ Recorded(publisher)
    \/ status = "running" /\ stage = publisher
         /\ step \in {"executed", "stored", "report"}

(* Every further upload is paid for.                                        *)
UploadsPaidFor ==
    /\ IsFiniteSet(uploads)
    /\ Cardinality(uploads) <= faults + losses + (IF Published THEN 1 ELSE 0)

(* A step that is neither a fault nor a loss never forgets a publication.   *)
LEMMA PublicationKept ==
    ASSUME ConstantsAssumption, TypeOK, Steady, Backing, ResumeInv,
           [Next]_vars, ~(ExecuteFails \/ SaveFails \/ Kill \/ Lose), Published
    PROVE  Published'
<1> USE DEF disk, process, bounds
<1>0. /\ stage \in Stages /\ checkpoints \in [Stages -> Checkpoint]
      /\ artifacts \in [Stages -> SUBSET Content]
      /\ SameShort /\ damaged[publisher] = {}
  BY DEF TypeOK, Steady, Backing, NothingDamaged
<1>1. CASE SaveArtifact
  <2>1. /\ artifacts[publisher] \subseteq artifacts'[publisher]
        /\ UNCHANGED <<checkpoints, damaged, status, stage>>
        /\ step' = "stored" /\ step = "executed" /\ status = "running"
    BY <1>0, <1>1 DEF SaveArtifact
  <2> QED
    BY <2>1 DEF Published, Recorded, Completed, Has
<1>2. CASE SaveCheckpoint
  <2>1. CASE stage = publisher
    BY <1>2, <2>1 DEF SaveCheckpoint, Record, Published
  <2>2. CASE stage # publisher
    <3>1. /\ checkpoints'[publisher] = checkpoints[publisher]
          /\ UNCHANGED <<artifacts, damaged>>
      BY <1>0, <1>2, <2>2 DEF SaveCheckpoint
    <3> QED
      BY <2>2, <3>1 DEF Published, Recorded, Completed, Has
  <2> QED
    BY <2>1, <2>2
<1>3. CASE Report
  <2>1. UNCHANGED <<checkpoints, artifacts, damaged>>
    BY <1>3 DEF Report
  <2>2. Recorded(publisher)
    <3>1. CASE step = "report"
      BY <1>0, <1>3, <3>1
      DEF Report, Backing, RunIsBacked, Behind, Recorded, Has
    <3>2. CASE step # "report"
      BY <1>3, <3>2 DEF Report, Published
    <3> QED
      BY <3>1, <3>2
  <2> QED
    BY <2>1, <2>2 DEF Published, Recorded, Completed, Has
<1>5. CASE ExecuteRaises
  <2>1. /\ step = "execute" /\ stage = knowledge_load /\ FailedCheckpoint
        /\ UNCHANGED <<artifacts, damaged>>
    BY <1>5, NothingIsMissing, <1>0 DEF ExecuteRaises, Executing
  <2>2. checkpoints'[publisher] = checkpoints[publisher]
    BY <1>0, <2>1 DEF FailedCheckpoint
  <2>3. Recorded(publisher)
    BY <2>1 DEF Published
  <2> QED
    BY <2>1, <2>2, <2>3 DEF Published, Recorded, Completed, Has
<1>4. CASE ~(SaveArtifact \/ SaveCheckpoint \/ Report \/ ExecuteRaises)
  <2>1. CASE Recorded(publisher)
    <3>1. UNCHANGED <<checkpoints, artifacts, damaged>>
      BY <1>0, <1>4, NothingIsMissing DEF Next, Advance, vars, Start, Skip,
         Begin, RenderScene, Execute
    <3> QED
      BY <2>1, <3>1 DEF Published, Recorded, Completed, Has
  <2>2. CASE status = "running" /\ stage = publisher
               /\ step \in {"executed", "stored", "report"}
    <3>1. UNCHANGED vars
      BY <1>0, <1>4, <2>2, NothingIsMissing DEF Next, Advance, Start, Skip,
         Begin, RenderScene, Rendering, Execute, Executing
    <3> QED
      BY <2>2, <3>1 DEF vars, Published
  <2> QED
    BY <2>1, <2>2 DEF Published
<1> QED
  BY <1>1, <1>2, <1>3, <1>4, <1>5

(* The publication a stage is about to make is not on record.               *)
LEMMA PublishingIsUnpublished ==
    ASSUME ConstantsAssumption, TypeOK, Steady, ResumeInv, Executing,
           uploads' # uploads, uploads' = Uploaded
    PROVE  stage = publisher /\ ~Published
<1>1. stage = publisher
  BY DEF Uploaded
<1>2. status = "running" /\ step = "execute" /\ ~Matches(stage)
  BY DEF ResumeInv, ExecutesTheUnmatched, Executing
<1>3. request \in Makeable
  BY <1>1, <1>2 DEF ResumeInv, AskedFor, RefusedAtOnce, Makeable
<1>4. ~Recorded(stage)
  BY <1>2, <1>3, ExecutedIsUnrecorded DEF Steady
<1> QED
  BY <1>1, <1>2, <1>4 DEF Published

(* An upload adds one video at the most.                                    *)
LEMMA UploadAddsOne ==
    ASSUME IsFiniteSet(uploads), uploads' = Uploaded
    PROVE  /\ IsFiniteSet(uploads')
           /\ Cardinality(uploads') <= Cardinality(uploads) + 1
<1> DEFINE n == Cardinality(uploads)
           m == Cardinality(uploads \cup {Upload})
<1>1. n \in Nat
  BY FS_CardinalityType
<1>2. IsFiniteSet(uploads \cup {Upload}) /\ (m = n \/ m = n + 1)
  BY FS_AddElement
<1>3. n <= n + 1 /\ m <= n + 1
  <2> HIDE DEF n, m
  <2> QED
    BY <1>1, <1>2
<1> QED
  BY <1>2, <1>3 DEF Uploaded

LEMMA NextUploadsPaidFor ==
    ASSUME ConstantsAssumption, TypeOK, Steady, Backing, ResumeInv,
           UploadsPaidFor, [Next]_vars
    PROVE  UploadsPaidFor'
<1> USE DEF disk, process, bounds
<1> DEFINE Paid == IF Published THEN 1 ELSE 0
           n == Cardinality(uploads)
<1>0. /\ faults \in Nat /\ losses \in Nat /\ n \in Nat /\ Paid \in {0, 1}
      /\ Paid' \in {0, 1} /\ IsFiniteSet(uploads)
      /\ n <= faults + losses + Paid
  BY FS_CardinalityType DEF TypeOK, UploadsPaidFor
<1>1. CASE ExecuteFails \/ Kill
  <2>1. faults' = faults + 1 /\ losses' = losses
    BY <1>1 DEF ExecuteFails, Kill
  <2>2. CASE UNCHANGED uploads
    <3>1. n' <= faults' + losses' + Paid'
      BY <1>0, <2>1, <2>2
    <3> QED
      BY <1>0, <2>2, <3>1 DEF UploadsPaidFor
  <2>3. CASE uploads' # uploads
    <3>1. Executing /\ uploads' = Uploaded
      BY <1>1, <2>3 DEF ExecuteFails, Kill, PartlyExecuted, Executing
    <3>2. ~Published
      BY <2>3, <3>1, PublishingIsUnpublished
    <3>3. IsFiniteSet(uploads') /\ n' <= n + 1 /\ n' \in Nat
      BY <1>0, <3>1, UploadAddsOne, FS_CardinalityType
    <3>4. n' <= faults' + losses' + Paid'
      BY <1>0, <2>1, <3>2, <3>3
    <3> QED
      BY <3>3, <3>4 DEF UploadsPaidFor
  <2> QED
    BY <2>2, <2>3
<1>2. CASE SaveFails \/ Lose
  <2>1. /\ UNCHANGED uploads
        /\ \/ faults' = faults + 1 /\ losses' = losses
           \/ faults' = faults /\ losses' = losses + 1
    BY <1>2 DEF SaveFails, Lose
  <2>2. n' = n
    BY <2>1
  <2>3. n' <= faults' + losses' + Paid'
    <3> HIDE DEF n, Paid
    <3> QED
      BY <1>0, <2>1, <2>2
  <2> QED
    BY <1>0, <2>1, <2>3 DEF UploadsPaidFor
<1>3. CASE ~(ExecuteFails \/ Kill \/ SaveFails \/ Lose)
  <2>1. UNCHANGED <<faults, losses>>
    BY <1>3 DEF Next, Advance, vars, Start, Skip, InputsFail, Begin,
       RenderScene, RenderRejected, Execute, ExecuteRaises, SaveArtifact,
       SaveCheckpoint, Report
  <2>2. Paid <= Paid'
    BY <1>0, <1>3, PublicationKept
  <2>3. CASE UNCHANGED uploads
    <3>1. n' <= faults' + losses' + Paid'
      BY <1>0, <2>1, <2>2, <2>3
    <3> QED
      BY <1>0, <2>3, <3>1 DEF UploadsPaidFor
  <2>4. CASE uploads' # uploads
    <3>1. Execute
      BY <1>3, <2>4 DEF Next, Advance, vars, Start, Skip, InputsFail, Begin,
         RenderScene, RenderRejected, ExecuteRaises, SaveArtifact,
         SaveCheckpoint, Report
    <3>2. Executing /\ uploads' = Uploaded
      BY <3>1 DEF Execute
    <3>3. stage = publisher /\ ~Published
      BY <2>4, <3>2, PublishingIsUnpublished
    <3>4. IsFiniteSet(uploads') /\ n' <= n + 1 /\ n' \in Nat
      BY <1>0, <3>2, UploadAddsOne, FS_CardinalityType
    <3>5. Published'
      BY <3>1, <3>3 DEF Execute, Executing, Published
    <3>6. n' <= faults' + losses' + Paid'
      BY <1>0, <2>1, <3>3, <3>4, <3>5
    <3> QED
      BY <3>4, <3>6 DEF UploadsPaidFor
  <2> QED
    BY <2>3, <2>4
<1> QED
  BY <1>1, <1>2, <1>3

LEMMA PaidForIsSound ==
    ASSUME TypeOK, ResumeInv, UploadsPaidFor
    PROVE  UploadsAreSound
<1>1. /\ faults \in Nat /\ losses \in Nat /\ Cardinality(uploads) \in Nat
      /\ Cardinality(uploads) <= faults + losses + (IF Published THEN 1 ELSE 0)
  BY FS_CardinalityType DEF TypeOK, UploadsPaidFor
<1>2. Cardinality(uploads) <= faults + losses + 1
  BY <1>1
<1> QED
  BY <1>2 DEF UploadsAreSound, UploadsNeedFaults, ResumeInv

(* Every upload is the run's own Short, and a repeated one is the price of  *)
(* a fault or of a lost record.                                             *)
THEOREM UploadsAlwaysSound ==
    ASSUME Steady
    PROVE  Spec => []UploadsAreSound
<1>1. Init => UploadsPaidFor
  BY FS_EmptySet DEF Init, UploadsPaidFor
<1>2. TypeOK /\ Backing /\ ResumeInv /\ UploadsPaidFor /\ [Next]_vars
         => UploadsPaidFor'
  BY NextUploadsPaidFor, ConstantsAssumption
<1>3. TypeOK /\ ResumeInv /\ UploadsPaidFor => UploadsAreSound
  BY PaidForIsSound
<1>4. Spec => []ResumeInv
  BY ResumeInvHolds DEF Steady
<1> QED
  BY <1>1, <1>2, <1>3, <1>4, Typing, BackingHolds, PTL DEF Spec

LEMMA NextRepeatsNothing ==
    ASSUME ConstantsAssumption, TypeOK, Steady, Backing, ResumeInv,
           [Next]_vars, step = "plan", step' = "execute", CanBeMade(request)
    PROVE  \/ checkpoints[stage].status # "completed"
           \/ checkpoints[stage].output \notin artifacts[stage]
<1>1. Begin
  BY DEF Next, Advance, vars, Start, Skip, InputsFail, RenderScene,
     RenderRejected, Rendering, Execute, ExecuteRaises, SaveArtifact,
     SaveCheckpoint, Report, ExecuteFails, SaveFails, Kill, Lose, Record,
     Abort, Executing, process
<1>2. status = "running" /\ ~Matches(stage) /\ request \in Makeable
  BY <1>1 DEF Begin, Skips, ResumeInv, AskedFor, Steady, SameShort, Makeable
<1>3. ~Recorded(stage)
  BY <1>2, ExecutedIsUnrecorded DEF Steady
<1>4. damaged[stage] = {}
  BY DEF TypeOK, Steady, Backing, NothingDamaged
<1> QED
  BY <1>3, <1>4 DEF Recorded, Completed, Has

(* Resuming repeats nothing: a stage of a Short that can be made is         *)
(* executed only if its checkpoint or the artifact it names is not there.   *)
THEOREM NothingRepeated ==
    ASSUME Steady
    PROVE  Spec => ResumeRepeatsNothing
<1>1. TypeOK /\ Backing /\ ResumeInv /\ [Next]_vars =>
         [step = "plan" /\ step' = "execute" /\ CanBeMade(request)
            => \/ checkpoints[stage].status # "completed"
               \/ checkpoints[stage].output \notin artifacts[stage]]_vars
  BY NextRepeatsNothing, ConstantsAssumption
<1>2. Spec => []ResumeInv
  BY ResumeInvHolds DEF Steady
<1> QED
  BY <1>1, <1>2, Typing, BackingHolds, PTL DEF Spec, ResumeRepeatsNothing
=============================================================================
