------------------------ MODULE ContentPipelineProofs ------------------------
(***************************************************************************)
(* What holds of ContentPipeline for any plans, environments, number of    *)
(* runs and faults.                                                        *)
(*                                                                         *)
(* The two safety properties speak of what several runs left in one        *)
(* directory.  They are made inductive by Progress, which says what the    *)
(* present run has already put in place at each of its steps, and by       *)
(* Bounded: nothing is newer than the present run.  Every step is one of   *)
(* six kinds (StepKinds); each kind preserves the invariant.               *)
(*                                                                         *)
(* That timelines hold is a fact about VideoAssembly: the ends and cuts of *)
(* a plan are recursive functions, so it is first shown that they exist    *)
(* (Recursion) and then, position by position (UpTo), what they are.       *)
(***************************************************************************)
EXTENDS ContentPipeline, WellFoundedInduction, TLAPS

-----------------------------------------------------------------------------
(* The order of the stages                                                 *)

(* Where the stages are, and that they differ.                             *)
LEMMA Positions ==
    /\ Last = 15 /\ DOMAIN Stages = 1..15
    /\ \A i \in 1..15 : Stages[i] \in StageIds
    /\ \A s \in StageIds : \E i \in 1..15 : s = Stages[i]
    /\ \A i, j \in 1..15 : Stages[i] = Stages[j] => i = j
<1>1. Last = 15 /\ DOMAIN Stages = 1..15
  BY DEF Last, Stages
<1>2. \A i \in 1..15 : Stages[i] \in StageIds
  BY <1>1 DEF StageIds
<1>3. \A s \in StageIds : \E i \in 1..15 : s = Stages[i]
  BY <1>1 DEF StageIds
<1>4. \A i, j \in 1..15 : Stages[i] = Stages[j] => i = j
  BY DEF Stages
<1> QED BY <1>1, <1>2, <1>3, <1>4

(* What a stage depends on comes before it.                                *)
LEMMA DependsEarlier ==
    ASSUME NEW s \in StageIds, NEW d \in DependsOn[s]
    PROVE  \E i, j \in 1..15 : i < j /\ d = Stages[i] /\ s = Stages[j]
<1>1. PICK j \in 1..15 : s = Stages[j]
  BY Positions
<1>2. PICK i \in 1..(j - 1) : Stages[i] = d
  BY <1>1, RegisteredInOrder, Positions
<1> QED BY <1>1, <1>2

(* The stages that write media, and the last.                              *)
LEMMA Writers ==
    ASSUME NEW i \in 1..15
    PROVE  /\ Stages[i] = "image_generation" <=> i = 7
           /\ Stages[i] = "voice_generation" <=> i = 8
           /\ Stages[i] = "audio_mix" <=> i = 9
           /\ Stages[i] = "video_render" <=> i = 12
           /\ Stages[i] = "thumbnail" <=> i = 14
           /\ Stages[i] = "publisher" <=> i = 15
  BY DEF Stages

-----------------------------------------------------------------------------
(* Types                                                                   *)

Typed == TypeOK /\ (pc # "idle" => run > 0)

(* The media a run writes are among those of the directory.                *)
LEMMA MediaNames ==
    ASSUME env \in Environment
    PROVE  {Images, Narration, Master, Short, Thumbnail} \subseteq Media
  BY DEF Environment, Images, Narration, Master, Short, Thumbnail, Media

(* Init /\ types.                                                          *)
LEMMA TypedInit == Init => Typed
<1> SUFFICES ASSUME Init PROVE Typed
  OBVIOUS
<1> USE PipelineAssumption DEF Init
<1>1. env \in Environment
  OBVIOUS
<1>2. plan \in [shots : Seq(Nat), visual : Seq([start : Int, duration : Int]),
                narration : Nat]
  BY DEF NoPlan
<1>3. /\ artifact \in [StageIds -> Version]
      /\ output \in [StageIds -> Version]
      /\ media \in [Media -> Version]
  BY DEF Version
<1>4. at \in 1..Last
  BY Positions
<1> QED BY <1>1, <1>2, <1>3, <1>4 DEF Typed, TypeOK

Plans == [shots : Seq(Nat), visual : Seq([start : Int, duration : Int]),
          narration : Nat]

(* A plan keeps its shape.                                                 *)
LEMMA PlanTyping ==
    ASSUME plan \in Plans
    PROVE  /\ NoPlan \in Plans
           /\ \A v \in VisualPlans : [plan EXCEPT !.visual = v] \in Plans
           /\ \A s \in ShotPlans : [plan EXCEPT !.shots = s] \in Plans
           /\ \A n \in Narrations : [plan EXCEPT !.narration = n] \in Plans
<1>1. NoPlan \in Plans
  BY DEF NoPlan, Plans
<1>2. ASSUME NEW v \in VisualPlans PROVE [plan EXCEPT !.visual = v] \in Plans
  <2>1. v \in Seq([start : Int, duration : Int])
    BY PipelineAssumption
  <2> QED BY <2>1 DEF Plans
<1>3. ASSUME NEW s \in ShotPlans PROVE [plan EXCEPT !.shots = s] \in Plans
  <2>1. s \in Seq(Nat \ {0})
    BY PipelineAssumption
  <2>2. s \in Seq(Nat)
    BY <2>1
  <2> QED BY <2>2 DEF Plans
<1>4. ASSUME NEW n \in Narrations PROVE [plan EXCEPT !.narration = n] \in Plans
  <2>1. n \in Nat
    BY PipelineAssumption
  <2> QED BY <2>1 DEF Plans
<1> QED BY <1>1, <1>2, <1>3, <1>4

(* A file that is replaced is of the present run or torn.                  *)
LEMMA VersionTyping ==
    ASSUME Typed, pc # "idle"
    PROVE  run \in Version /\ Torn \in Version /\ run \in 1..MaxRuns
  BY PipelineAssumption DEF Typed, TypeOK, Version

(* A step gives the variables the types it must: those of the bookkeeping, *)
(* of the plan, of the files and of what is counted.                       *)
BookTyped ==
    /\ env \in Environment /\ run \in 0..MaxRuns
    /\ pc \in {"idle", "run", "save", "write", "complete", "failed"}
    /\ at \in 1..Last /\ tries \in 1..MaxTries
    /\ faults \in 0..MaxFaults
    /\ pc # "idle" => run > 0
FilesTyped ==
    /\ artifact \in [StageIds -> Version]
    /\ output \in [StageIds -> Version]
    /\ media \in [Media -> Version]
SentTyped ==
    /\ cut \subseteq 1..MaxRuns
    /\ uploads \subseteq [run : 1..MaxRuns, here : BOOLEAN,
                          video : Version, thumbnail : Version]

(* They are all there is to the type invariant.                            *)
LEMMA TypedParts ==
    Typed <=> BookTyped /\ plan \in Plans /\ FilesTyped /\ SentTyped
  BY DEF Typed, TypeOK, BookTyped, Plans, FilesTyped, SentTyped

(* The bookkeeping of a step.                                              *)
LEMMA BookStep == BookTyped /\ [Next]_vars => BookTyped'
<1> SUFFICES ASSUME BookTyped, [Next]_vars PROVE BookTyped'
  OBVIOUS
<1>f. Fault => faults' \in 0..MaxFaults
  BY PipelineAssumption DEF BookTyped, Fault
<1>r. ASSUME Returns, faults' \in 0..MaxFaults, pc = "run"
      PROVE BookTyped'
  BY <1>r, PipelineAssumption DEF BookTyped, Returns
<1>e. ASSUME Raises, faults' \in 0..MaxFaults, pc = "run" PROVE BookTyped'
  BY <1>e, PipelineAssumption DEF BookTyped, Raises, Ends
<1>u. UNCHANGED faults => faults' \in 0..MaxFaults
  BY DEF BookTyped
<1>1. CASE Start
  BY <1>1, Positions, PipelineAssumption DEF Start, BookTyped
<1>2. CASE Retry
  BY <1>2, <1>f, PipelineAssumption DEF Retry, BookTyped
<1>3. CASE ProviderFails
  BY <1>3, <1>f, <1>e DEF ProviderFails
<1>4. CASE ModelAnswers
  BY <1>4, <1>u, <1>r DEF ModelAnswers
<1>5. CASE VisualDirected
  BY <1>5, <1>u, <1>r DEF VisualDirected, Executes
<1>6. CASE ArchitecturePlans
  <2>1. faults' \in 0..MaxFaults
    BY <1>6, PipelineAssumption DEF ArchitecturePlans, Smaller, BookTyped
  <2> QED BY <1>6, <2>1, <1>r DEF ArchitecturePlans, Executes
<1>7. CASE ArchitectureRaises
  BY <1>7, <1>f, <1>e DEF ArchitectureRaises, Executes
<1>8. CASE BuildWorkflows
  BY <1>8, <1>u, <1>r DEF BuildWorkflows, Executes
<1>9. CASE RenderImages
  BY <1>9, <1>u, <1>f, <1>r, <1>e DEF RenderImages, Executes
<1>10. CASE Speak
  BY <1>10, <1>u, <1>f, <1>r, <1>e DEF Speak, Executes
<1>11. CASE Mix
  BY <1>11, <1>u, <1>r, <1>e DEF Mix, Executes
<1>12. CASE DesignOverlays
  BY <1>12, <1>u, <1>r, <1>e DEF DesignOverlays, Executes
<1>13. CASE Assemble
  BY <1>13, <1>u, <1>r, <1>e DEF Assemble, Executes
<1>14. CASE Encode
  BY <1>14, <1>u, <1>r, <1>e DEF Encode, Executes
<1>15. CASE RenderThumbnail
  BY <1>15, <1>u, <1>f, <1>r, <1>e DEF RenderThumbnail, Executes
<1>16. CASE PublishRefuses
  BY <1>16, <1>u, <1>f, <1>e DEF PublishRefuses, Executes
<1>17. CASE DryRun
  BY <1>17, <1>u, <1>r DEF DryRun, Executes
<1>18. CASE Publish
  BY <1>18, <1>u, <1>f, <1>r, <1>e DEF Publish, Executes
<1>19. CASE SaveArtifact
  BY <1>19, Positions DEF SaveArtifact, BookTyped
<1>20. CASE SaveFails
  BY <1>20, <1>f DEF SaveFails, Ends, BookTyped
<1>21. CASE WriteOutput
  BY <1>21, Positions DEF WriteOutput, BookTyped
<1>22. CASE WriteFails
  BY <1>22, <1>f DEF WriteFails, Ends, BookTyped
<1>23. CASE Kill
  BY <1>23, <1>f DEF Kill, Ends, BookTyped
<1>24. CASE UNCHANGED vars
  BY <1>24 DEF vars, files, BookTyped
<1> QED BY <1>1, <1>2, <1>3, <1>4, <1>5, <1>6, <1>7, <1>8, <1>9, <1>10,
           <1>11, <1>12, <1>13, <1>14, <1>15, <1>16, <1>17, <1>18, <1>19,
           <1>20, <1>21, <1>22, <1>23, <1>24 DEF Next

(* The plan of a step.                                                     *)
LEMMA PlanStep == plan \in Plans /\ [Next]_vars => plan' \in Plans
<1> SUFFICES ASSUME plan \in Plans, [Next]_vars PROVE plan' \in Plans
  OBVIOUS
<1>1. CASE Start \/ Retry \/ ModelAnswers \/ BuildWorkflows \/ DryRun
           \/ SaveArtifact \/ UNCHANGED vars
  BY <1>1 DEF Start, Retry, ModelAnswers, BuildWorkflows, DryRun,
              SaveArtifact, vars
<1>2. CASE ProviderFails \/ ArchitectureRaises \/ PublishRefuses
           \/ SaveFails \/ WriteFails \/ Kill
  BY <1>2, PlanTyping DEF ProviderFails, ArchitectureRaises, PublishRefuses,
                          SaveFails, WriteFails, Kill, Raises, Ends
<1>3. CASE VisualDirected
  BY <1>3, PlanTyping DEF VisualDirected
<1>4. CASE ArchitecturePlans
  BY <1>4, PlanTyping DEF ArchitecturePlans
<1>5. CASE Mix
  BY <1>5, PlanTyping DEF Mix, Raises, Ends
<1>6. CASE RenderImages \/ Speak \/ RenderThumbnail \/ Publish
  BY <1>6, PlanTyping DEF RenderImages, Speak, RenderThumbnail, Publish,
                          Raises, Ends
<1>7. CASE DesignOverlays \/ Assemble \/ Encode
  BY <1>7, PlanTyping DEF DesignOverlays, Assemble, Encode, Raises, Ends
<1>8. CASE WriteOutput
  BY <1>8, PlanTyping DEF WriteOutput
<1> QED BY <1>1, <1>2, <1>3, <1>4, <1>5, <1>6, <1>7, <1>8 DEF Next

(* The files of a step.                                                    *)
LEMMA FilesStep == BookTyped /\ FilesTyped /\ [Next]_vars => FilesTyped'
<1> SUFFICES ASSUME BookTyped, FilesTyped, [Next]_vars PROVE FilesTyped'
  OBVIOUS
<1>v. pc # "idle" => run \in Version
  BY DEF BookTyped, Version
<1>t. Torn \in Version
  BY DEF Version
<1>s. Stage \in StageIds
  BY Positions DEF BookTyped, Stage
<1>m. ASSUME NEW f \in Media, NEW v \in Version,
             media' = [media EXCEPT ![f] = v]
      PROVE  media' \in [Media -> Version]
  BY <1>m DEF FilesTyped
<1>n. {Images, Narration, Master, Short, Thumbnail} \subseteq Media
  BY MediaNames DEF BookTyped
<1>1. CASE UNCHANGED files
  BY <1>1 DEF files, FilesTyped
<1>2. CASE Start \/ Retry
  BY <1>1, <1>2 DEF Start, Retry
<1>3. CASE ProviderFails \/ ArchitectureRaises \/ PublishRefuses
  BY <1>1, <1>3 DEF ProviderFails, ArchitectureRaises, PublishRefuses,
                    Raises, files
<1>4. CASE ModelAnswers \/ VisualDirected \/ ArchitecturePlans
           \/ BuildWorkflows \/ DryRun
  BY <1>1, <1>4 DEF ModelAnswers, VisualDirected, ArchitecturePlans,
                    BuildWorkflows, DryRun, Returns, files
<1>5. CASE DesignOverlays \/ Assemble \/ Publish
  BY <1>1, <1>5 DEF DesignOverlays, Assemble, Publish, Returns, Raises,
                    files
<1>k. ASSUME UNCHANGED <<artifact, output>>, media' \in [Media -> Version]
      PROVE FilesTyped'
  BY <1>k DEF FilesTyped
<1>6. CASE RenderImages
  <2>1. UNCHANGED <<artifact, output>>
    BY <1>6 DEF RenderImages, Returns, Raises
  <2>2. UNCHANGED media => media' \in [Media -> Version]
    BY DEF FilesTyped
  <2>3. media' \in [Media -> Version]
    BY <1>6, <1>m, <1>n, <1>v, <1>t, <2>2 DEF RenderImages, Executes
  <2> QED BY <2>1, <2>3, <1>k
<1>7. CASE Speak
  BY <1>7, <1>m, <1>n, <1>v, <1>k DEF Speak, Executes, Returns, Raises
<1>8. CASE Mix
  BY <1>8, <1>m, <1>n, <1>v, <1>k DEF Mix, Executes, Returns, Raises
<1>9. CASE Encode
  BY <1>9, <1>m, <1>n, <1>v, <1>k DEF Encode, Executes, Returns, Raises
<1>10. CASE RenderThumbnail
  BY <1>10, <1>m, <1>n, <1>v, <1>k DEF RenderThumbnail, Executes, Returns,
                                       Raises
<1>11. CASE SaveArtifact
  BY <1>11, <1>s, <1>v DEF SaveArtifact, FilesTyped
<1>12. CASE SaveFails
  BY <1>12, <1>s, <1>t DEF SaveFails, FilesTyped
<1>13. CASE WriteOutput
  BY <1>13, <1>s, <1>v DEF WriteOutput, FilesTyped
<1>14. CASE WriteFails
  BY <1>14, <1>s, <1>t DEF WriteFails, FilesTyped
<1>15. CASE Kill
  <2>1. UNCHANGED <<artifact, output>>
    BY <1>15 DEF Kill
  <2>2. CASE UNCHANGED media
    BY <2>1, <2>2, <1>k DEF FilesTyped
  <2>3. CASE /\ Stage \in DOMAIN Writes
             /\ media' = [media EXCEPT ![Writes[Stage]] = Torn]
    <3>1. Writes[Stage] \in Media
      BY <2>3, <1>n DEF Writes
    <3> QED BY <2>1, <2>3, <3>1, <1>m, <1>t, <1>k
  <2> QED BY <1>15, <2>2, <2>3 DEF Kill
<1>16. CASE UNCHANGED vars
  BY <1>1, <1>16 DEF vars
<1> QED BY <1>2, <1>3, <1>4, <1>5, <1>6, <1>7, <1>8, <1>9, <1>10,
           <1>11, <1>12, <1>13, <1>14, <1>15, <1>16 DEF Next

(* What a step has cut and sent.                                           *)
LEMMA SentStep ==
    BookTyped /\ FilesTyped /\ SentTyped /\ [Next]_vars => SentTyped'
<1> SUFFICES ASSUME BookTyped, FilesTyped, SentTyped, [Next]_vars
             PROVE  SentTyped'
  OBVIOUS
<1>1. CASE UNCHANGED <<cut, uploads>>
  BY <1>1 DEF SentTyped
<1>2. CASE Encode
  BY <1>2 DEF Encode, Executes, SentTyped, BookTyped
<1>3. CASE Publish
  <2>1. ToUpload \in [run : 1..MaxRuns, here : BOOLEAN,
                      video : Version, thumbnail : Version]
    <3>1. env.publish \in Places
      BY DEF BookTyped, Environment
    <3>2. <<"short", env.publish>> \in Media
          /\ <<"thumbnail", env.publish>> \in Media
      BY <3>1 DEF Media
    <3> QED BY <1>3, <3>2 DEF Publish, Executes, ToUpload, BookTyped,
                              FilesTyped
  <2>2. uploads' = uploads \cup {ToUpload} /\ UNCHANGED cut
    BY <1>3 DEF Publish
  <2> QED BY <2>1, <2>2 DEF SentTyped
<1>4. CASE Start \/ Retry \/ ProviderFails \/ ModelAnswers \/ VisualDirected
           \/ ArchitecturePlans \/ ArchitectureRaises \/ BuildWorkflows
  BY <1>1, <1>4 DEF Start, Retry, ProviderFails, ModelAnswers,
                    VisualDirected, ArchitecturePlans, ArchitectureRaises,
                    BuildWorkflows
<1>5. CASE RenderImages \/ Speak \/ Mix \/ DesignOverlays \/ Assemble
           \/ RenderThumbnail \/ PublishRefuses \/ DryRun
  BY <1>1, <1>5 DEF RenderImages, Speak, Mix, DesignOverlays, Assemble,
                    RenderThumbnail, PublishRefuses, DryRun
<1>6. CASE SaveArtifact \/ SaveFails \/ WriteOutput \/ WriteFails \/ Kill
           \/ UNCHANGED vars
  BY <1>1, <1>6 DEF SaveArtifact, SaveFails, WriteOutput, WriteFails, Kill,
                    vars
<1> QED BY <1>2, <1>3, <1>4, <1>5, <1>6 DEF Next

(* Every step keeps the types.                                             *)
LEMMA TypedStep == Typed /\ [Next]_vars => Typed'
<1>1. Typed' <=> BookTyped' /\ plan' \in Plans /\ FilesTyped' /\ SentTyped'
  BY DEF Typed, TypeOK, BookTyped, Plans, FilesTyped, SentTyped
<1> QED BY <1>1, TypedParts, BookStep, PlanStep, FilesStep, SentStep

(* The pipeline keeps its shape, and no provider is asked more often than  *)
(* max_retries allows.                                                     *)
THEOREM Typing == Spec => []TypeOK
<1>1. Typed => TypeOK
  BY DEF Typed
<1> QED BY TypedInit, TypedStep, <1>1, PTL DEF Spec

-----------------------------------------------------------------------------
(* The kinds of steps                                                      *)

(* What the stage at i has left, its artifact, and its output: all these   *)
(* are of the present run when it has got that far.                        *)
Ran(i) == \/ pc \in {"write", "complete"}
          \/ pc = "run" /\ i < at
          \/ pc = "save" /\ i <= at
Kept(i) == \/ pc \in {"write", "complete"}
           \/ pc \in {"run", "save"} /\ i < at
Out(i) == \/ pc = "complete"
          \/ pc = "write" /\ i < at

(* Nothing the properties read changes.                                    *)
Quiet == UNCHANGED <<env, run, pc, at, files, cut, uploads>>

(* A stage returns, having written its own media file at most.             *)
StageReturns ==
    /\ pc = "run" /\ pc' = "save"
    /\ UNCHANGED <<env, run, at, artifact, output, cut>>
    /\ \A f \in Media : media'[f] \in {media[f], run}
    /\ at = 7 => media'[Images] = run
    /\ at = 8 => media'[Narration] = run
    /\ at = 9 => media'[Master] = run
    /\ at = 12 => media'[Short] = run
    /\ at = 14 => media'[Thumbnail] = run
    /\ IF at = 15 /\ ~env.dry_run
       THEN AssetsThere /\ uploads' = uploads \cup {ToUpload}
       ELSE UNCHANGED uploads

(* The run ends before its time.                                           *)
RunFails ==
    /\ pc \in {"run", "save", "write"} /\ pc' = "failed"
    /\ UNCHANGED <<env, run>>
    /\ \A f \in Media : media'[f] \in {media[f], run, Torn}
    /\ \A s \in StageIds : /\ artifact'[s] \in {artifact[s], Torn}
                           /\ output'[s] \in {output[s], Torn}
    /\ \/ UNCHANGED <<cut, uploads>>
       \/ pc = "run" /\ cut' = cut \cup {run} /\ UNCHANGED uploads
       \/ /\ pc = "run" /\ at = 15 /\ UNCHANGED cut
          /\ AssetsThere /\ uploads' = uploads \cup {ToUpload}

(* Writing one file changes no other.                                      *)
LEMMA ReplacesOne ==
    ASSUME Typed, NEW f \in Media, NEW v, media' = [media EXCEPT ![f] = v]
    PROVE  media'[f] = v /\ \A g \in Media : media'[g] \in {media[g], v}
  BY DEF Typed, TypeOK

(* The media have different names.                                         *)
LEMMA NamesDiffer ==
    ASSUME Typed
    PROVE  /\ {Images, Narration, Master, Short, Thumbnail} \subseteq Media
           /\ at \in 1..15
           /\ Stage = "image_generation" <=> at = 7
           /\ Stage = "voice_generation" <=> at = 8
           /\ Stage = "audio_mix" <=> at = 9
           /\ Stage = "video_render" <=> at = 12
           /\ Stage = "thumbnail" <=> at = 14
           /\ Stage = "publisher" <=> at = 15
<1>1. at \in 1..15
  BY Positions DEF Typed, TypeOK
<1>2. env \in Environment
  BY DEF Typed, TypeOK
<1> QED BY <1>1, <1>2, Writers, MediaNames DEF Stage

(* Every step is one of these.                                             *)
LEMMA StepKinds ==
    ASSUME Typed, [Next]_vars
    PROVE  Start \/ Quiet \/ StageReturns \/ RunFails \/ SaveArtifact
           \/ WriteOutput
<1>n. /\ {Images, Narration, Master, Short, Thumbnail} \subseteq Media
      /\ at \in 1..15
      /\ Stage = "image_generation" <=> at = 7
      /\ Stage = "voice_generation" <=> at = 8
      /\ Stage = "audio_mix" <=> at = 9
      /\ Stage = "video_render" <=> at = 12
      /\ Stage = "thumbnail" <=> at = 14
      /\ Stage = "publisher" <=> at = 15
  BY NamesDiffer
<1>f. ASSUME pc \in {"run", "save", "write"}, pc' = "failed",
             UNCHANGED <<env, run, files, cut, uploads>>
      PROVE  RunFails
  BY <1>f DEF RunFails, files
<1>e. ASSUME pc = "run", Raises,
             \A f \in Media : media'[f] \in {media[f], run, Torn},
             UNCHANGED <<cut, uploads>>
      PROVE  RunFails
  BY <1>e DEF RunFails, Raises, Ends
<1>r. ASSUME pc = "run", Returns,
             UNCHANGED <<media, cut, uploads>>, at \notin {7, 8, 9, 12, 14},
             at # 15 \/ env.dry_run
      PROVE  StageReturns
  BY <1>r DEF StageReturns, Returns
<1>1. CASE Retry \/ UNCHANGED vars
  BY <1>1 DEF Retry, vars, Quiet
<1>2. CASE ProviderFails \/ ArchitectureRaises \/ PublishRefuses
  BY <1>2, <1>e DEF ProviderFails, ArchitectureRaises, PublishRefuses,
                    Executes
<1>3. CASE ModelAnswers
  BY <1>3, <1>n, <1>r DEF ModelAnswers, Directed
<1>4. CASE VisualDirected \/ ArchitecturePlans \/ BuildWorkflows
  BY <1>4, <1>n, <1>r DEF VisualDirected, ArchitecturePlans, BuildWorkflows,
                          Executes
<1>5. CASE DesignOverlays \/ Assemble
  BY <1>5, <1>n, <1>r, <1>e DEF DesignOverlays, Assemble, Executes
<1>6. CASE DryRun
  BY <1>6, <1>n, <1>r DEF DryRun, Executes
<1>7. CASE RenderImages
  <2>1. CASE Returns
    <3>1. at = 7 /\ pc = "run" /\ UNCHANGED <<cut, uploads>>
      BY <1>7, <1>n DEF RenderImages, Executes
    <3>2. media' = [media EXCEPT ![Images] = run]
      BY <1>7, <2>1 DEF RenderImages, Returns, Raises, Ends
    <3>3. /\ media'[Images] = run
          /\ \A g \in Media : media'[g] \in {media[g], run}
      BY <3>2, <1>n, ReplacesOne
    <3> QED BY <2>1, <3>1, <3>3 DEF StageReturns, Returns
  <2>2. CASE Raises /\ UNCHANGED media
    BY <1>7, <2>2, <1>e DEF RenderImages, Executes
  <2>3. CASE Raises /\ media' = [media EXCEPT ![Images] = Torn]
    <3>1. \A g \in Media : media'[g] \in {media[g], Torn}
      BY <2>3, <1>n, ReplacesOne
    <3> QED BY <1>7, <2>3, <3>1, <1>e DEF RenderImages, Executes
  <2> QED BY <1>7, <2>1, <2>2, <2>3 DEF RenderImages
<1>w. ASSUME pc = "run", Returns \/ Raises, UNCHANGED <<cut, uploads>>,
             NEW f \in Media, media' = [media EXCEPT ![f] = run],
             \/ at = 8 /\ f = Narration
             \/ at = 9 /\ f = Master
             \/ at = 14 /\ f = Thumbnail
      PROVE  StageReturns \/ RunFails
  <2>1. media'[f] = run /\ \A g \in Media : media'[g] \in {media[g], run}
    BY <1>w, ReplacesOne
  <2>2. CASE Returns
    BY <1>w, <2>1, <2>2 DEF StageReturns, Returns
  <2>3. CASE Raises
    BY <1>w, <2>1, <2>3, <1>e
  <2> QED BY <1>w, <2>2, <2>3
<1>8. CASE Speak
  BY <1>8, <1>n, <1>w DEF Speak, Executes
<1>9. CASE Mix
  BY <1>9, <1>n, <1>w DEF Mix, Executes
<1>10. CASE RenderThumbnail
  BY <1>10, <1>n, <1>w DEF RenderThumbnail, Executes
<1>11. CASE Encode
  <2>1. at = 12 /\ pc = "run" /\ UNCHANGED uploads
        /\ media' = [media EXCEPT ![Short] = run]
    BY <1>11, <1>n DEF Encode, Executes
  <2>2. media'[Short] = run /\ \A g \in Media : media'[g] \in {media[g], run}
    BY <2>1, <1>n, ReplacesOne
  <2>3. PICK pad \in Pads :
          LET encoded == Encoded(Assembled, plan.shots, pad) IN
          /\ IF Verified(encoded) THEN Returns /\ UNCHANGED plan ELSE Raises
          /\ cut' = IF CoversNarration(encoded, plan.narration) THEN cut
                    ELSE cut \cup {run}
    BY <1>11 DEF Encode
  <2> DEFINE encoded == Encoded(Assembled, plan.shots, pad)
  <2>4. CASE Verified(encoded)
    <3>1. Returns /\ cut' = cut
      BY <2>3, <2>4 DEF Verified
    <3> QED BY <2>1, <2>2, <3>1 DEF StageReturns, Returns
  <2>5. CASE ~Verified(encoded)
    <3>1. Raises /\ cut' \in {cut, cut \cup {run}}
      BY <2>3, <2>5
    <3> QED BY <2>1, <2>2, <3>1 DEF RunFails, Raises, Ends
  <2> QED BY <2>4, <2>5
<1>12. CASE Publish
  <2>1. at = 15 /\ pc = "run" /\ ~env.dry_run /\ AssetsThere
        /\ uploads' = uploads \cup {ToUpload} /\ UNCHANGED <<media, cut>>
    BY <1>12, <1>n DEF Publish, Executes
  <2>2. CASE Returns
    BY <2>1, <2>2 DEF StageReturns, Returns
  <2>3. CASE Raises
    BY <2>1, <2>3 DEF RunFails, Raises, Ends
  <2> QED BY <1>12, <2>2, <2>3 DEF Publish
<1>s. Stage \in StageIds /\ artifact \in [StageIds -> Version]
      /\ output \in [StageIds -> Version]
  BY <1>n, Positions DEF Stage, Typed, TypeOK
<1>13. CASE SaveFails
  BY <1>13, <1>s DEF SaveFails, Ends, RunFails
<1>14. CASE WriteFails
  BY <1>14, <1>s DEF WriteFails, Ends, RunFails
<1>15. CASE Kill
  <2>1. \A g \in Media : media'[g] \in {media[g], Torn}
    <3>1. CASE UNCHANGED media
      BY <3>1
    <3>2. CASE /\ Stage \in DOMAIN Writes
               /\ media' = [media EXCEPT ![Writes[Stage]] = Torn]
      <4>1. Writes[Stage] \in Media
        BY <3>2, <1>n DEF Writes
      <4> QED BY <3>2, <4>1, ReplacesOne
    <3> QED BY <1>15, <3>1, <3>2 DEF Kill
  <2> QED BY <1>15, <2>1 DEF Kill, Ends, RunFails
<1> QED BY <1>1, <1>2, <1>3, <1>4, <1>5, <1>6, <1>7, <1>8, <1>9, <1>10,
           <1>11, <1>12, <1>13, <1>14, <1>15 DEF Next

-----------------------------------------------------------------------------
(* The invariant                                                           *)

(* Nothing is newer than the present run.                                  *)
Old(v) == v = Torn \/ v <= run
Bounded ==
    /\ \A s \in StageIds : Old(artifact[s]) /\ Old(output[s])
    /\ \A f \in Media : Old(media[f])
    /\ \A u \in uploads : u.run <= run
    /\ cut \subseteq 1..run

(* What the present run has put in place.                                  *)
Progress ==
    /\ Ran(7) => media[Images] = run
    /\ Ran(8) => media[Narration] = run
    /\ Ran(9) => media[Master] = run
    /\ Ran(12) => media[Short] = run
    /\ Ran(14) => media[Thumbnail] = run
    /\ run \in cut => pc = "failed"
    /\ \A i \in 1..15 : Kept(i) => artifact[Stages[i]] = run
    /\ \A i \in 1..15 :
          Out(i) /\ Written(Stages[i]) => output[Stages[i]] = run

(* What it has sent.                                                       *)
Sent ==
    /\ \A u \in uploads : u.run = run => pc = "failed" \/ Ran(15)
    /\ Ran(15) => (~env.dry_run <=> \E u \in uploads : u.run = run)

SentWell ==
    /\ \A u \in uploads :
          /\ u.video # 0 /\ u.thumbnail # 0
          /\ u.here => /\ u.video = u.run /\ u.thumbnail = u.run
                       /\ u.run \notin cut
    /\ \A u, v \in uploads : u.run = v.run => u = v

Ages ==
    /\ \A s \in StageIds : \A d \in DependsOn[s] :
          NoOlder(artifact[d], artifact[s])
    /\ NoOlder(media[Images], artifact["image_generation"])
    /\ NoOlder(media[Narration], artifact["voice_generation"])
    /\ NoOlder(media[Master], artifact["audio_mix"])
    /\ \A i, j \in 2..15 :
          i < j => NoOlder(output[Stages[i]], output[Stages[j]])

IInv == Typed /\ Bounded /\ Progress /\ Sent /\ SentWell /\ Ages

(* The versions are numbers, but for Torn.                                 *)
LEMMA Versions ==
    ASSUME Typed
    PROVE  /\ \A s \in StageIds : /\ artifact[s] = Torn \/ artifact[s] \in Nat
                                  /\ output[s] = Torn \/ output[s] \in Nat
           /\ \A f \in Media : media[f] = Torn \/ media[f] \in Nat
           /\ run \in Nat /\ run # Torn
           /\ \A u \in uploads : u.run \in Nat /\ u.run > 0
           /\ at \in 1..15
<1> USE PipelineAssumption DEF Typed, TypeOK, Version
<1>1. \A s \in StageIds : /\ artifact[s] = Torn \/ artifact[s] \in Nat
                          /\ output[s] = Torn \/ output[s] \in Nat
  OBVIOUS
<1>2. \A f \in Media : media[f] = Torn \/ media[f] \in Nat
  OBVIOUS
<1>3. run \in Nat /\ run # Torn
  OBVIOUS
<1>4. \A u \in uploads : u.run \in Nat /\ u.run > 0
  OBVIOUS
<1>5. at \in 1..15
  BY Positions
<1> QED BY <1>1, <1>2, <1>3, <1>4, <1>5

(* The names the media properties speak of.                                *)
LEMMA MakerIds ==
    {"image_generation", "voice_generation", "audio_mix"} \subseteq StageIds
<1>1. /\ Stages[7] = "image_generation" /\ Stages[8] = "voice_generation"
      /\ Stages[9] = "audio_mix"
  BY DEF Stages
<1> QED BY <1>1, Positions

(* A new directory is in order.                                            *)
LEMMA InvInit == Init => IInv
<1> SUFFICES ASSUME Init PROVE IInv
  OBVIOUS
<1>t. Typed
  BY TypedInit
<1>1. Bounded
  BY DEF Init, Bounded, Old
<1>2. Progress
  BY DEF Init, Progress, Ran, Kept, Out
<1>3. Sent /\ SentWell
  BY DEF Init, Sent, SentWell, Ran
<1>4. Ages
  <2>1. \A s \in StageIds : artifact[s] = 0 /\ output[s] = 0
    BY DEF Init
  <2>2. \A f \in Media : media[f] = 0
    BY DEF Init
  <2>3. \A s \in StageIds : DependsOn[s] \subseteq StageIds
    BY Positions, RegisteredInOrder
  <2>4. {Images, Narration, Master} \subseteq Media
    BY <1>t, NamesDiffer
  <2> QED BY <2>1, <2>2, <2>3, <2>4, MakerIds, Positions DEF Ages, NoOlder
<1> QED BY <1>t, <1>1, <1>2, <1>3, <1>4 DEF IInv

(* Starting a run: everything there is older.                              *)
LEMMA InvStart == IInv /\ Typed' /\ Start => IInv'
<1> SUFFICES ASSUME IInv, Typed', Start PROVE IInv'
  OBVIOUS
<1>v. run \in Nat /\ run' = run + 1 /\ \A u \in uploads : u.run \in Nat
  BY Versions DEF IInv, Start
<1>u. UNCHANGED <<artifact, output, media, cut, uploads>>
      /\ pc' = "run" /\ at' = 1
  BY DEF Start, files
<1>1. Bounded'
  <2>1. ASSUME NEW s \in StageIds PROVE Old(artifact[s])' /\ Old(output[s])'
    <3>1. Old(artifact[s]) /\ Old(output[s])
      BY DEF IInv, Bounded
    <3>2. /\ artifact[s] = Torn \/ artifact[s] \in Nat
          /\ output[s] = Torn \/ output[s] \in Nat
      BY Versions DEF IInv
    <3> QED BY <3>1, <3>2, <1>v, <1>u DEF Old
  <2>2. \A f \in Media : Old(media[f])'
    BY <1>v, <1>u, Versions DEF IInv, Bounded, Old
  <2>3. \A u \in uploads' : u.run <= run'
    BY <1>v, <1>u DEF IInv, Bounded
  <2>4. cut' \subseteq 1..run'
    BY <1>v, <1>u DEF IInv, Bounded
  <2> QED BY <2>1, <2>2, <2>3, <2>4 DEF Bounded
<1>2. Progress'
  <2>1. \A i \in 1..15 : ~Ran(i)' /\ ~Kept(i)' /\ ~Out(i)'
    BY <1>u DEF Ran, Kept, Out
  <2>2. run' \notin cut'
    BY <1>v, <1>u DEF IInv, Bounded
  <2> QED BY <2>1, <2>2 DEF Progress
<1>3. Sent'
  BY <1>u, <1>v DEF Sent, Ran, IInv, Bounded
<1>4. SentWell'
  BY <1>u DEF SentWell, IInv
<1>5. Ages'
  BY <1>u DEF Ages, IInv
<1> QED BY <1>1, <1>2, <1>3, <1>4, <1>5 DEF IInv

(* A step that changes nothing the invariant reads.                        *)
LEMMA InvQuiet == IInv /\ Typed' /\ Quiet => IInv'
<1> SUFFICES ASSUME IInv, Typed', Quiet PROVE IInv'
  OBVIOUS
<1>1. UNCHANGED <<env, run, pc, at, artifact, output, media, cut, uploads>>
  BY DEF Quiet, files
<1>2. Bounded'
  BY <1>1 DEF IInv, Bounded, Old
<1>3. Progress'
  BY <1>1 DEF IInv, Progress, Ran, Kept, Out, Short, Thumbnail, Written
<1>4. Sent'
  BY <1>1 DEF IInv, Sent, Ran
<1>5. SentWell' /\ Ages'
  BY <1>1 DEF IInv, SentWell, Ages
<1> QED BY <1>2, <1>3, <1>4, <1>5 DEF IInv

(* What a publishing run sends is its own.                                 *)
LEMMA SendsItsOwn ==
    ASSUME IInv, pc = "run", at = 15, AssetsThere,
           uploads' = uploads \cup {ToUpload}, UNCHANGED <<cut, run>>
    PROVE  /\ SentWell' /\ ToUpload.run = run
           /\ \A u \in uploads' : u.run <= run
<1>v. run \in Nat
  BY Versions DEF IInv
<1>1. \A u \in uploads : u.run # run /\ u.run <= run
  BY DEF IInv, Sent, Ran, Bounded
<1>2. run \notin cut /\ media[Short] = run /\ media[Thumbnail] = run
  BY DEF IInv, Progress, Ran
<1>3. ToUpload.run = run /\ ToUpload.video # 0 /\ ToUpload.thumbnail # 0
  BY DEF ToUpload, AssetsThere
<1>4. ToUpload.here => ToUpload.video = run /\ ToUpload.thumbnail = run
  BY <1>2 DEF ToUpload, Short, Thumbnail
<1>5. SentWell'
  BY <1>1, <1>2, <1>3, <1>4 DEF SentWell, IInv
<1> QED BY <1>v, <1>1, <1>3, <1>5

(* A stage returns: what it was to leave behind is there.                  *)
LEMMA InvReturns == IInv /\ Typed' /\ StageReturns => IInv'
<1> SUFFICES ASSUME IInv, Typed', StageReturns PROVE IInv'
  OBVIOUS
<1>t. Typed
  BY DEF IInv
<1>v. run \in Nat /\ at \in 1..15 /\ run' = run /\ at' = at /\ env' = env
      /\ run # Torn
  BY <1>t, Versions DEF StageReturns
<1>u. pc = "run" /\ pc' = "save" /\ UNCHANGED <<artifact, output, cut>>
  BY DEF StageReturns
<1>m. \A f \in Media : media'[f] \in {media[f], run}
  BY DEF StageReturns
<1>n. {Images, Narration, Master, Short, Thumbnail} \subseteq Media
      /\ Short' = Short /\ Thumbnail' = Thumbnail
  BY <1>t, <1>v, NamesDiffer DEF Short, Thumbnail
<1>r. ASSUME NEW i \in 1..15
      PROVE  /\ Ran(i)' => Ran(i) \/ at = i
             /\ Kept(i)' => Kept(i)
             /\ ~Out(i)'
  BY <1>u, <1>v DEF Ran, Kept, Out
<1>s. at = 15 => SentWell' /\ (uploads' # uploads => ToUpload.run = run)
                 /\ \A u \in uploads' : u.run <= run
  <2>1. CASE at = 15 /\ ~env.dry_run
    BY <2>1, <1>u, <1>v, SendsItsOwn DEF StageReturns
  <2>2. CASE env.dry_run
    BY <2>2, <1>u, <1>v DEF StageReturns, SentWell, IInv, Bounded
  <2> QED BY <2>1, <2>2
<1>1. Bounded'
  <2>1. \A f \in Media : Old(media'[f])
    BY <1>m, <1>v DEF IInv, Bounded, Old
  <2>2. \A u \in uploads' : u.run <= run
    BY <1>s DEF StageReturns, IInv, Bounded
  <2> QED BY <2>1, <2>2, <1>u, <1>v DEF IInv, Bounded, Old
<1>2. Progress'
  <2>1. Ran(7)' => media'[Images] = run
    BY <1>r, <1>m, <1>n DEF StageReturns, IInv, Progress
  <2>2. Ran(8)' => media'[Narration] = run
    BY <1>r, <1>m, <1>n DEF StageReturns, IInv, Progress
  <2>3. Ran(9)' => media'[Master] = run
    BY <1>r, <1>m, <1>n DEF StageReturns, IInv, Progress
  <2>4. Ran(12)' => media'[Short] = run
    BY <1>r, <1>m, <1>n DEF StageReturns, IInv, Progress
  <2>5. Ran(14)' => media'[Thumbnail] = run
    BY <1>r, <1>m, <1>n DEF StageReturns, IInv, Progress
  <2>6. run \notin cut
    BY <1>u DEF IInv, Progress
  <2>7. \A i \in 1..15 : Kept(i)' => artifact[Stages[i]] = run
    BY <1>r DEF IInv, Progress
  <2> QED BY <2>1, <2>2, <2>3, <2>4, <2>5, <2>6, <2>7, <1>u, <1>v, <1>n, <1>r
          DEF Progress
<1>3. Sent'
  <2>1. \A u \in uploads : u.run # run
    BY <1>u, <1>v DEF IInv, Sent, Ran
  <2>2. Ran(15)' <=> at = 15
    BY <1>u, <1>v DEF Ran
  <2>3. CASE at = 15 /\ ~env.dry_run
    <3>1. ToUpload \in uploads' /\ ToUpload.run = run
      BY <2>3 DEF StageReturns, ToUpload
    <3> QED BY <3>1, <2>2, <2>3, <1>v DEF Sent
  <2>4. CASE ~(at = 15 /\ ~env.dry_run)
    <3>1. uploads' = uploads
      BY <2>4 DEF StageReturns
    <3> QED BY <3>1, <2>1, <2>2, <2>4, <1>v DEF Sent
  <2> QED BY <2>3, <2>4
<1>4. SentWell'
  <2>1. at # 15 => uploads' = uploads
    BY DEF StageReturns
  <2> QED BY <2>1, <1>s, <1>u DEF SentWell, IInv
<1>5. Ages'
  <2>1. ASSUME NEW f \in Media, NEW s \in StageIds,
               NoOlder(media[f], artifact[s])
        PROVE  NoOlder(media'[f], artifact'[s])
    <3>1. artifact[s] = Torn \/ artifact[s] <= run
      BY DEF IInv, Bounded, Old
    <3>2. artifact[s] = Torn \/ artifact[s] \in Nat
      BY <1>t, Versions
    <3> QED BY <2>1, <3>1, <3>2, <1>m, <1>u, <1>v DEF NoOlder
  <2> QED BY <2>1, <1>u, <1>n, MakerIds DEF Ages, IInv
<1> QED BY <1>1, <1>2, <1>3, <1>4, <1>5 DEF IInv

(* A run fails: nothing more is claimed of it, and what it replaced is its *)
(* own or torn.                                                            *)
LEMMA InvFails == IInv /\ Typed' /\ RunFails => IInv'
<1> SUFFICES ASSUME IInv, Typed', RunFails PROVE IInv'
  OBVIOUS
<1>t. Typed
  BY DEF IInv
<1>v. run \in Nat /\ run > 0 /\ at \in 1..15 /\ run' = run /\ env' = env
      /\ run # Torn
  BY <1>t, Versions DEF RunFails, Typed
<1>u. pc' = "failed"
  BY DEF RunFails
<1>m. \A f \in Media : media'[f] \in {media[f], run, Torn}
  BY DEF RunFails
<1>a. \A s \in StageIds : artifact'[s] \in {artifact[s], Torn}
                          /\ output'[s] \in {output[s], Torn}
  BY DEF RunFails
<1>n. {Images, Narration, Master} \subseteq Media
  BY <1>t, NamesDiffer
<1>r. \A i \in 1..15 : ~Ran(i)' /\ ~Kept(i)' /\ ~Out(i)'
  BY <1>u DEF Ran, Kept, Out
<1>s. SentWell' /\ (\A u \in uploads' : u.run <= run) /\ cut' \subseteq 1..run
  <2>1. CASE UNCHANGED <<cut, uploads>>
    BY <2>1, <1>v DEF SentWell, IInv, Bounded
  <2>2. CASE pc = "run" /\ cut' = cut \cup {run} /\ UNCHANGED uploads
    <3>1. \A u \in uploads : u.run # run
      BY <2>2, <1>v DEF IInv, Sent, Ran
    <3>2. SentWell'
      BY <2>2, <3>1 DEF SentWell, IInv
    <3>3. cut' \subseteq 1..run
      BY <2>2, <1>v DEF IInv, Bounded
    <3> QED BY <2>2, <3>2, <3>3 DEF IInv, Bounded
  <2>3. CASE /\ pc = "run" /\ at = 15 /\ UNCHANGED cut
             /\ AssetsThere /\ uploads' = uploads \cup {ToUpload}
    BY <2>3, <1>v, SendsItsOwn DEF IInv, Bounded
  <2> QED BY <2>1, <2>2, <2>3 DEF RunFails
<1>1. Bounded'
  <2>1. \A f \in Media : Old(media'[f])
    BY <1>m, <1>v DEF IInv, Bounded, Old
  <2>2. \A s \in StageIds : Old(artifact'[s]) /\ Old(output'[s])
    BY <1>a, <1>v DEF IInv, Bounded, Old
  <2> QED BY <2>1, <2>2, <1>s, <1>v DEF Bounded, Old
<1>2. Progress'
  BY <1>r, <1>u DEF Progress
<1>3. Sent'
  BY <1>r, <1>u DEF Sent
<1>5. Ages'
  <2>1. ASSUME NEW f \in Media, NEW s \in StageIds,
               NoOlder(media[f], artifact[s])
        PROVE  NoOlder(media'[f], artifact'[s])
    <3>1. artifact[s] = Torn \/ artifact[s] <= run
      BY DEF IInv, Bounded, Old
    <3>2. artifact[s] = Torn \/ artifact[s] \in Nat
      BY <1>t, Versions
    <3> QED BY <2>1, <3>1, <3>2, <1>m, <1>a, <1>v DEF NoOlder
  <2>2. ASSUME NEW s \in StageIds, NEW d \in StageIds,
               NoOlder(artifact[d], artifact[s])
        PROVE  NoOlder(artifact'[d], artifact'[s])
    BY <2>2, <1>a DEF NoOlder
  <2>3. ASSUME NEW s \in StageIds, NEW d \in StageIds,
               NoOlder(output[d], output[s])
        PROVE  NoOlder(output'[d], output'[s])
    BY <2>3, <1>a DEF NoOlder
  <2>4. \A s \in StageIds : \A d \in DependsOn[s] :
          NoOlder(artifact'[d], artifact'[s])
    <3>1. \A s \in StageIds : DependsOn[s] \subseteq StageIds
      BY DependsEarlier, Positions
    <3> QED BY <3>1, <2>2 DEF IInv, Ages
  <2>5. \A i, j \in 2..15 :
          i < j => NoOlder(output'[Stages[i]], output'[Stages[j]])
    <3>1. \A i \in 2..15 : Stages[i] \in StageIds
      BY Positions
    <3> QED BY <3>1, <2>3 DEF IInv, Ages
  <2> QED BY <2>1, <2>4, <2>5, <1>n, MakerIds DEF Ages, IInv
<1> QED BY <1>1, <1>2, <1>3, <1>s, <1>5 DEF IInv

(* An artifact is saved: those it was made from are of this run already.   *)
LEMMA InvSave == IInv /\ Typed' /\ SaveArtifact => IInv'
<1> SUFFICES ASSUME IInv, Typed', SaveArtifact PROVE IInv'
  OBVIOUS
<1>t. Typed
  BY DEF IInv
<1>v. /\ run \in Nat /\ at \in 1..15 /\ run # Torn
      /\ artifact \in [StageIds -> Version] /\ Last = 15
  BY <1>t, Versions, Positions DEF Typed, TypeOK
<1>u. /\ pc = "save" /\ artifact' = [artifact EXCEPT ![Stage] = run]
      /\ pc' = IF at = 15 THEN "write" ELSE "run"
      /\ at' = IF at = 15 THEN 1 ELSE at + 1
      /\ UNCHANGED <<env, run, output, media, cut, uploads>>
  BY <1>v DEF SaveArtifact
<1>i. Stage \in StageIds /\ Stage = Stages[at]
  BY <1>v, Positions DEF Stage
<1>a. /\ artifact'[Stage] = run
      /\ \A s \in StageIds : s # Stage => artifact'[s] = artifact[s]
  BY <1>v, <1>u, <1>i
<1>n. {Images, Narration, Master} \subseteq Media
      /\ Short' = Short /\ Thumbnail' = Thumbnail
  BY <1>t, <1>u, NamesDiffer DEF Short, Thumbnail
<1>r. ASSUME NEW i \in 1..15
      PROVE  /\ Ran(i)' <=> Ran(i)
             /\ Kept(i)' => Kept(i) \/ i = at
             /\ ~Out(i)'
  <2>1. CASE at = 15
    BY <2>1, <1>u, <1>v DEF Ran, Kept, Out
  <2>2. CASE at # 15
    BY <2>2, <1>u, <1>v DEF Ran, Kept, Out
  <2> QED BY <2>1, <2>2
<1>1. Bounded'
  <2>1. \A s \in StageIds : Old(artifact'[s])
    BY <1>a, <1>v DEF IInv, Bounded, Old
  <2> QED BY <2>1, <1>u DEF IInv, Bounded, Old
<1>2. Progress'
  <2>1. \A i \in 1..15 : Kept(i)' => artifact'[Stages[i]] = run
    BY <1>r, <1>a, <1>i, Positions DEF IInv, Progress
  <2>2. run \notin cut
    BY <1>u DEF IInv, Progress
  <2> QED BY <2>1, <2>2, <1>r, <1>u, <1>n DEF IInv, Progress
<1>3. Sent'
  BY <1>r, <1>u DEF IInv, Sent
<1>4. SentWell'
  BY <1>u DEF IInv, SentWell
<1>5. Ages'
  <2>1. \A s \in StageIds : NoOlder(run, artifact[s])
    BY <1>t, <1>v, Versions DEF IInv, Bounded, Old, NoOlder
  <2>2. NoOlder(run, run)
    BY <1>v DEF NoOlder
  <2>3. ASSUME NEW s \in StageIds, NEW d \in DependsOn[s]
        PROVE  NoOlder(artifact'[d], artifact'[s])
    <3>1. PICK i, j \in 1..15 : i < j /\ d = Stages[i] /\ s = Stages[j]
      BY DependsEarlier
    <3>2. d \in StageIds
      BY <3>1, Positions
    <3>3. CASE s = Stage
      <4>1. j = at
        BY <3>1, <3>3, <1>i, <1>v, Positions
      <4>2. artifact[d] = run
        BY <3>1, <4>1, <1>u DEF IInv, Progress, Kept
      <4> QED BY <3>2, <3>3, <4>2, <1>a, <2>2
    <3>4. CASE s # Stage /\ d = Stage
      BY <3>4, <1>a, <2>1
    <3>5. CASE s # Stage /\ d # Stage
      BY <3>2, <3>5, <1>a DEF IInv, Ages
    <3> QED BY <3>3, <3>4, <3>5
  <2>4. ASSUME NEW f \in Media, NEW i \in 1..15,
               Ran(i) => media[f] = run,
               NoOlder(media[f], artifact[Stages[i]])
        PROVE  NoOlder(media'[f], artifact'[Stages[i]])
    <3>1. CASE i = at
      BY <3>1, <2>4, <1>a, <1>i, <1>u, <2>2 DEF Ran
    <3>2. CASE i # at
      BY <3>2, <2>4, <1>a, <1>i, <1>u, <1>v, Positions
    <3> QED BY <3>1, <3>2
  <2>5. /\ Stages[7] = "image_generation" /\ Stages[8] = "voice_generation"
        /\ Stages[9] = "audio_mix"
    BY DEF Stages
  <2>6. /\ NoOlder(media'[Images], artifact'["image_generation"])
        /\ NoOlder(media'[Narration], artifact'["voice_generation"])
        /\ NoOlder(media'[Master], artifact'["audio_mix"])
    <3>1. /\ Ran(7) => media[Images] = run
          /\ Ran(8) => media[Narration] = run
          /\ Ran(9) => media[Master] = run
      BY DEF IInv, Progress
    <3>2. /\ NoOlder(media[Images], artifact["image_generation"])
          /\ NoOlder(media[Narration], artifact["voice_generation"])
          /\ NoOlder(media[Master], artifact["audio_mix"])
      BY DEF IInv, Ages
    <3>3. 7 \in 1..15 /\ 8 \in 1..15 /\ 9 \in 1..15
      OBVIOUS
    <3>4. NoOlder(media'[Images], artifact'[Stages[7]])
      BY <2>4, <2>5, <3>1, <3>2, <3>3, <1>n
    <3>5. NoOlder(media'[Narration], artifact'[Stages[8]])
      BY <2>4, <2>5, <3>1, <3>2, <3>3, <1>n
    <3>6. NoOlder(media'[Master], artifact'[Stages[9]])
      BY <2>4, <2>5, <3>1, <3>2, <3>3, <1>n
    <3> QED BY <2>5, <3>4, <3>5, <3>6
  <2> QED BY <2>3, <2>6, <1>u DEF IInv, Ages
<1> QED BY <1>1, <1>2, <1>3, <1>4, <1>5 DEF IInv

(* The topic is the first stage.                                           *)
LEMMA TopicFirst == \A i \in 2..15 : Stages[i] # "topic"
  BY DEF Stages

(* An output is written: those before it are of this run already.          *)
LEMMA InvWrite == IInv /\ Typed' /\ WriteOutput => IInv'
<1> SUFFICES ASSUME IInv, Typed', WriteOutput PROVE IInv'
  OBVIOUS
<1>t. Typed
  BY DEF IInv
<1>v. /\ run \in Nat /\ at \in 1..15 /\ run # Torn
      /\ output \in [StageIds -> Version] /\ Last = 15
  BY <1>t, Versions, Positions DEF Typed, TypeOK
<1>u. /\ pc = "write"
      /\ pc' = IF at = 15 THEN "complete" ELSE "write"
      /\ at' = IF at = 15 THEN at ELSE at + 1
      /\ UNCHANGED <<env, run, artifact, media, cut, uploads>>
  BY <1>v DEF WriteOutput
<1>i. Stage \in StageIds /\ Stage = Stages[at]
  BY <1>v, Positions DEF Stage
<1>o. /\ Written(Stage) => output'[Stage] = run
      /\ ~Written(Stage) => output'[Stage] = output[Stage]
      /\ \A s \in StageIds : s # Stage => output'[s] = output[s]
  BY <1>v, <1>i DEF WriteOutput
<1>w. \A s \in StageIds : Written(s)' <=> Written(s)
  BY <1>u DEF Written
<1>n. Short' = Short /\ Thumbnail' = Thumbnail
  BY <1>u DEF Short, Thumbnail
<1>r. ASSUME NEW i \in 1..15
      PROVE  /\ Ran(i)' /\ Ran(i) /\ Kept(i)' /\ Kept(i)
             /\ Out(i)' => Out(i) \/ i = at
  <2>1. CASE at = 15
    BY <2>1, <1>u, <1>v DEF Ran, Kept, Out
  <2>2. CASE at # 15
    BY <2>2, <1>u, <1>v DEF Ran, Kept, Out
  <2> QED BY <2>1, <2>2
<1>1. Bounded'
  <2>1. \A s \in StageIds : Old(output'[s])
    BY <1>o, <1>v DEF IInv, Bounded, Old
  <2> QED BY <2>1, <1>u DEF IInv, Bounded, Old
<1>2. Progress'
  <2>1. \A i \in 1..15 :
          Out(i)' /\ Written(Stages[i])' => output'[Stages[i]] = run
    BY <1>r, <1>o, <1>w, <1>i, Positions DEF IInv, Progress
  <2>2. run \notin cut
    BY <1>u DEF IInv, Progress
  <2>3. /\ media[Images] = run /\ media[Narration] = run
        /\ media[Master] = run /\ media[Short] = run
        /\ media[Thumbnail] = run
    BY <1>r DEF IInv, Progress
  <2>4. \A i \in 1..15 : artifact[Stages[i]] = run
    BY <1>r DEF IInv, Progress
  <2> QED BY <2>1, <2>2, <2>3, <2>4, <1>u, <1>n DEF Progress
<1>3. Sent'
  BY <1>r, <1>u DEF IInv, Sent
<1>4. SentWell'
  BY <1>u DEF IInv, SentWell
<1>5. Ages'
  <2>1. \A s \in StageIds : NoOlder(run, output'[s])
    <3>1. \A s \in StageIds : output'[s] = run \/ NoOlder(run, output[s])
      BY <1>t, <1>v, Versions DEF IInv, Bounded, Old, NoOlder
    <3> QED BY <3>1, <1>o, <1>v DEF NoOlder
  <2>2. ASSUME NEW i \in 2..15, NEW j \in 2..15, i < j
        PROVE  NoOlder(output'[Stages[i]], output'[Stages[j]])
    <3>1. /\ i \in 1..15 /\ j \in 1..15
          /\ Stages[i] \in StageIds /\ Stages[j] \in StageIds
          /\ Written(Stages[i]) /\ Written(Stages[j])
      BY Positions, TopicFirst DEF Written
    <3>2. CASE i = at
      BY <3>1, <3>2, <1>o, <1>i, <2>1
    <3>3. CASE j = at
      <4>1. output[Stages[i]] = run
        BY <2>2, <3>1, <3>3, <1>u DEF IInv, Progress, Out
      <4>2. output'[Stages[i]] = run
        BY <3>1, <4>1, <1>o
      <4> QED BY <3>1, <4>2, <2>1
    <3>4. CASE i # at /\ j # at
      <4>1. Stages[i] # Stage /\ Stages[j] # Stage
        BY <3>1, <3>4, <1>i, <1>v, Positions
      <4> QED BY <2>2, <3>1, <4>1, <1>o DEF IInv, Ages
    <3> QED BY <3>2, <3>3, <3>4
  <2> QED BY <2>2, <1>u DEF IInv, Ages
<1> QED BY <1>1, <1>2, <1>3, <1>4, <1>5 DEF IInv

(* Every step keeps the invariant.                                         *)
LEMMA InvStep == IInv /\ [Next]_vars => IInv'
<1> SUFFICES ASSUME IInv, [Next]_vars PROVE IInv'
  OBVIOUS
<1>1. Typed /\ Typed'
  BY TypedStep DEF IInv
<1> QED BY <1>1, StepKinds, InvStart, InvQuiet, InvReturns, InvFails, InvSave,
           InvWrite

-----------------------------------------------------------------------------
(* The properties                                                          *)

(* However many runs a directory has seen: what a run uploads is its own   *)
(* video and thumbnail, with the whole narration, unless its stages write  *)
(* elsewhere than the publisher reads; it uploads once if it completes     *)
(* without --dry-run, and otherwise never twice.                           *)
THEOREM UploadsOwn == Spec => []UploadIsOfItsRun
<1>1. IInv => UploadIsOfItsRun
  <2> SUFFICES ASSUME IInv PROVE UploadIsOfItsRun
    OBVIOUS
  <2>1. pc = "complete" => (~env.dry_run <=> \E u \in uploads : u.run = run)
    BY DEF IInv, Sent, Ran
  <2> QED BY <2>1 DEF IInv, SentWell, UploadIsOfItsRun
<1> QED BY InvInit, InvStep, <1>1, PTL DEF Spec

(* Artifacts, media and outputs never contradict each other in age, and    *)
(* after a complete run all of them are of that run.                       *)
THEOREM FilesAlwaysAgree == Spec => []FilesAgree
<1>1. IInv => FilesAgree
  <2> SUFFICES ASSUME IInv PROVE FilesAgree
    OBVIOUS
  <2>1. \A s \in DOMAIN MediaOf : NoOlder(media[MediaOf[s]], artifact[s])
    <3>1. DOMAIN MediaOf = {"image_generation", "voice_generation",
                            "audio_mix"}
      BY DEF MediaOf
    <3>2. /\ MediaOf["image_generation"] = Images
          /\ MediaOf["voice_generation"] = Narration
          /\ MediaOf["audio_mix"] = Master
      BY DEF MediaOf
    <3> QED BY <3>1, <3>2 DEF IInv, Ages
  <2>2. \A i, j \in 2..Last :
          i < j => NoOlder(output[Stages[i]], output[Stages[j]])
    BY Positions DEF IInv, Ages
  <2>3. ASSUME pc = "complete"
        PROVE  /\ \A s \in StageIds : artifact[s] = run
               /\ \A s \in StageIds : Written(s) => output[s] = run
               /\ \A f \in {Images, Narration, Master, Short, Thumbnail} :
                     media[f] = run
    BY <2>3, Positions DEF IInv, Progress, Ran, Kept, Out
  <2> QED BY <2>1, <2>2, <2>3 DEF FilesAgree, IInv, Ages
<1> QED BY InvInit, InvStep, <1>1, PTL DEF Spec

-----------------------------------------------------------------------------
(* Recursive functions of a plan                                           *)

(* A set of naturals has a least element.                                  *)
LEMMA Least ==
    ASSUME NEW T, T \subseteq Nat, T # {}
    PROVE  \E m \in T : \A k \in T : m <= k
<1> DEFINE R == OpToRel(<, Nat)
<1>1. IsWellFoundedOn(R, Nat)
  BY NatLessThanWellFounded
<1>2. \A k, m \in Nat : <<k, m>> \in R <=> k < m
  BY DEF OpToRel
<1> HIDE DEF R
<1>3. PICK m \in T : \A k \in T : ~ (<<k, m>> \in R)
  BY <1>1, WFMin
<1>4. ASSUME NEW k \in T PROVE m <= k
  <2>1. k \in Nat /\ m \in Nat
    OBVIOUS
  <2>2. ~ (k < m)
    BY <1>2, <1>3, <2>1
  <2> QED BY <2>1, <2>2
<1> QED BY <1>4

(* A set with zero in it and with the next of each of its elements up to n *)
(* has all numbers up to n: the one use of induction, applied below to     *)
(* sets of positions of a plan.                                            *)
LEMMA UpTo ==
    ASSUME NEW n \in Nat, NEW T, 0 \in T,
           \A k \in 0..(n - 1) : k \in T => k + 1 \in T
    PROVE  \A k \in 0..n : k \in T
<1> DEFINE Missing == {k \in 0..n : k \notin T}
<1> SUFFICES ASSUME Missing # {} PROVE FALSE
  OBVIOUS
<1>1. PICK m \in Missing : \A k \in Missing : m <= k
  <2>1. Missing \subseteq Nat
    OBVIOUS
  <2> HIDE DEF Missing
  <2> QED BY <2>1, Least
<1>2. m # 0 /\ m \in 1..n
  BY <1>1
<1>3. m - 1 \notin Missing
  BY <1>1, <1>2
<1> QED BY <1>1, <1>2, <1>3

(* A function defined step by step from zero exists: TLA+ chooses the      *)
(* value of a recursive definition, and chooses well only if there is one. *)
LEMMA Recursion ==
    ASSUME NEW n \in Nat, NEW step \in [Nat \X (1..n) -> Nat]
    PROVE  \E f \in [0..n -> Nat] :
              /\ f[0] = 0
              /\ \A i \in 1..n : f[i] = step[<<f[i - 1], i>>]
<1> DEFINE Follows(k, f) == /\ f[0] = 0
                            /\ \A i \in 1..k : f[i] = step[<<f[i - 1], i>>]
           T == {k \in 0..n : \E f \in [0..n -> Nat] : Follows(k, f)}
<1>1. 0 \in T
  <2>1. Follows(0, [i \in 0..n |-> 0])
    OBVIOUS
  <2>2. [i \in 0..n |-> 0] \in [0..n -> Nat] /\ 0 \in 0..n
    OBVIOUS
  <2> HIDE DEF Follows
  <2> QED BY <2>1, <2>2
<1>2. \A k \in 0..(n - 1) : k \in T => k + 1 \in T
  <2> SUFFICES ASSUME NEW k \in 0..(n - 1), k \in T PROVE k + 1 \in T
    OBVIOUS
  <2>1. PICK f \in [0..n -> Nat] : Follows(k, f)
    OBVIOUS
  <2> DEFINE more == [f EXCEPT ![k + 1] = step[<<f[k], k + 1>>]]
  <2>2. k + 1 \in 1..n /\ k + 1 \in 0..n /\ k \in 0..n
    OBVIOUS
  <2>3. step[<<f[k], k + 1>>] \in Nat
    BY <2>2
  <2>4. more \in [0..n -> Nat]
    BY <2>2, <2>3
  <2>e. more[0] = f[0] /\ more[k] = f[k]
        /\ more[k + 1] = step[<<f[k], k + 1>>]
    BY <2>2
  <2>5. more[0] = 0 /\ more[k + 1] = step[<<more[k], k + 1>>]
    <3>1. f[0] = 0
      BY <2>1
    <3> HIDE DEF more
    <3> QED BY <2>e, <3>1
  <2>6. \A i \in 1..k : more[i] = f[i] /\ more[i - 1] = f[i - 1]
    BY <2>2
  <2>7. \A i \in 1..k : more[i] = step[<<more[i - 1], i>>]
    BY <2>1, <2>6
  <2>8. \A i \in 1..(k + 1) : i \in 1..k \/ (i = k + 1 /\ i - 1 = k)
    OBVIOUS
  <2> HIDE DEF more
  <2>9. Follows(k + 1, more)
    BY <2>5, <2>7, <2>8
  <2> HIDE DEF Follows
  <2> QED BY <2>2, <2>4, <2>9
<1>3. n \in T
  <2> HIDE DEF T
  <2>1. \A k \in 0..n : k \in T
    BY <1>1, <1>2, UpTo
  <2> QED BY <2>1
<1> QED BY <1>3

(* The ends of the shots are what their recursion says, and whole numbers. *)
LEMMA EndOfIs ==
    ASSUME NEW shots \in Seq(Nat)
    PROVE  /\ EndOf(shots) \in [0..Len(shots) -> Nat]
           /\ EndOf(shots)[0] = 0
           /\ \A i \in 1..Len(shots) :
                 EndOf(shots)[i] = EndOf(shots)[i - 1] + shots[i]
<1> DEFINE Is(end) == end = [i \in 0..Len(shots) |->
                               IF i = 0 THEN 0 ELSE end[i - 1] + shots[i]]
           n == Len(shots)
           step == [p \in Nat \X (1..n) |-> p[1] + shots[p[2]]]
<1>n. n \in Nat /\ \A i \in 1..n : shots[i] \in Nat
  OBVIOUS
<1> HIDE DEF n
<1>1. step \in [Nat \X (1..n) -> Nat]
  BY <1>n
<1>2. PICK f \in [0..n -> Nat] :
         f[0] = 0 /\ \A i \in 1..n : f[i] = step[<<f[i - 1], i>>]
  <2> HIDE DEF step
  <2> QED BY <1>n, <1>1, Recursion
<1>3. ASSUME NEW i \in 1..n PROVE f[i] = f[i - 1] + shots[i]
  <2>1. f[i - 1] \in Nat
    BY <1>n
  <2>2. step[<<f[i - 1], i>>] = f[i - 1] + shots[i]
    BY <2>1
  <2> HIDE DEF step
  <2> QED BY <1>2, <2>2
<1>4. \A i \in 0..n : f[i] = IF i = 0 THEN 0 ELSE f[i - 1] + shots[i]
  BY <1>2, <1>3, <1>n
<1>5. Is(f)
  BY <1>4 DEF n
<1>6. EndOf(shots) = CHOOSE end : Is(end)
  BY DEF EndOf
<1>7. Is(EndOf(shots))
  <2> HIDE DEF Is
  <2> QED BY <1>5, <1>6
<1> DEFINE e == EndOf(shots)
<1>8. DOMAIN e = 0..n /\ e = [i \in 0..n |-> e[i]]
  BY <1>7 DEF n
<1>9. e[0] = 0 /\ \A i \in 1..n : e[i] = e[i - 1] + shots[i]
  BY <1>7, <1>n DEF n
<1> HIDE DEF e
<1>10. \A i \in 0..n : e[i] \in Nat
  <2> DEFINE T == {i \in 0..n : e[i] \in Nat}
  <2>1. 0 \in T
    BY <1>9, <1>n
  <2>2. ASSUME NEW k \in 0..(n - 1), k \in T PROVE k + 1 \in T
    <3>1. k + 1 \in 1..n /\ k + 1 \in 0..n /\ (k + 1) - 1 = k
      BY <1>n
    <3>2. e[k + 1] = e[k] + shots[k + 1]
      BY <1>9, <3>1
    <3> QED BY <1>n, <2>2, <3>1, <3>2
  <2> HIDE DEF T
  <2>3. \A k \in 0..n : k \in T
    BY <1>n, <2>1, <2>2, UpTo
  <2> QED BY <2>3 DEF T
<1> QED BY <1>8, <1>9, <1>10 DEF n, e

-----------------------------------------------------------------------------
(* Frames                                                                  *)

(* Quotient and remainder.                                                 *)
LEMMA Division ==
    ASSUME NEW n \in Int, NEW d \in Nat \ {0}
    PROVE  /\ n \div d \in Int /\ n % d \in 0..(d - 1)
           /\ n - d * (n \div d) = n % d
  OBVIOUS

(* There is one quotient and one remainder.                                *)
LEMMA Quotient ==
    ASSUME NEW d \in Nat \ {0}, NEW q \in Int, NEW r \in 0..(d - 1),
           NEW p \in Int, NEW s \in 0..(d - 1), d * q + r = d * p + s
    PROVE  q = p /\ r = s
<1>1. d * (q - p) = s - r
  OBVIOUS
<1>2. q - p >= 1 => d * (q - p) >= d
  OBVIOUS
<1>3. q - p <= -1 => d * (q - p) <= -d
  OBVIOUS
<1>4. q - p = 0
  BY <1>1, <1>2, <1>3
<1> QED BY <1>4

(* A positive factor keeps the order.                                      *)
LEMMA Times ==
    ASSUME NEW a \in Int, NEW b \in Int, NEW k \in Nat \ {0}
    PROVE  /\ k * a \in Int /\ k * b \in Int
           /\ a < b <=> k * a < k * b
           /\ a = b <=> k * a = k * b
  OBVIOUS

(* FrameAt rounds to a nearest frame: at most half a frame off.            *)
LEMMA NearestFrame ==
    ASSUME NEW n \in Int, NEW d \in Nat \ {0}
    PROVE  /\ FrameAt(n, d) \in Int
           /\ 2 * ((d * Second) * FrameAt(n, d)) <= 2 * (n * Fps) + d * Second
           /\ 2 * (n * Fps) <= 2 * ((d * Second) * FrameAt(n, d)) + d * Second
<1> DEFINE N == n * Fps
           D == d * Second
           q == N \div D
           r == N % D
           P == D * q
           R == D * (q + 1)
           F == FrameAt(n, d)
<1>1. N \in Int /\ D \in Nat \ {0}
  BY TimelineAssumption
<1>2. F = IF 2 * r > D \/ (2 * r = D /\ q % 2 = 1) THEN q + 1 ELSE q
  BY DEF FrameAt
<1> HIDE DEF N, D
<1>3. q \in Int /\ r \in 0..(D - 1) /\ N = P + r
  <2>1. q \in Int /\ r \in 0..(D - 1) /\ N - P = r
    BY <1>1, Division
  <2>2. P \in Int
    BY <1>1, <2>1
  <2> HIDE DEF q, r, P
  <2> QED BY <1>1, <2>1, <2>2
<1>4. R = P + D /\ P \in Int
  BY <1>1, <1>3
<1>5. (F = q + 1 /\ 2 * r >= D) \/ (F = q /\ 2 * r <= D)
  <2> HIDE DEF q, r, F
  <2> QED BY <1>1, <1>2, <1>3
<1>6. CASE F = q + 1 /\ 2 * r >= D
  <2>1. D * F = R
    BY <1>6
  <2> HIDE DEF q, r, F, P, R
  <2>2. 2 * R <= 2 * N + D /\ 2 * N <= 2 * R + D
    BY <1>1, <1>3, <1>4, <1>6
  <2> QED BY <1>3, <1>6, <2>1, <2>2 DEF F, N, D
<1>7. CASE F = q /\ 2 * r <= D
  <2>1. D * F = P
    BY <1>7
  <2> HIDE DEF q, r, F, P, R
  <2>2. 2 * P <= 2 * N + D /\ 2 * N <= 2 * P + D
    BY <1>1, <1>3, <1>4, <1>7
  <2> QED BY <1>3, <1>7, <2>1, <2>2 DEF F, N, D
<1> QED BY <1>5, <1>6, <1>7

(* A later time never has an earlier frame, halves included.               *)
LEMMA LaterFrame ==
    ASSUME NEW m \in Int, NEW n \in Int, NEW d \in Nat \ {0}, m <= n
    PROVE  FrameAt(m, d) <= FrameAt(n, d)
<1>1. CASE m = n
  BY <1>1, NearestFrame
<1>2. CASE m < n
  <2> DEFINE D == d * Second
             M == m * Fps
             N == n * Fps
             f == FrameAt(m, d)
             g == FrameAt(n, d)
  <2>1. D \in Nat \ {0} /\ M \in Int /\ N \in Int /\ f \in Int /\ g \in Int
    BY NearestFrame, TimelineAssumption
  <2>2. M < N
    BY <1>2, Times, TimelineAssumption
  <2>3. 2 * (D * f) <= 2 * M + D /\ 2 * N <= 2 * (D * g) + D
    BY NearestFrame
  <2> HIDE DEF D, M, N, f, g
  <2> SUFFICES ASSUME f > g PROVE FALSE
    BY <2>1 DEF f, g
  <2>4. D * f >= D * (g + 1)
    BY <2>1
  <2>5. D * (g + 1) = D * g + D /\ D * g \in Int /\ D * f \in Int
    BY <2>1
  <2> DEFINE x == D * f
             y == D * g
  <2>6. x >= y + D /\ x \in Int /\ y \in Int
    BY <2>4, <2>5
  <2>7. 2 * x <= 2 * M + D /\ 2 * N <= 2 * y + D
    BY <2>3
  <2> HIDE DEF x, y
  <2> QED BY <2>1, <2>2, <2>6, <2>7
<1> QED BY <1>1, <1>2

(* The frame depends on the time, not on how its fraction is written.      *)
LEMMA SameFrame ==
    ASSUME NEW t \in Int, NEW k \in Nat \ {0}
    PROVE  FrameAt(k * t, k) = FrameAt(t, 1)
<1> DEFINE N == t * Fps
           q == N \div Second
           r == N % Second
<1>1. N \in Int /\ (k * t) * Fps = k * N /\ k * N \in Int
      /\ k * Second \in Nat \ {0} /\ 1 * Second = Second
  BY TimelineAssumption
<1>2. q \in Int /\ r \in 0..(Second - 1) /\ N = Second * q + r
  <2>1. q \in Int /\ r \in 0..(Second - 1) /\ N - Second * q = r
    BY <1>1, Division, TimelineAssumption
  <2> HIDE DEF q, r, N
  <2>2. Second * q \in Int
    BY <2>1, TimelineAssumption
  <2> QED BY <1>1, <2>1, <2>2
<1>3. k * N = (k * Second) * q + k * r /\ k * r \in 0..(k * Second - 1)
  <2> HIDE DEF N, q, r
  <2>1. k * r < k * Second /\ k * r >= 0
    BY <1>2, Times, TimelineAssumption
  <2>2. k * N = k * (Second * q + r)
    BY <1>2
  <2>3. k * (Second * q + r) = (k * Second) * q + k * r
    BY <1>2, TimelineAssumption
  <2> QED BY <1>1, <1>2, <2>1, <2>2, <2>3
<1>4. (k * N) \div (k * Second) = q /\ (k * N) % (k * Second) = k * r
  <2> DEFINE Q == (k * N) \div (k * Second)
             R == (k * N) % (k * Second)
             S == k * Second
             s == k * r
             K == k * N
  <2>1. Q \in Int /\ R \in 0..(S - 1) /\ K - S * Q = R /\ K \in Int
    BY <1>1, Division
  <2>s. S \in Nat \ {0} /\ q \in Int /\ s \in 0..(S - 1) /\ K = S * q + s
    BY <1>1, <1>2, <1>3
  <2>t. Q \in Int /\ R \in 0..(S - 1) /\ K = S * Q + R
    <3> HIDE DEF Q, R, S, K
    <3>1. S * Q \in Int
      BY <2>s, <2>1
    <3> QED BY <2>1, <2>s, <3>1
  <2> HIDE DEF N, q, r, Q, R, S, s, K
  <2>u. S * Q + R = S * q + s
    BY <2>s, <2>t
  <2>2. Q = q /\ R = s
    BY <2>s, <2>t, <2>u, Quotient
  <2> QED BY <2>2 DEF Q, R, s
<1>5. /\ 2 * (k * r) > k * Second <=> 2 * r > Second
      /\ 2 * (k * r) = k * Second <=> 2 * r = Second
  <2>1. 2 * (k * r) = k * (2 * r)
    BY <1>2
  <2>2. 2 * r \in Int /\ Second \in Int
    BY <1>2, TimelineAssumption
  <2> HIDE DEF r
  <2> QED BY <2>1, <2>2, Times
<1>6. FrameAt(k * t, k) =
         IF 2 * (k * r) > k * Second \/ (2 * (k * r) = k * Second /\ q % 2 = 1)
         THEN q + 1 ELSE q
  BY <1>1, <1>4 DEF FrameAt
<1>7. FrameAt(t, 1) = IF 2 * r > Second \/ (2 * r = Second /\ q % 2 = 1)
                      THEN q + 1 ELSE q
  BY <1>1 DEF FrameAt
<1> HIDE DEF q, r
<1> QED BY <1>5, <1>6, <1>7

-----------------------------------------------------------------------------
(* Clips, overlays and the length of the video                             *)

(* No shot ends after the plan.                                            *)
LEMMA EndsGrow ==
    ASSUME NEW shots \in Seq(Nat)
    PROVE  /\ Length(shots) \in Nat
           /\ \A i \in 0..Len(shots) : EndOf(shots)[i] <= Length(shots)
<1> DEFINE n == Len(shots)
           e == EndOf(shots)
           T == {k \in 0..n : \A i \in 0..k : e[i] <= e[k]}
<1>1. n \in Nat /\ \A i \in 1..n : shots[i] \in Nat
  OBVIOUS
<1>2. e \in [0..n -> Nat] /\ \A i \in 1..n : e[i] = e[i - 1] + shots[i]
  BY EndOfIs
<1> HIDE DEF n, e
<1>3. 0 \in T
  BY <1>1, <1>2
<1>4. ASSUME NEW k \in 0..(n - 1), k \in T PROVE k + 1 \in T
  <2>1. k + 1 \in 1..n /\ k + 1 \in 0..n /\ (k + 1) - 1 = k
    BY <1>1
  <2>2. e[k] <= e[k + 1] /\ e[k] \in Nat /\ e[k + 1] \in Nat
    <3>1. shots[k + 1] \in Nat /\ e[k + 1] = e[k] + shots[k + 1]
      BY <1>1, <1>2, <2>1
    <3>2. k \in 0..n /\ e[k] \in Nat
      BY <1>1, <1>2
    <3> QED BY <3>1, <3>2
  <2>3. ASSUME NEW i \in 0..(k + 1) PROVE e[i] <= e[k + 1]
    <3>1. i \in 0..n /\ e[i] \in Nat
      BY <1>1, <1>2
    <3>2. i = k + 1 \/ e[i] <= e[k]
      BY <1>4
    <3> QED BY <2>2, <3>1, <3>2
  <2> QED BY <2>1, <2>3
<1>5. n \in T
  <2> HIDE DEF T
  <2>1. \A k \in 0..n : k \in T
    BY <1>1, <1>3, <1>4, UpTo
  <2> QED BY <1>1, <2>1
<1> QED BY <1>1, <1>2, <1>5 DEF Length, n, e

(* Time zero is frame zero.                                                *)
LEMMA FirstFrame ==
    ASSUME NEW d \in Nat \ {0}
    PROVE  FrameAt(0, d) = 0
<1> DEFINE D == d * Second
           f == FrameAt(0, d)
<1>1. D \in Nat \ {0} /\ f \in Int
  BY NearestFrame, TimelineAssumption
<1>2. 2 * (D * f) <= D /\ 0 <= 2 * (D * f) + D
  BY NearestFrame, TimelineAssumption
<1> HIDE DEF D, f
<1>3. f >= 1 => D * f >= D
  BY <1>1
<1>4. f <= -1 => D * f <= -D
  BY <1>1
<1>5. f = 0
  BY <1>1, <1>2, <1>3, <1>4
<1> QED BY <1>5 DEF f

(* The frame nearest to the end of shot i on the stretched timeline.       *)
Nearest(shots, narration, i) ==
    FrameAt(EndOf(shots)[i] * Target(narration), Length(shots))

(* Stretched onto the target, no shot ends after the target's frame, and   *)
(* the last one ends there.                                                *)
LEMMA NearestIs ==
    ASSUME NEW shots \in Seq(Nat), Length(shots) > 0,
           NEW narration \in Nat
    PROVE  /\ Target(narration) \in Nat
           /\ \A i \in 0..Len(shots) :
                 /\ Nearest(shots, narration, i) \in Nat
                 /\ Nearest(shots, narration, i)
                       <= FrameAt(Target(narration), 1)
           /\ Nearest(shots, narration, Len(shots))
                 = FrameAt(Target(narration), 1)
<1> DEFINE t == Target(narration)
           l == Length(shots)
           e == EndOf(shots)
           n == Len(shots)
<1>1. t \in Nat
  BY TimelineAssumption DEF Target
<1>2. l \in Nat \ {0} /\ \A i \in 0..n : e[i] \in 0..l
  <2>1. l \in Nat /\ l > 0 /\ \A i \in 0..n : e[i] <= l
    BY EndsGrow
  <2>2. \A i \in 0..n : e[i] \in Nat
    BY EndOfIs
  <2> HIDE DEF e, l, n
  <2> QED BY <2>1, <2>2
<1>3. e[n] = l /\ n \in 0..n
  BY DEF Length
<1> HIDE DEF t, l, e, n
<1>4. FrameAt(l * t, l) = FrameAt(t, 1)
  BY <1>1, <1>2, SameFrame
<1>5. ASSUME NEW i \in 0..n
      PROVE  /\ FrameAt(e[i] * t, l) \in Nat
             /\ FrameAt(e[i] * t, l) <= FrameAt(t, 1)
  <2> DEFINE x == e[i]
  <2>1. x \in Int /\ 0 <= x /\ x <= l
    BY <1>2
  <2> HIDE DEF x
  <2>2. x * t \in Int /\ 0 <= x * t
    BY <1>1, <2>1
  <2>3. l * t \in Int /\ x * t <= l * t
    <3>1. (l - x) * t >= 0
      BY <1>1, <1>2, <2>1
    <3> QED BY <1>1, <1>2, <2>1, <3>1
  <2>4. /\ FrameAt(0, l) <= FrameAt(x * t, l)
        /\ FrameAt(x * t, l) <= FrameAt(l * t, l)
    BY <1>2, <2>2, <2>3, LaterFrame
  <2>5. FrameAt(x * t, l) \in Int
    BY <1>2, <2>2, NearestFrame
  <2>6. FrameAt(0, l) = 0
    BY <1>2, FirstFrame
  <2> QED BY <1>4, <2>4, <2>5, <2>6 DEF x
<1>6. FrameAt(e[n] * t, l) = FrameAt(t, 1)
  BY <1>3, <1>4
<1> QED BY <1>1, <1>5, <1>6 DEF Nearest, t, l, e, n

(* The cuts are what their recursion says, and whole numbers.              *)
LEMMA CutsAre ==
    ASSUME NEW shots \in Seq(Nat), Length(shots) > 0,
           NEW narration \in Nat
    PROVE  /\ Cuts(shots, narration) \in [0..Len(shots) -> Nat]
           /\ Cuts(shots, narration)[0] = 0
           /\ \A i \in 1..Len(shots) :
                 Cuts(shots, narration)[i] =
                    Larger(Nearest(shots, narration, i),
                           Cuts(shots, narration)[i - 1] + 1)
<1> DEFINE near(i) == FrameAt(EndOf(shots)[i] * Target(narration),
                              Length(shots))
           n == Len(shots)
           Is(made) == made = [i \in 0..n |->
                         IF i = 0 THEN 0 ELSE Larger(near(i), made[i - 1] + 1)]
           step == [p \in Nat \X (1..n) |-> Larger(near(p[2]), p[1] + 1)]
           c == Cuts(shots, narration)
<1>1. c = CHOOSE made : Is(made)
  BY DEF Cuts
<1>n. n \in Nat /\ \A i \in 0..n : near(i) \in Nat
  <2>1. \A i \in 0..Len(shots) : Nearest(shots, narration, i) \in Nat
    BY NearestIs
  <2>2. \A i : Nearest(shots, narration, i) = near(i)
    BY DEF Nearest
  <2> HIDE DEF near
  <2> QED BY <2>1, <2>2
<1> HIDE DEF n, near, c
<1>2. step \in [Nat \X (1..n) -> Nat]
  <2>1. \A a \in Nat, i \in 1..n : Larger(near(i), a + 1) \in Nat
    BY <1>n DEF Larger
  <2> QED BY <2>1
<1>3. PICK f \in [0..n -> Nat] :
         f[0] = 0 /\ \A i \in 1..n : f[i] = step[<<f[i - 1], i>>]
  <2> HIDE DEF step
  <2> QED BY <1>n, <1>2, Recursion
<1>4. ASSUME NEW i \in 1..n PROVE f[i] = Larger(near(i), f[i - 1] + 1)
  <2>1. f[i - 1] \in Nat
    BY <1>n
  <2>2. step[<<f[i - 1], i>>] = Larger(near(i), f[i - 1] + 1)
    BY <2>1
  <2> HIDE DEF step
  <2> QED BY <1>3, <2>2
<1>5. \A i \in 0..n :
         f[i] = IF i = 0 THEN 0 ELSE Larger(near(i), f[i - 1] + 1)
  BY <1>3, <1>4, <1>n
<1>6. Is(f)
  BY <1>5
<1>7. Is(c)
  <2> HIDE DEF Is
  <2> QED BY <1>1, <1>6
<1>8. DOMAIN c = 0..n /\ c = [i \in 0..n |-> c[i]]
  BY <1>7
<1>9. c[0] = 0 /\ \A i \in 1..n : c[i] = Larger(near(i), c[i - 1] + 1)
  BY <1>7, <1>n
<1>10. \A i \in 0..n : c[i] \in Nat
  <2> DEFINE T == {i \in 0..n : c[i] \in Nat}
  <2>1. 0 \in T
    BY <1>9, <1>n
  <2>2. ASSUME NEW k \in 0..(n - 1), k \in T PROVE k + 1 \in T
    <3>1. k + 1 \in 1..n /\ k + 1 \in 0..n /\ (k + 1) - 1 = k
      BY <1>n
    <3>2. c[k + 1] = Larger(near(k + 1), c[k] + 1)
      BY <1>9, <3>1
    <3>3. near(k + 1) \in Nat /\ c[k] \in Nat
      BY <1>n, <2>2, <3>1
    <3> QED BY <3>1, <3>2, <3>3 DEF Larger
  <2> HIDE DEF T
  <2>3. \A k \in 0..n : k \in T
    BY <1>n, <2>1, <2>2, UpTo
  <2> QED BY <2>3 DEF T
<1> QED BY <1>8, <1>9, <1>10 DEF n, c, near, Nearest

(* Half a frame is no longer than what the narration may outlast the       *)
(* video. The settings accept a frame rate from 1 to 240                   *)
(* (core/config.py:56); at 1 or 2 frames a second this is false, and so is *)
(* the property.                                                           *)
FineFrames == Second <= 2 * Epsilon * Fps
(* A budget, if there is one, has a frame in it. Any number is accepted as *)
(* the budget (core/config.py:59).                                         *)
RoomForAFrame == Budget > 0 => FrameAt(Budget, 1) > 0

(* A plan the assembly stage accepts has shots and a length.               *)
LEMMA ShotsLast ==
    ASSUME NEW shots \in Seq(Nat), CanPlanClips(shots)
    PROVE  Length(shots) > 0 /\ Len(shots) \in Nat \ {0}
<1> DEFINE e == EndOf(shots)
           n == Len(shots)
<1>1. n \in Nat \ {0}
  BY DEF CanPlanClips
<1>2. e[0] = 0 /\ e[1] \in Nat /\ 1 \in 1..n /\ 1 - 1 = 0
  BY <1>1, EndOfIs
<1>3. FrameAt(e[0], 1) < FrameAt(e[1], 1)
  BY <1>2 DEF CanPlanClips
<1>4. Length(shots) \in Nat /\ e[1] <= Length(shots)
  BY <1>1, <1>2, EndsGrow
<1> HIDE DEF e, n
<1>5. e[1] # 0
  <2>1. FrameAt(0, 1) = 0
    BY FirstFrame
  <2> QED BY <1>2, <1>3, <2>1
<1> QED BY <1>1, <1>2, <1>4, <1>5 DEF n

(* The cuts start at zero, leave every clip a frame, and end at the        *)
(* target's frame or less than a frame per shot behind it.                 *)
LEMMA CutsClimb ==
    ASSUME NEW shots \in Seq(Nat), Length(shots) > 0,
           Len(shots) \in Nat \ {0}, NEW narration \in Nat,
           FrameAt(Target(narration), 1) > 0
    PROVE  LET c == Cuts(shots, narration)
               target == FrameAt(Target(narration), 1)
           IN  /\ c \in [0..Len(shots) -> Nat]
               /\ c[0] = 0
               /\ \A i \in 1..Len(shots) : c[i - 1] < c[i]
               /\ target \in Nat
               /\ c[Len(shots)] \in target..(target + Len(shots) - 1)
<1> DEFINE c == Cuts(shots, narration)
           target == FrameAt(Target(narration), 1)
           n == Len(shots)
           near(i) == Nearest(shots, narration, i)
<1>1. n \in Nat \ {0}
  OBVIOUS
<1>2. c \in [0..n -> Nat] /\ c[0] = 0
      /\ \A i \in 1..n : c[i] = Larger(near(i), c[i - 1] + 1)
  BY CutsAre
<1>3. /\ \A i \in 0..n : near(i) \in Nat /\ near(i) <= target
      /\ near(n) = target
  BY NearestIs
<1>4. target \in Nat /\ target > 0
  BY <1>1, <1>3
<1> HIDE DEF c, target, n, near
<1>5. ASSUME NEW i \in 1..n PROVE c[i - 1] < c[i]
  <2>1. near(i) \in Nat /\ c[i - 1] \in Nat
    BY <1>1, <1>2, <1>3
  <2> QED BY <1>2, <2>1 DEF Larger
<1>6. \A i \in 0..n : i > 0 => c[i] <= target + i - 1
  <2> DEFINE T == {i \in 0..n : i > 0 => c[i] <= target + i - 1}
  <2>1. 0 \in T
    BY <1>1
  <2>2. ASSUME NEW k \in 0..(n - 1), k \in T PROVE k + 1 \in T
    <3>1. k + 1 \in 1..n /\ k + 1 \in 0..n /\ (k + 1) - 1 = k /\ k \in 0..n
      BY <1>1
    <3>2. c[k + 1] = Larger(near(k + 1), c[k] + 1)
      BY <1>2, <3>1
    <3>3. near(k + 1) \in Nat /\ near(k + 1) <= target /\ c[k] \in Nat
      BY <1>2, <1>3, <3>1
    <3>4. c[k] + 1 <= target + k
      BY <1>2, <1>4, <2>2, <3>3
    <3>5. c[k + 1] <= target + k
      BY <1>4, <3>2, <3>3, <3>4 DEF Larger
    <3> QED BY <3>1, <3>5, <1>4
  <2> HIDE DEF T
  <2>3. \A k \in 0..n : k \in T
    BY <1>1, <2>1, <2>2, UpTo
  <2> QED BY <2>3 DEF T
<1>7. c[n] >= target
  <2>1. near(n) \in Nat /\ c[n - 1] \in Nat /\ n \in 1..n
    BY <1>1, <1>2, <1>3
  <2> QED BY <1>2, <1>3, <1>4, <2>1 DEF Larger
<1>8. c[n] \in target..(target + n - 1)
  <2>1. c[n] \in Nat /\ c[n] <= target + n - 1
    BY <1>1, <1>2, <1>6
  <2> QED BY <1>1, <1>4, <1>7, <2>1
<1> QED BY <1>2, <1>4, <1>5, <1>8 DEF c, target, n

(* A pinned overlay has a frame and stays inside its clip.                 *)
LEMMA PinnedInside ==
    ASSUME NEW shots \in Seq(Nat), Length(shots) > 0, NEW narration \in Nat,
           NEW overlay \in [start : Int, hold : Int], CanPin(overlay, shots),
           Cuts(shots, narration) \in [0..Len(shots) -> Nat],
           \A i \in 1..Len(shots) :
              Cuts(shots, narration)[i - 1] < Cuts(shots, narration)[i]
    PROVE  LET c == Cuts(shots, narration)
               o == Pinned(overlay, shots, narration)
           IN  c[o.owner - 1] <= o.first /\ o.first < o.end
               /\ o.end <= c[o.owner]
<1> DEFINE c == Cuts(shots, narration)
           owner == CHOOSE i \in Owners(overlay, shots) : TRUE
           length == Length(shots)
           start == overlay.start * Target(narration)
           hold == Between(MinHold * length, MaxHold * length,
                           overlay.hold * Target(narration))
           f == FrameAt(start, length)
           g == FrameAt(start + hold, length)
           low == c[owner - 1]
           high == c[owner]
           first == Larger(f, low)
           end == Smaller(g, high)
           fits == first < end
           begin == IF fits THEN first ELSE Smaller(first, high - 1)
           stop == IF fits THEN end ELSE begin + 1
<1>1. owner \in 1..Len(shots)
  BY DEF CanPin, Owners
<1>2. low \in Nat /\ high \in Nat /\ low < high
  <2> HIDE DEF c, owner
  <2>1. owner - 1 \in 0..Len(shots) /\ owner \in 0..Len(shots)
    BY <1>1
  <2> QED BY <1>1, <2>1 DEF c
<1>3. f \in Int /\ g \in Int
  <2>1. length \in Nat \ {0} /\ Target(narration) \in Nat
    BY EndsGrow, NearestIs
  <2>2. overlay.start \in Int /\ overlay.hold \in Int
    OBVIOUS
  <2> HIDE DEF length
  <2>3. start \in Int /\ overlay.hold * Target(narration) \in Int
        /\ MinHold * length \in Int /\ MaxHold * length \in Int
    BY <2>1, <2>2, TimelineAssumption
  <2>4. hold \in Int
    BY <2>3 DEF Between, Larger, Smaller
  <2> HIDE DEF start, hold
  <2>5. start + hold \in Int
    BY <2>3, <2>4
  <2> QED BY <2>1, <2>3, <2>5, NearestFrame
<1>4. LET o == Pinned(overlay, shots, narration)
      IN  o.owner = owner /\ o.first = begin /\ o.end = stop
  BY DEF Pinned
<1> HIDE DEF f, g, low, high, c, owner
<1>5. low <= begin /\ begin < stop /\ stop <= high
  <2>1. first \in Int /\ end \in Int /\ low <= first /\ end <= high
    BY <1>2, <1>3 DEF Larger, Smaller
  <2> HIDE DEF first, end
  <2>2. CASE fits
    BY <1>2, <2>1, <2>2
  <2>3. CASE ~fits
    <3>1. Smaller(first, high - 1) \in Int
          /\ low <= Smaller(first, high - 1)
          /\ Smaller(first, high - 1) + 1 <= high
      BY <1>2, <2>1 DEF Smaller
    <3> QED BY <2>3, <3>1
  <2> QED BY <2>2, <2>3
<1> HIDE DEF begin, stop
<1> QED BY <1>4, <1>5 DEF low, high, c

(* A narration of a frame has a target of a frame.                         *)
LEMMA TargetLasts ==
    ASSUME NEW narration \in Nat, FrameAt(narration, 1) > 0, RoomForAFrame
    PROVE  FrameAt(Target(narration), 1) > 0
<1>1. narration + Padding \in Nat /\ narration <= narration + Padding
  BY TimelineAssumption
<1>2. FrameAt(narration, 1) <= FrameAt(narration + Padding, 1)
  BY <1>1, LaterFrame
<1>3. FrameAt(narration, 1) \in Int /\ FrameAt(narration + Padding, 1) \in Int
  BY <1>1, NearestFrame
<1>4. FrameAt(narration + Padding, 1) > 0
  BY <1>2, <1>3
<1>5. Target(narration) = narration + Padding
      \/ (Budget > 0 /\ Target(narration) = Budget)
  BY DEF Target
<1> QED BY <1>4, <1>5 DEF RoomForAFrame

(* A narration within the budget is covered, within the tolerance, by as   *)
(* many frames as its target has.                                          *)
LEMMA TargetCovers ==
    ASSUME FineFrames, NEW narration \in Nat, narration <= Budget,
           NEW frames \in Int, FrameAt(Target(narration), 1) <= frames
    PROVE  CoversNarration(frames * Second + 0 * Fps, narration)
<1> DEFINE t == Target(narration)
           f == FrameAt(t, 1)
<1>1. t \in Nat /\ narration <= t
  BY TimelineAssumption DEF Target
<1>2. f \in Int /\ 2 * (t * Fps) <= 2 * (Second * f) + Second
  <2>1. 1 * Second = Second
    BY TimelineAssumption
  <2> QED BY <1>1, <2>1, NearestFrame
<1>3. narration * Fps <= t * Fps /\ narration * Fps \in Int /\ t * Fps \in Int
  <2> HIDE DEF t
  <2>1. (t - narration) * Fps >= 0
    BY <1>1, TimelineAssumption
  <2> QED BY <1>1, <2>1, TimelineAssumption
<1>4. f <= frames
  OBVIOUS
<1> HIDE DEF t, f
<1>5. Second * f <= frames * Second /\ Second * f \in Int
      /\ frames * Second \in Int
  <2>1. Second * (frames - f) >= 0
    BY <1>2, <1>4, TimelineAssumption
  <2> QED BY <1>2, <2>1, TimelineAssumption
<1>6. Second <= 2 * (Epsilon * Fps) /\ Epsilon * Fps \in Int
  BY TimelineAssumption DEF FineFrames
<1> DEFINE a == narration * Fps
           b == t * Fps
           x == Second * f
           y == frames * Second
           z == Epsilon * Fps
<1>7. a <= b /\ 2 * b <= 2 * x + Second /\ x <= y /\ Second <= 2 * z
      /\ a \in Int /\ b \in Int /\ x \in Int /\ y \in Int /\ z \in Int
  BY <1>2, <1>3, <1>5, <1>6
<1> HIDE DEF a, b, x, y, z
<1>8. y + z >= a
  BY <1>7, TimelineAssumption
<1>9. frames * Second + 0 * Fps = y
  BY <1>5, TimelineAssumption DEF y
<1> QED BY <1>8, <1>9 DEF CoversNarration, a, z

(* What the assembly stage accepts makes a timeline that holds.            *)
LEMMA TimelineSound ==
    ASSUME FineFrames, RoomForAFrame, NEW shots \in Seq(Nat),
           NEW overlays, NEW narration \in Nat,
           \A i \in DOMAIN overlays : overlays[i] \in [start : Int, hold : Int],
           CanAssemble(shots, overlays, narration)
    PROVE  LET t == Timeline(shots, overlays, narration)
               n == Len(shots)
               target == FrameAt(Target(narration), 1)
           IN  /\ t.cuts[0] = 0
               /\ \A i \in 1..n : t.cuts[i - 1] < t.cuts[i]
               /\ \A i \in DOMAIN t.overlays : LET o == t.overlays[i] IN
                     /\ t.cuts[o.owner - 1] <= o.first
                     /\ o.first < o.end
                     /\ o.end <= t.cuts[o.owner]
               /\ Frames(t, shots) \in target..(target + n - 1)
               /\ narration <= Budget =>
                     CoversNarration(Encoded(t, shots, 0), narration)
<1> DEFINE t == Timeline(shots, overlays, narration)
           c == Cuts(shots, narration)
           n == Len(shots)
           target == FrameAt(Target(narration), 1)
<1>1. Length(shots) > 0 /\ n \in Nat \ {0}
  BY ShotsLast DEF CanAssemble
<1>2. target > 0
  BY TargetLasts DEF CanAssemble
<1>3. /\ c \in [0..n -> Nat] /\ c[0] = 0
      /\ \A i \in 1..n : c[i - 1] < c[i]
      /\ target \in Nat /\ c[n] \in target..(target + n - 1)
  BY <1>1, <1>2, CutsClimb
<1>4. /\ t.cuts = c /\ DOMAIN t.overlays = DOMAIN overlays
      /\ \A i \in DOMAIN overlays :
            t.overlays[i] = Pinned(overlays[i], shots, narration)
  BY DEF Timeline
<1>5. ASSUME NEW i \in DOMAIN overlays
      PROVE  LET o == Pinned(overlays[i], shots, narration)
             IN  c[o.owner - 1] <= o.first /\ o.first < o.end
                 /\ o.end <= c[o.owner]
  <2>1. CanPin(overlays[i], shots) /\ overlays[i] \in [start : Int, hold : Int]
    BY DEF CanAssemble
  <2> QED BY <1>1, <1>3, <2>1, PinnedInside
<1>6. Frames(t, shots) = c[n]
  BY <1>4 DEF Frames
<1>7. narration <= Budget => CoversNarration(Encoded(t, shots, 0), narration)
  <2> HIDE DEF t, c, n, target
  <2>1. c[n] \in Int /\ target <= c[n]
    BY <1>1, <1>3
  <2>2. Encoded(t, shots, 0) = c[n] * Second + 0 * Fps
    BY <1>6 DEF Encoded
  <2> QED BY <2>1, <2>2, TargetCovers DEF target
<1> HIDE DEF t, c, target
<1>8. \A i \in DOMAIN t.overlays : LET o == t.overlays[i] IN
         t.cuts[o.owner - 1] <= o.first /\ o.first < o.end
         /\ o.end <= t.cuts[o.owner]
  BY <1>4, <1>5
<1>9. t.cuts[0] = 0 /\ \A i \in 1..n : t.cuts[i - 1] < t.cuts[i]
  BY <1>3, <1>4
<1>10. Frames(t, shots) \in target..(target + n - 1)
  BY <1>3, <1>6
<1> QED BY <1>7, <1>8, <1>9, <1>10 DEF t, target

-----------------------------------------------------------------------------
(* Timelines of a run                                                      *)

(* Every timeline in use was made of clips and overlays that fit.          *)
Approved(p) == CanAssemble(p.shots, Overlays(p.visual), p.narration)
Fits == HasTimeline => Approved(plan)

(* The stages that make a plan and the one that approves it.               *)
LEMMA Planners ==
    ASSUME NEW i \in 1..15
    PROVE  /\ Stages[i] = "visual" <=> i = 4
           /\ Stages[i] = "visual_architecture" <=> i = 5
           /\ Stages[i] = "audio_mix" <=> i = 9
           /\ Stages[i] = "video_assembly" <=> i = 11
  BY DEF Stages

(* What a step does with an approved plan: a run that fails or completes   *)
(* has none, no plan is made after it was approved, and only the assembly  *)
(* stage approves one.                                                     *)
LEMMA FitsStep == Typed /\ Fits /\ [Next]_vars => Fits'
<1> SUFFICES ASSUME Typed, Fits, [Next]_vars PROVE Fits'
  OBVIOUS
<1>a. at \in 1..15 /\ Stage = Stages[at]
  BY Positions DEF Typed, TypeOK, Stage
<1>e. ASSUME pc' \notin {"run", "save"} PROVE Fits'
  BY <1>e DEF Fits, HasTimeline
<1>r. ASSUME pc = "run", Returns, at < 11 PROVE Fits'
  BY <1>r, <1>a DEF Returns, Fits, HasTimeline
<1>k. ASSUME pc = "run", Returns, at # 11, plan' = plan PROVE Fits'
  <2>1. CASE at < 11
    BY <1>k, <1>r, <2>1
  <2>2. CASE at > 11
    BY <1>k, <2>2 DEF HasTimeline, Fits
  <2> QED BY <1>a, <1>k, <2>1, <2>2
<1>f. Raises => Fits'
  BY <1>e DEF Raises, Ends
<1>s. ASSUME UNCHANGED <<pc, at, plan>> PROVE Fits'
  BY <1>s DEF Fits, HasTimeline
<1>1. CASE Start
  BY <1>1 DEF Start, Fits, HasTimeline
<1>2. CASE Retry \/ UNCHANGED vars
  BY <1>2, <1>s DEF Retry, vars
<1>3. CASE ProviderFails \/ ArchitectureRaises \/ PublishRefuses
  BY <1>3, <1>f DEF ProviderFails, ArchitectureRaises, PublishRefuses
<1>4. CASE ModelAnswers
  <2>1. at # 11
    BY <1>4, <1>a, Planners DEF ModelAnswers, Directed
  <2> QED BY <1>4, <2>1, <1>k DEF ModelAnswers
<1>5. CASE VisualDirected \/ ArchitecturePlans
  <2>1. at < 11 /\ pc = "run"
    BY <1>5, <1>a, Planners DEF VisualDirected, ArchitecturePlans, Executes
  <2> QED BY <1>5, <2>1, <1>r DEF VisualDirected, ArchitecturePlans
<1>6. CASE Mix
  <2>1. at < 11 /\ pc = "run"
    BY <1>6, <1>a, Planners DEF Mix, Executes
  <2> QED BY <1>6, <2>1, <1>r, <1>f DEF Mix
<1>7. CASE BuildWorkflows \/ RenderImages \/ Speak \/ DesignOverlays
           \/ Encode \/ RenderThumbnail \/ DryRun \/ Publish
  <2>1. at # 11 /\ pc = "run"
    BY <1>7, <1>a, Planners DEF BuildWorkflows, RenderImages, Speak,
       DesignOverlays, Encode, RenderThumbnail, DryRun, Publish, Executes
  <2>2. Raises \/ (Returns /\ plan' = plan)
    BY <1>7 DEF BuildWorkflows, RenderImages, Speak, DesignOverlays, Encode,
                RenderThumbnail, DryRun, Publish
  <2> QED BY <2>1, <2>2, <1>k, <1>f
<1>8. CASE Assemble
  <2>1. CASE Approved(plan)
    BY <1>8, <2>1 DEF Assemble, Approved, Fits
  <2>2. CASE ~Approved(plan)
    BY <1>8, <1>f, <2>2 DEF Assemble, Approved
  <2> QED BY <2>1, <2>2
<1>9. CASE SaveArtifact
  <2>1. UNCHANGED plan /\ pc = "save"
        /\ (pc' = "write" \/ (pc' = "run" /\ at' = at + 1))
    BY <1>9 DEF SaveArtifact
  <2>2. CASE pc' = "write"
    BY <2>2, <1>e
  <2>3. CASE pc' = "run" /\ at' = at + 1
    <3>1. HasTimeline' => HasTimeline
      BY <1>a, <2>1, <2>3 DEF HasTimeline
    <3> QED BY <2>1, <3>1 DEF Fits
  <2> QED BY <2>1, <2>2, <2>3
<1>10. CASE SaveFails \/ WriteOutput \/ WriteFails \/ Kill
  <2>1. pc' \notin {"run", "save"}
    BY <1>10 DEF SaveFails, WriteOutput, WriteFails, Kill, Ends
  <2> QED BY <2>1, <1>e
<1> QED BY <1>1, <1>2, <1>3, <1>4, <1>5, <1>6, <1>7, <1>8, <1>9, <1>10 DEF Next

(* The overlays of a plan are records of whole numbers.                    *)
LEMMA OverlayTyping ==
    ASSUME NEW p \in Seq([start : Int, duration : Int])
    PROVE  \A i \in DOMAIN Overlays(p) :
              Overlays(p)[i] \in [start : Int, hold : Int]
<1> DEFINE m == Smaller(Len(p), MaxOverlays)
           R == [start : Int, duration : Int]
<1>1. m \in Nat /\ m <= Len(p)
  BY TimelineAssumption DEF Smaller
<1> HIDE DEF m
<1>2. ASSUME NEW i \in 1..m
      PROVE  /\ p[i].start \in Int
             /\ Between(MinHold, MaxHold, p[i].duration) \in Int
  <2>i. i \in 1..Len(p)
    BY <1>1
  <2>1. p[i] \in R
    <3> HIDE DEF R
    <3>1. p \in Seq(R)
      BY DEF R
    <3> QED BY <2>i, <3>1
  <2>2. p[i].start \in Int /\ p[i].duration \in Int
    BY <2>1
  <2> QED BY <2>2, TimelineAssumption DEF Between, Larger, Smaller
<1>3. Overlays(p) = [i \in 1..m |->
         [start |-> p[i].start,
          hold |-> Between(MinHold, MaxHold, p[i].duration)]]
  BY DEF Overlays, m
<1> QED BY <1>2, <1>3

(* Every approved timeline holds, whatever the shots, overlays and         *)
(* narration, if a half frame is within the tolerance and the budget holds *)
(* a frame.                                                                *)
THEOREM TimelineAlwaysHolds ==
    ASSUME FineFrames, RoomForAFrame
    PROVE  Spec => []TimelineHolds
<1>1. Init => Typed /\ Fits
  BY TypedInit DEF Init, Fits, HasTimeline
<1>2. Typed /\ Fits /\ [Next]_vars => (Typed /\ Fits)'
  BY TypedStep, FitsStep
<1>3. Typed /\ Fits => TimelineHolds
  <2> SUFFICES ASSUME Typed, Fits, HasTimeline PROVE TimelineHolds
    BY DEF TimelineHolds
  <2>1. /\ plan.shots \in Seq(Nat) /\ plan.narration \in Nat
        /\ plan.visual \in Seq([start : Int, duration : Int])
    BY DEF Typed, TypeOK
  <2>2. \A i \in DOMAIN Overlays(plan.visual) :
           Overlays(plan.visual)[i] \in [start : Int, hold : Int]
    BY <2>1, OverlayTyping
  <2>3. CanAssemble(plan.shots, Overlays(plan.visual), plan.narration)
    BY DEF Fits, Approved
  <2> QED BY <2>1, <2>2, <2>3, TimelineSound DEF TimelineHolds, Assembled
<1> QED BY <1>1, <1>2, <1>3, PTL DEF Spec
=============================================================================
