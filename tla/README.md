# Verification of PR1ME Shorts Automation

TLA+ specifications of the parts of PR1ME Shorts Automation in which order,
failure and stale files decide whether the result is right, the TLC runs that
check them on small instances, and TLAPS proofs of what holds for every
instance. Paths are relative to the repository; those of the package `src/pr1me/`
and of the app are often given by their last parts only.

The program makes vertical videos. Its older half turns one row of a knowledge
base (a CSV of engineering topics) into a Short: fifteen deterministic stages
with checkpoints (`runtime/`). Its newer half starts from a topic that a
language model proposes and runs another fifteen stages, without resuming
(`src/pr1me/`). A desktop app (Tauri, Rust and Svelte) edits the knowledge base,
the productions and the settings both halves read.

## 1. Inventory

| Part | State | Operations | What is hard | What makes it correct |
|---|---|---|---|---|
| Production pipeline (`runtime/pipeline.py`, `stage_runner.py`, `resume.py`, `checkpoint.py`, `artifact_store.py`, `pipeline_stages.py`) | a run directory: checkpoints, content-addressed artifacts, side files, images, history, manifest; the outputs of the running process | start fresh or resumed, skip, execute, save artifact, save checkpoint, report | a kill or failing write between any two saves; files of earlier runs; fingerprints that name paths; rows with different numbers of scenes; rows and scenes that fail in every run | a run that ends complete delivers the Short of its own directives; resuming repeats nothing and is never wedged |
| Render loop (`runtime/render_loop.py`, `cache.py`, `retry_manager.py`, `render_session.py`, `model_director/fallback_strategy.py`) | attempts, prompt, workflow, directive, executed fingerprints, cache, attempt directories | render or reuse, judge, switch model, mutate | plans that lead back to an earlier render; switches that take a number and no budget; a cache shared by sessions | no render repeated; the budget bounds renders; the winner is the accepted image; the loop ends |
| Pipeline of the command line (`src/pr1me/cli/run.py`, `pipeline/runner.py`, `stages/`) | one directory: an artifact and some media per stage, canonical outputs; the results of the running process | run, execute a stage, save its artifact, write the outputs, upload | fixed file names written over by every run; places that differ between the stage that writes and the one that reads; a kill in a write; arithmetic with tolerances at both ends of a clip | what is uploaded is of the run that uploads it; files never contradict each other in age; a timeline covers the narration |
| Image generation (`stages/image_generation_stage.py`, `providers/comfyui.py`, `image_critic/critic.py`) | staged candidates, critic's score and fixes, prompt id; the server's queue; files under working, final and rejected names | queue, poll, download, stage, accept, archive | a repeated POST queues twice; a workflow that fails is polled until the timeout; files of earlier runs under the same names | the manifest names the render each file holds; one answered workflow per attempt; every run ends |
| YouTube publisher (`providers/youtube.py`) | token and its expiry, the upload session; on the platform: sessions, videos, thumbnails | renew, open session, put media, set thumbnail, verify, each retried | requests that time out here and are served there, possibly later | one video per call; `ok` means a whole video; every call ends |
| Atomic writes of the app (`app/src-tauri/src/commands/{mod,csv,productions,settings}.rs`) | `production.json`, a CSV, `.env`, their temporary files, `csv_lock` | create, save, import, load, CSV write, settings write | async commands that overlap at file system calls; a kill between them | a reader finds one whole document; what was acknowledged stays |
| Connection Center (`connections.vm.ts`, `settings.store.ts`, `providers.store.ts`, `commands/providers.rs`) | the settings the app has loaded, drafts, health of each provider | boot, edit, commit, test, probe | cards that save over each other's view of `.env`; a test that reads while a save replaces; a save that fails and is reported as done | a saved value stays; the health shown is that of the settings saved |
| Script workbench (`knowledge.store.ts`, `script.vm.ts`, `KnowledgeEditor.svelte`, `KnowledgeGallery.svelte`) | one table, its source and query, what is visible of it, a row editor, dialogs, a generation counter | load, search, sort, filter, jump, edit, add, duplicate, delete, import, validate, save | answers in any order; reloads under an open editor or a running save; a table that is not the whole file; places in the view used as indices of the table | rows stay in their file; the table never goes back; what the user asked for is kept |
| Layout file (`layout.rs`) | one layouts file | read all, change one, write all | lost updates | nothing reads it |
| Queue and storyboard stores (`queue.store.ts`, `render.vm.ts`, `storyboard.*.ts`) | pending, running and selected items | enqueue, cancel, retry, resume all | state read before an await and used after it | the commands it calls are not registered |
| Process bridge (`bridge/*.rs`) and run commands (`runs.rs`, ...) | a child process handle | spawn, kill, list | - | - |
| Other providers (LLM, voice, audio, video) | none that outlives a call but the file they replace | one request or process each, retried | a timeout or kill in the middle of the file | the file is whole after a success |
| Contracts, visual architecture, planning packages, history and reports, UI, data | none that outlives a call | functions | - | - |
| Production OS (`runtime/production_os/`) | - | - | the package does not import | - |

**How they interact.** The production pipeline calls the render loop once per
scene (`pipeline_stages.py:408-431`) with a cache and history directory of the
run, and copies the winning image to `images/`. The command line's runner calls
the image stage once and the publisher once; both pipelines end in the same
publisher. The app shares no memory with either: it starts them as processes and
reads the files they leave. Within the app the commands share the file system
and `csv_lock` only. Nothing in the Python program runs concurrently within one
directory; its hazards are crashes, partial failure, retries and stale files.
Concurrency is in the app (a view's event loop above commands on a thread pool)
and at the edge (requests served after their sender stopped waiting).

Every hazard found is listed at its line in `PROJECT.json`, with the
properties that watch it.

## 2. Modules

| Module | Models | Lines |
|---|---|---|
| `ProductionPipeline` | one run directory and the runs started on it | `runtime/pipeline*.py`, `stage_runner.py`, `resume.py`, `checkpoint.py`, `artifact_store.py`, `fingerprint.py` |
| `RenderLoop` | sessions of the closed render loop | `runtime/render_loop.py` and what it calls |
| `ContentPipeline` | one directory and the runs of `pr1me run` in it | `cli/run.py`, `pipeline/runner.py`, `stages/*.py`, the files of `providers/` |
| `VideoAssembly` | the timeline: overlays, clips, frames, what the encoder makes of them; extended by `ContentPipeline` | `stages/motion_stage.py`, `video_assembly_stage.py`, `video_render_stage.py` |
| `ImageGeneration` | runs of the image stage in one directory, and the ComfyUI server | `stages/image_generation_stage.py`, `providers/comfyui.py`, `image_critic/critic.py` |
| `YouTubePublish` | calls of `publish()` for one job, and the platform | `providers/youtube.py` |
| `PublishPromise` | the abstract specification of publishing | `prompts/16_publisher.md`, sections 6 and 7, as the code's contract |
| `AtomicWrites` | one target file, its temporary file, overlapping commands | `commands/mod.rs`, `csv.rs`, `productions.rs`, `settings.rs` |
| `Connections` | the Connection Center composed with `AtomicWrites` for `.env` | `connections.vm.ts`, the settings and providers stores, `providers.rs`, `settings.rs` |
| `ScriptWorkbench` | the table of the Script workbench and its two files | `script.vm.ts`, `knowledge.store.ts`, the two views |
| `MC...` | constants of the small instances | - |
| `...Proofs` | theorems about the module of that name | - |

### ProductionPipeline

*State.* `checkpoints`, `artifacts`, `damaged`, `history`, `images`,
`workflows`, `files` and `manifest` are the run directory; `request`, `stage`, `step`, `rendered`,
`result` and `outputs` are the process; `uploads` is the platform. Content is
modelled by provenance: the set of rows, seeds and clamped narration lengths a
file was made from. Stages are deterministic, so two contents of a kind are
equal exactly when their provenances are. `Torn` marks a half-written file. A row
has its own number of scenes (`SceneCount`; the storyboard decides 4 to 6), so a
shorter row leaves the images and workflows of a longer one in place, and the
manifest lists whatever is there (`ListedImages`, `ListedWorkflows`).

*Actions.* `Start` is the head of `ProductionPipeline.run`. For each stage
`Skip` / `InputsFail` / `Begin` are the planner's verdict, `RenderScene` one
turn of render_loop, `Execute` the return of `execute()` (side file and upload
included), `SaveArtifact` and `SaveCheckpoint` the two saves outside the `try`
block, `Report` the manifest. What the stages raise of themselves is no fault:
`ExecuteRaises` is an `execute()` that refuses the row (`Refused`: an invalid row
in `knowledge_load`, say) or misses something it needs, `RenderRejected` a scene
whose render loop ends without an approved image or in the `TypeError` of a
directed loop (`Rejected`). Renderer and stages are deterministic, so either comes
back in every run of that row and seed; `CanBeMade` says of a request that none
of them will. `ExecuteFails`, `SaveFails` and `Kill` are faults and transient;
`PartlyExecuted` says what each may leave behind. `Lose` removes or damages one
file of `LossKinds` between runs.

*What the fingerprint sees* is the heart of it: `FingerprintReads` and
`Directives` list, stage by stage, whose content `inputs()` hashes.
`video_assembly`, `video_render` and `publisher` hash paths, which are the same
in every run of the directory, and of the narration its clamped length only.

*Properties.* `OutcomeIsTrue` is `CompleteRunIsExact` (a complete run
delivers exactly its request), only for a request that can be made, and
`FailsOnlyByFault` (nothing in a run directory wedges a resumed run of a request
that can be made). `FreshRunIsExact` adds for a run that was not resumed that the
manifest lists all of its scenes, and beyond them only scenes its row does not
have, left by a row that has them. `EventuallyComplete` is claimed of requests
that can be made. `RecordsAreTrue` is
`ManifestIsHonest`, `CheckpointsAreBacked` and `RecordedArtifactsIntact`.
`UploadsAreSound` is `UploadsAreExact` and `UploadsNeedFaults` (a second upload
only after a fault).

### RenderLoop

`phase` is the place in `run()`. QA and the optimiser may answer anything,
except that QA says the same of the same image (`good`). A workflow is the
prompt it was built from, the image model and one extra. `Plans` are the image
models of the directives run() is called with, `NoModel` for none.
`SharedCache` tells the two callers apart: `RenderSession` keeps one cache for
its sessions, the pipeline's stage gives each scene a new one.

`TakesTokens` is the interface of the injected workflow builder, chosen at the
start from a set. `run()` passes `visualization_tokens` to
`build_from_directive`; the builder in the repository does not accept it
(FALSE). TRUE is the builder the loop is written against, and the only one with
which a directed session reaches a second attempt, hence the fallback chain.
The theorems hold for both.

The `while` of `run()` tests `can_render` before each attempt. For every attempt
but the first the same test of the same log was made before the plan was
applied, and a first attempt always has budget (`SessionConfig` wants at least
one), so leaving the loop there is not an action of its own. `CountsAgree` ties
the manager's counter to the log: what the session has spent is the number of
its attempts that have an image.

### ContentPipeline and VideoAssembly

*State.* `artifact`, `media` and `output` are the directory: a file is named by
the run that wrote it, 0 before any run, `Torn` when a write was cut short. `pc`,
`at`, `tries` and `plan` are the process, `env` what it was started with
(`PR1ME_*_OUTPUT_DIR`, `--output`, `--dry-run`, strict mode), chosen anew at each
`Start`. `uploads` says of every upload whose video and thumbnail it took;
`cut` which runs rendered a video shorter than their narration.

*Actions.* One per kind of stage: `ModelAnswers`, `Directed`, `VisualDirected`,
`ArchitecturePlans`, `BuildWorkflows`, `RenderImages`, `Speak`, `Mix`,
`DesignOverlays`, `Assemble`, `Encode`, `RenderThumbnail`, `DryRun`, `Publish` and
`PublishRefuses`; each is the provider's attempt, the stage's checks, and the
file left behind whether it succeeds or raises. `SaveArtifact` is the runner's
save, `WriteOutput` one canonical file after a complete run. Timeouts and kills
leave the file a provider was replacing as it was, torn or whole.

*Timeline.* Times are in ticks, frames are counted with the rounding the code
uses. `Overlays` places the visual director's moments, `Assembled` cuts the
shots to the target and assigns each overlay to the clip it falls into, or
refuses; `Encoded` is what an encoder that may pad makes of it, `Frames` its
length. Both are recursive functions of position, not operators.

### ImageGeneration

`input` is the list of frames or scenes, chosen at the start, `settings` the
critic's two switches. `pc` is the place in the loop over shots and attempts:
`Queue`, `Pending`, `Finished`, `Download`, `Stage`, `Accept`, `Archive`; files
are pairs of a name and the workflow whose render they hold. Of a prompt only
what the critic looks for is kept (`cues` on the legacy path, the prompt
validator's score on the frames path); its points, threshold and fixes are
translated with their integer arithmetic. `Server` executes its queue in order
and may end a workflow with an error, with no image, or never.

### AtomicWrites

Directory entries name inodes, so a handle keeps writing to its inode after a
rename or a removal. Every file system call of a command is one action:
`Check`, `Acquire`, `Open` (creates or truncates the temporary file), `Write`,
`Look` (`path.exists()`), `Remove`, `Rename`, `Reply`; `Load` is a reader.
`IOFails` and `Kill` are faults. `kind` is the writer, from which three
differences follow:

| `kind` | `Locked` | `RemovesFirst` | `TmpPerProcess` |
|---|---|---|---|
| `"csv"` (`write_csv_atomic`) | TRUE | Windows only | TRUE |
| `"production"` (`atomic_write_json` of `productions.rs`) | FALSE | TRUE | FALSE |
| `"settings"` (`atomic_write` of `settings.rs`) | FALSE | TRUE | FALSE |

### Connections

Extends `AtomicWrites` with `kind = "settings"`: the document of a call is the
`.env` it read, with the card's drafts in it (`contents`). A card goes through
`StartEdit`, `SetField`, `CancelEdit`, `Commit`; `WriteStep` is one file system
call of its save, `Saved` the answer, which is the same whether the write
succeeded or not; `Test`, `ReadEnv` and `EndCheck` are a probe. `wanted` is a
history of what the user last saved of each key. `mishaps` names what
`SavedStays` and `HealthSettles` except; leaving any one out breaks them.

### ScriptWorkbench

Each user action is one step of the event loop up to its first await; `reads`,
`saves`, `checking` and `preview` are the calls that were not answered yet, and
their answers come in any order. `generation` and `shown` are the view model's
guard against late answers. Closing the editor mounts the gallery, which loads
the table again (`CloseEditor`); that is part of every action that closes
it. `wanted` is what the user asked for, as bags of rows; `mishaps` the six
things that may lose some of it.

`Visible` is the gallery's view: the table filtered (`Kept`), sorted stably with
empty cells last (`Precedes`) and cut to a window, as places in `allRows`. The
gallery passes on the place in this view, and `OpenEditor` and `RequestDelete`
take it as an index of `allRows`, as the code does. `RowShown` is the row the user
pointed at, `editor.asked` and the dialog's `row` remember it, and `wanted`
follows it; where the two rows differ the step is marked "misaimed" (`Aim`). The
editor's own next, prev, duplicate and delete use indices of the table on both
sides.

### YouTubePublish and PublishPromise

One request in flight at a time: `Send`, then the platform's `Serve` or nothing,
then the answer (`Renewed`, `Opened`, `Uploaded`, `Dressed`, `Verified`),
`Retry` (a timeout, transport error or retryable status, whatever the platform
did with the request) or `Reject`. A request that was given up may be served
later (`late`, `ServeLate`). The platform is external. Two things are assumed of
it: putting the media into a session that has its video changes nothing, and it
does not refuse a token before the expiry it announced. `max_retries` is at
least one.

`PublishPromise` says what a caller may rely on: a call makes at most one video,
in one step, and answers `ok` only when the video is there with its thumbnail. A
video may still appear after its call failed. The refinement mapping sends
`finished` to the videos of each call and `thumbs` to `dressed`.

## 3. Runs

| Run | Question | Instance | States |
|---|---|---|---|
| `resume` | Does an operator who keeps resuming get exactly their Short, with nothing repeated? | 1 row of 2 scenes and 1 row that is refused, 3 runs, 2 faults, 1 lost artifact or checkpoint | 807 031 |
| `mixed` | Is a run that was not resumed exact, whatever is in the directory? | 1 row of 1 scene and 1 of 2, 2 seeds, 1 scene rejected with 1 of them, 5 requests, 3 runs, any one file lost or damaged | 440 984 |
| `regenerate` (violation) | Is a resumed run with the next seed exact? | 2 runs, no fault | 298 |
| `render_sessions` | Is anything rendered twice, miscounted or kept wrongly; does every session end? | 1 scene, 2 sessions with one cache, directed or not, both builders, 2 prompts, 3 models, budget 4, 1 failing render | 389 144 |
| `directed_raises` (violation) | Does `run()` raise only when the renderer does? | 1 directed session | 37 |
| `content_pipeline` | Does a run upload its own video; do its files agree; does its timeline hold? | 3 shot plans, 4 visual plans, 5 narrations, 3 environments, 2 attempts, 2 runs, 2 faults | 306 425 |
| `image_generation` | Does the manifest tell the truth; is an attempt queued once; does a run end? | 2 frames or 2 scenes, critic and strict on or off, 2 attempts (3 candidates), 2 tries, 2 runs, 2 faults | 301 176 |
| `publish_retries` | One whole video per call, the promise kept, live tokens, an end? | 2 calls, 2 attempts a step, renewal | 53 107 |
| `app_files` | Whole files, kept acknowledgements, a lock that is given back? | 2 windows that write a CSV, or 1 that edits a production, and 1 that loads; 4 calls, 2 faults | 185 441 |
| `connections` | Does a saved setting stay; does a card end with the health of what is saved? | 2 cards, 2 keys, 2 values, 3 saves, 4 user actions, 1 fault | 252 895 |
| `script_workbench` | Is what the user asked for kept; does the table go back, mix files or load for ever? | 3 rows, 1 row, 1 imported row, page of 3, window of 2, every operation, 4 user actions, 1 error | 651 176 |
| `search_save` (violation) | Do rows nobody touched stay in the knowledge base? | search, edit, type, save | 400 |

**Why the bounds are enough.** *Production pipeline:* two faults allow a fault
while a run recovers from another, three runs a complete one after both; more
scenes repeat the two, of which one is the thumbnail's. Two rows and two seeds
are all that fingerprints tell apart; the second row is not publishable and has
another narration length and, in `mixed`, a scene more, so that with three runs a
short row follows a long one and the other way round. `resume` leaves out side
files and images that are lost, damage, fresh runs and other rows that can be
made, for which its properties are false as the table below says; `mixed` has
all of them, and no faults, of which *FreshRun* below allows any number.
*Render loop:* budget 4 is the least at which two
switches of the chain fit with the two failures each needs; two sessions are the
least that meet in a cache. *Command line:* two runs are the least in which one
finds the files of another, two faults let both fail; a tick is 50 ms, and the
plans contain a shot of one frame, shots that cross an overlay, overlays before
zero and after the end, and narrations below, within the tolerance of and beyond
the budget. *Images:* 95 and 100 points are the validator's two interesting
scores (see below); the three scene lists pass never, at once, and on the second
render. Two runs meet in one directory. *Publisher:* with two attempts a late
request of the first meets the second, with two calls that of a failed call
meets the next. *Files:* three overlapping calls are the least in which one
writes, one waits and one reads; the fourth follows a fault. *Connections:* two
overlapping saves and one after them; two cards are the least that can undo each
other. *Workbench:* four actions are what the longest loss needs (open, type,
save, and one action in its shadow); a page of three rows is smaller than the
table with an imported or added row, and a window of two smaller than the table,
so that a jump moves it. Three rows in neither order of the sorted column are the
least of which sorting, filtering and jumping each, alone, shows another row at a
place.

**Fairness.** `WF(Advance)` in the production pipeline and the render loop:
they are sequential code and every wait in them is bounded by a provider's
timeout. The pipeline's `FairSpec` also assumes an operator who starts a run
again while runs are left: without that no run need ever begin. `WF(Proceeds)`
in ImageGeneration: polls are counted, so the stage goes on whatever the server
does; the server owes nothing. `WF(Provider)` in the publisher: `wait_for` ends
each attempt whatever the platform does. `WF(Step(c))` in AtomicWrites: a
thread of the pool goes on when it can. `std::sync::Mutex` promises no order;
with finitely many calls the lock is free for good at some point, so weak
fairness of `Acquire` is enough. In Connections the backend's steps and answers
are fair, in ScriptWorkbench `System` (timer, backend and answers) is; the user
owes nothing in either. Faults are never forced.

`CHECK_DEADLOCK FALSE` is set everywhere: the bounds on runs, sessions, calls
and user actions let the systems stop.

### What the runs show

- `resume`: a Short resumed after any two faults, with an artifact or a
  checkpoint lost between runs, ends with exactly its deliverable; no completed
  stage executes again; a checkpoint is never ahead of its artifact; an upload
  is repeated only after a fault. Runs of a row that is refused, in between,
  fail each time and take nothing from it.
- `mixed`: what a fresh run delivers cannot be contaminated, not even by an
  earlier run of another row in the same directory with a lost or damaged file.
  Its manifest can: it lists the last scenes of an earlier, longer row too.
- `render_sessions`: the fallback chain keeps numbering, budget and log in step,
  in both builders.
- `content_pipeline`: an upload is never of another run's files as long as the
  stages write where the publisher reads, and never cuts the narration; an
  interrupted run leaves no file newer than one made from it.
- `image_generation`: neither a lost answer nor an earlier run's files make the
  manifest lie. An attempt whose answer was lost is rendered twice by the
  server, but only one of them is ever used.
- `publish_retries`: retries and late requests never make a second video.
- `app_files`: under the lock a reader never sees a torn CSV nor one older than
  what was acknowledged, and an error path gives the lock back (the instance is
  the build for systems other than Windows). One window editing a production is
  safe up to and including the first fault: the acknowledged document is under
  one of its two names.
- `connections`: a card's values survive saves of other cards and kills unless
  one of three named mishaps happened; each of the three is needed.
- `script_workbench`: late answers never move the table back or into the other
  file. In this model work is lost in six ways, all named in
  `AskedForIsKept`: a table that is not the whole file as it is may neither be
  saved nor deleted from, and a view that is sorted, filtered or moved may not be
  edited from.

### Disagreements between the code and what is said of it

Shown by a run and listed as findings:

1. `regenerate`: `video_render` fingerprints paths, so regenerating with the
   next seed and resuming keeps the previous seed's video beside new images.
2. `directed_raises`: `build_from_directive` has no parameter
   `visualization_tokens`; a directed session whose image QA rejects raises
   `TypeError` as soon as the optimiser prescribes an action.
3. `search_save`: the table after a search holds only what was found, and save
   writes the table over the whole file.

Met while modelling. Each is a behaviour of the model that a property excepts or
a constant leaves out, so it is no run of its own.

*Production pipeline and render loop*

| What | Where | How it is seen in the model |
|---|---|---|
| A checkpoint survives the re-execution of its stage, and the planner compares the JSON artifact only: a fresh rerun killed while it replaces a side file, then a resumed run, ends complete with a torn image or video, although `runtime/checkpoint.py:6` says "a match plus intact artifacts means the stage is provably already done" | `runtime/stage_runner.py:142` | `resume` with a fresh request among `Requests`: `CompleteRunIsExact` |
| A lost side file (`short.mp4`, narration, ...) is not made again by resuming, although `runtime/resume.py:7` lists "a missing artifact" | `runtime/resume.py:90` | `resume` with `LossKinds = {"file"}`: `CompleteRunIsExact` |
| A row with fewer scenes than an earlier one of the directory leaves the images and workflows of the last scenes in place, and its own manifest lists them among `final_artifacts` | `runtime/pipeline.py:363-370` | `FreshRunIsExact` excepts them (`LeftOver`); `mixed` reaches them |
| A scene whose image is rejected, by the budget or in the `TypeError` of finding 2, makes every run of this row and seed fail at `render_loop`, resumed or not: the renderer is deterministic and a directive is always passed | `runtime/pipeline_stages.py:427`, `:464` | `RenderRejected`; `EventuallyComplete` is claimed without (`CanBeMade`) |
| A lost scene image makes every resumed run fail | `runtime/pipeline_stages.py:677` | the same with `"image"`: `FailsOnlyByFault` |
| A damaged artifact keeps its name and is recorded with a checksum its bytes do not have | `runtime/artifact_store.py:138` | the same with `"damage"`: `RecordedArtifactsIntact` |
| `--max-attempts` (`docs/product/BACKEND_ARCHITECTURE.md:55`) is not what the render loop counts: `RenderLoop` is built without a retry manager | `runtime/pipeline_stages.py:414` | `Budget` is 3 whatever is configured |

*Command line*

| What | Where |
|---|---|
| The verdict and the corrections of `fact_check` reach `visual` and `visual_architecture` only: the voice speaks the uncorrected script, and "needs_correction" stops nothing | `stages/voice_generation_stage.py`, `stages/factcheck_stage.py` |
| `fact_check` and `visual` do not declare `topic` among their dependencies and never receive it | `stages/factcheck_stage.py`, `stages/visual_stage.py` |
| Overlays come from the `visual` plan, clips from the shots of `visual_architecture`: when the two plans differ, or a shot is shorter than the least hold, assembly raises "straddles" or "does not fall inside any shot" | `stages/video_assembly_stage.py:246` |
| Assembly clamps its target to 45 s and still records "video_never_shorter_than_narration"; the render stage then raises, after `short.mp4` was replaced. A timeline at exactly the budget fails as soon as the encoder pads | `stages/video_assembly_stage.py`, `stages/video_render_stage.py` |
| The publisher reads `short.mp4` and `thumbnail.png` of one directory; the render and thumbnail stages may be told to write elsewhere, and then an earlier run's or a torn file is uploaded | `stages/publisher_stage.py:79` |
| On the legacy image path the shots of the visual plan never reach `image_generation` | `stages/image_generation_stage.py` |
| At 1 or 2 frames a second, which `core/config.py:56` accepts, half a frame is more than the 0.2 s the narration may outlast the video: a target that rounds down ends in a video the render stage refuses (`content_pipeline` with `Fps = 2` and a narration of 205: `TimelineHolds`) | `stages/video_assembly_stage.py`, `stages/video_render_stage.py` |
| A provider writes its file in place; a timeout cancels the wait and leaves `ffmpeg` running | `providers/video_renderer.py:725` |
| `build_render_command` cuts the narration out of the image inputs (`[i:a]`) and passes only the last of its audio filters, whose inputs the others define, so `[aout]` cannot be made; with `background_music` it uses names that are not defined. The models take an encoder that answers, as the tests inject one | `providers/video_renderer.py:379-411` |
| The canonical outputs are written only after a complete run, although `cli/run.py:4` says every completed stage's output is. After a failed rerun the manifests of the earlier run describe media that were replaced; with `--output` an old `topic.json` stays | `cli/run.py:335` |
| A contract violation of the language model is not retried; an artifact that cannot be saved leaves `last_report` unset; two overlapping runs share a job id and every file name | `providers/deepseek.py`, `pipeline/runner.py` |

*Images and publishing*

| What | Where |
|---|---|
| A validation score of 95 to 99 becomes 87 or 88 critic points by integer truncation: frames that pass the validator's bar always fail the critic's 90 and use their whole budget | `image_critic/critic.py:243` |
| On the legacy path consistency cannot be proven (92 points at most), the correction for "teaching" does not contain the words the critic looks for, and corrections are not cumulative | `image_critic/critic.py` |
| "image_critic_gate_passed" is among the manifest's checks also when the gate failed and strict mode is off; in strict mode the stage raises after the final name was replaced | `stages/image_generation_stage.py:331` |
| "the strongest one is kept" of the thumbnail candidates (`core/config.py:91`), but rendering stops at the first that passes | `stages/image_generation_stage.py` |
| A workflow that ended in an error is polled until the timeout; one that timed out is not cancelled on the server | `providers/comfyui.py:421` |
| A second call of `publish()` for a job whose first failed after the media was put makes a second video, although `prompts/16_publisher.md:95` says "no duplicate uploads" | `providers/youtube.py:510`; in the model `Cardinality(finished) <= 1` |

*App*

| What | Where |
|---|---|
| Two overlapping saves of a production share a temporary name and remove the target first: a document that was acknowledged is lost, a mixture may stay, and two creates may both be answered Ok. With two editing clients in `Commands`, `AckedStays`, `WholeFile` and `FirstFaultRecoverable` of `app_files` fail | `commands/productions.rs:255` |
| A kill between removal and rename leaves no `production.json`, and nothing reads the temporary file; a load in that gap finds no production | `commands/productions.rs:260`, `:294` |
| The same gap of `.env`: the next start finds no settings, and the next save truncates the temporary file, the only copy left (mishap "missing") | `commands/settings.rs:85` |
| `SettingsStore.save` swallows errors, so the card always says "saved"; nothing disables the button, so a card can be saved twice at once | `settings.store.ts:31`, `connections.vm.ts:216` |
| A required secret that was left alone is refused, although `connections.vm.ts:196` says "Empty secret drafts mean 'keep existing'"; cancelling after a save drops what was typed meanwhile | `connections.vm.ts` |
| Closing the row editor reloads the table: a save from the editor races with it, a deletion from the editor is undone by it, and cancelling discards unsaved deletions and imports while the table stays marked dirty | `KnowledgeGallery.svelte:50` |
| Adding a row before the table is loaded and saving it replaces the file by that row; a file longer than a page of 10 000 is cut by a save | `knowledge.store.ts`, `commands/csv.rs:28` |
| A read that was under way when a save ended shows the table as it was before it. Of two equal rows, one deleted and saved comes back that way; deleting the last copy then leaves the other in the table, marked as unsaved work (mishap "partial") | `knowledge.store.ts` |
| The gallery shows `store.visible` and passes the place of a row in it to `openEditor` and `requestDelete`, which take it as an index of `allRows`: with a sort or a filter, or after a jump to a row of the report, another row is opened, saved over or deleted than was pointed at (mishap "misaimed"). Without counting it `AskedForIsKept` of `script_workbench` fails: sort, edit, type, save. The deletion dialog at least names the row that will go | `KnowledgeGallery.svelte:258-265`, `knowledge.store.ts:126`, `:250`, `:312`, `script.vm.ts:208` |
| A row index taken before a reload is used after it; an edit made while a save is under way is lost from the dirty mark | `knowledge.store.ts:289`, `:323` |
| A failing search that superseded a load leaves "Loading..." for good | `script.vm.ts:43` |
| `topics.csv` is called read-only, yet can be edited, and is then saved with the columns of the knowledge base; validation reads the file, not the table; the validator's output is read only after it ended, so more than a pipe's buffer of it blocks until the timeout | `script.vm.ts`, `commands/csv.rs` |

## 4. Proofs

All proofs are checked by TLAPS from the constants' named assumptions of each
module; what a theorem assumes beyond them is stated in it and explained below.
Each property below is also checked by a run, alone or as a part of one, but
`SettingsAreWrites`, whose mapping is the identity, the two lemmas
`PlanAlwaysOwn` and `PlainViewAims`, and the three bounds
`SessionsRunOut`, `CallsRunOut` and `RunsRunOut`, whose measures are defined
beside their proofs; the runs check the liveness they are for. Every invariant of
a passing run is the conclusion of a theorem.

| Theorem | Says | Inductive invariant |
|---|---|---|
| `ProductionPipelineProofs!Typing` | types | `TypeOK` itself |
| `ProductionPipelineProofs!FreshRun` | a fresh run that completes delivers and lists its own Short, for any rows with any number of scenes, seeds, requests, refusals, faults and losses; what it lists beyond is of a row that has the scene | `FreshInv`, `PlanInv`, `LeftInv` |
| `ProductionPipelineProofs!PlanAlwaysOwn` | the plan, storyboard and workflows a run works with are of its own row | `PlanInv` |
| `ProductionPipelineProofs!CheckpointsBacked` | a checkpoint is never ahead of its artifact | `Backing` |
| `ProductionPipelineProofs!ArtifactsIntact` | no artifact on record is damaged, if nothing damages files between runs | `Backing` |
| `ProductionPipelineProofs!OutcomeAlwaysTrue`, `RecordsAlwaysTrue` | resuming one Short: complete runs deliver it, runs fail by faults only, the manifest, the checkpoints and the artifacts are true | `Backing` and `ResumeInv` |
| `ProductionPipelineProofs!NothingRepeated` | no stage on record is executed again | the same |
| `ProductionPipelineProofs!UploadsAlwaysSound` | every upload is the Short; each beyond the first is paid for by a fault or a loss | the same and `UploadsPaidFor` |
| `RenderLoopProofs!Typing` | types | `TypeOK` |
| `RenderLoopProofs!NoRenderTwice` | no render is asked for twice | `RenderInv` |
| `RenderLoopProofs!NoAttemptTwice`, `WinnerEndsSession`, `CountsAlwaysAgree` | attempts differ; a pass is last and its directory holds the accepted image; the counter is the log's | `LogInv` |
| `RenderLoopProofs!SessionsRunOut` | a call of `run()` has at most 4 steps for each render allowed and 4 more | `CountInv` |
| `ContentPipelineProofs!Typing` | types | `Typed` |
| `ContentPipelineProofs!UploadsOwn`, `FilesAlwaysAgree` | an upload is of its run, once and with the whole narration; files never contradict each other in age | `IInv` |
| `ContentPipelineProofs!TimelineAlwaysHolds` | every approved timeline has clips of a frame and more, overlays inside them, the length of its target, and covers a narration within the budget | `Fits` |
| `ImageGenerationProofs!Typing` | types | `Typed` |
| `ImageGenerationProofs!OneWorkflow` | an attempt has at most one answered workflow and no more than the client may send | `CInv` |
| `ImageGenerationProofs!ManifestAlwaysTrue` | a manifest names the renders it has, of this run, and leaves out none | `MInv` |
| `ImageGenerationProofs!RunsRunOut` | a run of the stage has a bounded number of steps, whatever fails and whatever the server answers | `BInv` |
| `AtomicWritesProofs!Typing` | types | `TypeOK` |
| `AtomicWritesProofs!WholeFileAlways` | who opens the file finds one whole document | `Inv` |
| `AtomicWritesProofs!AckedAlwaysStays` | a writer that renames over its target never loses what it acknowledged | `Inv` and `Kept` |
| `AtomicWritesProofs!FirstFaultDestroysNothing` | up to and including the first fault, what was acknowledged is under one of the two names | `UntilAFault` |
| `ConnectionsProofs!SettingsAreWrites` | `Connections` implements `AtomicWrites` for `.env` | none: step by step |
| `ConnectionsProofs!ConnTyping` | types; a write under way belongs to a card that waits for it | `ConnTypeOK` |
| `ConnectionsProofs!SavedAlwaysStays` | without one of three mishaps, what was saved last is in `.env`, or under the temporary name after a kill | `SavedInv` |
| `ScriptWorkbenchProofs!Typing`, `TableNeverOlder` | types; the table never goes back to an older answer | `TypeOK` |
| `ScriptWorkbenchProofs!SeparateFiles` | no row of one file is saved into the other | `Apart` |
| `ScriptWorkbenchProofs!WorkIsKept` | without one of six mishaps, unsaved work is in the table and everything else in the files | `Followed` and `IndexesHold` |
| `ScriptWorkbenchProofs!PlainViewAims` | without sort, filter and offset every row is shown at its own index | none: a lemma on `Visible` |
| `YouTubePublishProofs!Typing`, `OneVideo`, `OkWhole`, `TokensRenewed` | one whole video per call, no start with a dead token | `Inv` |
| `YouTubePublishProofs!CallsRunOut` | a call of `publish()` has at most 10 turns for each attempt allowed | `TypeOK` |
| `YouTubePublishProofs!Implements` | `YouTubePublish` implements `PublishPromise` | `Inv` |

*FreshRun.* `FreshRunIsExact` speaks of the end of a run only. `FreshInv` says
of a fresh run under way that every stage before the current one has the output,
side file and images a run of its directives makes in an empty directory, and
that render_loop's scenes do up to `rendered`. A step of a stage reads only what
earlier stages of this run wrote (`ExactExecution`), which is where the order of
the stages enters; nothing earlier is overwritten (`EarlierStagesKept`).
How many scenes render_loop draws is read from the storyboard, so the run must
work with the storyboard of its own row: `PlanInv` shows that of every run, also
a resumed one, because the fingerprints of the seven planning stages contain all
of their input. `LeftInv` says of every scene's image and workflow which row it
may be of.

*Resuming.* `Backing` says that the artifact of every completed stage is there
when its checkpoint is, and that a running process is past completed stages
only. `ResumeInv` adds what makes a stage safe to skip: its checkpoint has the
fingerprint and the output of a run in an empty directory (`TrueRecords`) and its
files are whole (`Whole`), so that the next stage, executed or skipped, reads
what such a run would have written (`RunningIsExact`); a stage is executed only
when its record does not match (`ExecutesTheUnmatched`), and nothing aborts a run
but a fault (`FailsByFault`). `UploadsPaidFor` counts: an upload beyond what
faults and losses pay for leaves a publication on record, which no step but a
fault or a loss forgets. `CheckpointsBacked` needs no hypothesis. The others are
false in general, as section 3 lists, and are proved for the use they are meant
for: `SameShort` (all requests resume; those that can be made ask for one row and
seed, the others are refused by `knowledge_load`, and so touch nothing but its
record and the manifest; no side file or image is removed between runs, which the
planner would not notice), `Undamaged` (no file is damaged between runs) and, for repetition,
`Steady` (all requests that can be made agree on publishing). A fresh run, or one of another row,
overwrites files of stages that stay on record. Those are hypotheses on what the
operator does, not on the sizes: rows, seeds, scenes, runs, faults and losses are
any number.

*NoRenderTwice.* What the renderer made while the present cache was in use is
in the cache (`CallsAreCached`), so a second call with its fingerprint does not
reach the renderer. *NoAttemptTwice* needs that every logged image's fingerprint
is in `RetryManager`'s set (`AttemptsExecuted`).

*UploadsOwn and FilesAlwaysAgree* speak of what several runs left in one
directory. `Bounded` says that nothing is newer than the present run;
`Progress` says what the present run has put in place at each of its steps, so
that the publisher finds this run's video and thumbnail when its turn comes;
`Ages` is the order in age, kept because a run writes each file before what is
made from it, and a file of the present run is never older than another. Every
step is one of six kinds (`StepKinds`: a run starts, a stage returns, a run
fails, an artifact is saved, an output is written, or nothing of this changes).
That the registered order respects the dependencies is the assumption
`RegisteredInOrder`, which TLC evaluates.

*TimelineAlwaysHolds.* `Fits` is the state part: a plan that is past the assembly
stage was accepted by it and not changed since. The rest is arithmetic about
`VideoAssembly`, for any plan. The ends and the cuts of a plan are recursive
functions. `UpTo` is induction for sets of positions, from the well-foundedness
of the naturals; `Recursion` builds a function step by step, which shows that the
functions TLA+ chooses exist, and `EndOfIs` and `CutsAre` say what they are.
`NearestFrame`, `LaterFrame` and `SameFrame` are the facts about rounding halves
to even: at most half a frame off, monotone, and independent of how the fraction
is written. Two hypotheses: `RoomForAFrame`, a budget has a frame in it, and
`FineFrames`, half a frame is within the tolerance of 0.2 s. The settings accept
frame rates of 1 and 2, for which `FineFrames` and the property are false.

*OneWorkflow.* Before an attempt is queued, each of the client's earlier tries
has left one workflow at most and none was answered (`AtQueue`); no workflow is
ahead of the attempt the stage is at (`Numbered`), so the next attempt, shot or
run begins with none. *ManifestAlwaysTrue.* `Manifest` says of a run that has
not failed where the render of each answered workflow is: accepted, rejected,
staged or on its way (`Accounted`), and which one every name in use holds
(`Assets`, `Rejects`, `Staging`, `Accepted`, `Downloaded`). Files of earlier runs
stay in the directory; what matters is that none of this run's has a working
name out of use (`Tidy`) and that each step renames only the names it has just
written. That the accepted render beats its rivals needs that a best one exists
among any number of attempts, which `Typed` carries from attempt to attempt in
place of an induction.

*WholeFileAlways and AckedAlwaysStays* assume `Discipline`: the kind is the CSV,
or one client at most does anything but load. `Inv` adds that at most one call
is between opening and renaming, that its inode is the temporary one and not
the target, and that it renames a whole document; `Kept` that a document on its
way to the target was started after everything acknowledged. Without the
discipline both claims are false.

*FirstFaultDestroysNothing.* A writer that removes its target first has a moment
without one, in which the document is under the temporary name. `UntilAFault`
says that without a fault what was acknowledged is in the target, or in the
temporary file of a call that has removed the target and is to rename; a step
that fails ends with one of the two still there, and so does a kill. The CSV
writer on Windows is left out (`NotCsvOnWindows`): its temporary name is of the
process, the next process has another, so a kill between removal and rename
leaves a document under a name nobody looks at.

*Connections.* Seen from the file system, each step is one of `AtomicWrites` or
leaves its variables alone, so its types and its `Discipline` are used and not
shown again. `SavedInv` speaks of calm histories (no saves that overlapped, no
failed save reported as done, no start without `.env`): the settings the model
has loaded are those in `.env` (`RestHolds`), and a save on its way has the old
document under one name and the new one, which differs in the card's drafts only,
under the other, at each of its steps (`SaveHolds`). The proof needs that no
provider is the model value for "no card" (`SettingsAssumption`).

*SeparateFiles.* `Apart` says of every answer, table, draft and save on its way
that its rows are of the source it is for; a late answer of the other source is
recognised by its generation.

*WorkIsKept.* Tables are sequences, what the user asked for is a bag, and work is
kept when the bags are equal. `Followed` says, without a mishap, that there is
one save at most, that what is on its way is the table and the bag asked for,
that a clean table is its file, and that the file of the other source is as
asked; `IndexesHold` that an index in use is in the table. The lemmas are about
bags of sequences: appending, replacing or deleting at a position changes the
count of one or two rows (`BagAppended`, `BagReplaced`, `BagWithout`). Trying to
prove it showed that an earlier form was false with duplicate rows, when a row is
deleted from a table read before a save ended; that is now one of the mishaps,
and in return the property holds at every step and not only at rest.

*Publisher.* The requests that can make a video of a call all name one session:
a call learns of one session only and puts the media nowhere else
(`KnownSession`, `OneSession`); `Effects` ties each step to what was served
before it. `Implements` maps each step to `Begin`, `Appear`, `Dress`,
`Succeed`, `Fail` or a stutter.

*Running out.* That something ends is a liveness property; that it cannot go on
for ever is not. For the three programs with retries a number counts down what
is left of a call: requests in a poll, polls in an attempt, attempts in a shot and
shots in a run (`ImageGeneration`), the rounds the budget still pays for
(`RenderLoop`), the tries of each request and the requests still to come
(`YouTubePublish`). It is positive exactly while the call runs, every step of the
program takes from it, failing ones included, and nothing the server or the
platform does gives any back. The bounds hold for any number of faults, so they
are those of the code's own limits (`MaxRetries`, `Budget`, the polls before the
deadline) and not of the instances. `RunsRunOut` needs that no shot gets more attempts than its budget
(`WithinBudget`), which for a thumbnail is another number than for the rest.

**Only model-checked.** The liveness properties (`EventuallyComplete`,
`EverySessionEnds`, `EveryCallAnswered`, `EveryPublishEnds`, `EveryRunEnds`,
`HealthSettles`, `LoadingEnds`), which need fairness and ENABLED, out of the
prover's reach; of `EverySessionEnds`, `EveryPublishEnds` and the image stage's
`EveryRunEnds` only that a step is always possible until the end is then left to
TLC. The hypotheses of the theorems about resuming are met by the
instance of `resume`; `mixed` checks the fresh runs.

## 5. Not modelled, and why

- Planning packages (`knowledge/*`, `src/pr1me/visual_architecture`) and the
  contracts (`src/pr1me/models`): some 15 000 lines of functions from one table
  to the next, with no state and no order of events. The models keep what their
  callers tell apart: a row's plan, a verdict, a list of durations. About half
  of the repository's Python lines are data (`knowledge/batches`).
- What a language model, a voice or an image model answers: any member of a
  small set, or a failure. Repair of answers, MP4 and WAV parsing and FFmpeg
  command lines belong to those calls.
- Formats, parsing, validation and paging of CSV and JSON. Names of productions
  and their policies and episodes are not told apart. One filter and one sortable
  column of the workbench stand for all; the choice of columns is left out.
- The disk cache of `RenderCache` (no caller gives it a root), events, history
  reports and replay: append-only or read-only.
- Two pipelines at once in one directory: nothing in the program starts them,
  and nothing in it prevents them.
- The layout file: `layout_save` loses updates of overlapping windows, but there
  is no command that loads it.
- The queue and storyboard stores: the commands the queue calls are not
  registered in `lib.rs`, so each of its calls answers an error. Process bridge and run commands: one spawn
  or one read each; no command uses the long-lived child.
- The CLI's argument parsing and the UI's views.
- Production OS: its modules import names that do not exist, so no state of it
  is reachable.

## 6. What is left

Modelled and checked, and in part proved: the ten modules of section 2. Next,
in the order of what they add:

1. `ShortDelivery`, an abstract specification of a run directory (a request is
   delivered or the manifest does not say so), refined by `ProductionPipeline`.
2. The bound of *Running out* for a run of each of the two pipelines.
3. The queue store and its view model, once their commands are registered.
