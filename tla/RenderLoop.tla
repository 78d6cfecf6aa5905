----------------------------- MODULE RenderLoop -----------------------------
(***************************************************************************)
(* The closed render loop of one scene (runtime/render_loop.py): render,   *)
(* image QA, optimise, render again until a pass or the retry budget.      *)
(* Sessions run one after another, each with a RenderLoop of its own.      *)
(* Those of one RenderSession share its cache; the stage render_loop of    *)
(* the production pipeline gives every scene a new one.                    *)
(*                                                                         *)
(* A prompt and the part of a workflow the optimiser chooses are members   *)
(* of small sets; QA and the optimiser may say anything, but QA says the   *)
(* same thing of the same image.                                           *)
(***************************************************************************)
EXTENDS Naturals, Sequences, FiniteSets

CONSTANTS
    Scenes,        \* scenes sessions are run for
    Prompts,       \* what a scene's prompt can be mutated into
    FirstPrompt,   \* the compiled prompt the loop begins with
    Extras,        \* profiles and visualization tokens of a workflow
    NoExtra,       \* the workflow as first built
    NModels,       \* length of the fallback chain; a model is its position
    Plans,         \* image models of the directives run() is called with
    BetterNext,    \* models whose fallback predicts enough improvement
    TakesTokens,   \* whether build_from_directive of the injected builder
                   \* accepts visualization_tokens: {TRUE}, {FALSE} or both
    Budget,        \* RetryManager.max_attempts, at least 1 (SessionConfig)
    SharedCache,   \* TRUE: RenderSession, FALSE: the production pipeline
    MaxSessions,   \* bound: sessions
    MaxFaults      \* bound: renders that raise

Models == 1..NModels
NoModel == 0
SWITCH_AFTER_ATTEMPTS == 2

Workflow == [prompt : Prompts, model : {NoModel} \cup Models,
             extra : Extras \cup {NoExtra}]
Fingerprint == [scene : Scenes, prompt : Prompts, workflow : Workflow]
Status == {"passed", "failed", "skipped_duplicate", "model_switched"}
Attempt == [index : Nat, status : Status, print : Fingerprint]

ASSUME ConstantsAssumption ==
    /\ FirstPrompt \in Prompts /\ NoExtra \notin Extras
    /\ TakesTokens \subseteq BOOLEAN /\ SharedCache \in BOOLEAN
    /\ NModels \in Nat \ {0} /\ BetterNext \subseteq Models
    /\ Plans \subseteq {NoModel} \cup Models
    /\ Budget \in 1..10
    /\ MaxSessions \in Nat /\ MaxFaults \in Nat

VARIABLES
    (* One call of run() *)
    phase,     \* "idle", "try", "assess", "improve", "mutate", "done",
               \* "raised"
    scene,     \* the scene of the session
    attempts,  \* the attempts recorded so far
    index,     \* the number of the attempt being made
    prompt,    \* current_prompt
    workflow,  \* current_workflow
    model,     \* current_directive's image model, or NoModel
    advice,    \* what the optimiser made of the last failed attempt
    executed,  \* RetryManager._executed
    (* Kept between sessions *)
    cache,     \* fingerprints RenderCache holds an image of
    good,      \* fingerprints whose image passes QA
    calls,     \* renderer calls that returned an image
    saved,     \* attempt directories: what was saved for <<scene, index>>
    sessions, faults

session == <<phase, scene, attempts, index, prompt, workflow, model, advice>>
kept == <<executed, cache, good, calls, saved>>
bounds == <<sessions, faults>>
vars == <<phase, scene, attempts, index, prompt, workflow, model, advice,
          executed, cache, good, calls, saved, sessions, faults>>

-----------------------------------------------------------------------------
(* fingerprint_of(): prompt, workflow and seed; scenes differ in seed.     *)
ThisRender == [scene |-> scene, prompt |-> prompt, workflow |-> workflow]

WorkflowOf(p, m, e) == [prompt |-> p, model |-> m, extra |-> e]

HasImage(a) == a.status \in {"passed", "failed"}
Rendered(log) == {i \in 1..Len(log) : HasImage(log[i])}

(* How many attempts consumed a render.                                    *)
render_count(log) == Cardinality(Rendered(log))

(* Mutant: off by one.                                                     *)
can_render_mutant(log) == render_count(log) <= Budget

(* The condition of run()'s loop, and checked before a plan is applied: it *)
(* has been by GiveUp for every attempt but the first.                     *)
can_render(log) == render_count(log) < Budget

(* Mutant: the guard knows no executed fingerprint.                        *)
is_duplicate_mutant(fp) == FALSE

is_duplicate(fp) == fp \in executed

(* The failed attempts at the end of the log.                              *)
ConsecutiveFailures(log) ==
    Cardinality({i \in 1..Len(log) :
                    \A j \in i..Len(log) : log[j].status = "failed"})

(* _maybe_switch_model: the fallback strategy's verdict.                   *)
SwitchesModel ==
    /\ model # NoModel
    /\ ConsecutiveFailures(attempts) >= SWITCH_AFTER_ATTEMPTS
    /\ model < NModels
    /\ model \in BetterNext

(* Mutant: the chain is searched from the wrong end of the current model.  *)
next_fallback_mutant == model + 2

next_fallback == model + 1

-----------------------------------------------------------------------------
Init ==
    /\ phase = "idle"
    /\ scene \in Scenes
    /\ attempts = <<>>
    /\ index = 1
    /\ prompt = FirstPrompt
    /\ model = NoModel
    /\ workflow = WorkflowOf(FirstPrompt, NoModel, NoExtra)
    /\ advice = "none"
    /\ executed = {} /\ cache = {} /\ good = {} /\ calls = {} /\ saved = {}
    /\ sessions = 0 /\ faults = 0

(* run() is called, with a directive or without: prompt and workflow are   *)
(* compiled for the scene.                                                 *)
StartSession(s) ==
    /\ phase \in {"idle", "done", "raised"}
    /\ sessions < MaxSessions
    /\ sessions' = sessions + 1
    /\ phase' = "try"
    /\ scene' = s
    /\ attempts' = <<>>
    /\ index' = 1
    /\ prompt' = FirstPrompt
    /\ model' \in Plans
    /\ workflow' = WorkflowOf(FirstPrompt, model', NoExtra)
    /\ advice' = "none"
    /\ executed' = {}
    /\ cache' = IF SharedCache THEN cache ELSE {}
    /\ UNCHANGED <<good, calls, saved, faults>>

Log(status) == Append(attempts,
    [index |-> index, status |-> status, print |-> ThisRender])

(* Mutant: the loop goes on instead of stopping.                           *)
SkipDuplicateMutant ==
    /\ phase = "try"
    /\ can_render(attempts)
    /\ is_duplicate(ThisRender)
    /\ UNCHANGED vars

(* An identical render was executed: it is recorded and the loop stops.    *)
SkipDuplicate ==
    /\ phase = "try"
    /\ can_render(attempts)
    /\ is_duplicate(ThisRender)
    /\ attempts' = Log("skipped_duplicate")
    /\ phase' = "done"
    /\ UNCHANGED <<scene, index, prompt, workflow, model, advice, kept,
                   bounds>>

WasRendered == \E c \in calls : c.print = ThisRender

(* Mutant: a new image does not reach the cache.                           *)
RenderMutant ==
    /\ phase = "try"
    /\ can_render(attempts)
    /\ ~is_duplicate(ThisRender)
    /\ good' \in IF WasRendered THEN {good} ELSE {good, good \cup {ThisRender}}
    /\ calls' = calls \cup
          {[session |-> sessions, index |-> index, print |-> ThisRender]}
    /\ executed' = executed \cup {ThisRender}
    /\ phase' = "assess"
    /\ UNCHANGED <<scene, attempts, index, prompt, workflow, model, advice,
                   cache, saved, bounds>>

(* _render_or_reuse: the cached image, or a new one that goes to the cache *)
(* before the fingerprint is recorded as executed.  The same render always *)
(* gives the same image, so QA says the same of it.                        *)
Render ==
    /\ phase = "try"
    /\ can_render(attempts)
    /\ ~is_duplicate(ThisRender)
    /\ \/ /\ ThisRender \in cache
          /\ UNCHANGED <<cache, good, calls>>
       \/ /\ ThisRender \notin cache
          /\ cache' = cache \cup {ThisRender}
          /\ good' \in IF WasRendered THEN {good}
                       ELSE {good, good \cup {ThisRender}}
          /\ calls' = calls \cup
                {[session |-> sessions, index |-> index, print |-> ThisRender]}
    /\ executed' = executed \cup {ThisRender}
    /\ phase' = "assess"
    /\ UNCHANGED <<scene, attempts, index, prompt, workflow, model, advice,
                   saved, bounds>>

(* The renderer raises: nothing is cached or recorded, run() raises.       *)
RenderRaises ==
    /\ phase = "try"
    /\ can_render(attempts)
    /\ ~is_duplicate(ThisRender)
    /\ ThisRender \notin cache
    /\ faults < MaxFaults
    /\ faults' = faults + 1
    /\ phase' = "raised"
    /\ UNCHANGED <<scene, attempts, index, prompt, workflow, model, advice,
                   kept, sessions>>

(* Mutant: the directory is numbered before the attempt is counted.        *)
SaveMutant(status) ==
    saved' = {e \in saved : e.at # <<scene, Len(attempts)>>} \cup
    {[at |-> <<scene, Len(attempts)>>, print |-> ThisRender,
      status |-> status]}

(* _save_attempt: the attempt's directory is written, over an earlier      *)
(* session's.                                                              *)
Save(status) == saved' = {e \in saved : e.at # <<scene, index>>} \cup
    {[at |-> <<scene, index>>, print |-> ThisRender, status |-> status]}

(* QA accepts the image: the attempt is recorded and saved, the loop ends. *)
Accept ==
    /\ phase = "assess"
    /\ ThisRender \in good
    /\ attempts' = Log("passed")
    /\ Save("passed")
    /\ phase' = "done"
    /\ UNCHANGED <<scene, index, prompt, workflow, model, advice, executed,
                   cache, good, calls, bounds>>

(* QA rejects it: the optimiser prescribes actions, or nothing.            *)
Reject ==
    /\ phase = "assess"
    /\ ThisRender \notin good
    /\ attempts' = Log("failed")
    /\ Save("failed")
    /\ advice' \in {"none", "empty", "actions"}
    /\ phase' = "improve"
    /\ UNCHANGED <<scene, index, prompt, workflow, model, executed, cache,
                   good, calls, bounds>>

(* Mutant: the recorded switch does not take an attempt number.            *)
SwitchModelMutant ==
    /\ phase = "improve"
    /\ advice # "none"
    /\ SwitchesModel
    /\ model' = next_fallback
    /\ workflow' = WorkflowOf(prompt, model', NoExtra)
    /\ attempts' = Append(attempts,
          [index |-> Len(attempts) + 1, status |-> "model_switched",
           print |-> [ThisRender EXCEPT !.workflow = workflow']])
    /\ phase' = "mutate"
    /\ UNCHANGED <<index, scene, prompt, advice, kept, bounds>>

(* The fallback model takes over: recorded as an attempt of its own, which *)
(* consumes no render.                                                     *)
SwitchModel ==
    /\ phase = "improve"
    /\ advice # "none"
    /\ SwitchesModel
    /\ model' = next_fallback
    /\ workflow' = WorkflowOf(prompt, model', NoExtra)
    /\ attempts' = Append(attempts,
          [index |-> Len(attempts) + 1, status |-> "model_switched",
           print |-> [ThisRender EXCEPT !.workflow = workflow']])
    /\ index' = index + 1
    /\ phase' = "mutate"
    /\ UNCHANGED <<scene, prompt, advice, kept, bounds>>

KeepModel ==
    /\ phase = "improve"
    /\ advice = "none" \/ ~SwitchesModel
    /\ phase' = "mutate"
    /\ UNCHANGED <<scene, attempts, index, prompt, workflow, model, advice,
                   kept, bounds>>

(* No budget, or nothing prescribed: the loop gives up.                    *)
GiveUp ==
    /\ phase = "mutate"
    /\ ~can_render(attempts) \/ advice # "actions"
    /\ phase' = "done"
    /\ UNCHANGED <<scene, attempts, index, prompt, workflow, model, advice,
                   kept, bounds>>

(* What prompt mutations and workflow changes make of the workflow: the    *)
(* directed workflow is built anew from the mutated prompt, the other one  *)
(* keeps the prompt it was first built from.                               *)
NextWorkflows(p) ==
    IF model # NoModel
    THEN {WorkflowOf(p, model, e) : e \in Extras \cup {NoExtra}}
    ELSE {[workflow EXCEPT !.extra = e] : e \in Extras \cup {NoExtra}}

(* The plan is applied; a plan that changes nothing ends the loop.         *)
Mutate ==
    /\ phase = "mutate"
    /\ can_render(attempts) /\ advice = "actions"
    /\ model = NoModel \/ TRUE \in TakesTokens
    /\ \E p \in Prompts : \E w \in NextWorkflows(p) :
          IF p = prompt /\ w = workflow
          THEN phase' = "done" /\ UNCHANGED <<prompt, workflow, index>>
          ELSE /\ phase' = "try"
               /\ prompt' = p /\ workflow' = w
               /\ index' = index + 1
    /\ UNCHANGED <<scene, attempts, model, advice, kept, bounds>>

(* build_from_directive() has no parameter visualization_tokens: the call  *)
(* raises TypeError, and run() with it.                                    *)
MutateRaises ==
    /\ phase = "mutate"
    /\ can_render(attempts) /\ advice = "actions"
    /\ model # NoModel /\ FALSE \in TakesTokens
    /\ phase' = "raised"
    /\ UNCHANGED <<scene, attempts, index, prompt, workflow, model, advice,
                   kept, bounds>>

Advance ==
    \/ SkipDuplicate \/ Render \/ Accept \/ Reject
    \/ SwitchModel \/ KeepModel \/ GiveUp \/ Mutate \/ MutateRaises

Next ==
    \/ \E s \in Scenes : StartSession(s)
    \/ Advance
    \/ RenderRaises

Spec == Init /\ [][Next]_vars

(* run() is sequential code: once called it goes on until it returns.      *)
FairSpec == Spec /\ WF_vars(Advance)

-----------------------------------------------------------------------------
(* Properties                                                              *)

Phases == {"idle", "try", "assess", "improve", "mutate", "done", "raised"}

(* The loop's state keeps its shape.                                       *)
TypeOK ==
    /\ phase \in Phases /\ scene \in Scenes
    /\ attempts \in Seq(Attempt)
    /\ index \in Nat /\ prompt \in Prompts /\ workflow \in Workflow
    /\ model \in {NoModel} \cup Models
    /\ advice \in {"none", "empty", "actions"}
    /\ executed \subseteq Fingerprint
    /\ cache \subseteq Fingerprint /\ good \subseteq {c.print : c \in calls}
    /\ calls \subseteq [session : 0..MaxSessions, index : Nat,
                        print : Fingerprint]
    /\ saved \subseteq [at : Scenes \X Nat, print : Fingerprint,
                        status : Status]
    /\ sessions \in 0..MaxSessions /\ faults \in 0..MaxFaults

(* "Never repeats an identical render": no two renderer calls, of one      *)
(* session or of two that share a cache, have the same fingerprint.        *)
NeverRepeatsARender == \A c, d \in calls :
    c.print = d.print /\ (SharedCache \/ c.session = d.session) => c = d

(* Within a session no fingerprint is tried twice either, not even from    *)
(* the cache: two attempts with an image differ in fingerprint.            *)
AttemptsDiffer == \A i, j \in 1..Len(attempts) :
    /\ HasImage(attempts[i]) /\ HasImage(attempts[j])
    /\ attempts[i].print = attempts[j].print
    => i = j

(* The budget is a bound on renders, whatever else is recorded.            *)
BudgetRespected == render_count(attempts) <= Budget

(* A pass is the last word: what the session returns as winner is its last *)
(* attempt, and the image in its directory is the one QA accepted.         *)
WinnerIsLast == \A i \in 1..Len(attempts) :
    attempts[i].status = "passed" =>
        /\ i = Len(attempts)
        /\ phase = "done"
        /\ \E e \in saved : /\ e.at = <<scene, attempts[i].index>>
                            /\ e.print = attempts[i].print
                            /\ e.print \in good

(* attempt_NN is the N-th attempt: no two attempts of a session share a    *)
(* directory, a recorded switch included.                                  *)
NumberedInOrder == \A i \in 1..Len(attempts) : attempts[i].index = i

(* The two counts agree: every record takes a number, only a render takes *)
(* from the budget.                                                        *)
CountsAgree == NumberedInOrder /\ BudgetRespected

(* Once called, run() returns or raises.                                   *)
EverySessionEnds == []<>(phase \in {"idle", "done", "raised"})

(* run() raises only when the renderer did.                                *)
OnlyRendererRaises == phase = "raised" => faults > 0
=============================================================================
