-------------------------- MODULE RenderLoopProofs --------------------------
(***************************************************************************)
(* What holds of RenderLoop for any scenes, prompts, models and budgets,   *)
(* with or without a shared cache, and whatever QA and the optimiser say.  *)
(*                                                                         *)
(* Typing is the type invariant.  NoRenderTwice is the promise of the      *)
(* cache: no image is rendered twice.  It rests on CallsAreCached: what    *)
(* the renderer made while the present cache was in use is in the cache.   *)
(* NoAttemptTwice is the promise of the duplicate guard: it rests on       *)
(* AttemptsExecuted, which ties the log of attempts to RetryManager's set. *)
(* CountsAlwaysAgree ties the log to the budget: it needs only how the     *)
(* count of a log grows by one more entry (CountOfAppend).                 *)
(* SessionsRunOut bounds the steps of a call of run() by the same count:   *)
(* what is left of the budget, four steps a render, falls with every step. *)
(***************************************************************************)
EXTENDS RenderLoop, SequenceTheorems, FiniteSetTheorems, TLAPS

-----------------------------------------------------------------------------
(* Type correctness                                                        *)

(* What is fingerprinted and logged has the shape of its type.             *)
LEMMA PrintType ==
    ASSUME TypeOK
    PROVE  /\ ThisRender \in Fingerprint
           /\ \A s \in Status : Log(s) \in Seq(Attempt)
<1>1. ThisRender \in Fingerprint
  BY DEF TypeOK, ThisRender, Fingerprint
<1>2. ASSUME NEW s \in Status PROVE Log(s) \in Seq(Attempt)
  <2>1. [index |-> index, status |-> s, print |-> ThisRender] \in Attempt
    BY <1>1 DEF TypeOK, Attempt
  <2> QED BY <2>1 DEF TypeOK, Log
<1> QED BY <1>1, <1>2

(* The first state is typed.                                               *)
LEMMA FirstState == Init => TypeOK
<1> SUFFICES ASSUME Init PROVE TypeOK
  OBVIOUS
<1> USE ConstantsAssumption
<1>1. workflow \in Workflow
  BY DEF Init, Workflow, WorkflowOf
<1>2. attempts \in Seq(Attempt)
  BY DEF Init
<1> QED BY <1>1, <1>2 DEF Init, TypeOK, Phases

(* Every step keeps the types.                                             *)
LEMMA StepTyping == TypeOK /\ [Next]_vars => TypeOK'
<1> SUFFICES ASSUME TypeOK, [Next]_vars PROVE TypeOK'
  OBVIOUS
<1> USE ConstantsAssumption DEF TypeOK, Phases, kept, bounds
<1>1. CASE UNCHANGED vars
  BY <1>1 DEF vars
<1>2. ASSUME NEW s \in Scenes, StartSession(s) PROVE TypeOK'
  <2>1. model' \in {NoModel} \cup Models
    BY <1>2 DEF StartSession
  <2>2. workflow' \in Workflow
    BY <1>2, <2>1 DEF StartSession, Workflow, WorkflowOf
  <2>3. attempts' \in Seq(Attempt)
    BY <1>2 DEF StartSession
  <2> QED BY <1>2, <2>1, <2>2, <2>3 DEF StartSession
<1>4. CASE SkipDuplicate
  <2>1. attempts' \in Seq(Attempt)
    BY <1>4, PrintType DEF SkipDuplicate, Status
  <2> QED BY <1>4, <2>1 DEF SkipDuplicate
<1>5. CASE Render
  <2>1. [session |-> sessions, index |-> index, print |-> ThisRender] \in
          [session : 0..MaxSessions, index : Nat, print : Fingerprint]
    BY PrintType
  <2>2. /\ executed' \subseteq Fingerprint
        /\ cache' \subseteq Fingerprint
        /\ calls' \subseteq [session : 0..MaxSessions, index : Nat,
                             print : Fingerprint]
    BY <1>5, <2>1, PrintType DEF Render
  <2>3. good' \subseteq {c.print : c \in calls'}
    <3>1. CASE UNCHANGED <<good, calls>>
      BY <3>1
    <3>2. CASE /\ good' \in IF WasRendered THEN {good}
                            ELSE {good, good \cup {ThisRender}}
               /\ calls' = calls \cup {[session |-> sessions,
                                        index |-> index, print |-> ThisRender]}
      <4>1. ThisRender \in {c.print : c \in calls'}
        BY <3>2
      <4> QED BY <3>2, <4>1
    <3> QED BY <3>1, <3>2, <1>5 DEF Render
  <2> QED BY <1>5, <2>2, <2>3 DEF Render
<1>6. CASE RenderRaises
  BY <1>6 DEF RenderRaises
<1>7. ASSUME NEW s \in Status, Save(s)
      PROVE  saved' \subseteq [at : Scenes \X Nat, print : Fingerprint,
                               status : Status]
  BY <1>7, PrintType DEF Save
<1>8. CASE Accept
  <2>1. attempts' \in Seq(Attempt)
    BY <1>8, PrintType DEF Accept, Status
  <2> QED BY <1>7, <1>8, <2>1 DEF Accept, Status
<1>9. CASE Reject
  <2>1. attempts' \in Seq(Attempt)
    BY <1>9, PrintType DEF Reject, Status
  <2> QED BY <1>7, <1>9, <2>1 DEF Reject, Status
<1>10. CASE SwitchModel
  <2>1. model' \in Models
    BY <1>10 DEF SwitchModel, SwitchesModel, next_fallback, Models, NoModel
  <2>2. workflow' \in Workflow
    BY <1>10, <2>1 DEF SwitchModel, Workflow, WorkflowOf
  <2>3. [ThisRender EXCEPT !.workflow = workflow'] \in Fingerprint
    BY <2>2, PrintType DEF Fingerprint
  <2>4. Len(attempts) + 1 \in Nat
    OBVIOUS
  <2>5. [index |-> Len(attempts) + 1, status |-> "model_switched",
         print |-> [ThisRender EXCEPT !.workflow = workflow']] \in Attempt
    BY <2>3, <2>4 DEF Attempt, Status
  <2>6. attempts' \in Seq(Attempt)
    BY <1>10, <2>5 DEF SwitchModel
  <2> QED BY <1>10, <2>1, <2>2, <2>6 DEF SwitchModel
<1>11. CASE KeepModel
  BY <1>11 DEF KeepModel
<1>12. CASE GiveUp
  BY <1>12 DEF GiveUp
<1>13. CASE Mutate
  <2>1. ASSUME NEW p \in Prompts PROVE NextWorkflows(p) \subseteq Workflow
    BY DEF NextWorkflows, Workflow, WorkflowOf
  <2>2. PICK p \in Prompts : \E w \in NextWorkflows(p) :
          IF p = prompt /\ w = workflow
          THEN phase' = "done" /\ UNCHANGED <<prompt, workflow, index>>
          ELSE /\ phase' = "try"
               /\ prompt' = p /\ workflow' = w
               /\ index' = index + 1
    BY <1>13 DEF Mutate
  <2>3. /\ phase' \in Phases /\ prompt' \in Prompts
        /\ workflow' \in Workflow /\ index' \in Nat
    BY <2>1, <2>2
  <2> QED BY <1>13, <2>3 DEF Mutate
<1>14. CASE MutateRaises
  BY <1>14 DEF MutateRaises
<1> QED
  BY <1>1, <1>2, <1>4, <1>5, <1>6, <1>8, <1>9, <1>10, <1>11, <1>12,
     <1>13, <1>14 DEF Next, Advance

(* The loop's state keeps its shape.                                       *)
THEOREM Typing == Spec => []TypeOK
<1>1. Init => TypeOK
  BY FirstState
<1>2. TypeOK /\ [Next]_vars => TypeOK'
  BY StepTyping
<1> QED BY <1>1, <1>2, PTL DEF Spec

-----------------------------------------------------------------------------
(* No image is rendered twice                                              *)

(* The present cache holds whatever the renderer made while it was in use. *)
CallsAreCached == \A c \in calls :
    /\ c.session <= sessions
    /\ SharedCache \/ c.session = sessions => c.print \in cache

RenderInv == TypeOK /\ CallsAreCached /\ NeverRepeatsARender

(* Every step keeps it: a call of the renderer follows a miss.             *)
LEMMA RenderStep == RenderInv /\ [Next]_vars => RenderInv'
<1> SUFFICES ASSUME RenderInv, [Next]_vars PROVE RenderInv'
  OBVIOUS
<1>1. TypeOK /\ TypeOK'
  BY StepTyping DEF RenderInv
<1>2. sessions \in Nat /\ \A c \in calls : c.session \in Nat
  BY <1>1, ConstantsAssumption DEF TypeOK
<1>3. CASE UNCHANGED <<cache, calls, sessions>>
  BY <1>1, <1>3 DEF RenderInv, CallsAreCached, NeverRepeatsARender
<1>4. ASSUME NEW s \in Scenes, StartSession(s) PROVE RenderInv'
  <2>1. calls' = calls /\ sessions' = sessions + 1
    BY <1>4 DEF StartSession
  <2>2. SharedCache => cache' = cache
    BY <1>4 DEF StartSession
  <2>3. CallsAreCached'
    BY <2>1, <2>2, <1>2 DEF RenderInv, CallsAreCached
  <2> QED BY <1>1, <2>1, <2>3 DEF RenderInv, NeverRepeatsARender
<1>5. CASE Render
  <2>1. CASE ThisRender \in cache /\ UNCHANGED <<cache, good, calls>>
    BY <1>3, <1>5, <2>1 DEF Render, bounds
  <2>2. CASE ThisRender \notin cache /\ ~UNCHANGED <<cache, good, calls>>
    <3> DEFINE new == [session |-> sessions, index |-> index,
                       print |-> ThisRender]
    <3>1. /\ calls' = calls \cup {new} /\ cache' = cache \cup {ThisRender}
          /\ sessions' = sessions
      BY <1>5, <2>2 DEF Render, bounds
    <3>2. CallsAreCached'
      BY <3>1, <1>2 DEF RenderInv, CallsAreCached
    <3>3. ASSUME NEW c \in calls, c.print = ThisRender
          PROVE  ~SharedCache /\ c.session # sessions
      BY <2>2, <3>3 DEF RenderInv, CallsAreCached
    <3>4. NeverRepeatsARender'
      BY <3>1, <3>3 DEF RenderInv, NeverRepeatsARender
    <3> QED BY <1>1, <3>2, <3>4 DEF RenderInv
  <2>3. CASE ThisRender \notin cache /\ UNCHANGED <<cache, good, calls>>
    BY <1>3, <1>5, <2>3 DEF Render, bounds
  <2> QED BY <1>5, <2>1, <2>2, <2>3 DEF Render
<1>6. CASE UNCHANGED vars
  BY <1>3, <1>6 DEF vars
<1> QED
  BY <1>3, <1>4, <1>5, <1>6 DEF Next, Advance, SkipDuplicate,
     RenderRaises, Accept, Reject, SwitchModel, KeepModel, GiveUp, Mutate,
     MutateRaises, kept, bounds

(* The renderer is never called for an image it made before: not twice in  *)
(* a session, and not by two sessions that share a cache, however they     *)
(* end.                                                                    *)
THEOREM NoRenderTwice == Spec => []NeverRepeatsARender
<1>1. Init => RenderInv
  BY FirstState DEF Init, RenderInv, CallsAreCached, NeverRepeatsARender
<1>2. RenderInv /\ [Next]_vars => RenderInv'
  BY RenderStep
<1>3. RenderInv => NeverRepeatsARender
  BY DEF RenderInv
<1> QED BY <1>1, <1>2, <1>3, PTL DEF Spec

-----------------------------------------------------------------------------
(* The log of a session                                                    *)

(* An attempt with an image was executed; the image QA is looking at was,  *)
(* too, and is not in the log yet.                                         *)
AttemptsExecuted ==
    /\ \A i \in 1..Len(attempts) :
          HasImage(attempts[i]) => attempts[i].print \in executed
    /\ phase = "assess" =>
          /\ ThisRender \in executed
          /\ \A i \in 1..Len(attempts) :
                HasImage(attempts[i]) => attempts[i].print # ThisRender

LogInv == TypeOK /\ AttemptsExecuted /\ AttemptsDiffer /\ WinnerIsLast

(* What an attempt appended to the log leaves and adds.                    *)
LEMMA Appended ==
    ASSUME TypeOK, NEW a, attempts' = Append(attempts, a)
    PROVE  /\ Len(attempts) \in Nat /\ Len(attempts') = Len(attempts) + 1
           /\ attempts'[Len(attempts) + 1] = a
           /\ \A i \in 1..Len(attempts) : attempts'[i] = attempts[i]
BY DEF TypeOK

(* Every step keeps the log's invariant.                                   *)
LEMMA LogStep == LogInv /\ [Next]_vars => LogInv'
<1> SUFFICES ASSUME LogInv, [Next]_vars PROVE LogInv'
  OBVIOUS
<1>1. TypeOK /\ TypeOK'
  BY StepTyping DEF LogInv
<1>2. phase # "done" =>
        \A i \in 1..Len(attempts) : attempts[i].status # "passed"
  BY DEF LogInv, WinnerIsLast
<1>3. CASE UNCHANGED vars
  BY <1>1, <1>3 DEF vars, LogInv, AttemptsExecuted, AttemptsDiffer,
     WinnerIsLast, ThisRender
<1>4. CASE /\ UNCHANGED <<attempts, executed>>
           /\ phase # "done" /\ phase' # "assess"
  BY <1>1, <1>2, <1>4 DEF LogInv, AttemptsExecuted, AttemptsDiffer,
     WinnerIsLast
<1>5. ASSUME NEW s \in Scenes, StartSession(s) PROVE LogInv'
  <2>1. attempts' = <<>> /\ phase' = "try"
    BY <1>5 DEF StartSession
  <2>2. Len(attempts') = 0
    BY <2>1
  <2> QED BY <1>1, <2>1, <2>2 DEF LogInv, AttemptsExecuted, AttemptsDiffer,
             WinnerIsLast
<1>6. CASE SkipDuplicate \/ SwitchModel
  <2>1. PICK a : /\ attempts' = Append(attempts, a)
                 /\ a.status \in {"skipped_duplicate", "model_switched"}
    BY <1>6 DEF SkipDuplicate, SwitchModel, Log
  <2>2. phase' # "assess" /\ phase # "done" /\ executed' = executed
    BY <1>6 DEF SkipDuplicate, SwitchModel, kept
  <2>3. AttemptsExecuted'
    BY <1>1, <2>1, <2>2, Appended DEF LogInv, AttemptsExecuted, HasImage
  <2>4. AttemptsDiffer'
    BY <1>1, <2>1, Appended DEF LogInv, AttemptsDiffer, HasImage
  <2>5. WinnerIsLast'
    BY <1>1, <1>2, <2>1, <2>2, Appended DEF WinnerIsLast
  <2> QED BY <1>1, <2>3, <2>4, <2>5 DEF LogInv
<1>7. CASE Render
  <2>1. /\ phase = "try" /\ ~is_duplicate(ThisRender)
        /\ attempts' = attempts /\ ThisRender' = ThisRender
        /\ executed' = executed \cup {ThisRender}
    BY <1>7 DEF Render, ThisRender
  <2>2. AttemptsExecuted'
    BY <2>1 DEF LogInv, AttemptsExecuted, is_duplicate
  <2>3. AttemptsDiffer'
    BY <2>1 DEF LogInv, AttemptsDiffer
  <2>4. WinnerIsLast'
    BY <1>2, <2>1 DEF WinnerIsLast
  <2> QED BY <1>1, <2>2, <2>3, <2>4 DEF LogInv
<1>8. ASSUME NEW v \in {"passed", "failed"}, phase = "assess",
             phase' # "assess", attempts' = Log(v), executed' = executed
      PROVE  AttemptsExecuted' /\ AttemptsDiffer'
  <2> DEFINE a == [index |-> index, status |-> v, print |-> ThisRender]
  <2>1. attempts' = Append(attempts, a)
    BY <1>8 DEF Log
  <2>2. a.print = ThisRender /\ a.status = v
    OBVIOUS
  <2> HIDE DEF a
  <2>3. AttemptsExecuted'
    BY <1>1, <1>8, <2>1, <2>2, Appended DEF LogInv, AttemptsExecuted, HasImage
  <2>4. AttemptsDiffer'
    BY <1>1, <1>8, <2>1, <2>2, Appended
       DEF LogInv, AttemptsExecuted, AttemptsDiffer, HasImage
  <2> QED BY <2>3, <2>4
<1>9. CASE Accept
  <2> DEFINE a == [index |-> index, status |-> "passed", print |-> ThisRender]
             e == [at |-> <<scene, index>>, print |-> ThisRender,
                   status |-> "passed"]
  <2>1. AttemptsExecuted' /\ AttemptsDiffer'
    BY <1>8, <1>9 DEF Accept
  <2>2. /\ phase = "assess" /\ phase' = "done" /\ scene' = scene
        /\ attempts' = Append(attempts, a)
        /\ e \in saved' /\ ThisRender \in good'
    BY <1>9 DEF Accept, Save, Log
  <2>3. WinnerIsLast'
    <3>1. ASSUME NEW i \in 1..Len(attempts'), attempts'[i].status = "passed"
          PROVE  i = Len(attempts') /\ attempts'[i] = a
      BY <1>1, <1>2, <2>2, <3>1, Appended
    <3>2. /\ e.at = <<scene', a.index>> /\ e.print = a.print
          /\ e.print \in good'
      BY <2>2
    <3> HIDE DEF a, e
    <3> QED BY <2>2, <3>1, <3>2 DEF WinnerIsLast
  <2> QED BY <1>1, <2>1, <2>3 DEF LogInv
<1>10. CASE Reject
  <2>1. AttemptsExecuted' /\ AttemptsDiffer'
    BY <1>8, <1>10 DEF Reject
  <2>2. PICK a : attempts' = Append(attempts, a) /\ a.status = "failed"
    BY <1>10 DEF Reject, Log
  <2>3. phase = "assess"
    BY <1>10 DEF Reject
  <2>4. WinnerIsLast'
    BY <1>1, <1>2, <2>2, <2>3, Appended DEF WinnerIsLast
  <2> QED BY <1>1, <2>1, <2>4 DEF LogInv
<1>11. CASE RenderRaises \/ KeepModel \/ GiveUp \/ Mutate \/ MutateRaises
  BY <1>4, <1>11 DEF RenderRaises, KeepModel, GiveUp, Mutate,
     MutateRaises, kept
<1> QED
  BY <1>3, <1>5, <1>6, <1>7, <1>9, <1>10, <1>11 DEF Next, Advance

(* Within a session no two attempts have the same image: the guard of      *)
(* RetryManager knows every image in the log.                              *)
THEOREM NoAttemptTwice == Spec => []AttemptsDiffer
<1>1. Init => LogInv
  BY FirstState DEF Init, LogInv, AttemptsExecuted, AttemptsDiffer,
     WinnerIsLast
<1>2. LogInv /\ [Next]_vars => LogInv'
  BY LogStep
<1>3. LogInv => AttemptsDiffer
  BY DEF LogInv
<1> QED BY <1>1, <1>2, <1>3, PTL DEF Spec

(* The winner a session returns is its last attempt, QA accepted exactly   *)
(* the image in its directory, and nothing follows it.                     *)
THEOREM WinnerEndsSession == Spec => []WinnerIsLast
<1>1. Init => LogInv
  BY FirstState DEF Init, LogInv, AttemptsExecuted, AttemptsDiffer,
     WinnerIsLast
<1>2. LogInv /\ [Next]_vars => LogInv'
  BY LogStep
<1>3. LogInv => WinnerIsLast
  BY DEF LogInv
<1> QED BY <1>1, <1>2, <1>3, PTL DEF Spec
-----------------------------------------------------------------------------
(* Numbers and budget                                                      *)

(* The number of the attempt being made is the next free one until its     *)
(* record is written, and the last one used from then on.                  *)
IndexFollows ==
    /\ phase \in {"try", "assess"} => index = Len(attempts) + 1
    /\ phase \in {"improve", "mutate"} => index = Len(attempts)

(* While QA looks at an image its render is paid for but not counted.      *)
BudgetLeft == phase = "assess" => can_render(attempts)

CountInv == TypeOK /\ CountsAgree /\ IndexFollows /\ BudgetLeft

(* A record adds one to the renders counted if it has an image.            *)
LEMMA CountOfAppend ==
    ASSUME TypeOK, NEW a, attempts' = Append(attempts, a)
    PROVE  /\ render_count(attempts) \in Nat
           /\ HasImage(a) => render_count(attempts)' = render_count(attempts) + 1
           /\ ~HasImage(a) => render_count(attempts)' = render_count(attempts)
<1>1. /\ Len(attempts) \in Nat /\ Len(attempts') = Len(attempts) + 1
      /\ attempts'[Len(attempts) + 1] = a
      /\ \A i \in 1..Len(attempts) : attempts'[i] = attempts[i]
  BY Appended
<1>2. IsFiniteSet(Rendered(attempts))
  <2>1. IsFiniteSet(1..Len(attempts))
    BY <1>1, FS_Interval
  <2>2. Rendered(attempts) \subseteq 1..Len(attempts)
    BY DEF Rendered
  <2> QED BY <2>1, <2>2, FS_Subset
<1>3. Len(attempts) + 1 \notin Rendered(attempts)
  BY <1>1 DEF Rendered
<1>4. CASE HasImage(a)
  <2>1. Rendered(attempts)' = Rendered(attempts) \cup {Len(attempts) + 1}
    BY <1>1, <1>4 DEF Rendered
  <2> QED BY <1>2, <1>3, <1>4, <2>1, FS_CardinalityType, FS_AddElement
             DEF render_count
<1>5. CASE ~HasImage(a)
  <2>1. Rendered(attempts)' = Rendered(attempts)
    BY <1>1, <1>5 DEF Rendered
  <2> QED BY <1>2, <1>5, <2>1, FS_CardinalityType DEF render_count
<1> QED BY <1>4, <1>5

(* Every step keeps numbers and budget.                                    *)
LEMMA CountStep == CountInv /\ [Next]_vars => CountInv'
<1> SUFFICES ASSUME CountInv, [Next]_vars PROVE CountInv'
  OBVIOUS
<1>1. TypeOK /\ TypeOK'
  BY StepTyping DEF CountInv
<1>2. Budget \in Nat /\ index \in Nat /\ Len(attempts) \in Nat
  BY <1>1, ConstantsAssumption DEF TypeOK
<1>3. ASSUME attempts' = attempts PROVE CountsAgree'
  BY <1>3 DEF CountInv, CountsAgree, NumberedInOrder, BudgetRespected,
     render_count, Rendered
<1>4. ASSUME NEW a, attempts' = Append(attempts, a), a.index = Len(attempts) + 1,
             HasImage(a) => can_render(attempts)
      PROVE  CountsAgree' /\ Len(attempts') = Len(attempts) + 1
  <2>1. NumberedInOrder'
    BY <1>1, <1>2, <1>4, Appended DEF CountInv, CountsAgree, NumberedInOrder
  <2>2. render_count(attempts) \in Nat /\ render_count(attempts) <= Budget
    BY <1>1, <1>4, CountOfAppend DEF CountInv, CountsAgree, BudgetRespected
  <2>3. render_count(attempts)' <= Budget
    <3>1. CASE HasImage(a)
      <4>1. render_count(attempts) < Budget
        BY <1>4, <3>1 DEF can_render
      <4>2. render_count(attempts)' = render_count(attempts) + 1
        BY <1>1, <1>4, <3>1, CountOfAppend
      <4> QED BY <1>2, <2>2, <4>1, <4>2
    <3>2. CASE ~HasImage(a)
      BY <1>1, <1>4, <2>2, <3>2, CountOfAppend
    <3> QED BY <3>1, <3>2
  <2>4. Len(attempts') = Len(attempts) + 1
    BY <1>1, <1>4, Appended
  <2> QED BY <2>1, <2>3, <2>4 DEF CountsAgree, BudgetRespected
<1>5. CASE UNCHANGED vars
  BY <1>1, <1>3, <1>5 DEF vars, CountInv, IndexFollows, BudgetLeft,
     can_render, render_count, Rendered
<1>6. ASSUME NEW s \in Scenes, StartSession(s) PROVE CountInv'
  <2>1. attempts' = <<>> /\ phase' = "try" /\ index' = 1
    BY <1>6 DEF StartSession
  <2>2. Len(attempts') = 0
    BY <2>1
  <2>3. Rendered(attempts)' = {}
    BY <2>2 DEF Rendered
  <2>4. render_count(attempts)' = 0
    BY <2>3, FS_EmptySet DEF render_count
  <2>5. CountsAgree'
    BY <1>2, <2>2, <2>4 DEF CountsAgree, NumberedInOrder, BudgetRespected
  <2> QED BY <1>1, <2>1, <2>2, <2>5 DEF CountInv, IndexFollows, BudgetLeft
<1>7. CASE SkipDuplicate
  <2>1. phase = "try" /\ phase' = "done" /\ index = Len(attempts) + 1
    BY <1>7 DEF SkipDuplicate, CountInv, IndexFollows
  <2>2. PICK a : /\ attempts' = Append(attempts, a) /\ a.index = index
                 /\ a.status = "skipped_duplicate"
    BY <1>7 DEF SkipDuplicate, Log
  <2>3. CountsAgree'
    BY <1>4, <2>1, <2>2 DEF HasImage
  <2> QED BY <1>1, <2>1, <2>3 DEF CountInv, IndexFollows, BudgetLeft
<1>8. CASE Render
  <2>1. /\ phase = "try" /\ phase' = "assess" /\ can_render(attempts)
        /\ attempts' = attempts /\ index' = index
    BY <1>8 DEF Render
  <2>2. IndexFollows'
    BY <2>1 DEF CountInv, IndexFollows
  <2>3. BudgetLeft'
    BY <2>1 DEF BudgetLeft, can_render, render_count, Rendered
  <2> QED BY <1>1, <1>3, <2>1, <2>2, <2>3 DEF CountInv
<1>9. CASE Accept \/ Reject
  <2>1. /\ phase = "assess" /\ phase' \in {"done", "improve"}
        /\ index = Len(attempts) + 1 /\ index' = index
        /\ can_render(attempts)
    BY <1>9 DEF Accept, Reject, CountInv, IndexFollows, BudgetLeft
  <2>2. PICK a : attempts' = Append(attempts, a) /\ a.index = index
    BY <1>9 DEF Accept, Reject, Log
  <2>3. CountsAgree' /\ Len(attempts') = Len(attempts) + 1
    BY <1>4, <2>1, <2>2
  <2> QED BY <1>1, <2>1, <2>3 DEF CountInv, IndexFollows, BudgetLeft
<1>10. CASE SwitchModel
  <2>1. /\ phase' = "mutate" /\ index = Len(attempts) /\ index' = index + 1
    BY <1>10 DEF SwitchModel, CountInv, IndexFollows
  <2>2. PICK a : /\ attempts' = Append(attempts, a)
                 /\ a.index = Len(attempts) + 1 /\ a.status = "model_switched"
    BY <1>10 DEF SwitchModel
  <2>3. CountsAgree' /\ Len(attempts') = Len(attempts) + 1
    BY <1>4, <2>2 DEF HasImage
  <2> QED BY <1>1, <2>1, <2>3 DEF CountInv, IndexFollows, BudgetLeft
<1>11. CASE RenderRaises \/ KeepModel \/ GiveUp \/ MutateRaises
  <2>1. /\ attempts' = attempts /\ index' = index
        /\ phase' \in {"raised", "done"} \/ (phase = "improve" /\ phase' = "mutate")
    BY <1>11 DEF RenderRaises, KeepModel, GiveUp, MutateRaises
  <2> QED BY <1>1, <1>3, <2>1 DEF CountInv, IndexFollows, BudgetLeft
<1>12. CASE Mutate
  <2>1. /\ attempts' = attempts /\ phase = "mutate"
        /\ phase' = "done" \/ (phase' = "try" /\ index' = index + 1)
    BY <1>12 DEF Mutate
  <2> QED BY <1>1, <1>3, <2>1 DEF CountInv, IndexFollows, BudgetLeft
<1> QED
  BY <1>5, <1>6, <1>7, <1>8, <1>9, <1>10, <1>11, <1>12 DEF Next, Advance

(* The numbers and counts agree from the first state on.                   *)
LEMMA FirstCount == Init => CountInv
<1> SUFFICES ASSUME Init PROVE CountInv
  OBVIOUS
<1>1. TypeOK /\ attempts = <<>> /\ phase = "idle"
  BY FirstState DEF Init
<1>2. Len(attempts) = 0
  BY <1>1
<1>3. render_count(attempts) = 0
  BY <1>2, FS_EmptySet DEF render_count, Rendered
<1>4. CountsAgree
  BY <1>2, <1>3, ConstantsAssumption
     DEF CountsAgree, NumberedInOrder, BudgetRespected
<1> QED BY <1>1, <1>4 DEF CountInv, IndexFollows, BudgetLeft

(* Every record takes a number and only a render takes from the budget,    *)
(* through switches, skipped duplicates and restarts.                      *)
THEOREM CountsAlwaysAgree == Spec => []CountsAgree
<1>1. Init => CountInv
  BY FirstCount
<1>2. CountInv /\ [Next]_vars => CountInv'
  BY CountStep
<1>3. CountInv => CountsAgree
  BY DEF CountInv
<1> QED BY <1>1, <1>2, <1>3, PTL DEF Spec

-----------------------------------------------------------------------------
(* A session runs out of steps                                             *)

(* The steps to the next render that counts, or to the end.                *)
StepsToRender == CASE phase = "improve" -> 4
                   [] phase = "mutate"  -> 3
                   [] phase = "try"     -> 2
                   [] phase = "assess"  -> 1
                   [] OTHER             -> 0

(* What is left of a call of run(): four steps for each render the budget  *)
(* still allows, and those under way.                                      *)
StepsLeft == IF phase \in {"idle", "done", "raised"} THEN 0
             ELSE 4 * (Budget - render_count(attempts)) + StepsToRender

(* There are finitely many, and there are some as long as it runs.         *)
HasStep ==
    /\ StepsLeft \in 0..(4 * Budget + 4)
    /\ phase \in {"try", "assess", "improve", "mutate"} <=> StepsLeft > 0

(* Whatever the loop or the renderer does takes one.                       *)
StepTaken == Advance \/ RenderRaises => StepsLeft' < StepsLeft

(* The count of a log that is not written does not change.                 *)
LEMMA SameCount ==
    attempts' = attempts => render_count(attempts)' = render_count(attempts)
BY DEF render_count, Rendered

(* The invariant of the counts bounds what is left.                        *)
LEMMA StepsAre ==
    ASSUME CountInv
    PROVE  /\ render_count(attempts) \in 0..Budget
           /\ HasStep
           /\ StepsLeft \in Nat
<1>1. Budget \in Nat /\ phase \in Phases
  BY ConstantsAssumption DEF CountInv, TypeOK
<1>2. render_count(attempts) \in 0..Budget
  <2>1. attempts \in Seq(Attempt)
    BY DEF CountInv, TypeOK
  <2>2. IsFiniteSet(1..Len(attempts))
    BY <2>1, FS_Interval
  <2>3. IsFiniteSet(Rendered(attempts))
    BY <2>2, FS_Subset DEF Rendered
  <2>4. render_count(attempts) \in Nat
    BY <2>3, FS_CardinalityType DEF render_count
  <2>. QED
    BY <1>1, <2>4 DEF CountInv, CountsAgree, BudgetRespected
<1>3. StepsToRender \in 0..4
      /\ (phase \in {"try", "assess", "improve", "mutate"} => StepsToRender > 0)
  BY <1>1 DEF StepsToRender, Phases
<1>. QED
  BY <1>1, <1>2, <1>3 DEF HasStep, StepsLeft, Phases

(* Only a rejected image takes from the budget and lets the loop go on;    *)
(* everything else goes on to a later step of the same round, or ends.     *)
LEMMA StepIsTaken == CountInv /\ CountInv' /\ [Next]_vars => [StepTaken]_vars
<1>. SUFFICES ASSUME CountInv, CountInv', Advance \/ RenderRaises
              PROVE  StepsLeft' < StepsLeft
  BY DEF StepTaken
<1>1. /\ Budget \in Nat /\ TypeOK /\ phase' \in Phases
      /\ render_count(attempts) \in 0..Budget
      /\ StepsLeft \in Nat
  BY StepsAre, ConstantsAssumption DEF CountInv, TypeOK
<1>2. ASSUME phase \in {"try", "assess", "improve", "mutate"},
             phase' \in {"done", "raised"}
      PROVE  StepsLeft' < StepsLeft
  <2>1. StepsLeft > 0
    BY <1>2, StepsAre DEF HasStep
  <2>2. StepsLeft' = 0
    BY <1>2 DEF StepsLeft
  <2>. QED
    BY <2>1, <2>2
<1>3. ASSUME render_count(attempts)' = render_count(attempts),
             \/ phase = "try" /\ phase' = "assess"
             \/ phase = "improve" /\ phase' = "mutate"
             \/ phase = "mutate" /\ phase' = "try"
      PROVE  StepsLeft' < StepsLeft
  BY <1>1, <1>3 DEF StepsLeft, StepsToRender
<1>4. CASE Render
  <2>1. phase = "try" /\ phase' = "assess" /\ attempts' = attempts
    BY <1>4 DEF Render
  <2>. QED
    BY <2>1, <1>3, SameCount
<1>5. CASE Reject
  <2>1. /\ phase = "assess" /\ phase' = "improve"
        /\ attempts' = Log("failed")
    BY <1>5 DEF Reject
  <2>2. PICK a : attempts' = Append(attempts, a) /\ a.status = "failed"
    BY <2>1 DEF Log
  <2>3. render_count(attempts)' = render_count(attempts) + 1
    BY <1>1, <2>2, CountOfAppend DEF HasImage
  <2>. QED
    BY <1>1, <2>1, <2>3 DEF StepsLeft, StepsToRender
<1>6. CASE SwitchModel
  <2>1. phase = "improve" /\ phase' = "mutate"
    BY <1>6 DEF SwitchModel
  <2>2. PICK a : /\ attempts' = Append(attempts, a)
                 /\ a.status = "model_switched"
    BY <1>6 DEF SwitchModel
  <2>3. render_count(attempts)' = render_count(attempts)
    BY <1>1, <2>2, CountOfAppend DEF HasImage
  <2>. QED
    BY <2>1, <2>3, <1>3
<1>7. CASE KeepModel
  <2>1. phase = "improve" /\ phase' = "mutate" /\ attempts' = attempts
    BY <1>7 DEF KeepModel
  <2>. QED
    BY <2>1, <1>3, SameCount
<1>8. CASE Mutate
  <2>1. phase = "mutate" /\ phase' \in {"done", "try"} /\ attempts' = attempts
    BY <1>8 DEF Mutate
  <2>. QED
    BY <2>1, <1>2, <1>3, SameCount
<1>9. CASE SkipDuplicate \/ Accept \/ GiveUp \/ MutateRaises \/ RenderRaises
  BY <1>9, <1>2 DEF SkipDuplicate, Accept, GiveUp, MutateRaises, RenderRaises
<1>. QED
  BY <1>4, <1>5, <1>6, <1>7, <1>8, <1>9 DEF Advance

(* A call of run() ends after at most four steps for each render it may    *)
(* make and four more: each step of the loop takes one, switched models,   *)
(* cached images and plans that change nothing included.                   *)
THEOREM SessionsRunOut == Spec => []HasStep /\ [][StepTaken]_vars
<1>1. Init => CountInv
  BY FirstCount
<1>2. CountInv /\ [Next]_vars => CountInv'
  BY CountStep
<1>3. CountInv => HasStep
  BY StepsAre
<1>4. CountInv /\ CountInv' /\ [Next]_vars => [StepTaken]_vars
  BY StepIsTaken
<1>. QED
  BY <1>1, <1>2, <1>3, <1>4, PTL DEF Spec
=============================================================================
