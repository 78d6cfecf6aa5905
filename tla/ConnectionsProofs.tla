------------------------- MODULE ConnectionsProofs -------------------------
(***************************************************************************)
(* What holds of Connections for any providers, keys, values and threads.  *)
(*                                                                         *)
(* SettingsAreWrites: seen from the file system a Connection Center is     *)
(* AtomicWrites with the writer of .env, so that what AtomicWritesProofs   *)
(* shows of the type of its variables need not be shown again.             *)
(* ConnTyping is the type invariant.  SavedAlwaysStays is the promise of   *)
(* the cards: what was saved last is in .env, or under the temporary name  *)
(* after a kill.  SavedStays is not inductive: SavedInv says where a save  *)
(* that is under way has the old and the new settings at each of its       *)
(* steps, and that the settings being written are the model's.             *)
(***************************************************************************)
EXTENDS Connections, AtomicWritesProofs

-----------------------------------------------------------------------------
(* .env is a file of AtomicWrites                                          *)

(* A step of the Connection Center is a step of the writers, or none.      *)
LEMMA WriteRefined ==
    ASSUME [ConnNext]_allVars
    PROVE  [Next]_vars
<1>1. CASE UNCHANGED allVars
  BY <1>1 DEF allVars
<1>2. CASE \E p \in Providers :
              \/ ReadEnv(p) \/ EndCheck(p) \/ Test(p) \/ StartEdit(p)
              \/ CancelEdit(p)
              \/ \E k \in Fields(p), v \in Values \cup {Unset} : SetField(p, k, v)
  BY <1>2 DEF ReadEnv, EndCheck, Test, StartEdit, CancelEdit, SetField,
              Unwritten
<1>3. CASE Load_Settings \/ Booted \/ Open_Center
  BY <1>3 DEF Load_Settings, Booted, Open_Center, Unwritten
<1>4. CASE Restart
  BY <1>4 DEF Restart, Next
<1>5. ASSUME NEW p \in Providers, NEW c \in Clients, Commit(p, c)
      PROVE  [Next]_vars
  BY <1>5 DEF Commit, Next
<1>6. ASSUME NEW c \in Clients, Saved(c) \/ WriteStep(c) \/ WriteFails(c)
      PROVE  [Next]_vars
  BY <1>6 DEF Saved, WriteStep, WriteFails, Next
<1> QED
  BY <1>1, <1>2, <1>3, <1>4, <1>5, <1>6 DEF ConnNext

(* What happens to .env is what AtomicWrites says can happen to a file:    *)
(* the settings of the app are written the way its other files are.        *)
THEOREM SettingsAreWrites == ConnSpec => Spec
<1>1. ConnInit => Init
  BY DEF ConnInit
<1>2. [ConnNext]_allVars => [Next]_vars
  BY WriteRefined
<1> QED
  BY <1>1, <1>2, PTL DEF ConnSpec, Spec

-----------------------------------------------------------------------------
(* Type correctness                                                        *)

LEMMA PartType ==
    ASSUME NEW env \in Env, NEW p \in Providers
    PROVE  Part(env, p) \in Parts(p)
  BY DEF Env, Part, Parts, Fields

LEMMA NothingType ==
    ASSUME NEW p \in Providers
    PROVE  NoEnv \in Env /\ Nothing(p) \in Parts(p)
<1>1. NoEnv \in Env
  BY DEF NoEnv, Env
<1> QED
  BY <1>1, PartType DEF Nothing

(* Whatever .env is read as, it is settings.                               *)
LEMMA OnDiskType ==
    ASSUME ConnTypeOK, NEW env \in OnDisk
    PROVE  env \in Env
<1>1. NoEnv \in Env
  BY DEF NoEnv, Env
<1>2. \A n \in Documents : contents[n] \in Env
  BY DEF ConnTypeOK, Documents
<1> QED
  BY <1>1, <1>2 DEF OnDisk

LEMMA CommittedType ==
    ASSUME ConnTypeOK, NEW p \in Providers
    PROVE  Committed(p) \in Env
<1>1. \A k \in Keys : model[k] \in Values \cup {Unset}
  BY DEF ConnTypeOK, Env
<1>2. \A k \in Keys : Owner[k] = p => draft[p][k] \in Values \cup {Unset}
  BY DEF ConnTypeOK, Parts, Fields
<1>3. Default \in Values
  BY SettingsAssumption
<1> QED
  BY <1>1, <1>2, <1>3 DEF Committed, Env

LEMMA InitConnType == ConnInit => ConnTypeOK
<1> SUFFICES ASSUME ConnInit PROVE ConnTypeOK
  OBVIOUS
<1>1. TypeOK
  BY FirstState DEF ConnInit
<1>2. NoEnv \in Env /\ \A p \in Providers : Nothing(p) \in Parts(p)
  BY NothingType DEF NoEnv, Env
<1>3. \A c \in Clients : pc[c] = "idle"
  BY DEF ConnInit, Init
<1>4. PICK env \in IF target = NoFile THEN {NoEnv} ELSE Earlier :
         /\ contents = [n \in Calls |-> env]
         /\ wanted = [k \in Keys |-> {env[k]}]
  BY DEF ConnInit
<1>5. env \in Env
  BY <1>2, SettingsAssumption DEF Env
<1>6. contents \in [Calls -> Env]
  BY <1>4, <1>5
<1>7. wanted \in [Keys -> SUBSET (Values \cup {Unset})]
  BY <1>4, <1>5 DEF Env
<1>8. acts \in 0..MaxActs
  BY SettingsAssumption DEF ConnInit
<1>9. /\ DOMAIN draft = Providers /\ DOMAIN probed = Providers
      /\ DOMAIN health = Providers
      /\ \A p \in Providers : /\ draft[p] = Nothing(p) /\ probed[p] = Nothing(p)
                              /\ health[p] = {}
      /\ flow \in [Clients -> Providers \cup {NoProvider}]
      /\ probe \in [Providers -> {"idle", "asked", "run"}]
      /\ stage = "load" /\ model = NoEnv /\ editing = {} /\ mishaps = {}
  BY DEF ConnInit
<1> QED
  BY <1>1, <1>2, <1>3, <1>6, <1>7, <1>8, <1>9 DEF ConnTypeOK

(* Assigning one provider's part.                                          *)
LEMMA PartUpdate ==
    ASSUME NEW f, DOMAIN f = Providers, NEW p \in Providers, NEW v
    PROVE  /\ DOMAIN [f EXCEPT ![p] = v] = Providers
           /\ [f EXCEPT ![p] = v][p] = v
           /\ \A q \in Providers : q # p => [f EXCEPT ![p] = v][q] = f[q]
  OBVIOUS

LEMMA AskedType ==
    ASSUME ConnTypeOK, NEW ids
    PROVE  Asked(ids) \in [Providers -> {"idle", "asked", "run"}]
  BY DEF ConnTypeOK, Asked

LEMMA NextConnType == ConnTypeOK /\ [ConnNext]_allVars => ConnTypeOK'
<1> SUFFICES ASSUME ConnTypeOK, [ConnNext]_allVars PROVE ConnTypeOK'
  OBVIOUS
<1>0. TypeOK'
  <2>1. TypeOK /\ [Next]_vars
    BY WriteRefined DEF ConnTypeOK
  <2> QED
    BY <2>1, StepTyping
<1> USE <1>0, SettingsAssumption, NothingType DEF Mishaps
<1>1. CASE UNCHANGED allVars
  BY <1>1 DEF allVars, app, vars, ConnTypeOK
<1>2. ASSUME NEW p \in Providers, ReadEnv(p) PROVE ConnTypeOK'
  <2>1. PICK env \in OnDisk : probed' = [probed EXCEPT ![p] = Part(env, p)]
    BY <1>2 DEF ReadEnv
  <2>2. Part(env, p) \in Parts(p)
    BY OnDiskType, PartType
  <2>3. /\ DOMAIN probed' = Providers
        /\ \A q \in Providers : probed'[q] \in Parts(q)
    BY <2>1, <2>2, PartUpdate DEF ConnTypeOK
  <2>4. /\ probe' \in [Providers -> {"idle", "asked", "run"}]
        /\ mishaps' \subseteq Mishaps
    BY <1>2 DEF ReadEnv, ConnTypeOK
  <2> QED
    BY <1>2, <2>3, <2>4 DEF ReadEnv, ConnTypeOK, vars
<1>3. ASSUME NEW p \in Providers, EndCheck(p) PROVE ConnTypeOK'
  <2>1. /\ DOMAIN probed' = Providers
        /\ \A q \in Providers : probed'[q] \in Parts(q)
    BY <1>3, PartUpdate DEF EndCheck, ConnTypeOK
  <2>2. /\ DOMAIN health' = Providers
        /\ \A q \in Providers : health'[q] \subseteq Parts(q)
    <3>1. {probed[p]} \subseteq Parts(p)
      BY DEF ConnTypeOK
    <3> QED
      BY <1>3, <3>1, PartUpdate DEF EndCheck, ConnTypeOK
  <2>3. probe' \in [Providers -> {"idle", "asked", "run"}]
    BY <1>3 DEF EndCheck, ConnTypeOK
  <2> QED
    BY <1>3, <2>1, <2>2, <2>3 DEF EndCheck, ConnTypeOK, vars
<1>4. CASE Load_Settings
  <2>1. model' \in Env /\ mishaps' \subseteq Mishaps
    BY <1>4, OnDiskType DEF Load_Settings, ConnTypeOK
  <2>2. probe' \in [Providers -> {"idle", "asked", "run"}]
    BY <1>4, AskedType DEF Load_Settings
  <2> QED
    BY <1>4, <2>1, <2>2 DEF Load_Settings, ConnTypeOK, vars
<1>5. CASE Booted
  BY <1>5 DEF Booted, ConnTypeOK, vars
<1> USE DEF Act, Unwritten
<1>6. CASE Open_Center
  <2>1. probe' \in [Providers -> {"idle", "asked", "run"}] /\ acts' \in 0..MaxActs
    BY <1>6, AskedType DEF Open_Center, ConnTypeOK
  <2> QED
    BY <1>6, <2>1 DEF Open_Center, ConnTypeOK, vars
<1>7. ASSUME NEW p \in Providers, Test(p) PROVE ConnTypeOK'
  <2>1. probe' \in [Providers -> {"idle", "asked", "run"}] /\ acts' \in 0..MaxActs
    BY <1>7, AskedType DEF Test, ConnTypeOK
  <2> QED
    BY <1>7, <2>1 DEF Test, ConnTypeOK, vars
<1>8. ASSUME NEW p \in Providers, StartEdit(p) PROVE ConnTypeOK'
  <2>1. [k \in Fields(p) |-> IF k \in Secrets THEN Unset ELSE model[k]]
           \in Parts(p)
    BY DEF ConnTypeOK, Env, Parts, Fields
  <2>2. /\ DOMAIN draft' = Providers
        /\ \A q \in Providers : draft'[q] \in Parts(q)
    BY <1>8, <2>1, PartUpdate DEF StartEdit, ConnTypeOK
  <2>3. acts' \in 0..MaxActs /\ editing' \subseteq Providers
    BY <1>8 DEF StartEdit, ConnTypeOK
  <2> QED
    BY <1>8, <2>2, <2>3 DEF StartEdit, ConnTypeOK, vars
<1>9. ASSUME NEW p \in Providers, CancelEdit(p) PROVE ConnTypeOK'
  <2>1. /\ DOMAIN draft' = Providers
        /\ \A q \in Providers : draft'[q] \in Parts(q)
    BY <1>9, PartUpdate DEF CancelEdit, ConnTypeOK
  <2>2. acts' \in 0..MaxActs /\ editing' \subseteq Providers
    BY <1>9 DEF CancelEdit, ConnTypeOK
  <2> QED
    BY <1>9, <2>1, <2>2 DEF CancelEdit, ConnTypeOK, vars
<1>10. ASSUME NEW p \in Providers, NEW k \in Fields(p),
              NEW v \in Values \cup {Unset}, SetField(p, k, v)
       PROVE  ConnTypeOK'
  <2>1. [draft[p] EXCEPT ![k] = v] \in Parts(p)
    BY DEF ConnTypeOK, Parts
  <2>2. /\ DOMAIN draft' = Providers
        /\ \A q \in Providers : draft'[q] \in Parts(q)
    BY <1>10, <2>1, PartUpdate DEF SetField, ConnTypeOK
  <2>3. acts' \in 0..MaxActs
    BY <1>10 DEF SetField, ConnTypeOK
  <2> QED
    BY <1>10, <2>2, <2>3 DEF SetField, ConnTypeOK, vars
<1>11. ASSUME NEW p \in Providers, NEW c \in Clients, Commit(p, c)
       PROVE  ConnTypeOK'
  <2>1. Committed(p) \in Env
    BY CommittedType
  <2>2. model' \in Env /\ contents' \in [Calls -> Env]
    BY <1>11, <2>1 DEF Commit, ConnTypeOK
  <2>3. wanted' \in [Keys -> SUBSET (Values \cup {Unset})]
    BY <1>11, <2>1 DEF Commit, ConnTypeOK, Env
  <2>4. flow' \in [Clients -> Providers \cup {NoProvider}]
    BY <1>11 DEF Commit, ConnTypeOK
  <2>5. \A d \in Clients : pc'[d] # "idle" => flow'[d] # NoProvider
    <3>1. \A d \in Clients : d # c => pc'[d] = pc[d] /\ flow'[d] = flow[d]
      BY <1>11 DEF Commit, Invoke, Goto, ConnTypeOK, TypeOK
    <3>2. flow'[c] = p
      BY <1>11 DEF Commit, ConnTypeOK
    <3> QED
      BY <3>1, <3>2 DEF ConnTypeOK
  <2>6. acts' \in 0..MaxActs /\ mishaps' \subseteq Mishaps
    BY <1>11 DEF Commit, ConnTypeOK
  <2> QED
    BY <1>11, <2>2, <2>3, <2>4, <2>5, <2>6 DEF Commit, ConnTypeOK
<1>12. ASSUME NEW c \in Clients, Saved(c) PROVE ConnTypeOK'
  <2>1. flow[c] \in Providers /\ flow' = [flow EXCEPT ![c] = NoProvider]
    BY <1>12 DEF Saved, ConnTypeOK
  <2>2. flow' \in [Clients -> Providers \cup {NoProvider}]
    BY <2>1 DEF ConnTypeOK
  <2>3. \A d \in Clients : pc'[d] # "idle" => flow'[d] # NoProvider
    <3>1. pc' = pc /\ pc[c] = "idle"
      BY <1>12 DEF Saved, Settled, vars
    <3> QED
      BY <2>1, <3>1 DEF ConnTypeOK
  <2>4. /\ DOMAIN draft' = Providers
        /\ \A q \in Providers : draft'[q] \in Parts(q)
    BY <1>12, <2>1, PartUpdate DEF Saved, ConnTypeOK
  <2>5. probe' \in [Providers -> {"idle", "asked", "run"}]
    BY <1>12, AskedType DEF Saved, Retested
  <2>6. wanted' \in [Keys -> SUBSET (Values \cup {Unset})]
    BY <1>12 DEF Saved, ConnTypeOK
  <2>7. mishaps' \subseteq Mishaps /\ editing' \subseteq Providers
    BY <1>12 DEF Saved, ConnTypeOK
  <2> QED
    BY <1>12, <2>2, <2>3, <2>4, <2>5, <2>6, <2>7 DEF Saved, ConnTypeOK, vars
<1>13. ASSUME NEW c \in Clients, WriteStep(c) \/ WriteFails(c) PROVE ConnTypeOK'
  <2>1. UNCHANGED app
    BY <1>13 DEF WriteStep, WriteFails
  <2>2. \A d \in Clients : pc'[d] # "idle" => pc[d] # "idle"
    BY <1>13 DEF WriteStep, WriteFails, Step, Check, Acquire, Open, Write, Look,
       Remove, Rename, Reply, Load, IOFails, Fail, Goto, ConnTypeOK, TypeOK
  <2> QED
    BY <2>1, <2>2 DEF app, ConnTypeOK
<1>14. CASE Restart
  <2>1. /\ DOMAIN draft' = Providers /\ DOMAIN probed' = Providers
        /\ DOMAIN health' = Providers
        /\ \A p \in Providers : /\ draft'[p] = Nothing(p)
                                /\ probed'[p] = Nothing(p) /\ health'[p] = {}
        /\ flow' \in [Clients -> Providers \cup {NoProvider}]
        /\ probe' \in [Providers -> {"idle", "asked", "run"}]
        /\ stage' = "load" /\ model' = NoEnv /\ editing' = {}
        /\ UNCHANGED <<contents, wanted, mishaps, acts>>
    BY <1>14 DEF Restart
  <2>2. \A c \in Clients : pc'[c] = "idle"
    BY <1>14 DEF Restart, Kill
  <2>3. NoEnv \in Env
    BY DEF NoEnv, Env
  <2> QED
    BY <2>1, <2>2, <2>3 DEF ConnTypeOK
<1> QED
  BY <1>1, <1>2, <1>3, <1>4, <1>5, <1>6, <1>7, <1>8, <1>9, <1>10, <1>11,
     <1>12, <1>13, <1>14 DEF ConnNext

(* The cards, drafts, probes and documents keep their shape, and a call    *)
(* that is under way belongs to a card that waits for it.                  *)
THEOREM ConnTyping == ConnSpec => []ConnTypeOK
<1>1. ConnInit => ConnTypeOK
  BY InitConnType
<1>2. ConnTypeOK /\ [ConnNext]_allVars => ConnTypeOK'
  BY NextConnType
<1> QED
  BY <1>1, <1>2, PTL DEF ConnSpec

-----------------------------------------------------------------------------
(* Saved settings                                                          *)

(* None of the three things has happened that SavedStays excepts.          *)
Calm == mishaps \cap {"overlap", "swallowed", "missing"} = {}

(* The user may expect to find these settings.                             *)
Expected(env) == \A k \in Keys : env[k] \in wanted[k]

InUse == \E c \in Clients : flow[c] # NoProvider

OneAtATime == \A c, d \in Clients :
    flow[c] # NoProvider /\ flow[d] # NoProvider => c = d

(* A save: the settings it writes are the model's, the old ones are there  *)
(* until .env is removed, then the new ones are under the temporary name.  *)
SaveHolds(c) ==
    /\ number[c] = calls /\ calls \in Calls /\ contents[calls] = model
    /\ stage = "ready"
    /\ pc[c] # "idle" => op[c] = "write" /\ calls \notin acked
    /\ pc[c] # "load"
    /\ pc[c] \in {"check", "lock", "open", "write", "look", "remove"} =>
          AsWanted(target)
    /\ pc[c] \in {"check", "lock", "open"} => target # calls /\ tmp # calls
    /\ pc[c] = "write" => tmp # NoFile /\ handle[c] = tmp /\ data[tmp] = Empty
    /\ pc[c] \in {"look", "remove", "rename"} =>
          tmp # NoFile /\ data[tmp] = calls
    /\ pc[c] = "remove" => target # NoFile
    /\ pc[c] = "rename" => target = NoFile
    /\ pc[c] = "reply" => target # NoFile /\ data[target] = calls
    /\ pc[c] = "idle" =>
          IF calls \in acked
          THEN target # NoFile /\ data[target] = calls
          ELSE faults > 0 /\ (AsWanted(target) \/ AsWanted(tmp))

(* No save is under way: before the settings are loaded a save that was    *)
(* cut short may have left them under the temporary name.                  *)
RestHolds ==
    /\ AsWanted(target) \/ AsWanted(tmp)
    /\ target # NoFile \/ stage # "load" \/ faults = 0 => AsWanted(target)

SavedInv ==
    /\ target <= calls /\ tmp <= calls /\ acked \subseteq 1..calls
    /\ target # NoFile => target # tmp
    /\ stage # "load" => Expected(model)
    /\ OneAtATime
    /\ InUse => \A c \in Clients : flow[c] # NoProvider => SaveHolds(c)
    /\ ~InUse => RestHolds

(* What a name of the file system stands for, spelled out: name i with the *)
(* inodes d, the documents cs and the expectations w.                      *)
Good(i, d, cs, w) ==
    \/ i = NoFile /\ \A k \in Keys : NoEnv[k] \in w[k]
    \/ i # NoFile /\ d[i] \in Calls /\ \A k \in Keys : cs[d[i]][k] \in w[k]

LEMMA WantedIsGood ==
    /\ AsWanted(target) <=> Good(target, data, contents, wanted)
    /\ AsWanted(tmp) <=> Good(tmp, data, contents, wanted)
  BY DEF AsWanted, Holds, Good, Documents

LEMMA WantedIsGoodNext ==
    /\ AsWanted(target)' <=> Good(target', data', contents', wanted')
    /\ AsWanted(tmp)' <=> Good(tmp', data', contents', wanted')
  BY DEF AsWanted, Holds, Good, Documents

(* A name keeps standing for what is expected while its document and the   *)
(* expectations stay, or these get wider.                                  *)
LEMMA GoodKept ==
    ASSUME NEW i, NEW d, NEW cs, NEW w, NEW d2, NEW cs2, NEW w2,
           Good(i, d, cs, w),
           i # NoFile => d2[i] = d[i] /\ cs2[d[i]] = cs[d[i]],
           \A k \in Keys : w[k] \subseteq w2[k]
    PROVE  Good(i, d2, cs2, w2)
  BY DEF Good

(* The document of the model is what is expected.                          *)
LEMMA ModelIsGood ==
    ASSUME NEW i, NEW d, NEW cs, NEW w, NEW n \in Calls, NEW m,
           i # NoFile, d[i] = n, cs[n] = m,
           \A k \in Keys : m[k] \in w[k]
    PROVE  Good(i, d, cs, w)
  BY DEF Good

LEMMA InitSavedInv == ConnInit => SavedInv
<1> SUFFICES ASSUME ConnInit PROVE SavedInv
  OBVIOUS
<1>1. PICK env \in IF target = NoFile THEN {NoEnv} ELSE Earlier :
         /\ contents = [n \in Calls |-> env]
         /\ wanted = [k \in Keys |-> {env[k]}]
  BY DEF ConnInit
<1>2. /\ calls \in {0, 1} /\ target = calls /\ tmp = 0 /\ acked = 1..calls
      /\ data = [i \in Calls |-> IF i = calls THEN i ELSE Empty]
  BY DEF ConnInit, Init, NoFile
<1>3. ~InUse /\ stage = "load" /\ OneAtATime
  BY DEF ConnInit, InUse, OneAtATime
<1>4. CASE calls = 0
  <2>1. \A k \in Keys : NoEnv[k] \in wanted[k]
    BY <1>1, <1>2, <1>4 DEF NoFile
  <2>2. Good(target, data, contents, wanted)
    BY <1>2, <1>4, <2>1 DEF Good, NoFile
  <2> QED
    BY <1>2, <1>3, <1>4, <2>2, WantedIsGood DEF SavedInv, RestHolds, NoFile
<1>5. CASE calls = 1
  <2>1. 1 \in Calls
    BY ConstantsAssumption DEF Calls
  <2>2. data[1] = 1 /\ contents[1] = env
    BY <1>1, <1>2, <1>5, <2>1
  <2>3. \A k \in Keys : env[k] \in wanted[k]
    BY <1>1
  <2>4. Good(target, data, contents, wanted)
    BY <1>2, <1>5, <2>1, <2>2, <2>3 DEF Good, NoFile
  <2> QED
    BY <1>2, <1>3, <1>5, <2>4, WantedIsGood DEF SavedInv, RestHolds, NoFile
<1> QED
  BY <1>2, <1>4, <1>5

(* Nothing is taken back that has happened.                                *)
LEMMA CalmBefore ==
    ASSUME [ConnNext]_allVars, Calm'
    PROVE  Calm
<1>1. mishaps \subseteq mishaps'
  BY DEF ConnNext, allVars, app, Load_Settings, Booted, Open_Center, Restart,
     ReadEnv, EndCheck, Test, StartEdit, CancelEdit, SetField, Commit, Saved,
     WriteStep, WriteFails, Unwritten
<1> QED
  BY <1>1 DEF Calm

(* What the user does on a card that is not saved, and what a probe does,  *)
(* is nothing to the saves.                                                *)
LEMMA SavedInvAside ==
    ASSUME SavedInv, UNCHANGED <<vars, stage, model, flow, contents, wanted>>
    PROVE  SavedInv'
<1> USE DEF vars
<1>1. AsWanted(target)' <=> AsWanted(target)
  BY WantedIsGood, WantedIsGoodNext
<1>2. AsWanted(tmp)' <=> AsWanted(tmp)
  BY WantedIsGood, WantedIsGoodNext
<1>3. ASSUME NEW c \in Clients, SaveHolds(c) PROVE SaveHolds(c)'
  BY <1>1, <1>2, <1>3 DEF SaveHolds
<1>4. InUse' = InUse /\ (OneAtATime => OneAtATime')
  BY DEF InUse, OneAtATime
<1>5. Expected(model) => Expected(model)'
  BY DEF Expected
<1>6. RestHolds => RestHolds'
  BY <1>1, <1>2 DEF RestHolds
<1> QED
  BY <1>3, <1>4, <1>5, <1>6 DEF SavedInv

(* A step of the one save there is.                                        *)
LEMMA SaveGoesOn ==
    ASSUME ConnTypeOK, SavedInv, NEW c \in Clients, flow[c] # NoProvider,
           UNCHANGED app,
           target' <= calls', tmp' <= calls', acked' \subseteq 1..calls',
           target' # NoFile => target' # tmp',
           SaveHolds(c)'
    PROVE  SavedInv'
<1>1. \A d \in Clients : flow'[d] # NoProvider => d = c
  BY DEF app, SavedInv, OneAtATime
<1>2. InUse' /\ OneAtATime'
  BY <1>1 DEF app, InUse, OneAtATime
<1>3. (stage # "load" => Expected(model)) => (stage' # "load" => Expected(model)')
  BY DEF app, Expected
<1> QED
  BY <1>1, <1>2, <1>3 DEF SavedInv

(* What is known when a writer takes a step.                               *)
LEMMA WriterIsTheSave ==
    ASSUME ConnTypeOK, SavedInv, NEW c \in Clients, pc[c] # "idle"
    PROVE  /\ flow[c] # NoProvider /\ SaveHolds(c) /\ number[c] = calls
           /\ calls \in Calls /\ calls \notin acked
           /\ \A k \in Keys : contents[calls][k] \in wanted[k]
           /\ target \in 0..MaxCalls /\ tmp \in 0..MaxCalls
<1>1. flow[c] # NoProvider /\ SaveHolds(c)
  BY DEF ConnTypeOK, SavedInv, InUse
<1>2. stage = "ready" /\ contents[calls] = model
  BY <1>1 DEF SaveHolds
<1>3. Expected(model)
  BY <1>2 DEF SavedInv
<1> QED
  BY <1>1, <1>2, <1>3 DEF SaveHolds, Expected, ConnTypeOK, TypeOK

LEMMA SavedWriteStep ==
    ASSUME ConnTypeOK, SavedInv, NEW c \in Clients, WriteStep(c)
    PROVE  SavedInv'
<1> USE DEF Goto, fs, told
<1>0. /\ UNCHANGED <<app, kind>> /\ pc[c] # "idle" /\ kind = "settings"
      /\ pc \in [Clients -> {"idle", "check", "lock", "reply", "load"}
                               \cup Holding]
      /\ data \in [Calls -> Content]
      /\ calls \in Nat /\ Calls = 1..MaxCalls /\ MaxCalls \in Nat
  BY SettingsAssumption, ConstantsAssumption
  DEF WriteStep, Step, Check, Acquire, Open, Write, Look, Remove, Rename,
      Reply, Load, ConnTypeOK, TypeOK, Calls
<1>1. /\ flow[c] # NoProvider /\ SaveHolds(c) /\ number[c] = calls
      /\ calls \in Calls /\ calls \notin acked
      /\ \A k \in Keys : contents[calls][k] \in wanted[k]
      /\ target \in 0..MaxCalls /\ tmp \in 0..MaxCalls
  BY <1>0, WriterIsTheSave
<1>2. /\ target <= calls /\ tmp <= calls /\ acked \subseteq 1..calls
      /\ target # NoFile => target # tmp
  BY DEF SavedInv
<1>3. UNCHANGED <<stage, model, contents, wanted, flow>>
  BY <1>0 DEF app
(* The old settings stay what .env has as long as its inode is left alone. *)
<1>4. ASSUME AsWanted(target), target' = target,
             target # NoFile => data'[target] = data[target]
      PROVE  AsWanted(target)'
  BY <1>3, <1>4, WantedIsGood, WantedIsGoodNext, GoodKept
<1>5. CASE Check(c)
  <2>1. /\ pc[c] = "check" /\ UNCHANGED <<target, tmp, data, number, op, calls, acked, handle, faults>>
        /\ pc'[c] = "lock"
    BY <1>0, <1>1, <1>5 DEF Check, Refuses, SaveHolds
  <2>2. SaveHolds(c)'
    BY <1>1, <1>3, <1>4, <2>1 DEF SaveHolds
  <2> QED
    BY <1>0, <1>1, <1>2, <2>1, <2>2, SaveGoesOn
<1>6. CASE Acquire(c)
  <2>1. /\ pc[c] = "lock" /\ UNCHANGED <<target, tmp, data, number, op, calls, acked, handle, faults>>
        /\ pc'[c] = "open"
    BY <1>0, <1>6 DEF Acquire
  <2>2. SaveHolds(c)'
    BY <1>1, <1>3, <1>4, <2>1 DEF SaveHolds
  <2> QED
    BY <1>0, <1>1, <1>2, <2>1, <2>2, SaveGoesOn
<1>7. CASE Open(c)
  <2> DEFINE i == IF tmp = NoFile THEN number[c] ELSE tmp
  <2>1. /\ pc[c] = "open" /\ UNCHANGED <<target, number, op, calls, acked, faults>>
        /\ pc'[c] = "write" /\ tmp' = i /\ data' = [data EXCEPT ![i] = Empty]
        /\ handle'[c] = i
    BY <1>0, <1>7 DEF Open, ConnTypeOK, TypeOK
  <2>2. i \in Calls /\ i # NoFile /\ i # target /\ i <= calls
    BY <1>0, <1>1, <1>2, <2>1 DEF SaveHolds, NoFile
  <2>3. data'[i] = Empty /\ (target # NoFile => data'[target] = data[target])
    BY <1>0, <1>1, <2>1, <2>2 DEF NoFile
  <2>4. AsWanted(target)'
    BY <1>1, <1>4, <2>1, <2>3 DEF SaveHolds
  <2>5. SaveHolds(c)'
    BY <1>1, <1>3, <2>1, <2>2, <2>3, <2>4 DEF SaveHolds
  <2> QED
    BY <1>0, <1>1, <1>2, <2>1, <2>2, <2>5, SaveGoesOn
<1>8. CASE Write(c)
  <2>1. /\ pc[c] = "write" /\ UNCHANGED <<target, tmp, number, op, calls, acked, handle, faults>>
        /\ pc'[c] = "look"
    BY <1>0, <1>8 DEF Write
  <2>2. tmp # NoFile /\ handle[c] = tmp /\ data[tmp] = Empty
    BY <1>1, <2>1 DEF SaveHolds
  <2>3. data' = [data EXCEPT ![tmp] = calls]
    BY <1>1, <1>8, <2>2 DEF Write
  <2>4. data'[tmp] = calls /\ (target # NoFile => data'[target] = data[target])
    BY <1>0, <1>1, <1>2, <2>2, <2>3 DEF NoFile
  <2>5. AsWanted(target)'
    BY <1>1, <1>4, <2>1, <2>4 DEF SaveHolds
  <2>6. SaveHolds(c)'
    BY <1>1, <1>3, <2>1, <2>2, <2>4, <2>5 DEF SaveHolds
  <2> QED
    BY <1>0, <1>1, <1>2, <2>1, <2>6, SaveGoesOn
<1>9. CASE Look(c)
  <2>1. /\ pc[c] = "look" /\ UNCHANGED <<target, tmp, data, number, op, calls, acked, handle, faults>>
        /\ pc'[c] = IF target # NoFile THEN "remove" ELSE "rename"
    BY <1>0, <1>9 DEF Look, RemovesFirst
  <2>2. SaveHolds(c)'
    BY <1>1, <1>3, <1>4, <2>1 DEF SaveHolds
  <2> QED
    BY <1>0, <1>1, <1>2, <2>1, <2>2, SaveGoesOn
<1>10. CASE Remove(c)
  <2>1. /\ pc[c] = "remove" /\ UNCHANGED <<tmp, data, number, op, calls, acked, handle, faults>>
        /\ target # NoFile /\ target' = NoFile /\ pc'[c] = "rename"
    BY <1>0, <1>1, <1>10 DEF Remove, SaveHolds
  <2>2. SaveHolds(c)'
    BY <1>1, <1>3, <2>1 DEF SaveHolds
  <2> QED
    BY <1>0, <1>1, <1>2, <2>1, <2>2, SaveGoesOn DEF NoFile
<1>11. CASE Rename(c)
  <2>1. pc[c] = "rename" /\ tmp # NoFile /\ data[tmp] = calls
    BY <1>1, <1>11 DEF Rename, SaveHolds
  <2>2. /\ UNCHANGED <<data, number, op, calls, acked, handle, faults>>
        /\ target' = tmp /\ tmp' = NoFile /\ pc'[c] = "reply"
    BY <1>0, <1>11, <2>1 DEF Rename
  <2>3. SaveHolds(c)'
    BY <1>1, <1>3, <2>1, <2>2 DEF SaveHolds
  <2> QED
    BY <1>0, <1>1, <1>2, <2>1, <2>2, <2>3, SaveGoesOn DEF NoFile
<1>12. CASE Reply(c)
  <2>1. /\ pc[c] = "reply" /\ UNCHANGED <<target, tmp, data, number, op, calls, handle, faults>>
        /\ pc'[c] = "idle" /\ acked' = acked \cup {calls}
    BY <1>0, <1>1, <1>12 DEF Reply
  <2>2. SaveHolds(c)'
    BY <1>1, <1>3, <2>1 DEF SaveHolds
  <2>3. acked' \subseteq 1..calls
    <3>1. calls \in 1..calls
      BY <1>0, <1>1
    <3> QED
      BY <1>2, <2>1, <3>1
  <2> QED
    BY <1>0, <1>1, <1>2, <2>1, <2>2, <2>3, SaveGoesOn
<1>13. CASE Load(c)
  BY <1>1, <1>13 DEF Load, SaveHolds
<1> QED
  BY <1>5, <1>6, <1>7, <1>8, <1>9, <1>10, <1>11, <1>12, <1>13
  DEF WriteStep, Step

(* A save that fails leaves the old settings in .env or the new ones under *)
(* the temporary name.                                                     *)
LEMMA SavedWriteFails ==
    ASSUME ConnTypeOK, SavedInv, NEW c \in Clients, WriteFails(c)
    PROVE  SavedInv'
<1>0. /\ UNCHANGED <<app, target, tmp, number, handle, op, calls, acked>>
      /\ pc[c] \in {"open", "write", "remove", "rename"} /\ pc'[c] = "idle"
      /\ faults' > 0
      /\ data \in [Calls -> Content]
      /\ calls \in Nat /\ Calls = 1..MaxCalls
  BY ConstantsAssumption
  DEF WriteFails, IOFails, Fail, Goto, ConnTypeOK, TypeOK, Calls, told
<1>1. /\ flow[c] # NoProvider /\ SaveHolds(c) /\ number[c] = calls
      /\ calls \in Calls /\ calls \notin acked
      /\ \A k \in Keys : contents[calls][k] \in wanted[k]
      /\ target \in 0..MaxCalls /\ tmp \in 0..MaxCalls
  BY <1>0, WriterIsTheSave
<1>2. /\ target <= calls /\ tmp <= calls /\ acked \subseteq 1..calls
      /\ target # NoFile => target # tmp
  BY DEF SavedInv
<1>3. UNCHANGED <<stage, model, contents, wanted, flow>>
  BY <1>0 DEF app
<1>4. AsWanted(target)' \/ AsWanted(tmp)'
  <2>1. CASE pc[c] = "rename"
    <3>1. tmp # NoFile /\ data[tmp] = calls
      BY <1>1, <2>1 DEF SaveHolds
    <3>2. data' = data
      BY <2>1 DEF WriteFails, IOFails
    <3>3. Good(tmp, data', contents, wanted)
      BY <1>1, <3>1, <3>2, ModelIsGood
    <3> QED
      BY <1>0, <1>3, <3>3, WantedIsGoodNext
  <2>2. CASE pc[c] # "rename"
    <3>1. Good(target, data, contents, wanted)
      BY <1>0, <1>1, <2>2, WantedIsGood DEF SaveHolds
    <3>2. target # NoFile => data'[target] = data[target]
      <4>1. CASE data' = data
        BY <4>1
      <4>2. CASE pc[c] = "write" /\ data' = [data EXCEPT ![handle[c]] = Torn]
        <5>1. handle[c] = tmp
          BY <1>1, <4>2 DEF SaveHolds
        <5> QED
          BY <1>0, <1>1, <1>2, <4>2, <5>1 DEF NoFile
      <4> QED
        BY <4>1, <4>2 DEF WriteFails, IOFails
    <3>3. Good(target, data', contents, wanted)
      BY <3>1, <3>2, GoodKept
    <3> QED
      BY <1>0, <1>3, <3>3, WantedIsGoodNext
  <2> QED
    BY <2>1, <2>2
<1>5. SaveHolds(c)'
  BY <1>0, <1>1, <1>3, <1>4 DEF SaveHolds
<1> QED
  BY <1>0, <1>1, <1>2, <1>5, SaveGoesOn

(* The app is killed in the middle of a save.                              *)
LEMMA SavedRestart ==
    ASSUME ConnTypeOK, SavedInv, Restart
    PROVE  SavedInv'
<1>0. PICK c \in Clients : pc[c] # "idle"
  BY DEF Restart, Kill
<1>1. /\ flow[c] # NoProvider /\ SaveHolds(c) /\ number[c] = calls
      /\ calls \in Calls /\ calls \notin acked
      /\ \A k \in Keys : contents[calls][k] \in wanted[k]
      /\ target \in 0..MaxCalls /\ tmp \in 0..MaxCalls
  BY <1>0, WriterIsTheSave
<1>2. /\ target <= calls /\ tmp <= calls /\ acked \subseteq 1..calls
      /\ target # NoFile => target # tmp
  BY DEF SavedInv
<1>3. /\ UNCHANGED <<target, tmp, calls, acked, contents, wanted>>
      /\ stage' = "load" /\ flow' = [d \in Clients |-> NoProvider]
      /\ faults' = faults + 1 /\ faults \in Nat
  BY SettingsAssumption
  DEF Restart, Kill, told, TmpPerProcess, ConnTypeOK, TypeOK
<1>4. \A d \in Clients : pc[d] # "idle" => d = c
  BY <1>1 DEF ConnTypeOK, SavedInv, OneAtATime
<1>5. \A i \in Calls : data'[i] = data[i] \/ (pc[c] = "write" /\ i = tmp)
  <2>1. PICK half \in SUBSET {handle[d] : d \in {e \in Clients :
                                                   pc[e] = "write"}} :
           data' = [i \in Calls |-> IF i \in half THEN Torn ELSE data[i]]
    BY DEF Restart, Kill
  <2>2. \A i \in half : pc[c] = "write" /\ i = handle[c]
    BY <1>4, <2>1
  <2>3. pc[c] = "write" => handle[c] = tmp
    BY <1>1 DEF SaveHolds
  <2> QED
    BY <2>1, <2>2, <2>3
<1>6. CASE pc[c] = "rename"
  <2>1. tmp # NoFile /\ data[tmp] = calls /\ target = NoFile
    BY <1>1, <1>6 DEF SaveHolds
  <2>2. tmp \in Calls
    BY <1>1, <2>1 DEF Calls, NoFile
  <2>3. Good(tmp, data', contents, wanted)
    BY <1>1, <1>5, <1>6, <2>1, <2>2, ModelIsGood
  <2>4. RestHolds'
    BY <1>3, <2>1, <2>3, WantedIsGoodNext DEF RestHolds
  <2> QED
    BY <1>2, <1>3, <2>4 DEF SavedInv, InUse, OneAtATime
<1>7. CASE pc[c] # "rename"
  <2>1. Good(target, data, contents, wanted)
    <3>1. CASE pc[c] = "reply"
      <4>1. target # NoFile /\ data[target] = calls
        BY <1>1, <3>1 DEF SaveHolds
      <4> QED
        BY <1>1, <4>1, ModelIsGood
    <3>2. CASE pc[c] # "reply"
      <4>1. pc[c] \in {"check", "lock", "open", "write", "look", "remove"}
        BY <1>0, <1>1, <1>7, <3>2
        DEF SaveHolds, ConnTypeOK, TypeOK, Holding
      <4> QED
        BY <1>1, <4>1, WantedIsGood DEF SaveHolds
    <3> QED
      BY <3>1, <3>2
  <2>2. target # NoFile => data'[target] = data[target]
    <3>1. target # NoFile => target \in Calls
      BY <1>1 DEF Calls, NoFile
    <3> QED
      BY <1>2, <1>5, <3>1
  <2>3. Good(target, data', contents, wanted)
    BY <2>1, <2>2, GoodKept
  <2>4. RestHolds'
    BY <1>3, <2>3, WantedIsGoodNext DEF RestHolds
  <2> QED
    BY <1>2, <1>3, <2>4 DEF SavedInv, InUse, OneAtATime
<1> QED
  BY <1>6, <1>7

(* A start that finds what it may expect.                                  *)
LEMMA SavedLoad ==
    ASSUME ConnTypeOK, SavedInv, Load_Settings, Calm'
    PROVE  SavedInv'
<1>0. /\ stage = "load" /\ stage' = "probe"
      /\ UNCHANGED <<vars, flow, contents, wanted>>
  BY DEF Load_Settings
<1>1. ~InUse
  BY <1>0 DEF SavedInv, InUse, SaveHolds
<1>2. PICK env \in OnDisk :
         /\ model' = env
         /\ mishaps' = IF target = NoFile /\
                          \E k \in Keys : Unset \notin wanted[k]
                       THEN mishaps \cup {"missing"} ELSE mishaps
  BY DEF Load_Settings
<1>3. AsWanted(target) /\ \A k \in Keys : env[k] \in wanted[k]
  <2>1. CASE target = NoFile
    <3>1. \A k \in Keys : Unset \in wanted[k]
      BY <1>2, <2>1 DEF Calm
    <3>2. \A k \in Keys : NoEnv[k] \in wanted[k]
      BY <3>1 DEF NoEnv
    <3>3. Good(target, data, contents, wanted)
      BY <2>1, <3>2 DEF Good
    <3>4. env = NoEnv
      BY <2>1 DEF OnDisk
    <3> QED
      BY <3>2, <3>3, <3>4, WantedIsGood
  <2>2. CASE target # NoFile
    <3>1. AsWanted(target)
      BY <1>1, <2>2 DEF SavedInv, RestHolds
    <3>2. Good(target, data, contents, wanted)
      BY <3>1, WantedIsGood
    <3>3. data[target] \in Documents /\ data[target] # Empty
      BY <2>2, <3>2, ConstantsAssumption DEF Good, Documents, Calls, Empty
    <3>4. env = contents[data[target]]
      BY <2>2, <3>3 DEF OnDisk
    <3> QED
      BY <2>2, <3>1, <3>2, <3>4 DEF Good
  <2> QED
    BY <2>1, <2>2
<1>4. AsWanted(target)'
  BY <1>0, <1>3, WantedIsGood, WantedIsGoodNext DEF vars
<1>5. RestHolds' /\ Expected(model)'
  BY <1>0, <1>2, <1>3, <1>4 DEF RestHolds, Expected
<1> QED
  BY <1>0, <1>1, <1>5 DEF SavedInv, InUse, OneAtATime, vars

LEMMA SavedBooted ==
    ASSUME SavedInv, Booted
    PROVE  SavedInv'
<1>0. /\ stage = "probe" /\ stage' = "ready"
      /\ UNCHANGED <<vars, model, flow, contents, wanted>>
  BY DEF Booted
<1>1. ~InUse
  BY <1>0 DEF SavedInv, InUse, SaveHolds
<1>2. /\ AsWanted(target)' <=> AsWanted(target)
      /\ AsWanted(tmp)' <=> AsWanted(tmp)
  BY <1>0, WantedIsGood, WantedIsGoodNext DEF vars
<1>3. RestHolds'
  BY <1>0, <1>1, <1>2 DEF SavedInv, RestHolds, vars
<1>4. Expected(model)'
  BY <1>0 DEF SavedInv, Expected
<1> QED
  BY <1>0, <1>1, <1>3, <1>4 DEF SavedInv, InUse, OneAtATime, vars

(* No document is one of a call that was not made yet.                     *)
Past == /\ \A c \in Clients : number[c] <= calls
        /\ \A i \in Calls : data[i] \in Calls => data[i] <= calls

LEMMA NextPast == TypeOK /\ Past /\ [Next]_vars => Past'
<1> SUFFICES ASSUME TypeOK, Past, [Next]_vars PROVE Past'
  OBVIOUS
<1> USE DEF fs, told
<1>0. /\ calls \in Nat /\ MaxCalls \in Nat /\ Calls = 1..MaxCalls
      /\ Empty \notin Calls /\ Torn \notin Calls
      /\ data \in [Calls -> Content] /\ number \in [Clients -> 0..MaxCalls]
  BY ConstantsAssumption DEF TypeOK, Calls, Empty, Torn
<1>1. ASSUME UNCHANGED <<number, calls>>,
             \A i \in Calls : \/ data'[i] = data[i] \/ data'[i] \notin Calls
                              \/ \E c \in Clients : data'[i] = number[c]
      PROVE  Past'
  BY <1>0, <1>1 DEF Past
<1>2. ASSUME NEW c \in Clients, Invoke(c) PROVE Past'
  <2>1. /\ calls' = calls + 1 /\ data' = data
        /\ number' = [number EXCEPT ![c] = calls + 1]
    BY <1>2 DEF Invoke
  <2>2. \A d \in Clients : number'[d] <= calls'
    BY <1>0, <2>1 DEF Past
  <2>3. \A i \in Calls : data'[i] \in Calls => data'[i] <= calls'
    BY <1>0, <2>1 DEF Past
  <2> QED
    BY <2>2, <2>3 DEF Past
<1>3. ASSUME NEW c \in Clients, Step(c) PROVE Past'
  <2>1. UNCHANGED <<number, calls>>
    BY <1>3 DEF Step, Check, Acquire, Open, Write, Look, Remove, Rename,
                Reply, Load
  <2>2. CASE Open(c)
    <3>1. \A i \in Calls : data'[i] = data[i] \/ data'[i] = Empty
      BY <1>0, <2>2 DEF Open
    <3> QED
      BY <1>0, <1>1, <2>1, <3>1
  <2>3. CASE Write(c)
    <3>1. \A i \in Calls : \/ data'[i] = data[i] \/ data'[i] = Torn
                           \/ data'[i] = number[c]
      BY <1>0, <2>3 DEF Write
    <3> QED
      BY <1>0, <1>1, <2>1, <3>1
  <2>4. CASE ~(Open(c) \/ Write(c))
    <3>1. data' = data
      BY <1>3, <2>4 DEF Step, Check, Acquire, Look, Remove, Rename, Reply, Load
    <3> QED
      BY <1>1, <2>1, <3>1
  <2> QED
    BY <2>2, <2>3, <2>4
<1>4. ASSUME NEW c \in Clients, IOFails(c) PROVE Past'
  <2>1. /\ UNCHANGED <<number, calls>>
        /\ \A i \in Calls : data'[i] = data[i] \/ data'[i] = Torn
    BY <1>0, <1>4 DEF IOFails
  <2> QED
    BY <1>0, <1>1, <2>1
<1>5. CASE Kill
  <2>1. /\ UNCHANGED <<number, calls>>
        /\ \A i \in Calls : data'[i] = data[i] \/ data'[i] = Torn
    BY <1>0, <1>5 DEF Kill
  <2> QED
    BY <1>0, <1>1, <2>1
<1>6. CASE UNCHANGED vars
  BY <1>1, <1>6 DEF vars
<1> QED
  BY <1>2, <1>3, <1>4, <1>5, <1>6 DEF Next

LEMMA PastHolds == Spec => []Past
<1>1. Init => Past
  BY ConstantsAssumption DEF Init, Past, Calls, Empty
<1>2. TypeOK /\ Past /\ [Next]_vars => Past'
  BY NextPast
<1> QED
  BY <1>1, <1>2, Typing, PTL DEF Spec

(* A card is saved while no other is being saved.                          *)
LEMMA SavedCommit ==
    ASSUME ConnTypeOK, SavedInv, Past, Calm',
           NEW p \in Providers, NEW c \in Clients, Commit(p, c)
    PROVE  SavedInv'
<1> USE DEF Goto, fs, told
<1>0. /\ stage = "ready" /\ calls < MaxCalls /\ calls \in Nat
      /\ MaxCalls \in Nat /\ Calls = 1..MaxCalls
      /\ UNCHANGED <<stage, target, tmp, data, acked, faults>>
      /\ calls' = calls + 1
      /\ flow' = [flow EXCEPT ![c] = p] /\ p # NoProvider
      /\ model' = Committed(p)
      /\ contents' = [contents EXCEPT ![calls + 1] = Committed(p)]
      /\ wanted' = [k \in Keys |-> IF Owner[k] = p /\ ~Untouched(p, k)
                                   THEN wanted[k] \cup {Committed(p)[k]}
                                   ELSE wanted[k]]
  BY SettingsAssumption, ConstantsAssumption
  DEF Commit, Invoke, ConnTypeOK, TypeOK, Calls
<1>1. ~InUse
  BY DEF Commit, Calm, InUse
<1>2. /\ AsWanted(target) /\ \A k \in Keys : model[k] \in wanted[k]
      /\ target <= calls /\ tmp <= calls /\ acked \subseteq 1..calls
      /\ target # NoFile => target # tmp
      /\ target \in 0..MaxCalls /\ tmp \in 0..MaxCalls
  BY <1>0, <1>1 DEF SavedInv, RestHolds, Expected, ConnTypeOK, TypeOK
<1>3. /\ pc'[c] = "check" /\ op'[c] = "write" /\ number'[c] = calls + 1
  <2>1. Operations[kind][c] = {"write"}
    BY SettingsAssumption DEF ConnTypeOK, TypeOK
  <2> QED
    BY <1>0, <2>1 DEF Commit, Invoke, ConnTypeOK, TypeOK
<1>4. /\ flow'[c] = p /\ \A d \in Clients : d # c => flow'[d] = NoProvider
      /\ contents'[calls + 1] = Committed(p)
  BY <1>0, <1>1 DEF ConnTypeOK, InUse
<1>5. \A k \in Keys : Committed(p)[k] \in wanted'[k]
  <2>1. \A k \in Keys : Owner[k] # p \/ Untouched(p, k) =>
           Committed(p)[k] = model[k]
    BY DEF Committed, Untouched
  <2> QED
    BY <1>0, <1>2, <2>1
<1>6. AsWanted(target)'
  <2>1. Good(target, data, contents, wanted)
    BY <1>2, WantedIsGood
  <2>2. target # NoFile => contents'[data[target]] = contents[data[target]]
    <3>1. target # NoFile => target \in Calls /\ data[target] \in Calls
      BY <1>2, <2>1 DEF Good, Calls, NoFile
    <3>2. target # NoFile => data[target] <= calls
      BY <3>1 DEF Past
    <3>3. target # NoFile => data[target] # calls + 1
      BY <1>0, <3>1, <3>2
    <3> QED
      BY <1>0, <3>1, <3>3 DEF ConnTypeOK
  <2>3. \A k \in Keys : wanted[k] \subseteq wanted'[k]
    BY <1>0
  <2>4. Good(target, data, contents', wanted')
    BY <2>1, <2>2, <2>3, GoodKept
  <2> QED
    BY <1>0, <2>4, WantedIsGoodNext
<1>7. calls + 1 \notin acked /\ target # calls + 1 /\ tmp # calls + 1
  BY <1>0, <1>2
<1>8. SaveHolds(c)'
  BY <1>0, <1>3, <1>4, <1>6, <1>7 DEF SaveHolds
<1>9. /\ target' <= calls' /\ tmp' <= calls' /\ acked' \subseteq 1..calls'
      /\ target' # NoFile => target' # tmp'
  BY <1>0, <1>2
<1> QED
  BY <1>0, <1>4, <1>5, <1>8, <1>9 DEF SavedInv, InUse, OneAtATime, Expected

(* The user is told that the card was saved, and it was.                   *)
LEMMA SavedSaved ==
    ASSUME ConnTypeOK, SavedInv, Calm', NEW c \in Clients, Saved(c)
    PROVE  SavedInv'
<1>0. /\ flow[c] # NoProvider /\ pc[c] = "idle"
      /\ UNCHANGED <<vars, stage, model, contents>>
      /\ flow' = [flow EXCEPT ![c] = NoProvider]
      /\ wanted' = [k \in Keys |-> IF Owner[k] = flow[c]
                                   THEN wanted[k] \cap {contents[number[c]][k]}
                                   ELSE wanted[k]]
  BY DEF Saved, Settled
<1>1. SaveHolds(c)
  BY <1>0 DEF SavedInv, InUse
<1>2. number[c] = calls /\ calls \in Calls /\ contents[calls] = model
      /\ stage = "ready" /\ calls \in acked
      /\ target # NoFile /\ data[target] = calls
  <2>1. number[c] \in acked
    BY DEF Saved, Calm
  <2> QED
    BY <1>0, <1>1, <2>1 DEF SaveHolds
<1>3. \A k \in Keys : model[k] \in wanted'[k]
  BY <1>0, <1>2 DEF SavedInv, Expected
<1>4. AsWanted(target)'
  <2>1. Good(target, data, contents, wanted')
    BY <1>2, <1>3, ModelIsGood
  <2> QED
    BY <1>0, <2>1, WantedIsGoodNext DEF vars
<1>5. \A d \in Clients : flow'[d] = NoProvider
  BY <1>0 DEF SavedInv, OneAtATime, ConnTypeOK
<1> QED
  BY <1>0, <1>3, <1>4, <1>5
  DEF SavedInv, InUse, OneAtATime, RestHolds, Expected, vars

LEMMA NextSavedInv ==
    ASSUME ConnTypeOK, SavedInv, Past, [ConnNext]_allVars, Calm'
    PROVE  SavedInv'
<1>1. CASE UNCHANGED allVars
  BY <1>1, SavedInvAside DEF allVars, app
<1>2. ASSUME NEW p \in Providers,
             \/ ReadEnv(p) \/ EndCheck(p) \/ Test(p) \/ StartEdit(p)
             \/ CancelEdit(p)
             \/ \E k \in Fields(p), v \in Values \cup {Unset} : SetField(p, k, v)
      PROVE  SavedInv'
  BY <1>2, SavedInvAside DEF ReadEnv, EndCheck, Test, StartEdit, CancelEdit,
     SetField, Unwritten
<1>3. CASE Open_Center
  BY <1>3, SavedInvAside DEF Open_Center, Unwritten
<1>4. CASE Load_Settings \/ Booted \/ Restart
  BY <1>4, SavedLoad, SavedBooted, SavedRestart
<1>5. ASSUME NEW p \in Providers, NEW c \in Clients, Commit(p, c)
      PROVE  SavedInv'
  BY <1>5, SavedCommit
<1>6. ASSUME NEW c \in Clients, Saved(c) \/ WriteStep(c) \/ WriteFails(c)
      PROVE  SavedInv'
  BY <1>6, SavedSaved, SavedWriteStep, SavedWriteFails
<1> QED
  BY <1>1, <1>2, <1>3, <1>4, <1>5, <1>6 DEF ConnNext

LEMMA SavedInvStays ==
    ASSUME ConnTypeOK, Calm => SavedInv
    PROVE  SavedStays
<1> SUFFICES ASSUME SavedInv
             PROVE  /\ AsWanted(target) \/ AsWanted(tmp)
                    /\ (faults = 0 /\ \A c \in Clients : pc[c] = "idle") =>
                           AsWanted(target)
  BY DEF SavedStays, Calm
<1>1. CASE ~InUse
  BY <1>1 DEF SavedInv, RestHolds
<1>2. CASE InUse
  <2>1. PICK c \in Clients : flow[c] # NoProvider
    BY <1>2 DEF InUse
  <2>2. SaveHolds(c) /\ stage = "ready" /\ contents[calls] = model
        /\ calls \in Calls /\ \A k \in Keys : model[k] \in wanted[k]
    BY <1>2, <2>1 DEF SavedInv, SaveHolds, Expected
  <2>3. \A i : i # NoFile /\ data[i] = calls =>
           Good(i, data, contents, wanted)
    BY <2>2, ModelIsGood
  <2>4. CASE pc[c] \in {"check", "lock", "open", "write", "look", "remove"}
    BY <2>2, <2>4 DEF SaveHolds
  <2>5. CASE pc[c] = "rename"
    BY <2>2, <2>3, <2>5, WantedIsGood DEF SaveHolds
  <2>6. CASE pc[c] = "reply"
    BY <2>2, <2>3, <2>6, WantedIsGood DEF SaveHolds
  <2>7. CASE pc[c] = "idle"
    BY <2>2, <2>3, <2>7, WantedIsGood DEF SaveHolds
  <2> QED
    BY <2>2, <2>4, <2>5, <2>6, <2>7 DEF SaveHolds, ConnTypeOK, TypeOK, Holding
<1> QED
  BY <1>1, <1>2

(* Unless saves overlapped, a failed one was reported as done, or a start  *)
(* found no .env, every card's values stay as they were last saved: in     *)
(* .env, or under the temporary name after a kill.                         *)
THEOREM SavedAlwaysStays == ConnSpec => []SavedStays
<1>1. ConnInit => SavedInv
  BY InitSavedInv
<1>2. ConnTypeOK /\ Past /\ (Calm => SavedInv) /\ [ConnNext]_allVars
         => (Calm => SavedInv)'
  BY NextSavedInv, CalmBefore
<1>3. ConnTypeOK /\ (Calm => SavedInv) => SavedStays
  BY SavedInvStays
<1>4. ConnSpec => []Past
  BY SettingsAreWrites, PastHolds, PTL
<1> QED
  BY <1>1, <1>2, <1>3, <1>4, ConnTyping, PTL DEF ConnSpec
=============================================================================
