---------------------------- MODULE Connections ----------------------------
(***************************************************************************)
(* The Connection Center of the desktop app: cards on which the user edits *)
(* a provider's part of .env (connections.vm.ts), the settings it is kept  *)
(* in meanwhile (settings.store.ts), and the health of each provider,      *)
(* which the backend probes with what .env holds at that moment            *)
(* (providers.rs).  Saving writes all of .env, in the steps of             *)
(* AtomicWrites.                                                           *)
(*                                                                         *)
(* A card can be edited, cancelled and saved again while it is saved: its  *)
(* buttons turn a spinner but are not disabled.                            *)
(***************************************************************************)
EXTENDS AtomicWrites

CONSTANTS
    Providers,
    Keys,       \* of .env
    Owner,      \* the provider whose card has the key
    Secrets,    \* keys that are masked and never shown in a draft
    Required,   \* keys a card is not saved without
    Defaults,   \* keys with a default
    Values,
    Default,    \* the value of a key left empty that has a default
    Earlier,    \* what an earlier session may have left in .env
    Unset,      \* a key that .env does not have; an empty field of a draft
    MaxActs     \* bound: what the user does

NoProvider == "none"

ASSUME SettingsAssumption ==
    /\ Kinds = {"settings"}
    /\ Operations = [k \in Kinds |-> [c \in Clients |-> {"write"}]]
    /\ Owner \in [Keys -> Providers] /\ NoProvider \notin Providers
    /\ Secrets \subseteq Keys /\ Required \subseteq Keys
    /\ Defaults \subseteq Keys /\ MaxActs \in Nat
    /\ Earlier \subseteq [Keys -> Values \cup {Unset}]
    /\ Default \in Values /\ Unset \notin Values

VARIABLES
    stage,    \* of the boot: "load", "probe" or "ready"
    model,    \* SettingsStore.model.env
    editing,  \* the cards that are being edited
    draft,    \* for each card: what its fields hold
    flow,     \* the card each client's save is for, or NoProvider
    probe,    \* of each provider: "idle", "asked" or "run"
    probed,   \* of each provider: the settings its probe runs with
    health,   \* of each provider: those its last probe ran with, as a set
    contents, \* the settings of each document
    wanted,   \* for each key: the values the user may expect to find
    mishaps,  \* what happened that no handler guards against
    acts      \* bound: what the user did

app == <<stage, model, editing, draft, flow, probe, probed, health,
         contents, wanted, mishaps, acts>>
allVars == <<vars, app>>

Env == [Keys -> Values \cup {Unset}]
NoEnv == [k \in Keys |-> Unset]
Fields(p) == {k \in Keys : Owner[k] = p}
Part(env, p) == [k \in Fields(p) |-> env[k]]
Nothing(p) == Part(NoEnv, p)

(* read_env: a missing file reads as an empty one; a torn one has for each *)
(* key a value of some document, or none.                                  *)
OnDisk ==
    IF target = NoFile \/ data[target] = Empty THEN {NoEnv}
    ELSE IF data[target] \in Documents THEN {contents[data[target]]}
    ELSE {env \in Env : \A k \in Keys :
             env[k] \in {Unset} \cup {contents[n][k] : n \in 1..calls}}

ConnInit ==
    /\ Init
    /\ stage = "load"
    /\ model = NoEnv
    /\ editing = {} /\ draft = [p \in Providers |-> Nothing(p)]
    /\ flow = [c \in Clients |-> NoProvider]
    /\ probe = [p \in Providers |-> "idle"]
    /\ probed = [p \in Providers |-> Nothing(p)]
    /\ health = [p \in Providers |-> {}]
    /\ \E env \in IF target = NoFile THEN {NoEnv} ELSE Earlier :
          /\ contents = [n \in Calls |-> env]
          /\ wanted = [k \in Keys |-> {env[k]}]
    /\ mishaps = {} /\ acts = 0

-----------------------------------------------------------------------------
(* Health probes                                                           *)

(* test: a provider that is being checked is not checked again.            *)
Asked(ids) == [p \in Providers |->
                 IF p \in ids /\ probe[p] = "idle" THEN "asked" ELSE probe[p]]

(* Between removing .env and putting the new one there is none to read.    *)
Gap == target = NoFile /\ \E c \in Clients : pc[c] = "rename"

(* providers_health reads .env, then asks the provider.                    *)
ReadEnv(p) ==
    /\ probe[p] = "asked"
    /\ probe' = [probe EXCEPT ![p] = "run"]
    /\ \E env \in OnDisk : probed' = [probed EXCEPT ![p] = Part(env, p)]
    /\ mishaps' = IF Gap THEN mishaps \cup {"gap"} ELSE mishaps
    /\ UNCHANGED <<vars, stage, model, editing, draft, flow, health, contents,
                   wanted, acts>>

(* endCheck                                                                *)
EndCheck(p) ==
    /\ probe[p] = "run"
    /\ probe' = [probe EXCEPT ![p] = "idle"]
    /\ probed' = [probed EXCEPT ![p] = Nothing(p)]
    /\ health' = [health EXCEPT ![p] = {probed[p]}]
    /\ UNCHANGED <<vars, stage, model, editing, draft, flow, contents, wanted,
                   mishaps, acts>>

-----------------------------------------------------------------------------
(* Boot                                                                    *)

(* settings_load, then all providers are probed.                           *)
Load_Settings ==
    /\ stage = "load" /\ stage' = "probe"
    /\ \E env \in OnDisk :
          /\ model' = env
          /\ mishaps' = IF target = NoFile /\
                           \E k \in Keys : Unset \notin wanted[k]
                        THEN mishaps \cup {"missing"} ELSE mishaps
    /\ probe' = Asked(Providers)
    /\ UNCHANGED <<vars, editing, draft, flow, probed, health, contents,
                   wanted, acts>>

Booted ==
    /\ stage = "probe" /\ stage' = "ready"
    /\ \A p \in Providers : probe[p] = "idle"
    /\ UNCHANGED <<vars, model, editing, draft, flow, probe, probed, health,
                   contents, wanted, mishaps, acts>>

-----------------------------------------------------------------------------
(* The cards                                                               *)

Act == acts < MaxActs /\ acts' = acts + 1
Unwritten == <<vars, stage, model, flow, probed, health, contents, wanted,
               mishaps>>

(* The center is opened: testAll.                                          *)
Open_Center ==
    /\ Act
    /\ stage = "ready"
    /\ probe' = Asked(Providers)
    /\ UNCHANGED <<Unwritten, editing, draft>>

(* The Test button of a card.                                              *)
Test(p) ==
    /\ Act
    /\ stage = "ready" /\ p \notin editing
    /\ probe' = Asked({p})
    /\ UNCHANGED <<Unwritten, editing, draft>>

(* startEdit: fields start with the values of the model, secrets empty.    *)
StartEdit(p) ==
    /\ Act
    /\ stage = "ready" /\ p \notin editing
    /\ editing' = editing \cup {p}
    /\ draft' = [draft EXCEPT ![p] = [k \in Fields(p) |->
                    IF k \in Secrets THEN Unset ELSE model[k]]]
    /\ UNCHANGED <<Unwritten, probe>>

CancelEdit(p) ==
    /\ Act
    /\ p \in editing /\ editing' = editing \ {p}
    /\ draft' = [draft EXCEPT ![p] = Nothing(p)]
    /\ UNCHANGED <<Unwritten, probe>>

SetField(p, k, v) ==
    /\ Act
    /\ p \in editing
    /\ draft' = [draft EXCEPT ![p][k] = v]
    /\ UNCHANGED <<Unwritten, editing, probe>>

(* validate: required fields are not empty, not even untouched secrets.    *)
Valid(p) == \A k \in Fields(p) \cap Required : draft[p][k] # Unset

(* Mutant: an untouched secret is taken for an empty one.                  *)
CommittedMutant(p) == [k \in Keys |->
    IF Owner[k] # p THEN model[k]
    ELSE IF draft[p][k] # Unset THEN draft[p][k]
    ELSE IF k \in Defaults THEN Default ELSE Unset]

(* The draft replaces the provider's keys; an empty field is set to its    *)
(* default or dropped, a secret kept.                                      *)
Committed(p) == [k \in Keys |->
    IF Owner[k] # p THEN model[k]
    ELSE IF draft[p][k] # Unset THEN draft[p][k]
    ELSE IF k \in Secrets THEN model[k]
    ELSE IF k \in Defaults THEN Default ELSE Unset]

(* A secret that is left alone is to stay what it is.                      *)
Untouched(p, k) == k \in Secrets /\ draft[p][k] = Unset

(* Which of the threads takes a call makes no difference.                  *)
Takes(c) == /\ flow[c] = NoProvider
            /\ c = CHOOSE d \in Clients : flow[d] = NoProvider

(* commit: the model changes at once, the file is asked to follow.         *)
Commit(p, c) ==
    /\ Act
    /\ stage = "ready"
    /\ p \in editing /\ Valid(p)
    /\ Takes(c)
    /\ Invoke(c) /\ UNCHANGED kind
    /\ flow' = [flow EXCEPT ![c] = p]
    /\ model' = Committed(p)
    /\ contents' = [contents EXCEPT ![calls + 1] = Committed(p)]
    /\ wanted' = [k \in Keys |-> IF Owner[k] = p /\ ~Untouched(p, k)
                                 THEN wanted[k] \cup {Committed(p)[k]}
                                 ELSE wanted[k]]
    /\ mishaps' = IF \E d \in Clients : flow[d] # NoProvider
                  THEN mishaps \cup {"overlap"} ELSE mishaps
    /\ UNCHANGED <<stage, editing, draft, probe, probed, health>>

(* Mutant: the save is not awaited.                                        *)
SettledMutant(c) == TRUE

(* The save was answered, with Ok or with an error.                        *)
Settled(c) == pc[c] = "idle"

(* Mutant: the provider is not tested after it was saved.                  *)
RetestedMutant(p) == probe

(* The card's provider is tested, unless it is being tested already.       *)
Retested(p) == Asked({p})

(* SettingsStore.save keeps an error to itself: either way the user is     *)
(* told that the card was saved, and the card is closed.                   *)
Saved(c) ==
    /\ flow[c] # NoProvider /\ Settled(c)
    /\ LET p == flow[c] IN
          /\ editing' = editing \ {p}
          /\ draft' = [draft EXCEPT ![p] = Nothing(p)]
          /\ probe' = Retested(p)
          /\ wanted' = [k \in Keys |-> IF Owner[k] = p
                                       THEN wanted[k] \cap
                                            {contents[number[c]][k]}
                                       ELSE wanted[k]]
          /\ mishaps' = mishaps
                \cup (IF number[c] \in acked THEN {} ELSE {"swallowed"})
                \cup (IF probe[p] = "idle" THEN {} ELSE {"skipped"})
    /\ flow' = [flow EXCEPT ![c] = NoProvider]
    /\ UNCHANGED <<vars, stage, model, probed, health, contents, acts>>

-----------------------------------------------------------------------------
(* Writing, failing and being killed                                       *)

WriteStep(c) == Step(c) /\ UNCHANGED app

WriteFails(c) == IOFails(c) /\ UNCHANGED <<kind, app>>

(* The app is killed and started again.                                    *)
Restart ==
    /\ Kill /\ UNCHANGED kind
    /\ stage' = "load"
    /\ model' = NoEnv
    /\ editing' = {} /\ draft' = [p \in Providers |-> Nothing(p)]
    /\ flow' = [c \in Clients |-> NoProvider]
    /\ probe' = [p \in Providers |-> "idle"]
    /\ probed' = [p \in Providers |-> Nothing(p)]
    /\ health' = [p \in Providers |-> {}]
    /\ UNCHANGED <<contents, wanted, mishaps, acts>>

ConnNext ==
    \/ Load_Settings \/ Booted \/ Open_Center \/ Restart
    \/ \E p \in Providers :
          \/ ReadEnv(p) \/ EndCheck(p)
          \/ Test(p) \/ StartEdit(p) \/ CancelEdit(p)
          \/ \E k \in Fields(p), v \in Values \cup {Unset} : SetField(p, k, v)
          \/ \E c \in Clients : Commit(p, c)
    \/ \E c \in Clients : Saved(c) \/ WriteStep(c) \/ WriteFails(c)

ConnSpec == ConnInit /\ [][ConnNext]_allVars

(* The backend and the event loop go on by themselves, the user need not.  *)
FairConnSpec ==
    /\ ConnSpec
    /\ WF_allVars(Load_Settings) /\ WF_allVars(Booted)
    /\ \A p \in Providers : WF_allVars(ReadEnv(p)) /\ WF_allVars(EndCheck(p))
    /\ \A c \in Clients : WF_allVars(WriteStep(c)) /\ WF_allVars(Saved(c))

-----------------------------------------------------------------------------
(* Properties                                                              *)

Parts(p) == [Fields(p) -> Values \cup {Unset}]
Mishaps == {"overlap", "swallowed", "missing", "skipped", "gap"}

(* Every variable keeps its shape, and a call that is under way belongs to *)
(* a card that waits for it.                                               *)
ConnTypeOK ==
    /\ TypeOK
    /\ stage \in {"load", "probe", "ready"}
    /\ model \in Env
    /\ editing \subseteq Providers
    /\ DOMAIN draft = Providers /\ DOMAIN probed = Providers
    /\ flow \in [Clients -> Providers \cup {NoProvider}]
    /\ \A c \in Clients : pc[c] # "idle" => flow[c] # NoProvider
    /\ probe \in [Providers -> {"idle", "asked", "run"}]
    /\ DOMAIN health = Providers
    /\ \A p \in Providers :
          /\ draft[p] \in Parts(p) /\ probed[p] \in Parts(p)
          /\ health[p] \subseteq Parts(p)
    /\ contents \in [Calls -> Env]
    /\ wanted \in [Keys -> SUBSET (Values \cup {Unset})]
    /\ mishaps \subseteq Mishaps /\ acts \in 0..MaxActs

(* The settings a name of the file system stands for.                      *)
Holds(i, env) == \/ i = NoFile /\ env = NoEnv
                 \/ i # NoFile /\ data[i] \in Documents
                       /\ env = contents[data[i]]

AsWanted(i) == \E env \in {NoEnv} \cup {contents[n] : n \in Calls} :
    Holds(i, env) /\ \A k \in Keys : env[k] \in wanted[k]

(* Every card's values stay as they were last saved, also when other cards *)
(* are saved and wherever the app is killed; after a kill they may be left *)
(* under the temporary name.  Three things break this: overlapping saves,  *)
(* a save that failed and was reported as done, and a start that finds no  *)
(* .env because the last save was cut short.                               *)
SavedStays ==
    (mishaps \cap {"overlap", "swallowed", "missing"} = {}) =>
        /\ AsWanted(target) \/ AsWanted(tmp)
        /\ (faults = 0 /\ \A c \in Clients : pc[c] = "idle") =>
               AsWanted(target)

(* The health a card ends up with is that of the settings .env has, unless *)
(* saves overlapped or failed, .env was read while it was being replaced,  *)
(* or the test after a save was skipped for one that began before it.      *)
HealthSettles == <>[](
    \/ mishaps \cap {"overlap", "swallowed", "skipped", "gap"} # {}
    \/ \A p \in Providers : \E env \in OnDisk : health[p] = {Part(env, p)})
=============================================================================
