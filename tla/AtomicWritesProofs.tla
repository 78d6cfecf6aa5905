------------------------- MODULE AtomicWritesProofs -------------------------
(***************************************************************************)
(* What holds of AtomicWrites for any clients, calls and faults.           *)
(*                                                                         *)
(* Typing is the type invariant.  WholeFileAlways is the point of writing  *)
(* to a temporary file: if writers exclude each other, by csv_lock or      *)
(* because only one client writes, nobody ever opens a half-written file.  *)
(* WholeFile is not inductive: Inv adds that at most one call is between   *)
(* opening and renaming, that the inode it writes is the temporary one and *)
(* is not the target, and that it renames a whole document.                *)
(*                                                                         *)
(* AckedAlwaysStays and FirstFaultDestroysNothing say that what was        *)
(* answered Ok is not lost, by a writer that only renames and by one that  *)
(* removes the target first until something fails.  Kept and UntilAFault   *)
(* add that a call renames its own document, which no answered call can    *)
(* have superseded, and that the target is missing only while a call that  *)
(* removed it is about to rename.                                          *)
(***************************************************************************)
EXTENDS AtomicWrites, TLAPS

-----------------------------------------------------------------------------
(* Type correctness                                                        *)

(* The type invariant holds in every initial state.                        *)
LEMMA FirstState == Init => TypeOK
<1> USE ConstantsAssumption
<1>1. ASSUME Init PROVE TypeOK
  <2> USE <1>1 DEF Init
  <2>1. target \in 0..MaxCalls /\ tmp \in 0..MaxCalls
    BY DEF NoFile
  <2>2. data \in [Calls -> Content]
    BY DEF Empty, Content, Calls
  <2>3. /\ pc \in [Clients -> {"idle", "check", "lock", "reply", "load"}
                                 \cup Holding]
        /\ op \in [Clients -> Ops]
        /\ lock \in Clients \cup {NoOne}
        /\ (lock # NoOne => pc[lock] \in Holding)
    BY DEF Ops
  <2>4. /\ number \in [Clients -> 0..MaxCalls]
        /\ (\A c \in Clients : pc[c] # "idle" => number[c] \in Calls)
        /\ handle \in [Clients -> 0..MaxCalls]
        /\ seen \in [Clients -> Content]
    BY DEF Empty, NoFile, Content
  <2>5. /\ acked \subseteq Calls
        /\ known \in [Calls -> SUBSET Calls]
        /\ calls \in 0..MaxCalls /\ faults \in 0..MaxFaults
    BY DEF Calls
  <2> QED BY <2>1, <2>2, <2>3, <2>4, <2>5 DEF TypeOK
<1> QED BY <1>1

(* Every step keeps the type invariant.                                    *)
LEMMA StepTyping == TypeOK /\ [Next]_vars => TypeOK'
<1> SUFFICES ASSUME TypeOK, [Next]_vars PROVE TypeOK'
  OBVIOUS
<1>0. kind' = kind
  BY DEF Next, Step, vars
<1> USE ConstantsAssumption, <1>0 DEF TypeOK, Goto, Calls, Content, Torn, Empty,
        NoFile, Holding, fs, told
<1>1. CASE UNCHANGED vars
  BY <1>1 DEF vars
<1>2. ASSUME NEW c \in Clients, Invoke(c) PROVE TypeOK'
  <2>1. calls + 1 \in Calls
    BY <1>2 DEF Invoke
  <2>2. /\ pc' \in [Clients -> {"idle", "check", "lock", "reply", "load"}
                                  \cup Holding]
        /\ op' \in [Clients -> Ops]
        /\ (lock' # NoOne => pc'[lock'] \in Holding)
    BY <1>2 DEF Invoke
  <2>3. /\ number' \in [Clients -> 0..MaxCalls]
        /\ (\A d \in Clients : pc'[d] # "idle" => number'[d] \in Calls)
    BY <1>2, <2>1 DEF Invoke
  <2>4. known' \in [Calls -> SUBSET Calls]
    BY <1>2, <2>1 DEF Invoke
  <2> QED BY <1>2, <2>1, <2>2, <2>3, <2>4 DEF Invoke
<1>3. ASSUME NEW c \in Clients, Check(c) PROVE TypeOK'
  BY <1>3 DEF Check
<1>4. ASSUME NEW c \in Clients, Acquire(c) PROVE TypeOK'
  BY <1>4 DEF Acquire
<1>5. ASSUME NEW c \in Clients, Open(c) PROVE TypeOK'
  <2>1. /\ pc' \in [Clients -> {"idle", "check", "lock", "reply", "load"}
                                  \cup Holding]
        /\ (\A d \in Clients : pc'[d] # "idle" => number'[d] \in Calls)
    BY <1>5 DEF Open
  <2>2. /\ lock' \in Clients \cup {NoOne}
        /\ (lock' # NoOne => pc'[lock'] \in Holding)
    BY <1>5 DEF Open
  <2>3. /\ target' \in 0..MaxCalls /\ tmp' \in 0..MaxCalls
        /\ data' \in [Calls -> Content]
    BY <1>5 DEF Open
  <2>4. /\ op' \in [Clients -> Ops]
        /\ number' \in [Clients -> 0..MaxCalls]
        /\ handle' \in [Clients -> 0..MaxCalls]
    BY <1>5 DEF Open
  <2>5. /\ seen' \in [Clients -> Content]
        /\ acked' \subseteq Calls
        /\ known' \in [Calls -> SUBSET Calls]
        /\ calls' \in 0..MaxCalls /\ faults' \in 0..MaxFaults
    BY <1>5 DEF Open
  <2> QED BY <2>1, <2>2, <2>3, <2>4, <2>5
<1>6. ASSUME NEW c \in Clients, Write(c) PROVE TypeOK'
  <2>1. /\ pc' \in [Clients -> {"idle", "check", "lock", "reply", "load"}
                                  \cup Holding]
        /\ (\A d \in Clients : pc'[d] # "idle" => number'[d] \in Calls)
    BY <1>6 DEF Write
  <2>2. /\ lock' \in Clients \cup {NoOne}
        /\ (lock' # NoOne => pc'[lock'] \in Holding)
    BY <1>6 DEF Write
  <2>3. /\ target' \in 0..MaxCalls /\ tmp' \in 0..MaxCalls
        /\ data' \in [Calls -> Content]
    <3>1. number[c] \in Content /\ MaxCalls + 1 \in Content
      OBVIOUS
    <3>2. PICK d \in {number[c], MaxCalls + 1} :
             data' = [data EXCEPT ![handle[c]] = d]
      BY <1>6 DEF Write
    <3>3. data' \in [Calls -> Content]
      BY <3>1, <3>2, Zenon
    <3> QED BY <3>3, <1>6 DEF Write
  <2>4. /\ op' \in [Clients -> Ops]
        /\ number' \in [Clients -> 0..MaxCalls]
        /\ handle' \in [Clients -> 0..MaxCalls]
    BY <1>6 DEF Write
  <2>5. /\ seen' \in [Clients -> Content]
        /\ acked' \subseteq Calls
        /\ known' \in [Calls -> SUBSET Calls]
        /\ calls' \in 0..MaxCalls /\ faults' \in 0..MaxFaults
    BY <1>6 DEF Write
  <2> QED BY <2>1, <2>2, <2>3, <2>4, <2>5
<1>7. ASSUME NEW c \in Clients, Look(c) PROVE TypeOK'
  BY <1>7 DEF Look
<1>8. ASSUME NEW c \in Clients, Remove(c) PROVE TypeOK'
  <2>1. /\ pc' \in [Clients -> {"idle", "check", "lock", "reply", "load"}
                                  \cup Holding]
        /\ (\A d \in Clients : pc'[d] # "idle" => number'[d] \in Calls)
    BY <1>8 DEF Remove, Fail, Release
  <2>2. /\ lock' \in Clients \cup {NoOne}
        /\ (lock' # NoOne => pc'[lock'] \in Holding)
    BY <1>8 DEF Remove, Fail, Release
  <2>3. /\ target' \in 0..MaxCalls /\ tmp' \in 0..MaxCalls
        /\ data' \in [Calls -> Content]
    BY <1>8 DEF Remove, Fail, Release
  <2>4. /\ op' \in [Clients -> Ops]
        /\ number' \in [Clients -> 0..MaxCalls]
        /\ handle' \in [Clients -> 0..MaxCalls]
    BY <1>8 DEF Remove, Fail, Release
  <2>5. /\ seen' \in [Clients -> Content]
        /\ acked' \subseteq Calls
        /\ known' \in [Calls -> SUBSET Calls]
        /\ calls' \in 0..MaxCalls /\ faults' \in 0..MaxFaults
    BY <1>8 DEF Remove, Fail, Release
  <2> QED BY <2>1, <2>2, <2>3, <2>4, <2>5
<1>9. ASSUME NEW c \in Clients, Rename(c) PROVE TypeOK'
  <2>1. /\ pc' \in [Clients -> {"idle", "check", "lock", "reply", "load"}
                                  \cup Holding]
        /\ (\A d \in Clients : pc'[d] # "idle" => number'[d] \in Calls)
    BY <1>9 DEF Rename, Fail, Release
  <2>2. /\ lock' \in Clients \cup {NoOne}
        /\ (lock' # NoOne => pc'[lock'] \in Holding)
    BY <1>9 DEF Rename, Fail, Release
  <2>3. /\ target' \in 0..MaxCalls /\ tmp' \in 0..MaxCalls
        /\ data' \in [Calls -> Content]
    BY <1>9 DEF Rename, Fail, Release
  <2>4. /\ op' \in [Clients -> Ops]
        /\ number' \in [Clients -> 0..MaxCalls]
        /\ handle' \in [Clients -> 0..MaxCalls]
    BY <1>9 DEF Rename, Fail, Release
  <2>5. /\ seen' \in [Clients -> Content]
        /\ acked' \subseteq Calls
        /\ known' \in [Calls -> SUBSET Calls]
        /\ calls' \in 0..MaxCalls /\ faults' \in 0..MaxFaults
    BY <1>9 DEF Rename, Fail, Release
  <2> QED BY <2>1, <2>2, <2>3, <2>4, <2>5
<1>10. ASSUME NEW c \in Clients, Reply(c) PROVE TypeOK'
  <2>1. /\ pc' \in [Clients -> {"idle", "check", "lock", "reply", "load"}
                                  \cup Holding]
        /\ (\A d \in Clients : pc'[d] # "idle" => number'[d] \in Calls)
    BY <1>10 DEF Reply
  <2>2. /\ lock' \in Clients \cup {NoOne}
        /\ (lock' # NoOne => pc'[lock'] \in Holding)
    BY <1>10 DEF Reply
  <2>3. /\ target' \in 0..MaxCalls /\ tmp' \in 0..MaxCalls
        /\ data' \in [Calls -> Content]
    BY <1>10 DEF Reply
  <2>4. /\ op' \in [Clients -> Ops]
        /\ number' \in [Clients -> 0..MaxCalls]
        /\ handle' \in [Clients -> 0..MaxCalls]
    BY <1>10 DEF Reply
  <2>5. /\ seen' \in [Clients -> Content]
        /\ acked' \subseteq Calls
        /\ known' \in [Calls -> SUBSET Calls]
        /\ calls' \in 0..MaxCalls /\ faults' \in 0..MaxFaults
    BY <1>10 DEF Reply
  <2> QED BY <2>1, <2>2, <2>3, <2>4, <2>5
<1>11. ASSUME NEW c \in Clients, Load(c) PROVE TypeOK'
  BY <1>11 DEF Load
<1>12. ASSUME NEW c \in Clients, IOFails(c) PROVE TypeOK'
  <2>1. /\ pc' \in [Clients -> {"idle", "check", "lock", "reply", "load"}
                                  \cup Holding]
        /\ (\A d \in Clients : pc'[d] # "idle" => number'[d] \in Calls)
    BY <1>12 DEF IOFails, Fail, Release
  <2>2. /\ lock' \in Clients \cup {NoOne}
        /\ (lock' # NoOne => pc'[lock'] \in Holding)
    BY <1>12 DEF IOFails, Fail, Release
  <2>3. /\ target' \in 0..MaxCalls /\ tmp' \in 0..MaxCalls
        /\ data' \in [Calls -> Content]
    <3>1. MaxCalls + 1 \in Content
      OBVIOUS
    <3>2. data' = data \/ data' = [data EXCEPT ![handle[c]] = MaxCalls + 1]
      BY <1>12 DEF IOFails
    <3>3. data' \in [Calls -> Content]
      BY <3>1, <3>2
    <3> QED BY <3>3, <1>12 DEF IOFails
  <2>4. /\ op' \in [Clients -> Ops]
        /\ number' \in [Clients -> 0..MaxCalls]
        /\ handle' \in [Clients -> 0..MaxCalls]
    BY <1>12 DEF IOFails, Fail, Release
  <2>5. /\ seen' \in [Clients -> Content]
        /\ acked' \subseteq Calls
        /\ known' \in [Calls -> SUBSET Calls]
        /\ calls' \in 0..MaxCalls /\ faults' \in 0..MaxFaults
    BY <1>12 DEF IOFails, Fail, Release
  <2> QED BY <2>1, <2>2, <2>3, <2>4, <2>5
<1>13. ASSUME Kill PROVE TypeOK'
  BY <1>13 DEF Kill
<1> QED
  BY <1>1, <1>2, <1>3, <1>4, <1>5, <1>6, <1>7, <1>8, <1>9, <1>10, <1>11,
     <1>12, <1>13 DEF Next, Step

(* Every variable keeps its shape, and csv_lock is held by a call that is  *)
(* writing: no path out of a write leaves it behind.                       *)
THEOREM Typing == Spec => []TypeOK
<1>1. Init => TypeOK
  BY FirstState
<1>2. TypeOK /\ [Next]_vars => TypeOK'
  BY StepTyping
<1> QED BY <1>1, <1>2, PTL DEF Spec

-----------------------------------------------------------------------------
(* No half-written file                                                    *)

(* Writers exclude each other: by the lock of CSV writes, or because at    *)
(* most one client does anything but load.                                 *)
Discipline == \A k \in Kinds : k = "csv" \/ \E w \in Clients :
    \A c \in Clients \ {w} : Operations[k][c] \subseteq {"load"}

LoadersLoad == \A c \in Clients :
    Operations[kind][c] \subseteq {"load"} => pc[c] \in {"idle", "load"}

LockHeld == Locked => \A c \in Clients : pc[c] \in Holding => lock = c

(* Calls under way have different numbers, and none ahead of the counter.  *)
Numbered ==
    /\ \A c \in Clients : pc[c] # "idle" => number[c] <= calls
    /\ \A c, d \in Clients :
          pc[c] # "idle" /\ pc[d] # "idle" /\ number[c] = number[d] => c = d

(* The two names never share an inode, and a call that has not opened its  *)
(* file yet finds the inode of its number unused.                          *)
Separate ==
    /\ target <= calls /\ tmp <= calls
    /\ target # NoFile => target # tmp
    /\ \A c \in Clients : pc[c] \in {"check", "lock", "open"} =>
          number[c] # target /\ number[c] # tmp

(* A call writes to the empty temporary file and renames a whole one.      *)
Written == \A c \in Clients :
    /\ pc[c] = "write" =>
          tmp # NoFile /\ handle[c] = tmp /\ data[tmp] = Empty
    /\ pc[c] \in {"look", "remove", "rename"} =>
          tmp # NoFile /\ data[tmp] \in Documents

Inv == /\ TypeOK /\ LoadersLoad /\ LockHeld /\ Numbered
       /\ Separate /\ Written /\ WholeFile

(* Under the discipline at most one call is between lock and rename.       *)
LEMMA Alone ==
    ASSUME Discipline, TypeOK, LoadersLoad, LockHeld,
           NEW c \in Clients, NEW d \in Clients,
           pc[c] \in Holding, pc[d] \in Holding
    PROVE  c = d
<1>1. CASE Locked
  BY <1>1 DEF LockHeld, Locked
<1>2. CASE ~Locked
  <2>1. PICK w \in Clients :
           \A e \in Clients \ {w} : Operations[kind][e] \subseteq {"load"}
    BY <1>2 DEF Discipline, Locked, TypeOK
  <2>2. ASSUME NEW e \in Clients, pc[e] \in Holding PROVE e = w
    BY <2>1, <2>2 DEF LoadersLoad, Holding
  <2> QED BY <2>2
<1> QED BY <1>1, <1>2

(* Every step of a disciplined system keeps the invariant.                 *)
LEMMA InvStep ==
    ASSUME Discipline, Inv, [Next]_vars
    PROVE  Inv'
<1>0. kind' = kind
  BY DEF Next, Step, vars
<1> USE ConstantsAssumption, <1>0 DEF TypeOK, Goto, fs, told, NoFile, Empty,
        Torn, Calls, Documents
<1>1. TypeOK'
  BY StepTyping DEF Inv
<1>2. CASE UNCHANGED vars
  <2>1. LoadersLoad' /\ LockHeld' /\ Numbered'
    BY <1>2 DEF vars, Inv, LoadersLoad, LockHeld, Locked, Numbered
  <2>2. Separate' /\ Written' /\ WholeFile'
    BY <1>2 DEF vars, Inv, Separate, Written, WholeFile
  <2> QED BY <1>1, <2>1, <2>2 DEF Inv
<1>3. ASSUME NEW c \in Clients, Invoke(c) PROVE Inv'
  <2>1. LoadersLoad'
    BY <1>3 DEF Invoke, Inv, Holding, LoadersLoad
  <2>2. LockHeld'
    BY <1>3 DEF Invoke, Inv, Holding, LockHeld, Locked
  <2>3. Numbered'
    BY <1>3 DEF Invoke, Inv, Numbered
  <2>4. Separate'
    BY <1>3 DEF Invoke, Inv, Holding, Numbered, Separate
  <2>5. Written'
    BY <1>3 DEF Invoke, Inv, Holding, Separate, Written
  <2>6. WholeFile'
    BY <1>3 DEF Invoke, Inv, Holding, Separate,
       Written, WholeFile
  <2> QED BY <1>1, <2>1, <2>2, <2>3, <2>4, <2>5, <2>6 DEF Inv
<1>4. ASSUME NEW c \in Clients, Check(c) PROVE Inv'
  <2>1. LoadersLoad'
    BY <1>4 DEF Check, Refuses, Inv, Holding, LoadersLoad
  <2>2. LockHeld'
    BY <1>4 DEF Check, Refuses, Inv, Holding, LockHeld, Locked
  <2>3. Numbered'
    BY <1>4 DEF Check, Refuses, Inv, Numbered
  <2>4. Separate'
    BY <1>4 DEF Check, Refuses, Inv, Holding, Numbered, Separate
  <2>5. Written'
    BY <1>4 DEF Check, Refuses, Inv, Holding, Separate, Written
  <2>6. WholeFile'
    BY <1>4 DEF Check, Refuses, Inv, Holding, Separate,
       Written, WholeFile
  <2> QED BY <1>1, <2>1, <2>2, <2>3, <2>4, <2>5, <2>6 DEF Inv
<1>5. ASSUME NEW c \in Clients, Acquire(c) PROVE Inv'
  <2>1. LoadersLoad'
    BY <1>5 DEF Acquire, Inv, Holding, LoadersLoad
  <2>2. LockHeld'
    BY <1>5 DEF Acquire, Inv, Holding, LockHeld, Locked
  <2>3. Numbered'
    BY <1>5 DEF Acquire, Inv, Numbered
  <2>4. Separate'
    BY <1>5 DEF Acquire, Inv, Holding, Numbered, Separate
  <2>5. Written'
    BY <1>5 DEF Acquire, Inv, Holding, Separate, Written
  <2>6. WholeFile'
    BY <1>5 DEF Acquire, Inv, Holding, Separate,
       Written, WholeFile
  <2> QED BY <1>1, <2>1, <2>2, <2>3, <2>4, <2>5, <2>6 DEF Inv
<1>6. ASSUME NEW c \in Clients, Open(c) PROVE Inv'
  <2>1. \A d \in Clients \ {c} : pc[d] \notin Holding
    BY <1>6, Alone DEF Open, Inv, Holding
  <2>2. LoadersLoad'
    BY <1>6, <2>1 DEF Open, Inv, Holding, LoadersLoad
  <2>3. LockHeld'
    BY <1>6, <2>1 DEF Open, Inv, Holding, LockHeld, Locked
  <2>4. Numbered'
    BY <1>6, <2>1 DEF Open, Inv, Numbered
  <2>5. Separate'
    BY <1>6, <2>1 DEF Open, Inv, Holding, Numbered, Separate
  <2>6. Written'
    BY <1>6, <2>1 DEF Open, Inv, Holding, Separate, Written
  <2>7. WholeFile'
    BY <1>6, <2>1 DEF Open, Inv, Holding, Separate,
       Written, WholeFile
  <2> QED BY <1>1, <2>2, <2>3, <2>4, <2>5, <2>6, <2>7 DEF Inv
<1>7. ASSUME NEW c \in Clients, Write(c) PROVE Inv'
  <2>1. \A d \in Clients \ {c} : pc[d] \notin Holding
    BY <1>7, Alone DEF Write, Inv, Holding
  <2>2. LoadersLoad'
    BY <1>7, <2>1 DEF Write, Inv, Holding, LoadersLoad
  <2>3. LockHeld'
    BY <1>7, <2>1 DEF Write, Inv, Holding, LockHeld, Locked
  <2>4. Numbered'
    BY <1>7, <2>1 DEF Write, Inv, Numbered
  <2>5. Separate'
    BY <1>7, <2>1 DEF Write, Inv, Holding, Numbered, Separate
  <2>6. Written'
    BY <1>7, <2>1 DEF Write, Inv, Holding, Separate, Written
  <2>7. WholeFile'
    BY <1>7, <2>1 DEF Write, Inv, Holding, Separate,
       Written, WholeFile
  <2> QED BY <1>1, <2>2, <2>3, <2>4, <2>5, <2>6, <2>7 DEF Inv
<1>8. ASSUME NEW c \in Clients, Look(c) PROVE Inv'
  <2>1. \A d \in Clients \ {c} : pc[d] \notin Holding
    BY <1>8, Alone DEF Look, Inv, Holding
  <2>2. LoadersLoad'
    BY <1>8, <2>1 DEF Look, Inv, Holding, LoadersLoad
  <2>3. LockHeld'
    BY <1>8, <2>1 DEF Look, Inv, Holding, LockHeld, Locked
  <2>4. Numbered'
    BY <1>8, <2>1 DEF Look, Inv, Numbered
  <2>5. Separate'
    BY <1>8, <2>1 DEF Look, Inv, Holding, Numbered, Separate
  <2>6. Written'
    BY <1>8, <2>1 DEF Look, Inv, Holding, Separate, Written
  <2>7. WholeFile'
    BY <1>8, <2>1 DEF Look, Inv, Holding, Separate,
       Written, WholeFile
  <2> QED BY <1>1, <2>2, <2>3, <2>4, <2>5, <2>6, <2>7 DEF Inv
<1>9. ASSUME NEW c \in Clients, Remove(c) PROVE Inv'
  <2>1. \A d \in Clients \ {c} : pc[d] \notin Holding
    BY <1>9, Alone DEF Remove, Inv, Holding
  <2>2. LoadersLoad'
    BY <1>9, <2>1 DEF Remove, Fail, Release, Inv, Holding, LoadersLoad
  <2>3. LockHeld'
    <3>1. \A d \in Clients : pc'[d] \in Holding => d = c /\ lock' = lock
      BY <1>9, <2>1 DEF Remove, Fail, Release, Inv, Holding
    <3>2. pc[c] \in Holding
      BY <1>9 DEF Remove, Holding
    <3> QED BY <3>1, <3>2 DEF Inv, LockHeld, Locked
  <2>4. Numbered'
    BY <1>9, <2>1 DEF Remove, Fail, Release, Inv, Numbered
  <2>5. Separate'
    BY <1>9, <2>1 DEF Remove, Fail, Release, Inv, Holding, Numbered, Separate
  <2>6. Written'
    BY <1>9, <2>1 DEF Remove, Fail, Release, Inv, Holding, Separate, Written
  <2>7. WholeFile'
    BY <1>9, <2>1 DEF Remove, Fail, Release, Inv, Holding, Separate,
       Written, WholeFile
  <2> QED BY <1>1, <2>2, <2>3, <2>4, <2>5, <2>6, <2>7 DEF Inv
<1>10. ASSUME NEW c \in Clients, Rename(c) PROVE Inv'
  <2>1. \A d \in Clients \ {c} : pc[d] \notin Holding
    BY <1>10, Alone DEF Rename, Inv, Holding
  <2>2. /\ pc[c] = "rename" /\ tmp # NoFile /\ data[tmp] \in Documents
        /\ target' = tmp /\ tmp' = NoFile /\ data' = data
        /\ number' = number /\ calls' = calls
        /\ pc' = [pc EXCEPT ![c] = "reply"]
    BY <1>10 DEF Rename, Inv, Written
  <2>3. LoadersLoad'
    BY <1>10, <2>1, <2>2 DEF Rename, Inv, Holding, LoadersLoad
  <2>4. LockHeld'
    BY <1>10, <2>1, <2>2 DEF Rename, Release, Inv, Holding, LockHeld, Locked
  <2>5. Numbered'
    BY <2>2 DEF Inv, Numbered
  <2>6. Separate'
    <3>1. \A d \in Clients : number'[d] = number[d] /\
             (pc'[d] \in {"check", "lock", "open"} => pc'[d] = pc[d])
      BY <2>2
    <3>2. target' # NoFile /\ tmp' = 0 /\ calls' = calls
      BY <2>2
    <3>3. \A d \in Clients : pc[d] \in {"check", "lock", "open"} =>
             number[d] # tmp /\ number[d] # 0
      <4>1. \A d \in Clients : pc[d] # "idle" => number[d] # 0
        BY DEF Inv
      <4> QED BY <4>1 DEF Inv, Separate
    <3>4. target' <= calls' /\ tmp' <= calls' /\ target' # tmp'
      BY <2>2 DEF Inv, Separate
    <3> QED BY <2>2, <3>1, <3>2, <3>3, <3>4 DEF Separate
  <2>7. Written'
    <3>1. \A d \in Clients : pc'[d] \notin Holding
      BY <2>1, <2>2 DEF Inv, Holding
    <3> QED BY <3>1 DEF Written, Holding
  <2>8. WholeFile'
    BY <2>2 DEF WholeFile
  <2> QED BY <1>1, <2>3, <2>4, <2>5, <2>6, <2>7, <2>8 DEF Inv
<1>11. ASSUME NEW c \in Clients, Reply(c) PROVE Inv'
  <2>1. LoadersLoad'
    BY <1>11 DEF Reply, Inv, Holding, LoadersLoad
  <2>2. LockHeld'
    BY <1>11 DEF Reply, Inv, Holding, LockHeld, Locked
  <2>3. Numbered'
    BY <1>11 DEF Reply, Inv, Numbered
  <2>4. Separate'
    BY <1>11 DEF Reply, Inv, Holding, Numbered, Separate
  <2>5. Written'
    BY <1>11 DEF Reply, Inv, Holding, Separate, Written
  <2>6. WholeFile'
    BY <1>11 DEF Reply, Inv, Holding, Separate,
       Written, WholeFile
  <2> QED BY <1>1, <2>1, <2>2, <2>3, <2>4, <2>5, <2>6 DEF Inv
<1>12. ASSUME NEW c \in Clients, Load(c) PROVE Inv'
  <2>1. LoadersLoad'
    BY <1>12 DEF Load, Inv, Holding, LoadersLoad
  <2>2. LockHeld'
    BY <1>12 DEF Load, Inv, Holding, LockHeld, Locked
  <2>3. Numbered'
    BY <1>12 DEF Load, Inv, Numbered
  <2>4. Separate'
    BY <1>12 DEF Load, Inv, Holding, Numbered, Separate
  <2>5. Written'
    BY <1>12 DEF Load, Inv, Holding, Separate, Written
  <2>6. WholeFile'
    BY <1>12 DEF Load, Inv, Holding, Separate,
       Written, WholeFile
  <2> QED BY <1>1, <2>1, <2>2, <2>3, <2>4, <2>5, <2>6 DEF Inv
<1>13. ASSUME NEW c \in Clients, IOFails(c) PROVE Inv'
  <2>1. \A d \in Clients \ {c} : pc[d] \notin Holding
    BY <1>13, Alone DEF IOFails, Inv, Holding
  <2>2. LoadersLoad'
    BY <1>13, <2>1 DEF IOFails, Fail, Release, Inv, Holding, LoadersLoad
  <2>3. LockHeld'
    BY <1>13, <2>1 DEF IOFails, Fail, Release, Inv, Holding, LockHeld, Locked
  <2>4. Numbered'
    BY <1>13, <2>1 DEF IOFails, Fail, Release, Inv, Numbered
  <2>5. Separate'
    BY <1>13, <2>1 DEF IOFails, Fail, Release, Inv, Holding, Numbered, Separate
  <2>6. Written'
    <3>1. \A d \in Clients : pc'[d] \notin Holding
      BY <1>13, <2>1 DEF IOFails, Fail, Inv, Holding
    <3> QED BY <3>1 DEF Written, Holding
  <2>7. WholeFile'
    <3>1. target' = target
      BY <1>13 DEF IOFails
    <3>2. target # NoFile => data'[target] = data[target]
      BY <1>13 DEF IOFails, Inv, Separate, Written
    <3> QED BY <3>1, <3>2 DEF Inv, WholeFile
  <2> QED BY <1>1, <2>2, <2>3, <2>4, <2>5, <2>6, <2>7 DEF Inv
<1>14. CASE Kill
  <2>1. LoadersLoad'
    BY <1>14 DEF Kill, Inv, LoadersLoad
  <2>2. LockHeld'
    BY <1>14 DEF Kill, Inv, LockHeld, Holding
  <2>3. Numbered'
    BY <1>14 DEF Kill, Inv, Numbered
  <2>4. Separate'
    BY <1>14 DEF Kill, Inv, Separate
  <2>5. Written'
    BY <1>14 DEF Kill, Inv, Written
  <2>6. WholeFile'
    BY <1>14 DEF Kill, Inv, Separate, Written, WholeFile
  <2> QED BY <1>1, <2>1, <2>2, <2>3, <2>4, <2>5, <2>6 DEF Inv
<1> QED
  BY <1>2, <1>3, <1>4, <1>5, <1>6, <1>7, <1>8, <1>9, <1>10, <1>11,
     <1>12, <1>13, <1>14 DEF Next, Step

(* The invariant holds in every initial state.                             *)
LEMMA FirstInv == Init => Inv
<1> SUFFICES ASSUME Init PROVE Inv
  OBVIOUS
<1>1. TypeOK
  BY FirstState
<1>2. LoadersLoad /\ LockHeld /\ Numbered
  BY DEF Init, LoadersLoad, LockHeld, Numbered, Holding
<1>3. Separate /\ Written /\ WholeFile
  <2> USE ConstantsAssumption
  <2>1. target = calls /\ tmp = 0 /\ calls \in {0, 1}
    BY DEF Init, NoFile
  <2>2. target # 0 => data[target] \in Calls
    BY <2>1 DEF Init, Calls
  <2>3. \A c \in Clients : pc[c] = "idle"
    BY DEF Init
  <2> QED BY <2>1, <2>2, <2>3 DEF Separate, Written, WholeFile, NoFile,
                                  Documents
<1> QED BY <1>1, <1>2, <1>3 DEF Inv

(* The temporary file does what it is for: as long as writers exclude each *)
(* other, whoever opens the target finds a whole document, whichever       *)
(* writes were cut short by kills and failing file system calls.  (With    *)
(* overlapping writers, as productions.rs allows, this does not hold.)     *)
THEOREM WholeFileAlways ==
    ASSUME Discipline
    PROVE  Spec => []WholeFile
<1>1. Init => Inv
  BY FirstInv
<1>2. Inv /\ [Next]_vars => Inv'
  BY InvStep
<1>3. Inv => WholeFile
  BY DEF Inv
<1> QED BY <1>1, <1>2, <1>3, PTL DEF Spec
-----------------------------------------------------------------------------
(* Nothing that was answered Ok is lost                                    *)

Busy(c) == pc[c] # "idle"

(* Calls that have put their document in place.                            *)
Placed(n) == n \in acked \/ \E c \in Clients : pc[c] = "reply" /\ number[c] = n

(* What a writer that never removes the target keeps: a call renames its   *)
(* own document, which nobody can have been told of before, so that every  *)
(* call that is done finds no document older than itself.                  *)
KeptByRename ==
    /\ \A c \in Clients : pc[c] # "remove"
    /\ \A c \in Clients : pc[c] \in {"look", "rename"} => data[tmp] = number[c]
    /\ \A n \in Calls : Placed(n) =>
          target # NoFile /\ data[target] \notin known[n]

Kept ==
    /\ acked \subseteq 1..calls
    /\ \A n \in Calls : known[n] \subseteq acked
    /\ \A c \in Clients : Busy(c) => number[c] \notin acked
    /\ ~RemovesFirst => KeptByRename

(* A step that answers nobody and leaves the target and its content alone  *)
(* keeps the invariant.                                                    *)
LEMMA QuietStep ==
    ASSUME TypeOK, Kept, kind' = kind, acked' = acked, known' = known,
           calls' = calls, number' = number, target' = target,
           target # NoFile => data'[target] = data[target],
           \A c \in Clients : /\ Busy(c)' => Busy(c)
                              /\ pc'[c] = "reply" => pc[c] = "reply",
           ~RemovesFirst => \A c \in Clients :
               /\ pc'[c] # "remove"
               /\ pc'[c] \in {"look", "rename"} => data'[tmp'] = number[c]
    PROVE  Kept'
<1>a. acked \subseteq 1..calls /\ \A n \in Calls : known[n] \subseteq acked
  BY DEF Kept
<1>b. (acked \subseteq 1..calls)'
  BY <1>a
<1>c. (\A n \in Calls : known[n] \subseteq acked)'
  BY <1>a
<1>d. \A c \in Clients : /\ pc'[c] # "idle" => pc[c] # "idle"
                         /\ pc'[c] = "reply" => pc[c] = "reply"
  BY DEF Busy
<1>e. \A c \in Clients : pc[c] # "idle" => number[c] \notin acked
  BY DEF Kept, Busy
<1>2. (\A c \in Clients : Busy(c) => number[c] \notin acked)'
  BY <1>d, <1>e DEF Busy
<1>3. RemovesFirst' <=> RemovesFirst
  BY DEF RemovesFirst
<1>4. ASSUME ~RemovesFirst PROVE KeptByRename'
  <2>1. \A n \in Calls : Placed(n)' => Placed(n)
    <3> SUFFICES ASSUME NEW n \in Calls, Placed(n)' PROVE Placed(n)
      OBVIOUS
    <3>1. CASE n \in acked'
      BY <3>1 DEF Placed
    <3>2. ASSUME NEW c \in Clients, pc'[c] = "reply", number'[c] = n
          PROVE  Placed(n)
      BY <3>2, <1>d DEF Placed
    <3> QED BY <3>1, <3>2 DEF Placed
  <2>2. \A n \in Calls : Placed(n) =>
           target # NoFile /\ data[target] \notin known[n]
    BY <1>4 DEF Kept, KeptByRename
  <2>3. (\A n \in Calls : Placed(n) =>
           target # NoFile /\ data[target] \notin known[n])'
    BY <2>1, <2>2
  <2>4. (\A c \in Clients : pc[c] # "remove")'
    BY <1>4
  <2>5. (\A c \in Clients : pc[c] \in {"look", "rename"} => data[tmp] = number[c])'
    BY <1>4
  <2> QED BY <2>3, <2>4, <2>5 DEF KeptByRename
<1> QED BY <1>b, <1>c, <1>2, <1>3, <1>4 DEF Kept

(* Every step of a disciplined system keeps what was answered.             *)
LEMMA KeptStep ==
    ASSUME Discipline, Inv, Kept, [Next]_vars
    PROVE  Kept'
<1>0. kind' = kind
  BY DEF Next, Step, vars
<1> USE ConstantsAssumption, <1>0 DEF Goto, fs, told, NoFile, Empty
<1>a. TypeOK
  BY DEF Inv
<1>b. ~RemovesFirst => \A c \in Clients :
         /\ pc[c] # "remove"
         /\ pc[c] \in {"look", "rename"} => data[tmp] = number[c]
  BY DEF Kept, KeptByRename
<1>1. CASE UNCHANGED vars
  BY <1>1, <1>a, <1>b, QuietStep DEF vars, Busy
<1>2. ASSUME NEW c \in Clients, Invoke(c) PROVE Kept'
  <2>1. calls' = calls + 1 /\ calls + 1 \in Calls /\ calls \in Nat
        /\ acked' = acked /\ known' = [known EXCEPT ![calls + 1] = acked]
        /\ number' = [number EXCEPT ![c] = calls + 1]
        /\ target' = target /\ data' = data /\ tmp' = tmp
        /\ pc[c] = "idle" /\ (\A d \in Clients \ {c} : pc'[d] = pc[d])
        /\ pc'[c] \in {"check", "load"}
    <3>1. calls' = calls + 1 /\ calls + 1 \in Calls /\ calls \in Nat
      BY <1>2, <1>a DEF Invoke, TypeOK, Calls
    <3>2. \E o : pc' = [pc EXCEPT ![c] = IF o = "load" THEN "load" ELSE "check"]
      BY <1>2 DEF Invoke
    <3>3. pc'[c] \in {"check", "load"} /\ \A d \in Clients \ {c} : pc'[d] = pc[d]
      BY <3>2, <1>a DEF TypeOK
    <3> QED BY <1>2, <3>1, <3>3 DEF Invoke
  <2>2. (acked \subseteq 1..calls)' /\ calls + 1 \notin acked
    BY <2>1 DEF Kept
  <2>3. (\A n \in Calls : known[n] \subseteq acked)'
    BY <2>1, <1>a DEF Kept, TypeOK
  <2>4. (\A d \in Clients : Busy(d) => number[d] \notin acked)'
    BY <2>1, <2>2, <1>a DEF Kept, Busy, TypeOK
  <2>5. RemovesFirst' <=> RemovesFirst
    BY DEF RemovesFirst
  <2>6. ASSUME ~RemovesFirst PROVE KeptByRename'
    <3>1. (\A d \in Clients : pc[d] # "remove")'
      BY <2>1, <2>6, <1>b
    <3>2. (\A d \in Clients : pc[d] \in {"look", "rename"} =>
             data[tmp] = number[d])'
      BY <2>1, <2>6, <1>b, <1>a DEF TypeOK
    <3>3. \A n \in Calls : Placed(n)' => Placed(n) /\ n # calls + 1
      <4>1. \A d \in Clients : pc'[d] = "reply" =>
               d # c /\ pc[d] = "reply" /\ number'[d] = number[d]
               /\ number[d] # calls + 1
        BY <2>1, <1>a DEF TypeOK, Inv, Numbered
      <4> QED BY <4>1, <2>1, <2>2 DEF Placed
    <3>4. (\A n \in Calls : Placed(n) =>
             target # NoFile /\ data[target] \notin known[n])'
      BY <3>3, <2>1, <2>6, <1>a DEF Kept, KeptByRename, TypeOK
    <3> QED BY <3>1, <3>2, <3>4 DEF KeptByRename
  <2> QED BY <2>2, <2>3, <2>4, <2>5, <2>6 DEF Kept
<1>3. ASSUME NEW c \in Clients, Check(c) \/ Acquire(c) PROVE Kept'
  <2>1. UNCHANGED <<fs, told, number, calls>>
        /\ pc'[c] \in {"idle", "lock", "open"} /\ pc[c] # "idle"
        /\ \A d \in Clients \ {c} : pc'[d] = pc[d]
    <3>1. CASE Check(c)
      BY <3>1, <1>a DEF Check, TypeOK
    <3>2. CASE Acquire(c)
      BY <3>2, <1>a DEF Acquire, TypeOK
    <3> QED BY <1>3, <3>1, <3>2
  <2>2. \A d \in Clients : pc'[d] = pc[d] \/ pc'[d] \in {"idle", "lock", "open"}
    BY <2>1
  <2>3. \A d \in Clients : (Busy(d)' => Busy(d))
                           /\ (pc'[d] = "reply" => pc[d] = "reply")
    BY <2>1, <2>2 DEF Busy
  <2> QED BY <2>1, <2>2, <2>3, <1>a, <1>b, QuietStep
<1>4. ASSUME NEW c \in Clients, Open(c) PROVE Kept'
  <2>1. \A d \in Clients \ {c} : pc[d] \notin Holding
    BY <1>4, Alone DEF Open, Inv, Holding
  <2>2. UNCHANGED <<told, number, calls, target>> /\ pc[c] = "open"
        /\ pc'[c] = "write" /\ (\A d \in Clients \ {c} : pc'[d] = pc[d])
    BY <1>4, <1>a DEF Open, TypeOK
  <2>3. target # NoFile => data'[target] = data[target]
    BY <1>4, <1>a DEF Open, Inv, Separate, TypeOK
  <2>4. \A d \in Clients : (Busy(d)' => Busy(d))
            /\ (pc'[d] = "reply" => pc[d] = "reply")
            /\ pc'[d] \notin {"look", "rename", "remove"}
    BY <2>1, <2>2 DEF Busy, Holding
  <2> QED BY <2>2, <2>3, <2>4, <1>a, QuietStep
<1>5. ASSUME NEW c \in Clients, Write(c) PROVE Kept'
  <2>1. \A d \in Clients \ {c} : pc[d] \notin Holding
    BY <1>5, Alone DEF Write, Inv, Holding
  <2>2. UNCHANGED <<told, number, calls, target, tmp>> /\ pc[c] = "write"
        /\ pc'[c] = "look" /\ (\A d \in Clients \ {c} : pc'[d] = pc[d])
    BY <1>5, <1>a DEF Write, TypeOK
  <2>3. tmp # 0 /\ tmp \in Calls /\ data' = [data EXCEPT ![tmp] = number[c]]
    <3>1. tmp # 0 /\ handle[c] = tmp /\ data[tmp] = 0
      BY <1>5 DEF Write, Inv, Written
    <3>2. tmp \in Calls
      BY <3>1, <1>a DEF TypeOK, Calls
    <3> QED BY <3>1, <3>2, <1>5 DEF Write
  <2>4. target # NoFile => data'[target] = data[target]
    BY <2>3, <1>a DEF Inv, Separate, TypeOK
  <2>5. \A d \in Clients : (Busy(d)' => Busy(d))
            /\ (pc'[d] = "reply" => pc[d] = "reply")
            /\ pc'[d] # "remove"
            /\ (pc'[d] \in {"look", "rename"} => d = c)
    BY <2>1, <2>2 DEF Busy, Holding
  <2>6. data'[tmp'] = number[c]
    BY <2>2, <2>3, <1>a DEF TypeOK
  <2> QED BY <2>2, <2>4, <2>5, <2>6, <1>a, QuietStep
<1>6. ASSUME NEW c \in Clients, Look(c) PROVE Kept'
  <2>1. UNCHANGED <<fs, told, number, calls>> /\ pc[c] = "look"
        /\ pc'[c] \in {"remove", "rename"}
        /\ (~RemovesFirst => pc'[c] = "rename")
        /\ (\A d \in Clients \ {c} : pc'[d] = pc[d])
    BY <1>6, <1>a DEF Look, TypeOK
  <2>2. \A d \in Clients : (Busy(d)' => Busy(d))
                           /\ (pc'[d] = "reply" => pc[d] = "reply")
    BY <2>1 DEF Busy
  <2> QED BY <2>1, <2>2, <1>a, <1>b, QuietStep
<1>7. ASSUME NEW c \in Clients, Remove(c) PROVE Kept'
  <2>1. RemovesFirst /\ (RemovesFirst' <=> RemovesFirst)
    BY <1>7, <1>b DEF Remove, RemovesFirst
  <2>2. UNCHANGED <<told, number, calls>> /\ pc[c] = "remove"
        /\ \A d \in Clients \ {c} : pc'[d] = pc[d]
    BY <1>7, <1>a DEF Remove, Fail, TypeOK
  <2> QED BY <2>1, <2>2, <1>a DEF Kept, Busy, TypeOK
<1>8. ASSUME NEW c \in Clients, Rename(c) PROVE Kept'
  <2>1. \A d \in Clients \ {c} : pc[d] \notin Holding
    BY <1>8, Alone DEF Rename, Inv, Holding
  <2>2. /\ pc[c] = "rename" /\ tmp # 0 /\ target' = tmp /\ data' = data
        /\ UNCHANGED <<told, number, calls>>
        /\ pc'[c] = "reply" /\ \A d \in Clients \ {c} : pc'[d] = pc[d]
    BY <1>8, <1>a DEF Rename, Inv, Written, TypeOK
  <2>3. \A d \in Clients : Busy(d)' <=> Busy(d)
    BY <2>2 DEF Busy
  <2>4. RemovesFirst' <=> RemovesFirst
    BY DEF RemovesFirst
  <2>5. ASSUME ~RemovesFirst PROVE KeptByRename'
    <3>1. data'[target'] = number[c] /\ number[c] \notin acked
      BY <2>2, <2>5, <1>b DEF Kept, Busy
    <3>2. (\A n \in Calls : Placed(n) =>
             target # NoFile /\ data[target] \notin known[n])'
      BY <2>2, <3>1 DEF Kept
    <3>3. \A d \in Clients : pc'[d] \notin {"look", "rename", "remove"}
      BY <2>1, <2>2 DEF Holding
    <3> QED BY <3>2, <3>3 DEF KeptByRename
  <2> QED BY <2>2, <2>3, <2>4, <2>5 DEF Kept
<1>9. ASSUME NEW c \in Clients, Reply(c) PROVE Kept'
  <2>1. /\ pc[c] = "reply" /\ pc'[c] = "idle"
        /\ \A d \in Clients \ {c} : pc'[d] = pc[d]
        /\ acked' = acked \cup {number[c]}
        /\ UNCHANGED <<fs, number, known, calls>>
    BY <1>9, <1>a DEF Reply, TypeOK
  <2>2. number[c] \in Calls /\ number[c] \in 1..calls
    BY <2>1, <1>a DEF TypeOK, Inv, Numbered, Calls
  <2>3. (acked \subseteq 1..calls)' /\ (\A n \in Calls : known[n] \subseteq acked)'
    BY <2>1, <2>2 DEF Kept
  <2>4. (\A d \in Clients : Busy(d) => number[d] \notin acked)'
    BY <2>1 DEF Kept, Busy, Inv, Numbered
  <2>5. RemovesFirst' <=> RemovesFirst
    BY DEF RemovesFirst
  <2>6. ASSUME ~RemovesFirst PROVE KeptByRename'
    <3>1. \A n \in Calls : Placed(n)' => Placed(n)
      BY <2>1 DEF Placed
    <3>2. (\A n \in Calls : Placed(n) =>
             target # NoFile /\ data[target] \notin known[n])'
      BY <3>1, <2>1, <2>6 DEF Kept, KeptByRename
    <3>3. (\A d \in Clients : pc[d] # "remove" /\ (pc[d] \in {"look", "rename"} =>
             data[tmp] = number[d]))'
      BY <2>1, <2>6, <1>b
    <3> QED BY <3>2, <3>3 DEF KeptByRename
  <2> QED BY <2>3, <2>4, <2>5, <2>6 DEF Kept
<1>10. ASSUME NEW c \in Clients, Load(c) PROVE Kept'
  <2>1. UNCHANGED <<fs, number, calls, acked, known>> /\ pc'[c] = "idle"
        /\ (\A d \in Clients \ {c} : pc'[d] = pc[d])
    BY <1>10, <1>a DEF Load, TypeOK
  <2>2. \A d \in Clients : (Busy(d)' => Busy(d))
            /\ (pc'[d] = "reply" => pc[d] = "reply")
            /\ (pc'[d] = pc[d] \/ pc'[d] = "idle")
    BY <2>1 DEF Busy
  <2> QED BY <2>1, <2>2, <1>a, <1>b, QuietStep
<1>11. ASSUME NEW c \in Clients, IOFails(c) PROVE Kept'
  <2>1. \A d \in Clients \ {c} : pc[d] \notin Holding
    BY <1>11, Alone DEF IOFails, Inv, Holding
  <2>2. UNCHANGED <<told, number, calls, target, tmp>> /\ pc'[c] = "idle"
        /\ (\A d \in Clients \ {c} : pc'[d] = pc[d])
    BY <1>11, <1>a DEF IOFails, Fail, TypeOK
  <2>3. target # NoFile => data'[target] = data[target]
    <3>1. CASE UNCHANGED data
      BY <3>1
    <3>2. ASSUME pc[c] = "write", data' = [data EXCEPT ![handle[c]] = Torn]
          PROVE  target # NoFile => data'[target] = data[target]
      <4>1. handle[c] = tmp /\ tmp # NoFile
        BY <3>2 DEF Inv, Written
      <4>2. target # NoFile => target # tmp
        BY <4>1 DEF Inv, Separate
      <4>3. target \in 0..MaxCalls /\ data \in [Calls -> Content]
        BY <1>a DEF TypeOK
      <4> QED BY <3>2, <4>1, <4>2, <4>3 DEF Calls
    <3> QED BY <1>11, <3>1, <3>2 DEF IOFails
  <2>4. \A d \in Clients : (Busy(d)' => Busy(d))
            /\ (pc'[d] = "reply" => pc[d] = "reply")
            /\ pc'[d] \notin {"look", "rename", "remove"}
    BY <2>1, <2>2 DEF Busy, Holding
  <2> QED BY <2>2, <2>3, <2>4, <1>a, QuietStep
<1>12. CASE Kill
  <2>1. UNCHANGED <<told, number, calls, target>>
        /\ (\A d \in Clients : pc'[d] = "idle")
    BY <1>12 DEF Kill
  <2>2. target # NoFile => data'[target] = data[target]
    BY <1>12, <1>a DEF Kill, Inv, Separate, Written, TypeOK, Calls
  <2>3. \A d \in Clients : ~Busy(d)'
    BY <2>1 DEF Busy
  <2> QED BY <2>1, <2>2, <2>3, <1>a, QuietStep
<1> QED
  BY <1>1, <1>2, <1>3, <1>4, <1>5, <1>6, <1>7, <1>8, <1>9, <1>10, <1>11,
     <1>12 DEF Next, Step

LEMMA FirstKept == Init => Kept
<1> SUFFICES ASSUME Init PROVE Kept
  OBVIOUS
<1> USE ConstantsAssumption DEF Init
<1>1. acked \subseteq 1..calls /\ \A n \in Calls : known[n] \subseteq acked
  OBVIOUS
<1>2. \A c \in Clients : pc[c] = "idle"
  OBVIOUS
<1>3. \A n \in Calls : Placed(n) => target # NoFile /\ known[n] = {}
  BY <1>2 DEF Placed, NoFile
<1> QED BY <1>1, <1>2, <1>3 DEF Kept, KeptByRename, Busy

(* Nothing that was answered Ok is lost to a writer that renames over the  *)
(* target (csv.rs, but for the build for Windows): the file is there and   *)
(* holds no document older than any answered call, however writes overlap, *)
(* fail and are killed.                                                    *)
THEOREM AckedAlwaysStays ==
    ASSUME Discipline
    PROVE  Spec => []AckedStays
<1>1. Init => Inv
  BY FirstInv
<1>2. Init => Kept
  BY FirstKept
<1>3. Inv /\ Kept /\ [Next]_vars => Inv' /\ Kept'
  BY InvStep, KeptStep
<1>4. Inv /\ Kept => AckedStays
  <2> SUFFICES ASSUME Inv, Kept, ~RemovesFirst, NEW e \in acked
               PROVE  target # NoFile /\ data[target] \in Documents \ known[e]
    BY DEF AckedStays, NothingLost
  <2>1. e \in Calls /\ Placed(e)
    BY DEF Inv, TypeOK, Placed
  <2> QED BY <2>1 DEF Kept, KeptByRename, Inv, WholeFile
<1> QED BY <1>1, <1>2, <1>3, <1>4, PTL DEF Spec

-----------------------------------------------------------------------------
(* The first fault destroys nothing                                        *)

(* The CSV has a temporary name of its own in each process, so that what   *)
(* it leaves behind is found by no later process: on Windows, where the    *)
(* target is removed as well, a kill between the two steps loses it.       *)
NotCsvOnWindows == "csv" \in Kinds => ~Windows

Renaming == \E c \in Clients : pc[c] = "rename"

(* While the target is missing the call that removed it is about to rename *)
(* its own document, which nobody can have been told of before.            *)
InEitherName ==
    /\ \A c \in Clients :
          pc[c] \in {"look", "remove", "rename"} => data[tmp] = number[c]
    /\ \A n \in Calls : Placed(n) =>
          IF target = NoFile THEN Renaming ELSE data[target] \notin known[n]

UntilAFault == faults = 0 => InEitherName

(* What is in either name can be recovered from it.                        *)
LEMMA InEitherNameRecovers ==
    ASSUME Inv, Kept, InEitherName
    PROVE  Recoverable
<1> SUFFICES ASSUME NEW e \in acked
             PROVE  \E i \in {target, tmp} \ {NoFile} :
                       data[i] \in Documents \ known[e]
  BY DEF Recoverable
<1>1. e \in Calls /\ Placed(e)
  BY DEF Inv, TypeOK, Placed
<1>2. CASE target = NoFile
  <2>1. PICK c \in Clients : pc[c] = "rename"
    BY <1>1, <1>2 DEF InEitherName, Renaming
  <2>2. data[tmp] = number[c] /\ tmp # NoFile /\ data[tmp] \in Documents
    BY <2>1 DEF InEitherName, Inv, Written
  <2>3. number[c] \notin known[e]
    BY <1>1, <2>1 DEF Kept, Busy
  <2> QED BY <2>2, <2>3
<1>3. CASE target # NoFile
  BY <1>1, <1>3 DEF InEitherName, Inv, WholeFile
<1> QED BY <1>2, <1>3

(* A step that answers nobody, leaves the target and its content alone and *)
(* takes no renaming call out of its way keeps both names.                 *)
LEMMA QuietKeepsNames ==
    ASSUME TypeOK, InEitherName, acked' = acked, known' = known,
           number' = number, target' = target,
           target # NoFile => data'[target] = data[target],
           \A c \in Clients :
              /\ pc'[c] = "reply" => pc[c] = "reply"
              /\ target = NoFile /\ pc[c] = "rename" => pc'[c] = "rename"
              /\ pc'[c] \in {"look", "remove", "rename"} =>
                    data'[tmp'] = number[c]
    PROVE  InEitherName'
<1>1. (\A c \in Clients :
          pc[c] \in {"look", "remove", "rename"} => data[tmp] = number[c])'
  OBVIOUS
<1>2. \A n \in Calls : Placed(n)' => Placed(n)
  BY DEF Placed
<1>3. Renaming /\ target = NoFile => Renaming'
  BY DEF Renaming
<1>4. \A n \in Calls : Placed(n) =>
         IF target = NoFile THEN Renaming ELSE data[target] \notin known[n]
  BY DEF InEitherName
<1>5. ASSUME NEW n \in Calls, Placed(n)'
      PROVE  IF target' = NoFile THEN Renaming'
             ELSE data'[target'] \notin known'[n]
  BY <1>2, <1>3, <1>4, <1>5
<1>6. (\A n \in Calls : Placed(n) =>
         IF target = NoFile THEN Renaming ELSE data[target] \notin known[n])'
  BY <1>5
<1> QED BY <1>1, <1>6 DEF InEitherName

(* A fault that spoils neither the target nor, while it is missing, the    *)
(* temporary file destroys nothing.                                        *)
LEMMA SpoilsNeither ==
    ASSUME Inv, Kept, InEitherName, acked' = acked, known' = known,
           target' = target,
           target # NoFile => data'[target] = data[target],
           Renaming /\ target = NoFile =>
               tmp' = tmp /\ data'[tmp] = data[tmp]
    PROVE  Recoverable'
<1> SUFFICES ASSUME NEW e \in acked
             PROVE  \E i \in {target', tmp'} \ {NoFile} :
                       data'[i] \in Documents \ known'[e]
  BY DEF Recoverable
<1>1. PICK i \in {target, tmp} \ {NoFile} : data[i] \in Documents \ known[e]
  BY InEitherNameRecovers DEF Recoverable
<1>2. e \in Calls /\ Placed(e)
  BY DEF Inv, TypeOK, Placed
<1>3. CASE target # NoFile
  <2>1. data[target] \in Documents \ known[e]
    BY <1>2, <1>3 DEF InEitherName, Inv, WholeFile
  <2> QED BY <1>3, <2>1
<1>4. CASE target = NoFile
  <2>1. Renaming
    BY <1>2, <1>4 DEF InEitherName
  <2> QED BY <1>1, <1>4, <2>1
<1> QED BY <1>3, <1>4

(* A failing file system call may spoil the temporary file, but only       *)
(* before the target is removed.                                           *)
LEMMA FailureRecovers ==
    ASSUME Discipline, Inv, Kept, InEitherName,
           NEW c \in Clients, IOFails(c)
    PROVE  Recoverable'
<1>1. UNCHANGED <<target, tmp, acked, known>>
  BY DEF IOFails, told
<1>2. CASE UNCHANGED data
  BY <1>1, <1>2, SpoilsNeither
<1>3. CASE pc[c] = "write" /\ data' = [data EXCEPT ![handle[c]] = Torn]
  <2>1. handle[c] = tmp /\ tmp # NoFile
    BY <1>3 DEF Inv, Written
  <2>2. target # NoFile => target # tmp
    BY DEF Inv, Separate
  <2>3. target # NoFile => data'[target] = data[target]
    BY <1>3, <2>1, <2>2 DEF Inv, TypeOK, Calls, NoFile
  <2>4. ~Renaming
    BY <1>3, Alone DEF Renaming, Inv, Holding
  <2> QED BY <1>1, <2>3, <2>4, SpoilsNeither
<1> QED BY <1>2, <1>3 DEF IOFails

(* A kill may spoil what is being written, and hides the temporary file of *)
(* a CSV write, which does not remove the target.                          *)
LEMMA KillRecovers ==
    ASSUME Discipline, NotCsvOnWindows, Inv, Kept, InEitherName, Kill
    PROVE  Recoverable'
<1>1. /\ UNCHANGED <<target, acked, known>>
      /\ tmp' = IF TmpPerProcess THEN NoFile ELSE tmp
  BY DEF Kill, told
<1>2. PICK half \in SUBSET {handle[c] : c \in {d \in Clients :
                                                 pc[d] = "write"}} :
         data' = [i \in Calls |-> IF i \in half THEN Torn ELSE data[i]]
  BY DEF Kill
<1>3. \A i \in half : i = tmp /\ tmp # NoFile /\ ~Renaming
  <2> SUFFICES ASSUME NEW c \in Clients, pc[c] = "write"
               PROVE  handle[c] = tmp /\ tmp # NoFile /\ ~Renaming
    BY <1>2
  <2>1. handle[c] = tmp /\ tmp # NoFile
    BY DEF Inv, Written
  <2>2. ~Renaming
    BY Alone DEF Renaming, Inv, Holding
  <2> QED BY <2>1, <2>2
<1>4. /\ target \in 0..MaxCalls /\ tmp \in 0..MaxCalls
      /\ kind \in Kinds
      /\ target # NoFile => target # tmp
  BY DEF Inv, TypeOK, Separate
<1>5. target # NoFile => data'[target] = data[target]
  BY <1>2, <1>3, <1>4 DEF Calls, NoFile
<1>6. CASE TmpPerProcess
  <2>1. ~RemovesFirst
    BY <1>4, <1>6 DEF TmpPerProcess, RemovesFirst, NotCsvOnWindows
  <2>2. \A e \in acked : target # NoFile /\ data[target] \in Documents \ known[e]
    <3> SUFFICES ASSUME NEW e \in acked
                 PROVE  target # NoFile /\ data[target] \in Documents \ known[e]
      OBVIOUS
    <3>1. e \in Calls /\ Placed(e)
      BY DEF Inv, TypeOK, Placed
    <3> QED BY <2>1, <3>1 DEF Kept, KeptByRename, Inv, WholeFile
  <2>3. \A e \in acked' : target' # NoFile /\ data'[target'] \in Documents \ known'[e]
    BY <1>1, <1>5, <2>2
  <2> QED BY <2>3 DEF Recoverable
<1>7. ASSUME ~TmpPerProcess, Renaming, target = NoFile
      PROVE  tmp' = tmp /\ data'[tmp] = data[tmp]
  <2>1. tmp \in Calls
    BY <1>4, <1>7 DEF Renaming, Inv, Written, Calls, NoFile
  <2>2. data'[tmp] = data[tmp]
    BY <1>2, <1>3, <1>7, <2>1
  <2> QED BY <1>1, <1>7, <2>2
<1>8. CASE ~TmpPerProcess
  BY <1>1, <1>5, <1>7, <1>8, SpoilsNeither
<1> QED BY <1>6, <1>8

(* Until a fault every step of a disciplined system keeps the documents in *)
(* either name.                                                            *)
LEMMA NamesStep ==
    ASSUME Discipline, Inv, Kept, UntilAFault, [Next]_vars
    PROVE  UntilAFault'
<1> SUFFICES ASSUME faults' = 0 PROVE InEitherName'
  BY DEF UntilAFault
<1>a. TypeOK /\ kind' = kind
  BY DEF Inv, Next, Step, vars
<1> USE ConstantsAssumption DEF Goto, fs, told, NoFile, Empty
<1>1. CASE UNCHANGED vars
  <2>1. InEitherName
    BY <1>1 DEF vars, UntilAFault
  <2>2. UNCHANGED <<target, tmp, data, pc, number, acked, known>>
    BY <1>1 DEF vars
  <2>3. \A c \in Clients : pc[c] \in {"look", "remove", "rename"} =>
           data[tmp] = number[c]
    BY <2>1 DEF InEitherName
  <2> QED BY <1>a, <2>1, <2>2, <2>3, QuietKeepsNames
<1>2. ASSUME NEW c \in Clients, Invoke(c) PROVE InEitherName'
  <2>1. InEitherName
    BY <1>2 DEF Invoke, UntilAFault
  <2>2. /\ acked' = acked /\ known' = [known EXCEPT ![calls + 1] = acked]
        /\ number' = [number EXCEPT ![c] = calls + 1]
        /\ target' = target /\ data' = data /\ tmp' = tmp
        /\ pc[c] = "idle" /\ (\A d \in Clients \ {c} : pc'[d] = pc[d])
        /\ pc'[c] \in {"check", "load"}
    <3>1. \E o : pc' = [pc EXCEPT ![c] = IF o = "load" THEN "load" ELSE "check"]
      BY <1>2 DEF Invoke
    <3>2. pc'[c] \in {"check", "load"} /\ \A d \in Clients \ {c} : pc'[d] = pc[d]
      BY <3>1, <1>a DEF TypeOK
    <3> QED BY <1>2, <3>2 DEF Invoke
  <2>3. (\A d \in Clients : pc[d] \in {"look", "remove", "rename"} =>
            data[tmp] = number[d])'
    BY <2>1, <2>2, <1>a DEF InEitherName, TypeOK
  <2>4. \A n \in Calls : Placed(n)' => Placed(n) /\ n # calls + 1
    <3>1. \A d \in Clients : pc'[d] = "reply" =>
             /\ d # c /\ pc[d] = "reply" /\ number'[d] = number[d]
             /\ number[d] # calls + 1
      BY <2>2, <1>a DEF TypeOK, Inv, Numbered
    <3>2. calls + 1 \notin acked
      BY <1>a DEF Kept, TypeOK
    <3> QED BY <3>1, <3>2, <2>2 DEF Placed
  <2>5. Renaming => Renaming'
    BY <2>2 DEF Renaming
  <2>6. (\A n \in Calls : Placed(n) =>
           IF target = NoFile THEN Renaming ELSE data[target] \notin known[n])'
    BY <2>1, <2>2, <2>4, <2>5, <1>a DEF InEitherName, TypeOK
  <2> QED BY <2>3, <2>6 DEF InEitherName
<1>3. ASSUME NEW c \in Clients, Check(c) \/ Acquire(c) PROVE InEitherName'
  <2>1. UNCHANGED <<fs, told, number, faults>>
        /\ pc'[c] \in {"idle", "lock", "open"} /\ pc[c] \in {"check", "lock"}
        /\ \A d \in Clients \ {c} : pc'[d] = pc[d]
    <3>1. CASE Check(c)
      BY <3>1, <1>a DEF Check, TypeOK
    <3>2. CASE Acquire(c)
      BY <3>2, <1>a DEF Acquire, TypeOK
    <3> QED BY <1>3, <3>1, <3>2
  <2>2. InEitherName
    BY <2>1 DEF UntilAFault
  <2>3. \A d \in Clients :
           /\ pc'[d] = "reply" => pc[d] = "reply"
           /\ pc[d] = "rename" => pc'[d] = "rename"
           /\ pc'[d] \in {"look", "remove", "rename"} => data[tmp] = number[d]
    BY <2>1, <2>2 DEF InEitherName
  <2> QED BY <1>a, <2>1, <2>2, <2>3, QuietKeepsNames
<1>4. ASSUME NEW c \in Clients, Open(c) PROVE InEitherName'
  <2>1. \A d \in Clients \ {c} : pc[d] \notin Holding
    BY <1>4, Alone DEF Open, Inv, Holding
  <2>2. UNCHANGED <<told, number, target, faults>> /\ pc[c] = "open"
        /\ pc'[c] = "write" /\ (\A d \in Clients \ {c} : pc'[d] = pc[d])
    BY <1>4, <1>a DEF Open, TypeOK
  <2>3. target # NoFile => data'[target] = data[target]
    BY <1>4, <1>a DEF Open, Inv, Separate, TypeOK
  <2>4. InEitherName
    BY <2>2 DEF UntilAFault
  <2>5. \A d \in Clients :
           /\ pc'[d] = "reply" => pc[d] = "reply"
           /\ pc[d] # "rename" /\ pc'[d] \notin {"look", "remove", "rename"}
    BY <2>1, <2>2 DEF Holding
  <2> QED BY <1>a, <2>2, <2>3, <2>4, <2>5, QuietKeepsNames
<1>5. ASSUME NEW c \in Clients, Write(c) PROVE InEitherName'
  <2>1. \A d \in Clients \ {c} : pc[d] \notin Holding
    BY <1>5, Alone DEF Write, Inv, Holding
  <2>2. UNCHANGED <<told, number, target, tmp, faults>> /\ pc[c] = "write"
        /\ pc'[c] = "look" /\ (\A d \in Clients \ {c} : pc'[d] = pc[d])
    BY <1>5, <1>a DEF Write, TypeOK
  <2>3. tmp # 0 /\ tmp \in Calls /\ data' = [data EXCEPT ![tmp] = number[c]]
    <3>1. tmp # 0 /\ handle[c] = tmp /\ data[tmp] = 0
      BY <1>5 DEF Write, Inv, Written
    <3>2. tmp \in Calls
      BY <3>1, <1>a DEF TypeOK, Calls
    <3> QED BY <3>1, <3>2, <1>5 DEF Write
  <2>4. target # NoFile => data'[target] = data[target]
    BY <2>3, <1>a DEF Inv, Separate, TypeOK
  <2>5. \A d \in Clients :
           /\ pc'[d] = "reply" => pc[d] = "reply"
           /\ pc[d] # "rename"
           /\ pc'[d] \in {"look", "remove", "rename"} => d = c
    BY <2>1, <2>2 DEF Holding
  <2>6. data'[tmp'] = number[c]
    BY <2>2, <2>3, <1>a DEF TypeOK
  <2>7. InEitherName
    BY <2>2 DEF UntilAFault
  <2> QED BY <1>a, <2>2, <2>4, <2>5, <2>6, <2>7, QuietKeepsNames
<1>6. ASSUME NEW c \in Clients, Look(c) PROVE InEitherName'
  <2>1. UNCHANGED <<fs, told, number, faults>> /\ pc[c] = "look"
        /\ pc'[c] \in {"remove", "rename"}
        /\ (\A d \in Clients \ {c} : pc'[d] = pc[d])
    BY <1>6, <1>a DEF Look, TypeOK
  <2>2. InEitherName
    BY <2>1 DEF UntilAFault
  <2>3. \A d \in Clients :
           /\ pc'[d] = "reply" => pc[d] = "reply"
           /\ pc[d] = "rename" => pc'[d] = "rename"
           /\ pc'[d] \in {"look", "remove", "rename"} => data[tmp] = number[d]
    BY <2>1, <2>2 DEF InEitherName
  <2> QED BY <1>a, <2>1, <2>2, <2>3, QuietKeepsNames
<1>7. ASSUME NEW c \in Clients, Remove(c) PROVE InEitherName'
  <2>1. UNCHANGED <<told, number, tmp, data, faults>> /\ pc[c] = "remove"
        /\ (\A d \in Clients \ {c} : pc'[d] = pc[d])
        /\ pc'[c] = (IF target = NoFile THEN "idle" ELSE "rename")
        /\ target' = NoFile
    BY <1>7, <1>a DEF Remove, Fail, TypeOK
  <2>2. InEitherName
    BY <2>1 DEF UntilAFault
  <2>3. (\A d \in Clients : pc[d] \in {"look", "remove", "rename"} =>
            data[tmp] = number[d])'
    BY <2>1, <2>2 DEF InEitherName
  <2>4. ASSUME NEW n \in Calls, Placed(n)' PROVE Renaming'
    <3>1. Placed(n)
      BY <2>1, <2>4 DEF Placed
    <3>2. CASE target = NoFile
      BY <2>1, <2>2, <3>1, <3>2 DEF InEitherName, Renaming
    <3>3. CASE target # NoFile
      BY <2>1, <3>3 DEF Renaming
    <3> QED BY <3>2, <3>3
  <2> QED BY <2>1, <2>3, <2>4 DEF InEitherName
<1>8. ASSUME NEW c \in Clients, Rename(c) PROVE InEitherName'
  <2>1. \A d \in Clients \ {c} : pc[d] \notin Holding
    BY <1>8, Alone DEF Rename, Inv, Holding
  <2>2. /\ pc[c] = "rename" /\ tmp # 0 /\ target' = tmp /\ data' = data
        /\ UNCHANGED <<told, number, faults>>
        /\ pc'[c] = "reply" /\ \A d \in Clients \ {c} : pc'[d] = pc[d]
    BY <1>8, <1>a DEF Rename, Inv, Written, TypeOK
  <2>3. InEitherName
    BY <2>2 DEF UntilAFault
  <2>4. data'[target'] = number[c] /\ number[c] \notin acked
    BY <2>2, <2>3 DEF InEitherName, Kept, Busy
  <2>5. (\A n \in Calls : Placed(n) =>
           IF target = NoFile THEN Renaming ELSE data[target] \notin known[n])'
    BY <2>2, <2>4 DEF Kept
  <2>6. \A d \in Clients : pc'[d] \notin {"look", "remove", "rename"}
    BY <2>1, <2>2 DEF Holding
  <2> QED BY <2>5, <2>6 DEF InEitherName
<1>9. ASSUME NEW c \in Clients, Reply(c) PROVE InEitherName'
  <2>1. /\ pc[c] = "reply" /\ pc'[c] = "idle"
        /\ \A d \in Clients \ {c} : pc'[d] = pc[d]
        /\ acked' = acked \cup {number[c]}
        /\ UNCHANGED <<fs, number, known, faults>>
    BY <1>9, <1>a DEF Reply, TypeOK
  <2>2. InEitherName
    BY <2>1 DEF UntilAFault
  <2>3. \A n \in Calls : Placed(n)' => Placed(n)
    BY <2>1 DEF Placed
  <2>4. Renaming => Renaming'
    BY <2>1 DEF Renaming
  <2>5. (\A n \in Calls : Placed(n) =>
           IF target = NoFile THEN Renaming ELSE data[target] \notin known[n])'
    BY <2>1, <2>2, <2>3, <2>4 DEF InEitherName
  <2>6. (\A d \in Clients : pc[d] \in {"look", "remove", "rename"} =>
            data[tmp] = number[d])'
    BY <2>1, <2>2 DEF InEitherName
  <2> QED BY <2>5, <2>6 DEF InEitherName
<1>10. ASSUME NEW c \in Clients, Load(c) PROVE InEitherName'
  <2>1. UNCHANGED <<fs, number, acked, known, faults>> /\ pc'[c] = "idle"
        /\ pc[c] = "load" /\ (\A d \in Clients \ {c} : pc'[d] = pc[d])
    BY <1>10, <1>a DEF Load, TypeOK
  <2>2. InEitherName
    BY <2>1 DEF UntilAFault
  <2>3. \A d \in Clients :
           /\ pc'[d] = "reply" => pc[d] = "reply"
           /\ pc[d] = "rename" => pc'[d] = "rename"
           /\ pc'[d] \in {"look", "remove", "rename"} => data[tmp] = number[d]
    BY <2>1, <2>2 DEF InEitherName
  <2> QED BY <1>a, <2>1, <2>2, <2>3, QuietKeepsNames
<1>11. \A c \in Clients : ~IOFails(c)
  BY <1>a DEF IOFails, TypeOK
<1>12. ~Kill
  BY <1>a DEF Kill, TypeOK
<1> QED
  BY <1>1, <1>2, <1>3, <1>4, <1>5, <1>6, <1>7, <1>8, <1>9, <1>10, <1>11,
     <1>12 DEF Next, Step

(* Until, and including, the first kill or failing file system call, what  *)
(* was answered Ok can be recovered from one of the two names, whichever   *)
(* writer is at work: remove_file and rename (productions.rs, settings.rs) *)
(* leave the new document where the old one is gone.                       *)
THEOREM FirstFaultDestroysNothing ==
    ASSUME Discipline, NotCsvOnWindows
    PROVE  Spec => FirstFaultRecoverable
<1>1. Init => Inv
  BY FirstInv
<1>2. Init => Kept
  BY FirstKept
<1>3. Init => UntilAFault
  BY DEF Init, UntilAFault, InEitherName, Placed, NoFile
<1>4. /\ Inv /\ Kept /\ UntilAFault /\ [Next]_vars
      => Inv' /\ Kept' /\ UntilAFault'
  BY InvStep, KeptStep, NamesStep
<1>5. Inv /\ Kept /\ InEitherName => Recoverable
  BY InEitherNameRecovers
<1>6. Inv' /\ Kept' /\ InEitherName' => Recoverable'
  BY <1>5, PTL
<1>7. /\ Inv /\ Kept /\ UntilAFault /\ [Next]_vars
      => (faults = 0 => Recoverable')
  <2> SUFFICES ASSUME Inv, Kept, UntilAFault, [Next]_vars, faults = 0
               PROVE  Recoverable'
    OBVIOUS
  <2>1. InEitherName
    BY DEF UntilAFault
  <2>2. CASE faults' = 0
    <3>1. Inv' /\ Kept' /\ InEitherName'
      BY <1>4, <2>2 DEF UntilAFault
    <3> QED BY <1>6, <3>1
  <2>3. ASSUME NEW c \in Clients, IOFails(c) PROVE Recoverable'
    BY <2>1, <2>3, FailureRecovers
  <2>4. CASE Kill
    BY <2>1, <2>4, KillRecovers
  <2>5. CASE UNCHANGED faults
    BY <2>2, <2>5
  <2>6. \A c \in Clients : Step(c) => UNCHANGED faults
    BY DEF Step, Check, Acquire, Open, Write, Look, Remove, Rename, Reply,
           Load, Fail
  <2>7. \A c \in Clients : Invoke(c) => UNCHANGED faults
    BY DEF Invoke
  <2> QED BY <2>3, <2>4, <2>5, <2>6, <2>7 DEF Next, vars
<1> QED BY <1>1, <1>2, <1>3, <1>4, <1>7, PTL DEF Spec, FirstFaultRecoverable
=============================================================================
