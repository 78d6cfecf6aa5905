---------------------------- MODULE AtomicWrites ----------------------------
(***************************************************************************)
(* The files the desktop app writes "atomically": a production's           *)
(* production.json (productions.rs), the knowledge base's CSV (csv.rs) and *)
(* the settings' .env (settings.rs), each by one temporary file that is    *)
(* renamed over the target.  The IPC commands are async functions on a     *)
(* thread pool, so calls overlap at the granularity of file system calls;  *)
(* only CSV writes take a lock.                                            *)
(*                                                                         *)
(* The file system is directory entries that name inodes: a handle keeps   *)
(* writing to its inode after the entry was renamed or removed.  A         *)
(* document is the number of the call that wrote it.                       *)
(***************************************************************************)
EXTENDS Naturals, FiniteSets

CONSTANTS
    Clients,       \* threads of the pool, each with one call under way
    Kinds,      \* of files: "csv", "production" and "settings"
    Operations, \* for each kind, what each client calls
    Windows,    \* TRUE: the build for Windows
    NoOne,      \* holds the lock when nobody does
    MaxCalls,   \* bound: calls
    MaxFaults   \* bound: failing file system calls and killed apps

Ops == {"create", "save", "write", "load"}
Calls == 1..MaxCalls
NoFile == 0
Empty == 0
Torn == MaxCalls + 1
Content == 0..(MaxCalls + 1)

ASSUME ConstantsAssumption ==
    /\ Kinds \subseteq {"csv", "production", "settings"}
    /\ Operations \in [Kinds -> [Clients -> SUBSET Ops]]
    /\ Windows \in BOOLEAN
    /\ NoOne \notin Clients
    /\ MaxCalls \in Nat \ {0} /\ MaxFaults \in Nat

VARIABLES
    kind,    \* the file this is about; it never changes
    (* The file system *)
    target,  \* the inode production.json (or the CSV) names, or NoFile
    tmp,     \* the inode the temporary name names, or NoFile
    data,    \* the content of every inode
    (* The app *)
    pc,      \* where each client's call is
    op,      \* which operation it is
    number,  \* the number of the call: of its document and its new inode
    handle,  \* the inode it has open for writing
    lock,    \* who holds csv_lock
    (* What the clients were told *)
    seen,    \* content each client's last load answered, Empty: not found
    acked,   \* calls that were answered Ok
    known,   \* for each call: those that had been when it was invoked
    (* Bounds *)
    calls, faults

fs == <<target, tmp, data>>
told == <<seen, acked, known>>
vars == <<kind, target, tmp, data, pc, op, number, handle, lock,
          seen, acked, known, calls, faults>>

(* How the writer of this kind of file goes about it: csv_lock is held     *)
(* while writing, an existing target is removed before the rename, the     *)
(* process id is part of the temporary name.                               *)
Locked == kind = "csv"
RemovesFirst == kind # "csv" \/ Windows
TmpPerProcess == kind = "csv"

Holding == {"open", "write", "look", "remove", "rename"}

-----------------------------------------------------------------------------
(* There is no file yet, or the document an earlier session left, which    *)
(* stands for an answered call.                                            *)
Init ==
    /\ kind \in Kinds
    /\ calls \in {0, 1}
    /\ target = calls /\ tmp = NoFile
    /\ data = [i \in Calls |-> IF i = calls THEN i ELSE Empty]
    /\ pc = [c \in Clients |-> "idle"]
    /\ op = [c \in Clients |-> "load"]
    /\ number = [c \in Clients |-> 0]
    /\ handle = [c \in Clients |-> NoFile]
    /\ lock = NoOne
    /\ seen = [c \in Clients |-> Empty]
    /\ acked = 1..calls /\ known = [n \in Calls |-> {}]
    /\ faults = 0

Goto(c, label) == pc' = [pc EXCEPT ![c] = label]

(* The front end invokes a command.                                        *)
Invoke(c) ==
    /\ pc[c] = "idle"
    /\ calls < MaxCalls
    /\ calls' = calls + 1
    /\ \E o \in Operations[kind][c] :
          /\ op' = [op EXCEPT ![c] = o]
          /\ Goto(c, IF o = "load" THEN "load" ELSE "check")
    /\ number' = [number EXCEPT ![c] = calls + 1]
    /\ known' = [known EXCEPT ![calls + 1] = acked]
    /\ UNCHANGED <<fs, handle, lock, seen, acked, faults>>

(* create and import refuse an existing production, save a missing one.    *)
Refuses(c) ==
    \/ op[c] = "create" /\ target # NoFile
    \/ op[c] = "save" /\ target = NoFile

(* The guards of a command, before the writer is called.                   *)
Check(c) ==
    /\ pc[c] = "check"
    /\ Goto(c, IF Refuses(c) THEN "idle" ELSE "lock")
    /\ UNCHANGED <<fs, op, number, handle, lock, told, calls, faults>>

(* Mutant: csv_lock is not taken.                                          *)
AcquireMutant(c) ==
    /\ pc[c] = "lock"
    /\ UNCHANGED lock
    /\ Goto(c, "open")
    /\ UNCHANGED <<fs, op, number, handle, told, calls, faults>>

(* A CSV write waits for csv_lock, the other writers take none.            *)
Acquire(c) ==
    /\ pc[c] = "lock"
    /\ Locked => lock = NoOne
    /\ lock' = IF Locked THEN c ELSE lock
    /\ Goto(c, "open")
    /\ UNCHANGED <<fs, op, number, handle, told, calls, faults>>

(* Mutant: the target itself is opened and written in place.               *)
OpenInPlace(c) ==
    /\ pc[c] = "open"
    /\ LET i == IF target # NoFile THEN target ELSE number[c] IN
          /\ tmp' = i
          /\ data' = [data EXCEPT ![i] = Empty]
          /\ handle' = [handle EXCEPT ![c] = i]
    /\ Goto(c, "write")
    /\ UNCHANGED <<target, op, number, lock, told, calls, faults>>

(* Mutant: the target is removed before the new file is written.           *)
OpenMutant(c) ==
    /\ pc[c] = "open"
    /\ LET i == IF tmp = NoFile THEN number[c] ELSE tmp IN
          /\ tmp' = i
          /\ data' = [data EXCEPT ![i] = Empty]
          /\ handle' = [handle EXCEPT ![c] = i]
    /\ target' = NoFile
    /\ Goto(c, "write")
    /\ UNCHANGED <<op, number, lock, told, calls, faults>>

(* The temporary file is created, or truncated if it is there.             *)
Open(c) ==
    /\ pc[c] = "open"
    /\ LET i == IF tmp = NoFile THEN number[c] ELSE tmp IN
          /\ tmp' = i
          /\ data' = [data EXCEPT ![i] = Empty]
          /\ handle' = [handle EXCEPT ![c] = i]
    /\ Goto(c, "write")
    /\ UNCHANGED <<target, op, number, lock, told, calls, faults>>

(* The document is written from the start of the inode; over another       *)
(* call's longer bytes that leaves a mixture.                              *)
Write(c) ==
    /\ pc[c] = "write"
    /\ \E d \in IF data[handle[c]] = Empty
                THEN {number[c]} ELSE {number[c], Torn} :
          data' = [data EXCEPT ![handle[c]] = d]
    /\ Goto(c, "look")
    /\ UNCHANGED <<target, tmp, op, number, handle, lock, told, calls,
                   faults>>

(* path.exists(): does the target have to be removed?                      *)
Look(c) ==
    /\ pc[c] = "look"
    /\ Goto(c, IF RemovesFirst /\ target # NoFile
               THEN "remove" ELSE "rename")
    /\ UNCHANGED <<fs, op, number, handle, lock, told, calls, faults>>

Release(c) == lock' = IF lock = c THEN NoOne ELSE lock

(* Mutant: the lock is kept on an error.                                   *)
FailMutant(c) == Goto(c, "idle") /\ UNCHANGED lock

(* The command answers an error; the guard of the lock is dropped.         *)
Fail(c) == Goto(c, "idle") /\ Release(c)

Remove(c) ==
    /\ pc[c] = "remove"
    /\ IF target = NoFile
       THEN Fail(c) /\ UNCHANGED target
       ELSE /\ target' = NoFile
            /\ Goto(c, "rename")
            /\ UNCHANGED lock
    /\ UNCHANGED <<tmp, data, op, number, handle, told, calls, faults>>

(* Whatever the temporary name stands for becomes the target.              *)
Rename(c) ==
    /\ pc[c] = "rename"
    /\ IF tmp = NoFile
       THEN Fail(c) /\ UNCHANGED <<target, tmp>>
       ELSE /\ target' = tmp /\ tmp' = NoFile
            /\ Goto(c, "reply")
            /\ Release(c)
    /\ UNCHANGED <<data, op, number, handle, told, calls, faults>>

(* The command answers Ok.                                                 *)
Reply(c) ==
    /\ pc[c] = "reply"
    /\ acked' = acked \cup {number[c]}
    /\ Goto(c, "idle")
    /\ UNCHANGED <<fs, op, number, handle, lock, seen, known, calls,
                   faults>>

(* load_production: a file that is missing or does not parse is skipped.   *)
Load(c) ==
    /\ pc[c] = "load"
    /\ seen' = [seen EXCEPT ![c] =
                   IF target # NoFile THEN data[target] ELSE Empty]
    /\ Goto(c, "idle")
    /\ UNCHANGED <<fs, op, number, handle, lock, acked, known,
                   calls, faults>>

(* A file system call of the writer fails; a write may be done in part.    *)
IOFails(c) ==
    /\ pc[c] \in {"open", "write", "remove", "rename"}
    /\ faults < MaxFaults
    /\ faults' = faults + 1
    /\ \/ UNCHANGED data
       \/ pc[c] = "write" /\ data' = [data EXCEPT ![handle[c]] = Torn]
    /\ Fail(c)
    /\ UNCHANGED <<target, tmp, op, number, handle, told, calls>>

(* The app is killed: all calls end unanswered, what was being written may *)
(* be there in part.  The next start has another process id.               *)
Kill ==
    /\ faults < MaxFaults
    /\ \E c \in Clients : pc[c] # "idle"
    /\ faults' = faults + 1
    /\ \E half \in SUBSET {handle[c] : c \in {d \in Clients :
                                                pc[d] = "write"}} :
          data' = [i \in Calls |-> IF i \in half THEN Torn ELSE data[i]]
    /\ tmp' = IF TmpPerProcess THEN NoFile ELSE tmp
    /\ pc' = [c \in Clients |-> "idle"]
    /\ lock' = NoOne
    /\ UNCHANGED <<target, op, number, handle, told, calls>>

Step(c) ==
    /\ UNCHANGED kind
    /\ \/ Check(c) \/ Acquire(c) \/ Open(c) \/ Write(c) \/ Look(c)
       \/ Remove(c) \/ Rename(c) \/ Reply(c) \/ Load(c)

Next ==
    \/ \E c \in Clients : Step(c)
    \/ /\ UNCHANGED kind
       /\ (\E c \in Clients : Invoke(c) \/ IOFails(c)) \/ Kill

Spec == Init /\ [][Next]_vars

(* A thread of the pool goes on with its call as soon as it can.           *)
FairSpec == Spec /\ \A c \in Clients : WF_vars(Step(c))

-----------------------------------------------------------------------------
(* Properties                                                              *)

Documents == Calls

(* Every variable keeps its shape, a call under way has a number, and the  *)
(* lock is held by a call that is writing.                                 *)
TypeOK ==
    /\ kind \in Kinds
    /\ target \in 0..MaxCalls /\ tmp \in 0..MaxCalls
    /\ data \in [Calls -> Content]
    /\ pc \in [Clients -> {"idle", "check", "lock", "reply", "load"}
                             \cup Holding]
    /\ op \in [Clients -> Ops]
    /\ number \in [Clients -> 0..MaxCalls]
    /\ \A c \in Clients : pc[c] # "idle" => number[c] \in Calls
    /\ handle \in [Clients -> 0..MaxCalls]
    /\ lock \in Clients \cup {NoOne}
    /\ lock # NoOne => pc[lock] \in Holding
    /\ seen \in [Clients -> Content]
    /\ acked \subseteq Calls
    /\ known \in [Calls -> SUBSET Calls]
    /\ calls \in 0..MaxCalls /\ faults \in 0..MaxFaults

(* Whoever opens the file finds one whole document, whatever is being      *)
(* written and wherever a write was cut short.                             *)
WholeFile == target # NoFile => data[target] \in Documents

(* The file is there, and once call e was answered it holds no document    *)
(* that was acknowledged before e was made.                                *)
NothingLost == \A e \in acked :
    target # NoFile /\ data[target] \in Documents \ known[e]

(* A write that renames over the target never loses what was answered Ok,  *)
(* wherever it is interrupted and however writes overlap.                  *)
AckedStays == ~RemovesFirst => NothingLost

(* The same of either name: after a kill the document that was to replace  *)
(* the acknowledged one may be left under the temporary name.              *)
Recoverable == \A e \in acked :
    \E i \in {target, tmp} \ {NoFile} : data[i] \in Documents \ known[e]

(* Until, and including, the first kill or failing file system call        *)
(* nothing that was acknowledged is destroyed.                             *)
FirstFaultRecoverable == [][faults = 0 => Recoverable']_vars

(* Every call is answered: an error path never leaves the lock behind.     *)
EveryCallAnswered == \A c \in Clients : []<>(pc[c] = "idle")
=============================================================================
