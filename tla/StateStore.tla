----------------------------- MODULE StateStore -----------------------------
(***************************************************************************)
(* FilesystemDeploymentStateStore (deployment/state_store.py): load and    *)
(* save of state.json under one directory lock, by several processes.      *)
(*                                                                         *)
(* The directory holds state.json and, during a save, .state.json.tmp.  A  *)
(* step is one group of system calls that can fail together; any step may  *)
(* raise, a process may be killed between two steps, and the host may lose *)
(* power.  Directory entries changed since the last fsync of the directory *)
(* are undecided after a loss of power.  An administrator may meanwhile    *)
(* change the owner or mode of a directory of the path, or of the reviewed *)
(* siblings of state.json, and put it right again.                         *)
(***************************************************************************)
EXTENDS Integers, FiniteSets

CONSTANTS
    Procs,      \* processes that use the store
    Values,     \* canonical deployment states
    None,       \* absent file, no process, no result
    MaxFaults   \* bound on errors, kills and power losses

StoreAssumption ==
    /\ None \notin Values \cup Procs \cup {"partial", "saved", "failed"}
    /\ {"partial", "saved", "failed"} \cap Values = {}
    /\ MaxFaults \in Nat

VARIABLES
    state,    \* content of state.json
    tmp,      \* content of .state.json.tmp, "partial" until written and synced
    durable,  \* content of state.json that a loss of power cannot take back
    dirty,    \* directory entries changed since its last fsync
    lock,     \* process holding the flock on the directory
    pc,       \* step of each process
    arg,      \* value being saved, None for a load
    saw,      \* state read at the beginning of the call
    replaced, \* the call has replaced state.json
    result,   \* what the last call returned
    disturbed,\* reviewed surroundings of state.json that are not as they should
    faults

files == <<state, tmp, durable, dirty>>
locals == <<arg, saw, replaced>>
storeVars == <<files, lock, pc, locals, result, disturbed, faults>>

Surroundings == {"chain", "siblings"}

StoreInit ==
    /\ state \in Values
    /\ tmp = None
    /\ durable = state
    /\ dirty = FALSE
    /\ lock = None
    /\ pc = [p \in Procs |-> "idle"]
    /\ arg = [p \in Procs |-> None]
    /\ saw = [p \in Procs |-> None]
    /\ replaced = [p \in Procs |-> FALSE]
    /\ result = [p \in Procs |-> None]
    /\ disturbed = {}
    /\ faults = 0

Fault ==
    /\ faults < MaxFaults
    /\ faults' = faults + 1

\* The locals of a call are gone when it ends.
Forget(Q) ==
    /\ arg' = [p \in Procs |-> IF p \in Q THEN None ELSE arg[p]]
    /\ saw' = [p \in Procs |-> IF p \in Q THEN None ELSE saw[p]]
    /\ replaced' = [p \in Procs |-> p \notin Q /\ replaced[p]]

Goto(p, next) == pc' = [pc EXCEPT ![p] = next]

-----------------------------------------------------------------------------
(* What the store requires of the directory before it relies on it.        *)

\* Owner and mode of every directory from the root down to the store's.
ValidateDirectories == "chain" \notin disturbed

\* Each is opened below the one before and is the directory of that name.
OpenChain == ValidateDirectories

\* The same directories still have those names.
RevalidateChain == ValidateDirectories

Entries == {"state.json"} \cup (IF tmp = None THEN {} ELSE {".state.json.tmp"})

\* Exactly the expected names, and every sibling with its owner and mode.
ValidateEntries(expected) == Entries = expected /\ "siblings" \notin disturbed

\* A file is never empty where a state is expected; a temporary may be.
ValidStateFile == state # "partial"
ValidTemporaryFile == tmp # None

OpenState == ValidStateFile

\* Only the canonical bytes of a state parse.
ParsePersisted(raw) == raw \in Values

-----------------------------------------------------------------------------
\* One step of p: it succeeds and goes on, or raises and leaves by the given
\* exit; a failed step may or may not have had its effect on the files.
StoreStep(p, at, effect, next, exit) ==
    /\ pc[p] = at
    /\ \/ effect /\ Goto(p, next) /\ UNCHANGED faults
       \/ Fault /\ Goto(p, exit) /\ (effect \/ UNCHANGED files)
    /\ UNCHANGED <<lock, locals, result, disturbed>>

\* A check of p at this step: it holds and p goes on, or p raises.
Check(p, at, holds, next, exit) ==
    /\ pc[p] = at
    /\ \/ holds /\ Goto(p, next) /\ UNCHANGED faults
       \/ ~holds /\ Goto(p, exit) /\ UNCHANGED faults
       \/ Fault /\ Goto(p, exit)

Invoke(p, value) ==
    /\ pc[p] = "idle"
    /\ Goto(p, IF value = None THEN "open" ELSE "snapshot")
    /\ arg' = [arg EXCEPT ![p] = value]
    /\ result' = [result EXCEPT ![p] = None]
    /\ UNCHANGED <<files, lock, saw, replaced, disturbed, faults>>

\* The state to save is read twice; it must be one state, and canonical.
SnapshotState(p) == StoreStep(p, "snapshot", UNCHANGED files, "open", "unlock_failed")

Open(p) ==
    /\ Check(p, "open", OpenChain, "lock", "unlock_failed")
    /\ UNCHANGED <<files, lock, locals, result, disturbed>>

\* _operate: the flock does not wait.
Lock(p) ==
    /\ pc[p] = "lock"
    /\ \/ lock = None /\ lock' = p /\ Goto(p, IF RevalidateChain THEN "read" ELSE "unlock_failed")
       \/ lock # None /\ Goto(p, "unlock_failed") /\ UNCHANGED lock
    /\ UNCHANGED <<files, locals, result, disturbed, faults>>

\* _read_validated_state: temporary residue fails the call.
Read(p) ==
    LET readable == /\ ValidateEntries({"state.json"})
                    /\ OpenState
                    /\ RevalidateChain
                    /\ ParsePersisted(state)
    IN  /\ Check(p, "read", readable,
                 IF arg[p] = None THEN "unlock" ELSE "create", "unlock_failed")
        /\ saw' = [saw EXCEPT ![p] = IF readable THEN state ELSE @]
        /\ UNCHANGED <<files, lock, arg, replaced, result, disturbed>>

\* The exclusive open and its validation; without the identity of the created
\* inode there is no cleanup.
Create(p) ==
    /\ pc[p] = "create"
    /\ \/ /\ tmp' = "partial"
          /\ dirty' = TRUE
          /\ \/ "siblings" \notin disturbed /\ Goto(p, "write") /\ UNCHANGED faults
             \/ "siblings" \in disturbed /\ Goto(p, "cleanup") /\ UNCHANGED faults
             \/ Fault /\ \E exit \in {"cleanup", "unlock_failed"} : Goto(p, exit)
       \/ Fault /\ Goto(p, "unlock_failed") /\ UNCHANGED <<tmp, dirty>>
    /\ UNCHANGED <<state, durable, lock, locals, result, disturbed>>

\* _write_all and the fsync of the temporary file.
Write(p) ==
    StoreStep(p, "write", tmp' = arg[p] /\ UNCHANGED <<state, durable, dirty>>,
         "confirm", "cleanup")

\* The original is read again before it is replaced.
Confirm(p) ==
    /\ Check(p, "confirm",
             ValidTemporaryFile /\ OpenState /\ state = saw[p] /\ RevalidateChain,
             "replace", "cleanup")
    /\ UNCHANGED <<files, lock, locals, result, disturbed>>

\* os.replace has its effect or raises without it.
Replace(p) ==
    /\ pc[p] = "replace"
    /\ \/ /\ state' = tmp
          /\ tmp' = None
          /\ dirty' = TRUE
          /\ replaced' = [replaced EXCEPT ![p] = TRUE]
          /\ Goto(p, "sync")
          /\ UNCHANGED <<durable, faults>>
       \/ Fault /\ Goto(p, "cleanup") /\ UNCHANGED <<files, replaced>>
    /\ UNCHANGED <<lock, arg, saw, result, disturbed>>

\* Mutant: the directory is not synced after the replacement.
SyncNothing(p) == StoreStep(p, "sync", UNCHANGED files, "verify", "unlock_failed")

\* fsync of the directory decides every entry, those of earlier calls too.
SyncDirectory == durable' = state /\ dirty' = FALSE

\* From here on there is nothing to clean up.
Sync(p) ==
    StoreStep(p, "sync", SyncDirectory /\ UNCHANGED <<state, tmp>>, "verify", "unlock_failed")

\* The new state is opened and compared with what was to be saved.
Verify(p) ==
    /\ Check(p, "verify",
             /\ ValidateEntries({"state.json"})
             /\ OpenState
             /\ state = arg[p] /\ ParsePersisted(state)
             /\ RevalidateChain,
             "unlock", "unlock_failed")
    /\ UNCHANGED <<files, lock, locals, result, disturbed>>

\* _cleanup_temporary: unlink by the created inode, then fsync the directory.
Cleanup(p) ==
    /\ pc[p] = "cleanup"
    /\ Goto(p, "unlock_failed")
    /\ \/ tmp' = None /\ SyncDirectory /\ UNCHANGED <<state, faults>>
       \/ Fault /\ tmp' \in {tmp, None} /\ UNCHANGED <<state, durable, dirty>>
    /\ UNCHANGED <<lock, locals, result, disturbed>>

\* The lock is released and the call returns.
Unlock(p) ==
    /\ pc[p] \in {"unlock", "unlock_failed"}
    /\ lock' = IF lock = p THEN None ELSE lock
    /\ Goto(p, "idle")
    /\ result' = [result EXCEPT ![p] =
                    IF pc[p] = "unlock_failed" THEN "failed"
                    ELSE IF arg[p] = None THEN saw[p] ELSE "saved"]
    /\ Forget({p})
    /\ UNCHANGED <<files, disturbed, faults>>

\* A killed process loses its lock and leaves the files as they are.
Kill(p) ==
    /\ pc[p] # "idle"
    /\ Fault
    /\ Goto(p, "idle")
    /\ lock' = IF lock = p THEN None ELSE lock
    /\ Forget({p})
    /\ result' = [result EXCEPT ![p] = None]
    /\ UNCHANGED <<files, disturbed>>

\* Undecided entries fall either way.  A rename that is taken back leaves the
\* old state; the temporary name is gone, empty or complete.
PowerLoss ==
    /\ Fault
    /\ \/ UNCHANGED <<state, tmp>>
       \/ dirty /\ state' = durable /\ tmp' \in {None, "partial", tmp}
    /\ durable' = state'
    /\ dirty' = FALSE
    /\ lock' = None
    /\ pc' = [p \in Procs |-> "idle"]
    /\ Forget(Procs)
    /\ result' = [p \in Procs |-> None]
    /\ UNCHANGED disturbed

\* The administrator.
Disturb ==
    /\ Fault
    /\ \E d \in Surroundings \ disturbed : disturbed' = disturbed \cup {d}
    /\ UNCHANGED <<files, lock, pc, locals, result>>

Restore ==
    /\ disturbed # {}
    /\ disturbed' = {}
    /\ UNCHANGED <<files, lock, pc, locals, result, faults>>

StoreNext ==
    \/ \E p \in Procs :
        \/ \E value \in Values \cup {None} : Invoke(p, value)
        \/ SnapshotState(p) \/ Open(p) \/ Lock(p) \/ Read(p) \/ Create(p) \/ Write(p) \/ Confirm(p)
        \/ Replace(p) \/ Sync(p) \/ Verify(p) \/ Cleanup(p) \/ Unlock(p)
        \/ Kill(p)
    \/ PowerLoss \/ Disturb \/ Restore

StoreSpec == StoreInit /\ [][StoreNext]_storeVars

-----------------------------------------------------------------------------
\* The calls of the store in the terms of StateRegister.
CallOf(p) ==
    IF pc[p] = "idle" THEN None
    ELSE IF arg[p] = None THEN [op |-> "load"]
    ELSE [op |-> "save", value |-> arg[p], installed |-> replaced[p]]

calls == [p \in Procs |-> CallOf(p)]

Register == INSTANCE StateRegister WITH
    reg <- state, safe <- durable, call <- calls

\* "No call" is not a call.
RegisterAssumption == None \notin Register!Calls

\* The locked read, temporary file, replacement and directory fsync implement
\* the register: no torn or lost state after an acknowledged save, whatever
\* fails, is killed or loses power, and loads see the state as it is.
ImplementsRegister == Register!Spec
=============================================================================
