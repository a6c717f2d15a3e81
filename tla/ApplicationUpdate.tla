-------------------------- MODULE ApplicationUpdate --------------------------
(***************************************************************************)
(* The pinned application update of the DEV host                           *)
(* (deployment/dev_post_c31_application_update.py).                        *)
(*                                                                         *)
(* The update replaces CHANGED application files in one fixed order and    *)
(* then the executor configuration, which names the reviewed commit.  Each *)
(* replacement writes one stage file, makes its bytes durable, changes its *)
(* mode, makes that durable, renames the stage over the destination and    *)
(* syncs the directory.  A run that was killed, failed or lost power is    *)
(* never repaired: the next run must recognise what it finds as a prefix   *)
(* of the order with at most one exact stage, and continue from there.     *)
(*                                                                         *)
(* There are two directories, the application's and the configuration's.   *)
(* Each is seen as how many of its files carry the target bytes and        *)
(* whether a stage exists.  Directory operations reach the disk in order   *)
(* but only a directory fsync forces them, so `may' holds the contents     *)
(* that a power loss could leave.  Length, mode and owner of the newest    *)
(* file reach the disk independently of one another until its fsync, which *)
(* is what `synced' records.                                               *)
(***************************************************************************)
EXTENDS Naturals

CONSTANTS
    Updater,            \* processes that run update_post_c31_application
    CHANGED,            \* number of application files that change
    Payload,            \* length of a file, in write calls
    MaxInterruptions    \* bound on kills, failures and power losses

ASSUME UpdateAssumption ==
    /\ CHANGED \in Nat \ {0}
    /\ Payload \in Nat \ {0}
    /\ MaxInterruptions \in Nat
    /\ "nobody" \notin Updater

VARIABLES
    entry,          \* directory contents as a running process sees them
    may,            \* directory contents a power loss may leave
    inode,          \* the newest stage file of a directory, possibly renamed
    synced,         \* that file as its last fsync left it
    pc, view,       \* each updater's position and its UpdateState
    lock,           \* holder of the process lock, or NoOne
    exact,          \* every other boundary of the host is as reviewed
    interruptions

disk == <<entry, may, inode, synced>>
vars == <<entry, may, inode, synced, pc, view, lock, exact, interruptions>>

Area == {"app", "cfg"}

NoOne == "nobody"

\* The value of a view that is never read.
NoView == [a \in Area |->
    [count |-> 0, stage |-> "absent", len |-> 0, mode |-> "initial"]]

\* CHANGED application files, one configuration file.
Files(a) == IF a = "app" THEN CHANGED ELSE 1

Stage == {"absent", "present"}

\* A mode or an owner: as the stage was created, or as reviewed.
Setting == {"initial", "final"}

Entry == [count : Nat, stage : Stage]

File == [file : Nat, len : 0 .. Payload, mode : Setting, owner : Setting]

View == [count : Nat, stage : Stage, len : 0 .. Payload, mode : Setting]

Entered(n, s) == [count |-> n, stage |-> s]

\* A file whose bytes, mode and owner are all the reviewed ones.
Complete(n) == [file |-> n, len |-> Payload, mode |-> "final", owner |-> "final"]

\* Which file of the order a directory's newest inode is, or will become.
Newest(e) == IF e.stage = "present" THEN e.count + 1 ELSE e.count

Running == {"qualify", "sync", "recheck", "stage", "own", "write", "chmod",
            "seal", "rename", "publish", "finish"}

Init ==
    /\ entry = [a \in Area |-> Entered(0, "absent")]
    /\ may = [a \in Area |-> {Entered(0, "absent")}]
    /\ inode = [a \in Area |-> Complete(0)]
    /\ synced = [a \in Area |-> Complete(0)]
    /\ pc = [p \in Updater |-> "idle"]
    /\ view = [p \in Updater |-> NoView]
    /\ lock = NoOne
    /\ exact = TRUE
    /\ interruptions = 0

-----------------------------------------------------------------------------
(* What a run recognises *)

\* _stage: the stage is a prefix of the next file; the final mode is accepted
\* only on all of its bytes with the final owner.
StageExact(a) ==
    inode[a].mode = "final" => inode[a].len = Payload /\ inode[a].owner = "final"

\* _verify_application, and the byte comparison of the configuration: every
\* installed file is whole.
InstalledExact(a) ==
    entry[a].stage = "absent" /\ inode[a].file = entry[a].count
        => inode[a] = Complete(entry[a].count)

\* _application_state: a prefix of the order, a stage only while a file is due.
ApplicationRecognized ==
    /\ InstalledExact("app")
    /\ entry["app"].stage = "present" => /\ entry["app"].count < CHANGED
                             /\ StageExact("app")

\* _config_state: the target configuration and its stage only on a complete
\* application, and the stage only while the predecessor is installed.
ConfigurationRecognized ==
    /\ InstalledExact("cfg")
    /\ entry["cfg"].count = 1 => entry["app"].count = CHANGED
    /\ entry["cfg"].stage = "present" => /\ entry["cfg"].count = 0
                             /\ entry["app"].count = CHANGED
                             /\ StageExact("cfg")

Recognized == ApplicationRecognized /\ ConfigurationRecognized

\* _inspect: the UpdateState of the host.
Inspection ==
    [a \in Area |-> [count |-> entry[a].count,
                     stage |-> entry[a].stage,
                     len   |-> IF entry[a].stage = "present" THEN inode[a].len ELSE 0,
                     mode  |-> IF entry[a].stage = "present"
                               THEN inode[a].mode ELSE "initial"]]

\* The directory the current iteration advances.
Target(p) == IF view[p]["app"].count < CHANGED THEN "app" ELSE "cfg"

-----------------------------------------------------------------------------
(* The update *)

Goto(p, label) == pc' = [pc EXCEPT ![p] = label]

\* Every exception leaves the host as it is and releases the lock.
Abandon(p) ==
    /\ Goto(p, "idle")
    /\ view' = [view EXCEPT ![p] = NoView]
    /\ lock' = NoOne
    /\ UNCHANGED disk

\* The process lock is a nonblocking flock; its evidence is pinned.
Start(p) ==
    /\ pc[p] \in {"idle", "done"}
    /\ lock = NoOne
    /\ lock' = p
    /\ Goto(p, "qualify")
    /\ UNCHANGED <<disk, view, exact, interruptions>>

\* Mutant: renames of an earlier run are not synced first.
QualifyWithoutSync(p) ==
    /\ pc[p] = "qualify"
    /\ Recognized /\ exact
    /\ view' = [view EXCEPT ![p] = Inspection]
    /\ Goto(p, IF entry["cfg"].count = 1 THEN "finish" ELSE "stage")
    /\ UNCHANGED <<disk, lock, exact, interruptions>>

\* _qualify_state, and the choice the loop makes from the state it returns.
Qualify(p) ==
    /\ pc[p] = "qualify"
    /\ Recognized /\ exact
    /\ view' = [view EXCEPT ![p] = Inspection]
    /\ Goto(p, IF entry["cfg"].count = 1 THEN "finish"
               ELSE IF entry["app"].count = 0 THEN "stage" ELSE "sync")
    /\ UNCHANGED <<disk, lock, exact, interruptions>>

Refuse(p) ==
    /\ pc[p] = "qualify"
    /\ ~ (Recognized /\ exact)
    /\ Abandon(p)
    /\ UNCHANGED <<exact, interruptions>>

\* An earlier run may have renamed a file and stopped before its sync.
SyncPrefix(p) ==
    /\ pc[p] = "sync"
    /\ may' = [may EXCEPT !["app"] = {entry["app"]}]
    /\ Goto(p, "recheck")
    /\ UNCHANGED <<entry, inode, synced, view, lock, exact, interruptions>>

\* A mismatch here, or between a stage and its view below, is an exception
\* like any other (Interrupt); the lock keeps one from arising by itself.
Recheck(p) ==
    /\ pc[p] = "recheck"
    /\ Recognized /\ Inspection = view[p]
    /\ Goto(p, "stage")
    /\ UNCHANGED <<disk, view, lock, exact, interruptions>>

\* The configuration stage is created with the initial group.
CreateStage(p) ==
    LET a == Target(p)
        new == [file  |-> entry[a].count + 1,
                len   |-> 0,
                mode  |-> "initial",
                owner |-> IF a = "app" THEN "final" ELSE "initial"]
    IN  /\ pc[p] = "stage"
        /\ entry[a].stage = "absent"
        /\ view[p][a].stage = "absent"
        /\ entry' = [entry EXCEPT ![a] = Entered(entry[a].count, "present")]
        /\ may' = [may EXCEPT ![a] = @ \cup {Entered(entry[a].count, "present")}]
        /\ inode' = [inode EXCEPT ![a] = new]
        /\ synced' = [synced EXCEPT ![a] = new]
        /\ Goto(p, "own")
        /\ UNCHANGED <<view, lock, exact, interruptions>>

ContinueStage(p) ==
    LET a == Target(p)
    IN  /\ pc[p] = "stage"
        /\ entry[a].stage = "present"
        /\ view[p][a].stage = "present" /\ view[p][a].len = inode[a].len
        /\ Goto(p, "own")
        /\ UNCHANGED <<disk, view, lock, exact, interruptions>>

\* fchown of _write_replace_stage; the rest of it follows up to SyncRename.
TakeOwnership(p) ==
    /\ pc[p] = "own"
    /\ inode' = [inode EXCEPT ![Target(p)].owner = "final"]
    /\ Goto(p, "write")
    /\ UNCHANGED <<entry, may, synced, view, lock, exact, interruptions>>

WriteChunk(p) ==
    LET a == Target(p)
    IN  /\ pc[p] = "write"
        /\ inode[a].len < Payload
        /\ inode[a].mode = "initial"
        /\ inode' = [inode EXCEPT ![a].len = @ + 1]
        /\ UNCHANGED <<entry, may, synced, pc, view, lock, exact, interruptions>>

\* Mutant: the mode changes before the bytes are durable.
SyncBytesLater(p) ==
    /\ pc[p] = "write"
    /\ inode[Target(p)].len = Payload
    /\ Goto(p, "chmod")
    /\ UNCHANGED <<disk, view, lock, exact, interruptions>>

SyncBytes(p) ==
    LET a == Target(p)
    IN  /\ pc[p] = "write"
        /\ inode[a].len = Payload
        /\ synced' = [synced EXCEPT ![a] = inode[a]]
        /\ Goto(p, "chmod")
        /\ UNCHANGED <<entry, may, inode, view, lock, exact, interruptions>>

ChangeMode(p) ==
    /\ pc[p] = "chmod"
    /\ inode' = [inode EXCEPT ![Target(p)].mode = "final"]
    /\ Goto(p, "seal")
    /\ UNCHANGED <<entry, may, synced, view, lock, exact, interruptions>>

SyncMode(p) ==
    LET a == Target(p)
    IN  /\ pc[p] = "seal"
        /\ synced' = [synced EXCEPT ![a] = inode[a]]
        /\ Goto(p, "rename")
        /\ UNCHANGED <<entry, may, inode, view, lock, exact, interruptions>>

Replace(p) ==
    LET a == Target(p)
        e == Entered(entry[a].count + 1, "absent")
    IN  /\ pc[p] = "rename"
        /\ entry' = [entry EXCEPT ![a] = e]
        /\ may' = [may EXCEPT ![a] = @ \cup {e}]
        /\ Goto(p, "publish")
        /\ UNCHANGED <<inode, synced, view, lock, exact, interruptions>>

\* Mutant: the run ends after one replacement.
SyncRenameReturns(p) ==
    /\ pc[p] = "publish"
    /\ may' = [may EXCEPT ![Target(p)] = {entry[Target(p)]}]
    /\ Goto(p, "idle")
    /\ view' = [view EXCEPT ![p] = NoView]
    /\ lock' = NoOne
    /\ UNCHANGED <<entry, inode, synced, exact, interruptions>>

\* The directory fsync of _write_replace_stage; then the loop starts over.
SyncRename(p) ==
    LET a == Target(p)
    IN  /\ pc[p] = "publish"
        /\ may' = [may EXCEPT ![a] = {entry[a]}]
        /\ Goto(p, "qualify")
        /\ view' = [view EXCEPT ![p] = NoView]
        /\ UNCHANGED <<entry, inode, synced, lock, exact, interruptions>>

\* Mutant: a configuration that an earlier run installed is not synced.
FinishUnsynced(p) ==
    /\ pc[p] = "finish"
    /\ Goto(p, "done")
    /\ view' = [view EXCEPT ![p] = NoView]
    /\ lock' = NoOne
    /\ UNCHANGED <<disk, exact, interruptions>>

\* The target configuration is installed: sync its directory and return.
Finish(p) ==
    /\ pc[p] = "finish"
    /\ may' = [may EXCEPT !["cfg"] = {entry["cfg"]}]
    /\ Goto(p, "done")
    /\ view' = [view EXCEPT ![p] = NoView]
    /\ lock' = NoOne
    /\ UNCHANGED <<entry, inode, synced, exact, interruptions>>

-----------------------------------------------------------------------------
(* The environment *)

\* A system call fails or the process is killed, at any point of a run.
Interrupt(p) ==
    /\ pc[p] \in Running
    /\ interruptions < MaxInterruptions
    /\ interruptions' = interruptions + 1
    /\ Abandon(p)
    /\ UNCHANGED exact

\* What a power loss may leave of one directory: any contents not yet
\* overtaken by a sync, and any mixture of the unsynced length, mode and owner.
AfterLoss(a) ==
    { [entry |-> e,
       inode |-> IF inode[a].file = Newest(e)
                 THEN [file |-> inode[a].file, len |-> n, mode |-> m, owner |-> o]
                 ELSE Complete(Newest(e))] :
        e \in may[a],
        n \in synced[a].len .. inode[a].len,
        m \in {synced[a].mode, inode[a].mode},
        o \in {synced[a].owner, inode[a].owner} }

PowerLoss ==
    /\ interruptions < MaxInterruptions
    /\ interruptions' = interruptions + 1
    /\ \E app \in AfterLoss("app"), cfg \in AfterLoss("cfg") :
          LET left == [a \in Area |-> IF a = "app" THEN app ELSE cfg]
          IN  /\ entry' = [a \in Area |-> left[a].entry]
              /\ may' = [a \in Area |-> {left[a].entry}]
              /\ inode' = [a \in Area |-> left[a].inode]
              /\ synced' = [a \in Area |-> left[a].inode]
    /\ pc' = [p \in Updater |-> "idle"]
    /\ view' = [p \in Updater |-> NoView]
    /\ lock' = NoOne
    /\ UNCHANGED exact

\* Some other boundary (a package, a principal, the replay database) changes.
Drift ==
    /\ exact
    /\ exact' = FALSE
    /\ UNCHANGED <<disk, pc, view, lock, interruptions>>

-----------------------------------------------------------------------------
Step(p) ==
    \/ Qualify(p) \/ Refuse(p)
    \/ SyncPrefix(p) \/ Recheck(p)
    \/ CreateStage(p) \/ ContinueStage(p) \/ TakeOwnership(p)
    \/ WriteChunk(p) \/ SyncBytes(p) \/ ChangeMode(p) \/ SyncMode(p)
    \/ Replace(p) \/ SyncRename(p) \/ Finish(p)

Next ==
    \/ \E p \in Updater : Start(p) \/ Step(p) \/ Interrupt(p)
    \/ PowerLoss
    \/ Drift

Spec == Init /\ [][Next]_vars

\* A process that holds the lock is scheduled until it returns.
FairSpec == Spec /\ \A p \in Updater : WF_vars(Step(p))

-----------------------------------------------------------------------------
(* Properties *)

TypeOK ==
    /\ entry \in [Area -> Entry]
    /\ may \in [Area -> SUBSET Entry]
    /\ inode \in [Area -> File]
    /\ synced \in [Area -> File]
    /\ pc \in [Updater -> Running \cup {"idle", "done"}]
    /\ view \in [Updater -> [Area -> View]]
    /\ lock \in Updater \cup {NoOne}
    /\ exact \in BOOLEAN
    /\ interruptions \in 0 .. MaxInterruptions

\* Wherever runs were killed, failed or lost power, what is on the host is a
\* state that the next run recognises, so an update can always be resumed
\* (_application_state and _config_state never refuse the update's own work).
AlwaysRecognized == Recognized

\* The configuration names the target commit on disk only when every
\* application file of that commit is on disk too, even after a power loss:
\* _advance_configuration syncs the application directory first.
ConfigurationIsLast ==
    \A e \in may["cfg"] :
        e.count = 1 \/ e.stage = "present" => may["app"] = {Entered(CHANGED, "absent")}

\* When update_post_c31_application returns, no power loss can undo it, also
\* when the rename was made by an earlier run that stopped before its sync.
SuccessIsDurable ==
    \A p \in Updater :
        pc[p] = "done" => /\ may["app"] = {Entered(CHANGED, "absent")}
                          /\ may["cfg"] = {Entered(1, "absent")}

\* At most one replacement of a directory is uncertain at any time: an unsynced
\* rename is synced, by this run or the next, before another stage is created.
OneUncertainReplacement ==
    \A a \in Area : \A e, f \in may[a] : e.count <= f.count + 1

(* The inductive invariant behind them *)

\* Only the lock's holder runs.
HolderRuns == \A p \in Updater : pc[p] \in Running <=> lock = p

\* What one directory may hold: no stage, a whole newest file and at most one
\* rename in doubt; or a stage for the next file, whose mode changes only
\* after its bytes and owner are durable.
DirectoryOrdered(a) ==
    /\ entry[a] \in may[a]
    /\ entry[a].count <= Files(a)
    /\ entry[a].stage = "present" =>
          /\ entry[a].count < Files(a)
          /\ inode[a].file = entry[a].count + 1
          /\ \A e \in may[a] : e.count = entry[a].count
    /\ entry[a].stage = "absent" =>
          /\ inode[a] = Complete(entry[a].count)
          /\ synced[a] = inode[a]
          /\ \A e \in may[a] : e = entry[a] \/ e.count + 1 = entry[a].count
    /\ synced[a].file = inode[a].file
    /\ synced[a].len <= inode[a].len
    /\ synced[a].mode = "final" => inode[a].mode = "final"
    /\ synced[a].owner = "final" => inode[a].owner = "final"
    /\ inode[a].mode = "final" =>
          synced[a].len = Payload /\ synced[a].owner = "final"

\* What a running update knows at each point of an iteration.
UpdaterKnows(p) ==
    LET a == Target(p)
    IN  /\ pc[p] \in {"sync", "recheck", "stage"} =>
              /\ view[p] = Inspection
              /\ entry["cfg"].count = 0
        /\ pc[p] \in {"recheck", "stage"} /\ entry["app"].count > 0 =>
              may["app"] = {entry["app"]}
        /\ pc[p] \in {"own", "write", "chmod", "seal", "rename"} =>
              /\ entry[a].stage = "present"
              /\ view[p]["app"].count = entry["app"].count
              /\ entry["cfg"].count = 0
        /\ pc[p] \in {"write", "chmod", "seal", "rename"} => inode[a].owner = "final"
        /\ pc[p] \in {"chmod", "seal", "rename"} =>
              inode[a].len = Payload /\ synced[a].len = Payload /\ synced[a].owner = "final"
        /\ pc[p] \in {"seal", "rename"} => inode[a].mode = "final"
        /\ pc[p] = "rename" => synced[a] = inode[a]
        /\ pc[p] = "finish" => entry["cfg"].count = 1

UpdateInvariant ==
    /\ TypeOK
    /\ HolderRuns
    /\ \A a \in Area : DirectoryOrdered(a)
    /\ ConfigurationIsLast
    /\ \A p \in Updater : UpdaterKnows(p)
    /\ SuccessIsDurable

-----------------------------------------------------------------------------
\* A run that is not interrupted, on a host that is otherwise as reviewed,
\* completes the update from whatever earlier runs left behind.
RunCompletes ==
    \A p \in Updater, n \in 0 .. MaxInterruptions :
        (pc[p] \in Running /\ interruptions = n)
            ~> (pc[p] = "done" \/ interruptions > n \/ ~ exact)

=============================================================================
