-------------------------- MODULE HostGenerations --------------------------
(***************************************************************************)
(* The generations of the provisioned DEV host after the pinned C32D       *)
(* application: the final application update, the broker's resources with  *)
(* the Sigstore files, the two successor migrations, and the three         *)
(* rotations of the workflow SHA that the broker expects.                  *)
(*                                                                         *)
(* Each operation is a root process under the one deployment lock.  It     *)
(* keeps nothing between calls: it recognizes the host, publishes files by *)
(* rename or by link, and reports.  It can fail, be killed between two     *)
(* system calls, or lose the machine's power.  A name is durable once its  *)
(* directory has been synced: may[f] holds the values of the object f that *)
(* a power loss can leave, and host[f] the one that is visible.  The object*)
(* `static' is the set of those names that are there of two directories    *)
(* and the Sigstore file in each.  The runtime directories are under /run  *)
(* and never outlive a power loss.                                         *)
(*                                                                         *)
(* Generation 0 is C31 or C32D, 1 the final C32W, 2 the successor C32ZH and*)
(* 3 the state-store successor C33AD.                                      *)
(***************************************************************************)
EXTENDS Naturals

CONSTANTS
    Files,          \* changed application files of the final update
    Directories,    \* runtime directories of the broker
    Shas,           \* workflow commits
    PREDECESSOR_WORKFLOW_SHA,   \* the one C33AE wants installed
    MaxFaults       \* bound on failures, kills, power losses and restarts

ASSUME GenerationsAssumption ==
    /\ Files \in Nat \ {0} /\ Directories \in Nat \ {0}
    /\ PREDECESSOR_WORKFLOW_SHA \in Shas /\ Shas # {PREDECESSOR_WORKFLOW_SHA}
    /\ MaxFaults \in Nat

VARIABLES
    host,           \* the visible objects
    may,            \* per object, what a power loss can leave
    stage,          \* the resumable stage beside a destination
    temps,          \* temporaries and directories that are not finished
    incarnation,    \* identity of the rootless manager and daemon
    drift,          \* reviewed facts that do not hold now
    run,            \* the active operation
    report,         \* what the last one returned
    lost,           \* a power loss has taken a published name back
    faults

genVars == <<host, may, stage, temps, incarnation, drift, run, report, lost, faults>>

\* The Git objects; the C31D post-provisioning state; the replay database; the
\* unit source and Sigstore staging directory; state, replay and audit without
\* any deployment; broker, executor and socket stopped; the C33T runtime.
Facts == {"reviewed", "provisioned", "replay", "inputs", "pristine", "closed",
          "rootless"}

Absent == [gen |-> 0, sha |-> "none"]
NoStage == [at |-> "none", sha |-> "none"]

\* The directory of the broker's configuration and the tools directory, cosign
\* in the tools directory and the trusted root beside the broker's configuration.
Names == {"config", "tools", "cosign", "root"}
Holder(n) == CASE n = "cosign" -> {"tools"}
               [] n = "root" -> {"config"}
               [] OTHER -> {}

Objects == {"app", "executor", "broker", "static", "unit"}

Fresh == [app |-> 0, executor |-> 0, broker |-> Absent, static |-> {},
          runtime |-> 0, unit |-> 0]

Rotations == {"rotate_final", "rotate_successor", "rotate_state_store"}
Migrations == {"successor", "state_store"}
Operations == {"final", "resources"} \cup Migrations \cup Rotations

Idle == [op |-> "none", sha |-> "none", pc |-> "idle", at |-> "none",
         seen |-> 0, used |-> {}, was |-> Fresh]

NoReport == [op |-> "none", sha |-> "none", ok |-> FALSE, seen |-> 0,
             used |-> {}, was |-> Fresh]

-----------------------------------------------------------------------------
(* What an operation recognizes. *)

Holds(f) == f \notin drift

\* Files of the final plan come first, then the successor's one adapter, then
\* the state-store successor's one file.
FinalApplication == host.app >= Files
SuccessorApplication == host.app >= Files + 1
StateStoreApplication == host.app >= Files + 2

AppGeneration ==
    CASE StateStoreApplication -> 3
      [] SuccessorApplication /\ ~StateStoreApplication -> 2
      [] FinalApplication /\ ~SuccessorApplication -> 1
      [] ~FinalApplication -> 0

Unstaged == stage = NoStage

\* A configuration file has one link; the temporary is a second one.
ExactConfigurationFile == "broker" \notin temps

\* The canonical configurations that root reads.
ReadExecutor == host.executor
ReadBroker == IF ExactConfigurationFile THEN host.broker ELSE Absent

\* The broker configuration that each generation derives from the installed
\* executor's and a workflow SHA.
FinalBroker(w) == [gen |-> 1, sha |-> w]
SuccessorBroker(w) == [gen |-> 2, sha |-> w]
StateStoreBroker(w) == [gen |-> 3, sha |-> w]

BrokerOf(g, w) == CASE g = 1 -> FinalBroker(w)
                    [] g = 2 -> SuccessorBroker(w)
                    [] g = 3 -> StateStoreBroker(w)

\* The pinned commits with exactly their reviewed trees, parents and changes.
ReviewedFinal == Holds("reviewed")
ReviewedSuccessor == Holds("reviewed")
ReviewedStateStore == Holds("reviewed")

\* _application_state: a prefix of the plan, with a stage of the next file only.
FinalApplicationState ==
    /\ host.app <= Files
    /\ stage.at = "app" => host.app < Files

\* _inspect: the configuration follows the whole application.
FinalInspect ==
    /\ FinalApplicationState
    /\ stage.at = "executor" => host.app = Files

\* _qualify_state for the installed final target.
FinalTarget == ReadExecutor = 1 /\ AppGeneration = 1 /\ Unstaged

FinalQualify ==
    /\ ReviewedFinal /\ Holds("provisioned")
    /\ \/ ReadExecutor = 0 /\ FinalInspect
       \/ FinalTarget

\* _pair: the broker belongs to the complete final generation.
FinalPair == FinalQualify /\ ReadExecutor = 1

\* The broker's configuration directory and the runtime directories.
BrokerDirectories ==
    /\ "config" \in host.static /\ host.runtime = Directories
    /\ "directory" \notin temps

\* _destination of both Sigstore files, without a temporary; cosign comes first.
RootWithoutCosign == "root" \in host.static /\ "cosign" \notin host.static

StaticDestinations ==
    /\ temps \cap {"cosign", "root", "directory"} = {}
    /\ ~RootWithoutCosign

\* _qualify_installed.
StaticInstalled == StaticDestinations /\ host.static = Names

\* The replay database validates; the inputs are the reviewed unit and the two
\* staged Sigstore files.
ReplayValid == Holds("replay")
SourceUnit == Holds("inputs")
StagedSource == Holds("inputs")

TemporaryAbsent(o) == o \notin temps

BrokerIs(g, w) == host.broker = BrokerOf(g, w)

\* _qualify of the resources; the unit's own temporary does not matter.
ResourceQualification(g, w) ==
    /\ BrokerDirectories
    /\ BrokerIs(g, w) /\ TemporaryAbsent("broker")
    /\ host.unit = 1 /\ TemporaryAbsent("unit")
    /\ ReplayValid
    /\ StaticInstalled

\* The configuration is published after the Sigstore files, the unit last.
ResourcesAdmitted(w) ==
    /\ FinalPair
    /\ ReplayValid /\ SourceUnit /\ StagedSource
    /\ TemporaryAbsent("broker") /\ TemporaryAbsent("unit")
    /\ "directory" \notin temps
    /\ host.broker = Absent \/ BrokerIs(1, w)
    /\ host.unit = 1 => host.broker # Absent
    /\ host.broker # Absent => StaticInstalled

\* The generation a migration leads to.
Target(op) == IF op = "successor" THEN 2 ELSE 3

\* C32ZJ carries the installed SHA forward; C33AE binds the one it is given.
TargetSha(op, w) == IF op = "successor" THEN ReadBroker.sha ELSE w

PredecessorBroker(op) ==
    /\ ReadBroker.gen = Target(op) - 1
    /\ op = "state_store" => ReadBroker.sha = PREDECESSOR_WORKFLOW_SHA

TargetBroker(op, w) == ReadBroker = BrokerOf(Target(op), TargetSha(op, w))

\* classify: the four exact prefixes.
Phase(op, w) ==
    LET g == Target(op)
    IN CASE /\ AppGeneration = g - 1 /\ ReadExecutor = g - 1
            /\ PredecessorBroker(op) -> "predecessor"
         [] /\ AppGeneration = g /\ ReadExecutor = g - 1
            /\ PredecessorBroker(op) -> "application"
         [] /\ AppGeneration = g /\ ReadExecutor = g
            /\ PredecessorBroker(op) -> "executor"
         [] /\ AppGeneration = g /\ ReadExecutor = g
            /\ TargetBroker(op, w) -> "complete"
         [] OTHER -> "rejected"

NextDestination(phase) ==
    CASE phase = "predecessor" -> "app"
      [] phase = "application" -> "executor"
      [] phase = "executor" -> "broker"
      [] OTHER -> "none"

\* A stage is accepted beside the next destination only, with its own bytes.
StagePermitted(op, w) == stage.at \in {"none", NextDestination(Phase(op, w))}
StageExact(op, w) == stage.at = "broker" => stage.sha = TargetSha(op, w)

\* The three installed units are inactive; C33AE also wants no process of theirs,
\* no pending reload and no socket in the file system.
ServicesClosed == Holds("closed") /\ host.unit = 1
ControlPlaneClosed(op) == ServicesClosed /\ (op = "state_store" => Holds("closed"))
RootlessRuntime == Holds("rootless")

\* _persistent_state of the state-store migration.
PersistentState(op) == op = "state_store" => Holds("pristine")

\* C33AE refuses the predecessor's own SHA as its target.
Inspect(op, w) ==
    /\ op = "state_store" => w # PREDECESSOR_WORKFLOW_SHA
    /\ Phase(op, w) # "rejected"
    /\ StagePermitted(op, w) /\ StageExact(op, w)

MigrationQualified(op, w) ==
    /\ IF op = "successor" THEN ReviewedSuccessor ELSE ReviewedStateStore
    /\ ControlPlaneClosed(op) /\ RootlessRuntime
    /\ PersistentState(op)
    /\ Inspect(op, w)

\* _qualify of the live authorities.
LiveAuthority(op, w) ==
    /\ MigrationQualified(op, w)
    /\ Phase(op, w) = "complete" /\ Unstaged
    /\ ResourceQualification(Target(op), w)

\* What a rotation finds installed before, and leaves installed after.
QualifiedFinal(w) == FinalPair /\ ResourceQualification(1, w)
QualifiedSuccessor(w) == LiveAuthority("successor", w)
QualifiedStateStore(w) == LiveAuthority("state_store", w)

Qualified(op, w) ==
    \/ op = "rotate_final" /\ QualifiedFinal(w)
    \/ op = "rotate_successor" /\ QualifiedSuccessor(w)
    \/ op = "rotate_state_store" /\ QualifiedStateStore(w)

\* A rotation names the installed SHA and another one.
RotateFinal(w) == host.broker.sha # w /\ QualifiedFinal(host.broker.sha)
RotateSuccessor(w) == host.broker.sha # w /\ QualifiedSuccessor(host.broker.sha)
RotateStateStore(w) == host.broker.sha # w /\ QualifiedStateStore(host.broker.sha)

Admitted(op, w) ==
    \/ op = "final" /\ FinalQualify
    \/ op = "resources" /\ ResourcesAdmitted(w)
    \/ op \in Migrations /\ MigrationQualified(op, w)
    \/ op = "rotate_final" /\ RotateFinal(w)
    \/ op = "rotate_successor" /\ RotateSuccessor(w)
    \/ op = "rotate_state_store" /\ RotateStateStore(w)

\* Only these compare the rootless identity with the one seen at the start.
RuntimeUnchanged ==
    run.op \in Migrations \cup {"rotate_successor", "rotate_state_store"}
        => RootlessRuntime /\ incarnation = run.seen

-----------------------------------------------------------------------------
(* Steps of the file system. *)

Show(f, v) ==
    /\ host' = [host EXCEPT ![f] = v]
    /\ may' = [may EXCEPT ![f] = @ \cup {v}]

Synced(fs) == [f \in Objects |-> IF f \in fs THEN {host[f]} ELSE may[f]]

Sync(fs) == may' = Synced(fs) /\ UNCHANGED host

\* A name appears in its directory, and may be lost alone or with that.
Place(n) ==
    /\ host' = [host EXCEPT !.static = @ \cup {n}]
    /\ may' = [may EXCEPT !.static =
                 @ \cup {m \cup {n} : m \in {k \in @ : Holder(n) \subseteq k}}]

\* The directory that holds a name is synced, which does not make itself durable.
SyncName(n) ==
    /\ may' = [may EXCEPT !.static =
                 {IF Holder(n) \subseteq m THEN (m \ {n}) \cup (host.static \cap {n})
                  ELSE m : m \in @}]
    /\ UNCHANGED host

Goto(pc) == run' = [run EXCEPT !.pc = pc]
GotoAt(pc, at) == run' = [run EXCEPT !.pc = pc, !.at = at]

World == <<incarnation, drift, lost, faults>>

End(ok) ==
    /\ run' = Idle
    /\ report' = [op |-> run.op, sha |-> run.sha, ok |-> ok, seen |-> run.seen,
                  used |-> run.used, was |-> run.was]

Started(op, w) ==
    [op |-> op, sha |-> w, at |-> "none", seen |-> incarnation, used |-> {},
     was |-> host,
     pc |-> CASE op \in {"final"} \cup Migrations -> "inspect"
              [] op = "resources" -> "directories"
              [] op \in Rotations -> "temporary"]

\* The lock is taken and the first qualification passes.
Begin(op, w) ==
    /\ run.pc = "idle"
    /\ Admitted(op, w)
    /\ run' = Started(op, w)
    /\ report' = NoReport
    /\ UNCHANGED <<host, may, stage, temps, World>>

-----------------------------------------------------------------------------
(* update_final_application and the migrations: one stage at a time. *)

\* The next advance of the loop.  The directory is synced before a file that
\* depends on an earlier one.
FinalNext ==
    IF host.executor = 1 THEN [pc |-> "sync_config", at |-> "none"]
    ELSE IF host.app < Files
         THEN [pc |-> IF host.app = 0 THEN "stage" ELSE "sync_app", at |-> "app"]
         ELSE [pc |-> "sync_app", at |-> "executor"]

FinalStep ==
    /\ run.op = "final" /\ run.pc = "inspect"
    /\ FinalQualify
    /\ GotoAt(FinalNext.pc, FinalNext.at)
    /\ UNCHANGED <<host, may, stage, temps, report, World>>

\* Mutant: the directory is not synced before the next file depends on it.
SyncApplicationSkipped ==
    /\ run.pc = "sync_app"
    /\ FinalInspect
    /\ Goto("stage")
    /\ UNCHANGED <<host, may, stage, temps, report, World>>

SyncApplication ==
    /\ run.pc = "sync_app"
    /\ FinalInspect
    /\ Sync({"app"})
    /\ Goto("stage")
    /\ UNCHANGED <<stage, temps, report, World>>

\* The final update reports once the configuration's directory is synced.
FinalDone ==
    /\ run.pc = "sync_config"
    /\ Sync({"executor"})
    /\ End(TRUE)
    /\ UNCHANGED <<stage, temps, World>>

MigrationStep ==
    /\ run.op \in Migrations /\ run.pc = "inspect"
    /\ MigrationQualified(run.op, run.sha) /\ RuntimeUnchanged
    /\ Phase(run.op, run.sha) # "complete"
    /\ GotoAt("stage", NextDestination(Phase(run.op, run.sha)))
    /\ UNCHANGED <<host, may, stage, temps, report, World>>

\* _write_replace_stage and _write_add_stage: a new stage, or the rest of one.
WriteStage ==
    /\ run.pc = "stage"
    /\ stage' = [at |-> run.at,
                 sha |-> IF run.at = "broker" THEN TargetSha(run.op, run.sha) ELSE "none"]
    /\ Goto("replace")
    /\ UNCHANGED <<host, may, temps, report, World>>

Replacement ==
    CASE run.at = "app" -> host.app + 1
      [] run.at = "executor" -> host.executor + 1
      [] run.at = "broker" -> BrokerOf(Target(run.op), stage.sha)

\* rename of the stage, or rename without replacement of an added file.
Replace ==
    /\ run.pc = "replace"
    /\ Show(run.at, Replacement)
    /\ stage' = NoStage
    /\ run' = [run EXCEPT !.pc = "sync", !.used = @ \cup {incarnation}]
    /\ UNCHANGED <<temps, report, World>>

\* C33AE advances one prefix per call, the others loop.
SyncReplacement ==
    /\ run.pc = "sync"
    /\ Sync({run.at})
    /\ Goto(IF run.op = "state_store" THEN "after" ELSE "inspect")
    /\ UNCHANGED <<stage, temps, report, World>>

\* The migration is complete, or its one step has been taken; nothing is synced.
MigrationDone ==
    /\ run.op \in Migrations
    /\ MigrationQualified(run.op, run.sha) /\ RuntimeUnchanged
    /\ \/ run.pc = "inspect" /\ Phase(run.op, run.sha) = "complete" /\ Unstaged
       \/ run.pc = "after" /\ Unstaged
    /\ End(TRUE)
    /\ UNCHANGED <<host, may, stage, temps, World>>

-----------------------------------------------------------------------------
(* provision_final_dev_broker_resources. *)

\* The broker's configuration directory, then the runtime directories.
NextDirectory ==
    CASE "config" \notin host.static -> "config"
      [] "config" \in host.static /\ host.runtime < Directories -> "runtime"
      [] OTHER -> "none"

\* mkdir; then owner, mode and a sync of the directory itself; then a sync of the
\* directory it is in.  One that is exact already is accepted and not synced.
MakeDirectory ==
    /\ \/ /\ run.pc = "directories" /\ NextDirectory # "none"
          /\ GotoAt("own", NextDirectory)
       \/ run.pc = "leaf" /\ GotoAt("own", "tools")
    /\ temps' = temps \cup {"directory"}
    /\ UNCHANGED <<host, may, stage, report, World>>

OwnDirectory ==
    /\ run.pc = "own"
    /\ IF run.at = "runtime"
         THEN host' = [host EXCEPT !.runtime = @ + 1] /\ UNCHANGED may
         ELSE Place(run.at)
    /\ temps' = temps \ {"directory"}
    /\ Goto("directory_sync")
    /\ UNCHANGED <<stage, report, World>>

SyncDirectory ==
    /\ run.pc = "directory_sync"
    /\ IF run.at = "runtime" THEN UNCHANGED <<host, may>> ELSE SyncName(run.at)
    /\ IF run.at = "tools" THEN GotoAt("publish", "cosign") ELSE GotoAt("directories", "none")
    /\ UNCHANGED <<stage, temps, report, World>>

\* The tools directory is made once the destinations have been looked at.
DirectoriesReady ==
    /\ run.pc = "directories" /\ NextDirectory = "none"
    /\ StaticDestinations
    /\ GotoAt(IF "tools" \in host.static THEN "publish" ELSE "leaf", "cosign")
    /\ UNCHANGED <<host, may, stage, temps, report, World>>

Exists(o) ==
    CASE o \in Names -> o \in host.static
      [] o = "broker" -> host.broker # Absent
      [] o = "unit" -> host.unit = 1

\* The trusted root is durable before the broker's configuration is beside it.
SyncPublished(o) == IF o \in Names THEN SyncName(o) ELSE Sync({o})

AfterPublish(o) ==
    CASE o = "cosign" -> [pc |-> "publish", at |-> "root"]
      [] o = "root" -> [pc |-> "durable", at |-> "root"]
      [] o = "broker" -> [pc |-> "publish", at |-> "unit"]
      [] o = "unit" -> [pc |-> "qualify", at |-> "none"]

\* _publish of an exact existing file syncs its directory and returns.
PublishExisting ==
    /\ run.pc = "publish" /\ Exists(run.at)
    /\ IF run.at \in {"broker", "unit"} THEN Sync({run.at}) ELSE UNCHANGED <<host, may>>
    /\ GotoAt(AfterPublish(run.at).pc, AfterPublish(run.at).at)
    /\ UNCHANGED <<stage, temps, report, World>>

PublishTemporary ==
    /\ run.pc = "publish" /\ ~Exists(run.at)
    /\ run.at \notin temps
    /\ temps' = temps \cup {run.at}
    /\ Goto("link")
    /\ UNCHANGED <<host, may, stage, report, World>>

PublishLink ==
    /\ run.pc = "link"
    /\ CASE run.at \in Names -> Place(run.at)
         [] run.at = "broker" -> Show("broker", FinalBroker(run.sha))
         [] run.at = "unit" -> Show("unit", 1)
    /\ Goto("unlink")
    /\ UNCHANGED <<stage, temps, report, World>>

PublishUnlink ==
    /\ run.pc = "unlink"
    /\ temps' = temps \ {run.at}
    /\ Goto("publish_sync")
    /\ UNCHANGED <<host, may, stage, report, World>>

PublishSync ==
    /\ run.pc = "publish_sync"
    /\ SyncPublished(run.at)
    /\ GotoAt(AfterPublish(run.at).pc, AfterPublish(run.at).at)
    /\ UNCHANGED <<stage, temps, report, World>>

\* Mutant: files that were already there are not made durable again.
StaticDurableSkipped ==
    /\ run.pc = "durable"
    /\ GotoAt("publish", "broker")
    /\ UNCHANGED <<host, may, stage, temps, report, World>>

\* _install ends by syncing the directory of every destination and the one that
\* directory is in, for files and directories that were there already too.
StaticDurable ==
    /\ run.pc = "durable"
    /\ Sync({"static"})
    /\ GotoAt("publish", "broker")
    /\ UNCHANGED <<stage, temps, report, World>>

ResourcesDone ==
    /\ run.op = "resources" /\ run.pc = "qualify"
    /\ ResourceQualification(1, run.sha)
    /\ End(TRUE)
    /\ UNCHANGED <<host, may, stage, temps, World>>

-----------------------------------------------------------------------------
(* The rotations of the workflow SHA. *)

\* O_EXCL: a temporary of an earlier rotation stops every later one.
RotationTemporary ==
    /\ run.pc = "temporary"
    /\ TemporaryAbsent("broker") /\ TemporaryAbsent("rotation")
    /\ temps' = temps \cup {"rotation"}
    /\ Goto("rotate")
    /\ UNCHANGED <<host, may, stage, report, World>>

RotationReplace ==
    /\ run.pc = "rotate"
    /\ Show("broker", [host.broker EXCEPT !.sha = run.sha])
    /\ temps' = temps \ {"rotation"}
    /\ run' = [run EXCEPT !.pc = "rotate_sync", !.used = @ \cup {incarnation}]
    /\ UNCHANGED <<stage, report, World>>

RotationSync ==
    /\ run.pc = "rotate_sync"
    /\ Sync({"broker"})
    /\ Goto("rotated")
    /\ UNCHANGED <<stage, temps, report, World>>

\* The new authority is qualified in full before the rotation is reported.
RotationDone ==
    /\ run.pc = "rotated"
    /\ Qualified(run.op, run.sha) /\ RuntimeUnchanged
    /\ End(TRUE)
    /\ UNCHANGED <<host, may, stage, temps, World>>

-----------------------------------------------------------------------------
(* Ends that are not success. *)

\* A check that no longer holds raises.
Rejects ==
    \/ run.op = "final" /\ run.pc = "inspect" /\ ~FinalQualify
    \/ /\ run.op \in Migrations /\ run.pc \in {"inspect", "after"}
       /\ ~(MigrationQualified(run.op, run.sha) /\ RuntimeUnchanged)
    \/ run.pc = "directories" /\ NextDirectory = "none" /\ ~StaticDestinations
    \/ run.pc = "qualify" /\ ~ResourceQualification(1, run.sha)
    \/ run.pc = "temporary" /\ "rotation" \in temps
    \/ run.pc = "rotated" /\ ~(Qualified(run.op, run.sha) /\ RuntimeUnchanged)

Reject ==
    /\ Rejects
    /\ End(FALSE)
    /\ UNCHANGED <<host, may, stage, temps, World>>

Bounded == faults < MaxFaults
Counted == faults' = faults + 1

\* Temporaries an exception removes; a stage stays for the next run.
Cleaned ==
    CASE run.pc \in {"link", "unlink"} -> temps \ {run.at}
      [] run.pc = "rotate" -> temps \ {"rotation"}
      [] run.pc = "own" -> temps \ {"directory"}
      [] OTHER -> temps

\* A new directory is removed, and its parent synced unless that fails.
RemoveDirectory ==
    IF run.at = "runtime" THEN host' = [host EXCEPT !.runtime = @ - 1] /\ UNCHANGED may
    ELSE /\ host' = [host EXCEPT !.static = @ \ {run.at}]
         /\ \E left \in {{}, may.static} :
              may' = [may EXCEPT !.static = {m \ {run.at} : m \in @} \cup left]

\* A system call fails, with one cleanup, which syncs the directory it removes
\* a temporary from; or the close of the lock fails last.  A cleanup that fails
\* at once leaves what a kill leaves.
Fail ==
    /\ run.pc # "idle" /\ Bounded
    /\ End(FALSE)
    /\ temps' = Cleaned
    /\ \/ run.pc = "directory_sync" /\ RemoveDirectory
       \/ run.pc = "unlink" /\ SyncPublished(run.at)
       \/ run.pc # "directory_sync" /\ UNCHANGED <<host, may>>
    /\ Counted
    /\ UNCHANGED <<stage, incarnation, drift, lost>>

Kill ==
    /\ run.pc # "idle" /\ Bounded
    /\ run' = Idle
    /\ Counted
    /\ UNCHANGED <<host, may, stage, temps, incarnation, drift, report, lost>>

\* Every object is one of the values it may have; an unsynced stage or
\* temporary may be gone.  /run is empty, or systemd-tmpfiles has made the runtime
\* directories again.  The rootless manager comes back as another process.
PowerLoss ==
    /\ Bounded
    /\ \E a \in may.app, e \in may.executor, b \in may.broker, s \in may.static,
          u \in may.unit, n \in {0, Directories} :
          host' = [app |-> a, executor |-> e, broker |-> b, static |-> s,
                   runtime |-> n, unit |-> u]
    /\ may' = [f \in Objects |-> {host'[f]}]
    /\ stage' \in {stage, NoStage}
    /\ temps' \in {temps, {}}
    /\ incarnation' = incarnation + 1
    /\ lost' = (lost \/ \E f \in Objects : host'[f] # host[f])
    /\ run' = Idle
    /\ Counted
    /\ UNCHANGED <<drift, report>>

\* systemd restarts the rootless daemon while an operation looks at it.
RestartRootless ==
    /\ run.pc # "idle" /\ Bounded
    /\ incarnation' = incarnation + 1
    /\ Counted
    /\ UNCHANGED <<host, may, stage, temps, drift, run, report, lost>>

\* A fact outside the managed objects stops holding, or holds again.
Drift(f) ==
    /\ drift' = IF f \in drift THEN {} ELSE {f}
    /\ drift = {} \/ f \in drift
    /\ UNCHANGED <<host, may, stage, temps, incarnation, run, report, lost, faults>>

-----------------------------------------------------------------------------
RunStep ==
    \/ FinalStep \/ SyncApplication \/ FinalDone
    \/ MigrationStep \/ WriteStage \/ Replace \/ SyncReplacement \/ MigrationDone
    \/ MakeDirectory \/ OwnDirectory \/ SyncDirectory \/ DirectoriesReady
    \/ PublishExisting \/ PublishTemporary \/ PublishLink \/ PublishUnlink
    \/ PublishSync \/ StaticDurable \/ ResourcesDone
    \/ RotationTemporary \/ RotationReplace \/ RotationSync \/ RotationDone
    \/ Reject

Environment ==
    \/ Fail \/ Kill \/ PowerLoss \/ RestartRootless
    \/ \E f \in Facts : Drift(f)

GenerationsInit ==
    /\ host = Fresh
    /\ may = [f \in Objects |-> {Fresh[f]}]
    /\ stage = NoStage
    /\ temps = {}
    /\ incarnation = 0
    /\ drift = {}
    /\ run = Idle
    /\ report = NoReport
    /\ lost = FALSE
    /\ faults = 0

GenerationsNext ==
    \/ \E op \in Operations, w \in Shas : Begin(op, w)
    \/ RunStep
    \/ Environment

GenerationsSpec == GenerationsInit /\ [][GenerationsNext]_genVars

-----------------------------------------------------------------------------
(* Properties. *)

\* The host as an operation that succeeded describes it: one generation in all
\* three places, and a rotation that changed the workflow SHA alone.  What is
\* under /run is left out.
Described(r) ==
    CASE r.op = "final" -> host.executor >= 1 /\ host.app >= Files
      [] r.op = "resources" ->
            /\ host.static = Names /\ host.unit = 1
            /\ BrokerIs(1, r.sha)
      [] r.op = "successor" ->
            /\ AppGeneration = 2 /\ host.executor = 2
            /\ BrokerIs(2, r.was.broker.sha)
      [] r.op = "state_store" ->
            /\ AppGeneration = 3
            /\ host.broker.gen = 3 => host.executor = 3 /\ BrokerIs(3, r.sha)
            /\ host.broker.gen = 2 => BrokerIs(2, PREDECESSOR_WORKFLOW_SHA)
      [] r.op \in Rotations ->
            host = [r.was EXCEPT !.broker.sha = r.sha, !.runtime = host.runtime]

\* A success that an operation reported is true, stays true through a power loss
\* until the next operation begins, and all it published was published while the
\* rootless runtime was the one it had seen.  The migrations and a rotation do
\* not sync what an earlier, killed call renamed, so theirs can be taken back.
SuccessIsTrue ==
    report.ok =>
        /\ Described(report) \/ (lost /\ report.op \in Migrations \cup Rotations)
        /\ report.op \in Migrations \cup {"rotate_successor", "rotate_state_store"}
              => report.used \subseteq {report.seen}

\* A migration has staged or replaced something.
MigrationBegun ==
    /\ host.broker # Absent
    /\ AppGeneration >= 2 \/ host.executor >= 2 \/ host.broker.gen >= 2 \/ ~Unstaged

\* An operation that has something left to do on this host, or C33AE complete.
Forward(op, w) ==
    /\ Admitted(op, w)
    /\ op = "final" => host.executor = 0
    /\ op = "resources" => ~RootWithoutCosign
    /\ op = "successor" => Phase(op, w) # "complete"

\* Names that a power loss took back: from under a migration that had begun; or
\* cosign, or its directory, that a run found, did not sync, and published the
\* trusted root after.
LostName == lost /\ (MigrationBegun \/ (RootWithoutCosign /\ host.broker = Absent))

\* The successor's workflow SHA cannot be rotated to the one that C33AE wants:
\* only the final generation's operation makes the runtime directories.
RuntimeGone ==
    /\ host.broker.gen = 2 /\ host.broker.sha # PREDECESSOR_WORKFLOW_SHA
    /\ host.runtime < Directories

\* The last rotation publishes the SHA that C33AE refuses as a target, and then
\* fails, as does whatever qualifies that generation from then on.
RotatedBack == host.broker = StateStoreBroker(PREDECESSOR_WORKFLOW_SHA)

\* When no operation runs and every reviewed fact holds, some operation takes the
\* host further.  The exceptions are a temporary or directory a killed call left,
\* which nothing removes, a lost name, never of the final update, which syncs
\* before it depends, runtime directories that are gone after a reboot, and a
\* rotation back to the predecessor's SHA.
NoOtherDeadEnd ==
    (run.pc = "idle" /\ drift = {} /\ temps = {}) =>
        \/ \E op \in Operations, w \in Shas : Forward(op, w)
        \/ LostName \/ RuntimeGone \/ RotatedBack
=============================================================================
