-------------------------- MODULE HostProvisioning --------------------------
(***************************************************************************)
(* The C31 provisioning of the DEV host:                                   *)
(* deployment/dev_host_provisioning_orchestration.py with the mechanics,   *)
(* privileged runtime, persistent prerequisites and step-20 recovery that  *)
(* it calls.                                                               *)
(*                                                                         *)
(* One run takes the host through 22 steps in order and never rolls an     *)
(* earlier step back.  It may fail with evidence of how far it came, be    *)
(* killed between any two system calls, or lose the machine's power.  A    *)
(* later run keeps nothing of an earlier one in memory: it looks at the    *)
(* host and either admits it in one of four modes or refuses.  All runs    *)
(* hold one process lock, so only one is active.                           *)
(*                                                                         *)
(* `host' is what the running system sees, `disk' what is sure to survive a*)
(* power loss.  An object that is being made and is neither absent nor     *)
(* exact is in host.residue, and in disk.residue until its removal is      *)
(* synced: until then it may come back.  `drift' holds the reviewed facts  *)
(* that a run only reads and that do not hold now.                         *)
(***************************************************************************)
EXTENDS Naturals

CONSTANTS
    Accounts,       \* number of groups and users
    Directories,    \* number of managed directories
    Files,          \* number of application files (changed ones, in step 20)
    MaxFaults       \* bound on failures, kills and power losses

ASSUME ProvisioningAssumption ==
    /\ {Accounts, Directories, Files} \subseteq Nat \ {0}
    /\ MaxFaults \in Nat

Assets == 2

VARIABLES
    pin,        \* the recovery the reviewed commit is pinned to
    host, disk, \* what is visible and what is durable
    run,        \* the active run
    before,     \* the host when that run began
    outcome,    \* what the last run reported, until the host moves on
    drift,      \* reviewed facts outside the host's managed state
    faults

hostVars == <<pin, host, disk, run, before, outcome, drift, faults>>

Modes == {"initial", "reviewed", "populated", "step20"}

\* What a run reads: the repository at the reviewed commit, the two directories
\* of inputs, the two manifests shipped with the code, the platform with its
\* packages and interpreter, the account database beyond the managed names, and
\* the history of an audit log that is in use.
Facts == {"manifest", "wheelhouse", "installer", "payload_manifest",
          "python_manifest", "platform", "packages", "payload", "principals",
          "audit_history"}

\* Fields whose change a directory must be synced for.
Synced == {"dirs", "app", "config", "assets", "state", "rdir", "replay"}

\* Fields that are gone when the directory is that holds them.
InDirectories == {"app", "config", "assets", "venv", "state", "replay", "audit"}

EmptyHost ==
    [accounts |-> 0, dirs |-> 0, app |-> 0, stage |-> "none",
     config |-> "absent", assets |-> 0, venv |-> "empty", state |-> "absent",
     replay |-> "absent", rdir |-> "current", audit |-> "pristine", residue |-> {}]

\* What the pinned predecessor run left: c8646e1 stopped before the Python
\* environment, c78e94f after it, and the step-20 one at the replay database,
\* with old application files and the old mode of the replay directory.
Left(p) ==
    LET made == [EmptyHost EXCEPT !.accounts = Accounts, !.dirs = Directories,
                                  !.app = Files, !.config = "predecessor",
                                  !.assets = Assets]
    IN CASE p = "initial" -> EmptyHost
         [] p = "reviewed" -> made
         [] p = "populated" -> [made EXCEPT !.venv = "full"]
         [] p = "step20" -> [made EXCEPT !.venv = "full", !.app = 0,
                                         !.state = "initial", !.rdir = "old"]

Idle == [pc |-> "idle", mode |-> "initial", completed |-> 0, mutated |-> FALSE,
         c17 |-> "absent", state |-> "absent", replay |-> "absent"]

NoOutcome == [result |-> "none", completed |-> 0, mutated |-> FALSE]

-----------------------------------------------------------------------------
(* The read-only qualifications. *)

Holds(f) == f \notin drift

\* A Git command on the reviewed repository, bounded in time and output.
RunGit == Holds("manifest")

\* Every file of the reviewed commit's tree, as Git has it.
GenerateManifest == RunGit

\* The bytes of those files, one object after the other.
ApplicationBlobs == RunGit

\* Exactly the four wheels, or the one pip wheel, with their reviewed hashes.
QualifyWheelhouse == Holds("wheelhouse")
QualifyPipInstaller == Holds("installer")

PlatformObservation == Holds("platform")
QueryPackages == Holds("packages")

\* The packages' files: what the shipped manifest lists, and what is installed.
LoadPayload == Holds("payload_manifest")
ObservePayload == LoadPayload /\ Holds("payload")

\* No other entry has a managed name, number or membership.
PrincipalsFree == Holds("principals")

\* C23 groups and users, directories, C25 assets.
ObservePrincipals == PrincipalsFree /\ host.accounts = Accounts
ObserveDirectories == host.dirs = Directories /\ "directory" \notin host.residue
ObserveAssets == host.assets = Assets

\* The exact manifest and nothing else, not even a stage or temporary.
ObserveApplication ==
    host.app = Files /\ host.stage = "none" /\ "application" \notin host.residue

\* An application root with no entry, which the observation calls absent.
ApplicationAbsent == host.app = 0 /\ "application" \notin host.residue

\* The shipped list of the environment's files, whose hash is in the code.
RepositoryManifest == Holds("python_manifest")

\* It names exactly the reviewed distributions, and each path once.
LoadManifest == RepositoryManifest

\* The managed directories down to the environment's root.
OpenRoot == host.dirs = Directories

\* Exactly those files, and nothing else.
ObserveTree == host.venv = "full"

QualifyPython == LoadManifest /\ OpenRoot /\ ObserveTree

SnapshotAbsent == "snapshot" \notin host.residue

VerifyState == host.state # "absent" /\ "state" \notin host.residue

\* The replay directory: nothing, the database, or the database and a journal.
BoundedEntries ==
    CASE host.replay = "absent" -> {}
      [] host.replay = "open" -> {"replay.sqlite3", "journal"}
      [] OTHER -> {"replay.sqlite3"}

ReplayDirectory == host.rdir = "current" /\ host.dirs = Directories

\* Owner, links, size and mode, which a quarantine takes away.
FileStatus == host.replay # "poisoned"

ReplayFilesystem ==
    /\ ReplayDirectory
    /\ "replay.sqlite3" \in BoundedEntries
    /\ FileStatus

QuiescentFilesystem == ReplayFilesystem /\ BoundedEntries = {"replay.sqlite3"}

\* The two tables and three indexes, as they were created.
ReplaySchema == host.replay \in {"initial", "used"}

\* The schema, one row of metadata, and rows within every bound.
OpenStore == ReplaySchema

ValidateReplay == QuiescentFilesystem /\ OpenStore

ReplayPresent == ReplayDirectory /\ BoundedEntries # {}

VerifyReplay == ReplayPresent /\ ValidateReplay

\* The retained audit records are one unbroken chain of distinct events.
AuditHistory == host.audit = "existing" => Holds("audit_history")

Platform == PlatformObservation /\ QueryPackages /\ ObservePayload

\* Everything is in place.  The persistent data may have been used since.
ProvisionedEvidence ==
    /\ ObservePrincipals /\ ObserveDirectories /\ ObserveAssets
    /\ host.config = "current"
    /\ host.rdir = "current"
    /\ ObserveApplication
    /\ QualifyPython
    /\ VerifyState /\ VerifyReplay /\ AuditHistory
    /\ SnapshotAbsent

\* C31D.
QualifyProvisionedHost == Platform /\ ProvisionedEvidence

\* C29 wants the virtual environment's directory without an entry.
VirtualenvEmpty == host.venv = "empty"

\* C29 before provisioning: each resource is absent or exact, the virtual
\* environment is empty, and the configuration is the expected one.
QualifyHost(expected) ==
    /\ Platform /\ PrincipalsFree
    /\ "directory" \notin host.residue
    /\ host.rdir = "current"
    /\ host.config \in {"absent", expected}
    /\ ApplicationAbsent \/ ObserveApplication
    /\ VirtualenvEmpty

\* The pinned predecessor's configuration is there and all else is as C29 wants.
QualifyReviewedRecovery ==
    /\ pin = "reviewed"
    /\ host.config = "predecessor"
    /\ QualifyHost("predecessor")

\* An initialized database holds no consumption yet.
VerifyInitialReplay == ValidateReplay /\ host.replay # "used"

\* No persistent data but what an interrupted run of steps 19 to 21 leaves.
QualifyPersistentState ==
    /\ "state" \notin host.residue
    /\ host.state \in {"absent", "initial"}
    /\ BoundedEntries = {} \/ (VerifyReplay /\ VerifyInitialReplay)
    /\ host.state = "absent" => host.replay = "absent"
    /\ host.audit = "pristine"

RecoveryCommon ==
    /\ Platform
    /\ ObservePrincipals /\ ObserveDirectories /\ ObserveAssets
    /\ SnapshotAbsent
    /\ QualifyPython
    /\ QualifyPersistentState

PopulatedTuples ==
    {<<"predecessor", "absent", "absent">>, <<"current", "absent", "absent">>,
     <<"current", "initial", "absent">>, <<"current", "initial", "initial">>}

QualifyPopulatedRecovery ==
    /\ pin = "populated"
    /\ RecoveryCommon
    /\ ObserveApplication
    /\ host.rdir = "current"
    /\ <<host.config, host.state, host.replay>> \in PopulatedTuples

\* Mutant: a stage left between two replacements is not recognized.
InspectWithoutStage == "application" \notin host.residue /\ host.stage = "none"

\* Old and new application files in plan order with one stage between them.
InspectApplication == "application" \notin host.residue

InspectReplayDirectory == host.rdir = "old" => host.replay = "absent"

\* The configuration follows the application and precedes the directory's mode.
Step20Preflight ==
    /\ host.config \in {"predecessor", "current"}
    /\ host.config = "current" => host.app = Files
    /\ host.config = "predecessor" => host.rdir = "old"

QualifyStep20Recovery ==
    /\ pin = "step20"
    /\ RecoveryCommon
    /\ InspectApplication
    /\ InspectReplayDirectory
    /\ host.state = "initial"
    /\ Step20Preflight

\* The first qualification that accepts the host decides the mode.
Admitted ==
    CASE QualifyHost("current") /\ SnapshotAbsent -> "initial"
      [] ~QualifyHost("current") /\ QualifyReviewedRecovery /\ SnapshotAbsent -> "reviewed"
      [] ~QualifyHost("current") /\ QualifyStep20Recovery -> "step20"
      [] ~QualifyHost("current") /\ QualifyPopulatedRecovery -> "populated"
      [] OTHER -> "refused"

-----------------------------------------------------------------------------
(* The run. *)

At(pc) == run.pc = pc

Recovery == run.mode \in {"populated", "step20"}

\* Go on at pc with steps up to k complete and the host as h.
Go(pc, k, h) ==
    /\ run' = [run EXCEPT !.pc = pc, !.completed = k]
    /\ host' = h
    /\ UNCHANGED <<pin, before, outcome, drift, faults>>

NotSynced == UNCHANGED disk

\* The half-made objects that a power loss may leave once the host is as h.
MayRemain(h) == (disk.residue \ host.residue) \cup h.residue

\* What is made with its own syncs before the call returns is durable.
Durable(h) == disk' = [f \in DOMAIN h |-> IF f \in Synced THEN disk[f]
                                          ELSE IF f = "residue" THEN MayRemain(h) ELSE h[f]]

Sync(f) == disk' = [disk EXCEPT ![f] = host[f]]

\* The directory of f is synced, and with it the removal of the half-made o.
SyncBoth(f, o) ==
    disk' = [disk EXCEPT ![f] = host[f], !.residue = @ \ ({o} \ host.residue)]

Make(r, h) == [h EXCEPT !.residue = @ \cup {r}]
Made(r, h) == [h EXCEPT !.residue = @ \ {r}]

Finish(result, k) ==
    /\ run' = Idle
    /\ UNCHANGED before
    /\ outcome' = [result |-> result, completed |-> k, mutated |-> run.mutated]

AcquireProcessLock ==
    /\ At("idle")
    /\ run' = [Idle EXCEPT !.pc = "inputs"]
    /\ before' = host
    /\ outcome' = NoOutcome
    /\ UNCHANGED <<pin, host, disk, drift, faults>>

\* Steps 1 to 3, then the convergence probe.
ProbeConverged ==
    /\ At("inputs")
    /\ GenerateManifest
    /\ QualifyProvisionedHost
    /\ Finish("already-converged", 22)
    /\ UNCHANGED <<pin, host, disk, drift, faults>>

\* Steps 4 to 6: provenance, wheelhouse, pip installer.
QualifySources ==
    /\ At("inputs")
    /\ GenerateManifest
    /\ ~QualifyProvisionedHost
    /\ QualifyWheelhouse
    /\ QualifyPipInstaller
    /\ Go("preflight", 6, host)
    /\ NotSynced

\* The probe raises although the host is converged; that grants no authority.
ProbeInconclusive ==
    /\ At("inputs")
    /\ GenerateManifest /\ QualifyWheelhouse /\ QualifyPipInstaller
    /\ QualifyProvisionedHost
    /\ faults < MaxFaults
    /\ run' = [run EXCEPT !.pc = "preflight", !.completed = 6]
    /\ faults' = faults + 1
    /\ UNCHANGED <<pin, host, disk, before, outcome, drift>>

\* Step 7 decides the mode and what the later steps must find.  In every mode
\* mutation_started is set before anything else can raise.
Preflight ==
    /\ At("preflight")
    /\ Admitted # "refused"
    /\ run' = [run EXCEPT !.pc = CASE Admitted \in {"initial", "reviewed"} -> "accounts"
                                   [] Admitted = "step20" -> "migrate"
                                   [] Admitted = "populated" -> "config",
                          !.mode = Admitted,
                          !.mutated = TRUE,
                          !.completed = CASE Admitted \in {"initial", "reviewed"} -> 7
                                          [] Admitted = "step20" -> 10
                                          [] Admitted = "populated" -> 11,
                          !.c17 = host.config, !.state = host.state,
                          !.replay = host.replay]
    /\ UNCHANGED <<pin, host, disk, before, outcome, drift, faults>>

\* Steps 8 and 9, one groupadd or useradd at a time.
CreateAccount ==
    /\ At("accounts")
    /\ PrincipalsFree
    /\ LET h == [host EXCEPT !.accounts = IF @ < Accounts THEN @ + 1 ELSE @]
       IN IF h.accounts = Accounts
            THEN Go("directories", 9, h) /\ Durable(h)
            ELSE Go("accounts", 7, h) /\ Durable(h)

\* Step 10: mkdir, then owner, mode and a sync of the directory, then of its
\* parent.  A directory that is exact already is accepted and not synced again.
MakeDirectory ==
    /\ At("directories")
    /\ host.dirs < Directories
    /\ LET h == Make("directory", host)
       IN Go("directory_exact", 9, h) /\ Durable(h)

ExactDirectory ==
    /\ At("directory_exact")
    /\ Go("directory_sync", 9, [Made("directory", host) EXCEPT !.dirs = @ + 1])
    /\ NotSynced

\* The directory in which it was made; one left unsynced by an earlier run stays so.
SyncDirectory ==
    /\ At("directory_sync")
    /\ Go("directories", 9, host)
    /\ IF disk.dirs + 1 = host.dirs THEN SyncBoth("dirs", "directory") ELSE NotSynced

DirectoriesDone ==
    /\ At("directories")
    /\ host.dirs = Directories
    /\ Go("application", 10, host)
    /\ NotSynced

\* Step 11 looks once more that the root holds nothing but reviewed files.
PreflightApplication == "application" \notin host.residue

\* The bytes come from Git again; then the directories are made.
MakeApplicationDirectories ==
    /\ At("application")
    /\ ApplicationBlobs
    /\ PreflightApplication
    /\ host.app < Files
    /\ LET h == Make("application", host)
       IN Go("application_file", 10, h) /\ Durable(h)

\* One file at a time: a temporary, synced and read back; a link; the temporary
\* removed, which after the last file leaves the exact tree; and a sync.
StageApplicationFile ==
    /\ At("application_file")
    /\ host.app < Files
    /\ Go("application_link", 10, host)
    /\ NotSynced

LinkApplicationFile ==
    /\ At("application_link")
    /\ Go("application_unlink", 10, [host EXCEPT !.app = @ + 1])
    /\ NotSynced

UnlinkTemporary ==
    /\ At("application_unlink")
    /\ Go("application_sync", 10, IF host.app = Files THEN Made("application", host) ELSE host)
    /\ NotSynced

SyncApplicationFile ==
    /\ At("application_sync")
    /\ Go("application_file", 10, host)
    /\ SyncBoth("app", "application")

\* The whole tree is verified, made now or found complete.
VerifyApplication ==
    /\ At("application") \/ At("application_file")
    /\ host.app = Files
    /\ Go("config", 11, host)
    /\ NotSynced

\* Mutant: replacements of an earlier run are not synced again.
SyncApplicationPrefixSkipped ==
    /\ At("migrate")
    /\ GenerateManifest
    /\ IF host.app = Files THEN Go("config", 11, host)
                           ELSE Go("migrate_stage", 10, host)
    /\ NotSynced

\* Step 11 of step-20 recovery: what is replaced already is synced again.
SyncApplicationPrefix ==
    /\ At("migrate")
    /\ GenerateManifest
    /\ IF host.app = Files THEN Go("config", 11, host)
                           ELSE Go("migrate_stage", 10, host)
    /\ IF host.app > 0 THEN Sync("app") ELSE NotSynced

\* A stage, or the rest of one, is written, synced and given its mode.
WriteStage ==
    /\ At("migrate_stage")
    /\ \E s \in {"prefix", "ready"}:
         LET h == [host EXCEPT !.stage = s]
         IN Go(IF s = "ready" THEN "migrate_replace" ELSE "migrate_stage", 10, h)
            /\ Durable(h)

ReplaceApplicationFile ==
    /\ At("migrate_replace")
    /\ Go("migrate_sync", 10, [host EXCEPT !.app = @ + 1, !.stage = "none"])
    /\ disk' = [disk EXCEPT !.stage = "none"]

SyncApplicationDirectory ==
    /\ At("migrate_sync")
    /\ Go("migrate", 10, host)
    /\ Sync("app")

\* Step 12.  A populated recovery that found the current configuration does not
\* call the installer; otherwise the installer's answer must fit what step 7 saw.
ConfigurationRetained ==
    /\ At("config")
    /\ run.mode = "populated" /\ run.c17 = "current"
    /\ Go("state", 18, host)
    /\ NotSynced

AfterConfiguration == IF Recovery THEN "state" ELSE "assets"
ConfigurationStep == IF Recovery THEN 18 ELSE 12

ConfigurationUnchanged ==
    /\ At("config")
    /\ ~(run.mode = "populated" /\ run.c17 = "current")
    /\ host.config = "current"
    /\ Go(AfterConfiguration, ConfigurationStep, host)
    /\ SyncBoth("config", "configuration")

\* The temporary is created with O_EXCL: one left by a kill is in the way.
InstallConfiguration ==
    /\ At("config")
    /\ host.config # "current"
    /\ "configuration" \notin host.residue
    /\ LET h == Make("configuration", host)
       IN Go("config_replace", run.completed, h) /\ Durable(h)

ReplaceConfiguration ==
    /\ At("config_replace")
    /\ Go("config_sync", run.completed, [Made("configuration", host) EXCEPT !.config = "current"])
    /\ NotSynced

SyncConfiguration ==
    /\ At("config_sync")
    /\ Go(AfterConfiguration, ConfigurationStep, host)
    /\ SyncBoth("config", "configuration")

\* Step 13.  An asset that is there already is not synced again.
InstallAsset ==
    /\ At("assets")
    /\ host.assets < Assets
    /\ "asset" \notin host.residue
    /\ LET h == Make("asset", host)
       IN Go("asset_replace", 12, h) /\ Durable(h)

ReplaceAsset ==
    /\ At("asset_replace")
    /\ Go("asset_sync", 12, [Made("asset", host) EXCEPT !.assets = @ + 1])
    /\ NotSynced

SyncAsset ==
    /\ At("asset_sync")
    /\ Go("assets", 12, host)
    /\ SyncBoth("assets", "asset")

AssetsDone ==
    /\ At("assets")
    /\ host.assets = Assets
    /\ Go("snapshot", 13, host)
    /\ NotSynced

\* Only a run that C29 qualified has evidence of the interpreter.
ValidateHostQualification == run.mode \in {"initial", "reviewed"}

\* Steps 14 to 18 are one operation of the mechanics: qualify the inputs once
\* more and copy them, make the environment, verify it, install the wheels, qualify, remove the copy.
PrepareSnapshot ==
    /\ At("snapshot")
    /\ ValidateHostQualification
    /\ QualifyWheelhouse /\ QualifyPipInstaller
    /\ LET h == Make("snapshot", host)
       IN Go("snapshot_copy", 13, h) /\ Durable(h)

\* The inputs are read from open descriptors and must not change meanwhile.
CopyInputs ==
    /\ At("snapshot_copy")
    /\ QualifyWheelhouse /\ QualifyPipInstaller
    /\ Go("venv", 13, host)
    /\ NotSynced

RunVenv ==
    /\ At("venv")
    /\ host.venv \in {"empty", "partial"}
    /\ LET h == [host EXCEPT !.venv = IF @ = "empty" THEN "partial" ELSE "base"]
       IN Go(IF h.venv = "base" THEN "pip" ELSE "venv", 13, h) /\ Durable(h)

RunPip ==
    /\ At("pip")
    /\ LET h == [host EXCEPT !.venv = IF @ = "base" THEN "partial" ELSE "full"]
       IN Go(IF h.venv = "full" THEN "cleanup" ELSE "pip", 13, h) /\ Durable(h)

CleanupSnapshot ==
    /\ At("cleanup")
    /\ QualifyPython
    /\ LET h == Made("snapshot", host)
       IN Go("state", 18, h) /\ Durable(h)

\* Step 19.  An existing valid state is accepted as it is, without a sync, and
\* must be what step 7 saw.
StateExisting ==
    /\ At("state")
    /\ host.state # "absent"
    /\ Recovery => run.state = "initial" /\ host.state = "initial"
    /\ Go("replay_directory", 19, host)
    /\ NotSynced

CreateState ==
    /\ At("state")
    /\ host.state = "absent"
    /\ Recovery => run.state = "absent" /\ run.mode = "populated"
    /\ LET h == Make("state", host)
       IN Go("state_write", 18, h) /\ Durable(h)

WriteState ==
    /\ At("state_write")
    /\ Go("state_sync", 18, [Made("state", host) EXCEPT !.state = "initial"])
    /\ NotSynced

SyncState ==
    /\ At("state_sync")
    /\ Go("replay_directory", 19, host)
    /\ SyncBoth("state", "state")

\* Mutant: the replay directory keeps its old mode.
MigrateReplayDirectoryNever ==
    /\ At("replay_directory")
    /\ run.mode = "step20"
    /\ Go("replay_directory_sync", 19, host)
    /\ NotSynced

\* Before step 20 the step-20 recovery gives the replay directory its mode, and
\* syncs it, and with it the name of a database that an earlier run committed,
\* whether or not this run changed it.
MigrateReplayDirectory ==
    /\ At("replay_directory")
    /\ run.mode = "step20"
    /\ Go("replay_directory_sync", 19, [host EXCEPT !.rdir = "current"])
    /\ NotSynced

SyncReplayDirectory ==
    /\ At("replay_directory_sync")
    /\ Go("replay", 19, host)
    /\ disk' = [disk EXCEPT !.rdir = host.rdir, !.replay = host.replay]

ReplayDirectoryKept ==
    /\ At("replay_directory")
    /\ run.mode # "step20"
    /\ Go("replay", 19, host)
    /\ NotSynced

\* Step 20.  A database that is there is validated and not synced again.
ReplayExisting ==
    /\ At("replay")
    /\ VerifyReplay
    /\ Recovery => run.replay = "initial"
    /\ Go("audit", 20, host)
    /\ NotSynced

\* The file, under its final name, in an empty directory.
CreateReplay ==
    /\ At("replay")
    /\ ReplayDirectory
    /\ BoundedEntries = {}
    /\ Recovery => run.replay = "absent"
    /\ Go("replay_open", 19, [host EXCEPT !.replay = "created"])
    /\ NotSynced

\* The connection with its settings, and the transaction with its journal.
OpenReplay ==
    /\ At("replay_open")
    /\ Go("replay_commit", 19, [host EXCEPT !.replay = "open"])
    /\ NotSynced

CommitReplay ==
    /\ At("replay_commit")
    /\ Go("replay_sync", 19, [host EXCEPT !.replay = "initial"])
    /\ NotSynced

\* The file, then the directory; and the whole is validated once more.
SyncReplay ==
    /\ At("replay_sync")
    /\ ReplayFilesystem /\ OpenStore
    /\ Go("replay_validate", 19, host)
    /\ Sync("replay")

ValidatedReplay ==
    /\ At("replay_validate")
    /\ ValidateReplay
    /\ Go("audit", 20, host)
    /\ NotSynced

\* Step 21.
PrepareAudit ==
    /\ At("audit")
    /\ AuditHistory
    /\ Recovery => host.audit = "pristine"
    /\ Go("verify", 21, host)
    /\ NotSynced

\* Step 22, and the release of the lock.
FinalQualification ==
    /\ At("verify")
    /\ QualifyProvisionedHost
    /\ Go("release", 22, host)
    /\ NotSynced

ReleaseProcessLock ==
    /\ At("release")
    /\ Finish("provisioned", 22)
    /\ UNCHANGED <<pin, host, disk, drift, faults>>

-----------------------------------------------------------------------------
(* What goes wrong. *)

\* Mutant: a failed step also takes the configuration back.
CleanedUpTooFar(replay) ==
    LET h == [host EXCEPT !.residue = before.residue, !.replay = replay]
    IN IF At("assets") THEN [h EXCEPT !.config = before.config] ELSE h

\* What the step at hand is making, and its handler has to take away.
Making ==
    CASE run.pc \in {"directory_exact", "directory_sync"} -> {"directory"}
      [] run.pc \in {"application_file", "application_link", "application_unlink",
                     "application_sync"} -> {"application"}
      [] At("config_replace") -> {"configuration"}
      [] At("asset_replace") -> {"asset"}
      [] run.pc \in {"snapshot_copy", "venv", "pip", "cleanup"} -> {"snapshot"}
      [] run.pc \in {"state_write", "state_sync"} -> {"state"}
      [] OTHER -> {}

\* A replay database that may be incomplete is emptied and loses its mode, and
\* then its name, unless that fails too.
Quarantined ==
    IF run.pc \in {"replay_open", "replay_commit", "replay_sync"}
      THEN {"absent", "poisoned"} ELSE {host.replay}

\* The handlers of the step that an exception leaves remove what it was making:
\* the new directory; the files and directories that this run gave the
\* application; a temporary; the snapshot; the new state.
CleanedUp(replay) ==
    [host EXCEPT !.residue = @ \ Making,
                 !.dirs = IF At("directory_sync") THEN @ - 1 ELSE @,
                 !.app = IF "application" \in Making THEN before.app ELSE @,
                 !.state = IF "state" \in Making THEN "absent" ELSE @,
                 !.replay = replay]

CleanUp ==
    \E replay \in Quarantined:
      /\ host' = CleanedUp(replay)
      /\ disk' = [f \in DOMAIN disk |->
                    IF f = "residue" THEN MayRemain(host')
                    ELSE IF f = "dirs" \/ (f \in Synced /\ host'[f] = host[f]) THEN disk[f]
                    ELSE host'[f]]

\* A handler fails as well, which nobody hears of: the first exception is the
\* one reported.  It had not begun, so the half-made object stays; or it had
\* removed everything and did not come to the last sync; or the rollback of the
\* application had unlinked some files, the last of them perhaps unsynced.  A
\* half-removed snapshot stays for good: it fails the validation that precedes
\* the second attempt to remove it.
CleanUpFails ==
    /\ Making # {}
    /\ \/ UNCHANGED <<host, disk>>
       \/ /\ host' = CleanedUp(host.replay)
          /\ disk' = [disk EXCEPT !.app = IF "application" \in Making THEN before.app ELSE @]
       \/ /\ "application" \in Making
          /\ \E n \in before.app .. host.app:
               /\ n < host.app
               /\ host' = [Make("application", host) EXCEPT !.app = n]
               /\ \E k \in {n, n + 1}:
                    disk' = [Make("application", disk) EXCEPT !.app = k]

\* A step raises.  The evidence names the last step that is complete.
Failure ==
    /\ ~At("idle")
    /\ faults < MaxFaults
    /\ Finish("failed", run.completed)
    /\ CleanUp \/ CleanUpFails
    /\ faults' = faults + 1
    /\ UNCHANGED <<pin, drift>>

\* A step refuses because of what it finds, which is no fault of this run.
Refuses ==
    \/ At("inputs") /\ ~GenerateManifest
    \/ At("inputs") /\ ~QualifyProvisionedHost /\ ~(QualifyWheelhouse /\ QualifyPipInstaller)
    \/ At("accounts") /\ ~PrincipalsFree
    \/ (At("application") \/ At("migrate")) /\ ~GenerateManifest
    \/ At("cleanup") /\ ~QualifyPython
    \/ At("audit") /\ ~AuditHistory
    \/ At("replay") /\ BoundedEntries # {} /\ ~VerifyReplay
    \/ (At("snapshot") \/ At("snapshot_copy")) /\ ~(QualifyWheelhouse /\ QualifyPipInstaller)
    \/ At("preflight") /\ Admitted = "refused"
    \/ At("config") /\ host.config # "current" /\ "configuration" \in host.residue
    \/ At("assets") /\ host.assets < Assets /\ "asset" \in host.residue
    \/ At("verify") /\ ~QualifyProvisionedHost

Refusal ==
    /\ Refuses
    /\ Finish("failed", run.completed)
    /\ CleanUp
    /\ UNCHANGED <<pin, drift, faults>>

\* Killed: no handler runs.  What was synced or not stays visible.
Killed ==
    /\ ~At("idle")
    /\ faults < MaxFaults
    /\ run' = Idle
    /\ before' = EmptyHost
    /\ outcome' = NoOutcome
    /\ faults' = faults + 1
    /\ UNCHANGED <<pin, host, disk, drift>>

\* What the power loss leaves when the fields in `lost' fall back to what was
\* durable, the half-made objects in `left' remain, and the fields in `gone'
\* went with a directory.  An application in part counts as half made, and a
\* half-made state is no state.
AfterLoss(lost, left, gone) ==
    LET h == [f \in DOMAIN host |-> IF f \in gone THEN EmptyHost[f]
                                    ELSE IF f \in lost THEN disk[f] ELSE host[f]]
    IN [h EXCEPT !.residue = IF pin # "step20" /\ h.app \notin {0, Files}
                               THEN left \cup {"application"} ELSE left,
                 !.state = IF "state" \in left THEN "absent" ELSE @]

\* The power fails: any change that was not synced may be gone, and a directory
\* goes with all that was put into it.
PowerLoss ==
    /\ faults < MaxFaults
    /\ \E lost \in SUBSET {f \in Synced: host[f] # disk[f]}, left \in SUBSET disk.residue:
         \E gone \in SUBSET (IF "dirs" \in lost THEN InDirectories ELSE {}):
           host' = AfterLoss(lost, left, gone)
    /\ disk' = host'
    /\ run' = Idle
    /\ before' = EmptyHost
    /\ outcome' = NoOutcome
    /\ faults' = faults + 1
    /\ UNCHANGED <<pin, drift>>

\* A fact that was reviewed changes, or is put right by hand.
Drifts ==
    /\ drift = {}
    /\ faults < MaxFaults
    /\ \E f \in Facts: drift' = {f}
    /\ faults' = faults + 1
    /\ UNCHANGED <<pin, host, disk, run, before, outcome>>

Repaired ==
    /\ drift # {}
    /\ drift' = {}
    /\ UNCHANGED <<pin, host, disk, run, before, outcome, faults>>

\* Once provisioned, the services use the state, the database and the audit log,
\* and sync the directory of each.
Used == [host EXCEPT !.state = "used", !.replay = "used", !.audit = "existing"]

ServicesRun ==
    /\ At("idle")
    /\ QualifyProvisionedHost
    /\ host' = Used
    /\ disk' = [disk EXCEPT !.state = "used", !.replay = "used", !.audit = "existing",
                            !.residue = @ \ {"state"}]
    /\ before' = EmptyHost
    /\ outcome' = NoOutcome
    /\ UNCHANGED <<pin, run, drift, faults>>

-----------------------------------------------------------------------------
ProvisioningInit ==
    /\ pin \in Modes
    /\ host = Left(pin)
    /\ disk = host
    /\ run = Idle
    /\ before = EmptyHost
    /\ outcome = NoOutcome
    /\ drift = {}
    /\ faults = 0

ApplicationSteps ==
    \/ MakeApplicationDirectories \/ StageApplicationFile \/ LinkApplicationFile
    \/ UnlinkTemporary \/ SyncApplicationFile \/ VerifyApplication
    \/ SyncApplicationPrefix \/ WriteStage \/ ReplaceApplicationFile
    \/ SyncApplicationDirectory

ConfigurationSteps ==
    \/ ConfigurationRetained \/ ConfigurationUnchanged \/ InstallConfiguration
    \/ ReplaceConfiguration \/ SyncConfiguration
    \/ InstallAsset \/ ReplaceAsset \/ SyncAsset \/ AssetsDone

PythonSteps == PrepareSnapshot \/ CopyInputs \/ RunVenv \/ RunPip \/ CleanupSnapshot

PersistentSteps ==
    \/ StateExisting \/ CreateState \/ WriteState \/ SyncState
    \/ MigrateReplayDirectory \/ SyncReplayDirectory \/ ReplayDirectoryKept
    \/ ReplayExisting \/ CreateReplay \/ OpenReplay \/ CommitReplay
    \/ SyncReplay \/ ValidatedReplay \/ PrepareAudit

Steps ==
    \/ ProbeConverged \/ QualifySources \/ Preflight
    \/ CreateAccount
    \/ MakeDirectory \/ ExactDirectory \/ SyncDirectory \/ DirectoriesDone
    \/ ApplicationSteps \/ ConfigurationSteps \/ PythonSteps \/ PersistentSteps
    \/ FinalQualification \/ ReleaseProcessLock \/ Refusal

Faults == ProbeInconclusive \/ Failure \/ Killed \/ PowerLoss \/ Drifts

ProvisioningNext == AcquireProcessLock \/ Steps \/ Faults \/ Repaired \/ ServicesRun

ProvisioningSpec == ProvisioningInit /\ [][ProvisioningNext]_hostVars

\* The run takes its steps, and the operator starts it again until the host is
\* provisioned or refused for good.
ProvisioningFairSpec ==
    /\ ProvisioningSpec
    /\ WF_hostVars(Steps)
    /\ WF_hostVars(AcquireProcessLock)
-----------------------------------------------------------------------------
(* What provisioning promises. *)

\* The fields of the host that step k changes.
Touches(k) ==
    CASE k \in {8, 9} -> {"accounts"}
      [] k = 10 -> {"dirs"}
      [] k = 11 -> {"app", "stage"}
      [] k = 12 -> {"config"}
      [] k = 13 -> {"assets"}
      [] k \in 14 .. 18 -> {"venv"}
      [] k = 19 -> {"state"}
      [] k = 20 -> {"rdir", "replay"}
      [] OTHER -> {"audit"}

\* The step that the evidence of a failure names: steps 14 to 18 are one.
FailedStep == IF outcome.completed = 13 THEN 18
              ELSE IF outcome.completed = 22 THEN 22 ELSE outcome.completed + 1

InPlace(k) ==
    CASE k \in {8, 9} -> ObservePrincipals
      [] k = 10 -> ObserveDirectories
      [] k = 11 -> ObserveApplication
      [] k = 12 -> host.config = "current"
      [] k = 13 -> ObserveAssets
      [] k \in 14 .. 18 -> QualifyPython /\ SnapshotAbsent
      [] k = 19 -> VerifyState
      [] k = 20 -> VerifyReplay /\ host.rdir = "current"
      [] OTHER -> TRUE

\* What the handlers of step k may leave half made when they fail themselves.
MayLeave(k) ==
    CASE k = 10 -> {"directory"}
      [] k = 11 -> {"application"}
      [] k = 12 -> {"configuration"}
      [] k = 13 -> {"asset"}
      [] k \in 14 .. 18 -> {"snapshot"}
      [] k = 19 -> {"state"}
      [] OTHER -> {}

\* The evidence of a failure locates the boundary.  Every step it counts as
\* complete is still in place, since a later failure takes nothing back; every
\* step after the one it names left its resources as they were; only what the
\* named step was making can be half made, where its own handler failed too, or
\* be a quarantined replay database; and a failure before step 8, which reports
\* no mutation, changed nothing at all.
FailureIsLocated ==
    outcome.result = "failed" =>
        /\ drift = {} => \A k \in 8 .. outcome.completed: InPlace(k)
        /\ \A k \in (FailedStep + 1) .. 21: \A f \in Touches(k):
              f \in Touches(FailedStep) \/ host[f] = before[f]
        /\ host.residue \subseteq before.residue \cup MayLeave(FailedStep)
        /\ host.replay \in {before.replay, "initial", "poisoned"}
        /\ ~outcome.mutated => host = before

\* A step-20 recovery that reports success is safe from a power loss: every
\* rename it relies on was synced by it, also those an earlier, killed run made.
Step20SuccessIsDurable ==
    (pin = "step20" /\ outcome.result = "provisioned") => disk = host

\* Objects that a kill, a handler that failed or a quarantined database leaves
\* half made and that no qualification or exclusive creation gets past.
Stuck ==
    \/ host.residue \cap {"directory", "snapshot", "state"} # {}
    \/ host.replay \in {"created", "open", "poisoned"}
    \/ "application" \in host.residue
    \/ "configuration" \in host.residue /\ host.config # "current"
    \/ "asset" \in host.residue /\ host.assets < Assets

\* The environment is begun, and no pinned recovery takes the host from there.
Unpinned == host.venv # "empty" /\ pin \in {"initial", "reviewed"}

\* A rename seen by this run but synced by none was lost after later steps.
LostRename ==
    \/ pin = "populated" /\ host.config = "predecessor" /\ host.state # "absent"
    \/ host.state = "absent" /\ host.replay # "absent"
    \/ host.state = "used" /\ drift = {} /\ ~QualifyProvisionedHost

DeadEnd == Stuck \/ Unpinned \/ LostRename

\* Whatever stopped the last run, the host is provisioned, or the next run is
\* admitted, or the host is in one of the states named above.
NoOtherDeadEnd ==
    (At("idle") /\ drift = {}) => QualifyProvisionedHost \/ DeadEnd \/ Admitted # "refused"

\* With an operator who runs it again, provisioning ends: the host is
\* provisioned or in one of the named dead ends, unless a reviewed fact stays
\* wrong.
EventuallyProvisioned == <>[](QualifyProvisionedHost \/ DeadEnd \/ drift # {})
=============================================================================
