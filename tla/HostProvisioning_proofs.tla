----------------------- MODULE HostProvisioning_proofs -----------------------
(***************************************************************************)
(* Proofs about the provisioning of the DEV host, for any number of        *)
(* accounts, directories, application files and faults: what the evidence  *)
(* of a failed run tells, that a reported step-20 recovery is durable, and *)
(* where a host can get stuck.                                             *)
(***************************************************************************)
EXTENDS HostProvisioning, TLAPS

-----------------------------------------------------------------------------
(* The inductive invariant.                                                *)

Objects == {"directory", "application", "configuration", "asset", "snapshot", "state"}

Hosts ==
    [accounts : 0..Accounts, dirs : 0..Directories, app : 0..Files,
     stage : {"none", "prefix", "ready"}, config : {"absent", "predecessor", "current"},
     assets : 0..Assets, venv : {"empty", "partial", "base", "full"},
     state : {"absent", "initial", "used"},
     replay : {"absent", "created", "open", "initial", "used", "poisoned"},
     rdir : {"old", "current"}, audit : {"pristine", "existing"}, residue : SUBSET Objects]

\* The steps of a run by the number of steps that are complete.
LooksOnly == {"inputs", "preflight"}
AccountPcs == {"accounts"}
DirectoryPcs == {"directories", "directory_exact", "directory_sync"}
CopyPcs == {"application", "application_file", "application_link", "application_unlink",
            "application_sync"}
MigratePcs == {"migrate", "migrate_stage", "migrate_replace", "migrate_sync"}
ConfigPcs == {"config", "config_replace", "config_sync"}
AssetPcs == {"assets", "asset_replace", "asset_sync"}
PythonPcs == {"snapshot", "snapshot_copy", "venv", "pip", "cleanup"}
StatePcs == {"state", "state_write", "state_sync"}
ReplayDirectoryPcs == {"replay_directory", "replay_directory_sync"}
ReplayPcs == {"replay", "replay_open", "replay_commit", "replay_sync", "replay_validate"}
LastPcs == {"audit", "verify", "release"}

\* The steps that only a host without an environment goes through.
FreshPcs == AccountPcs \cup DirectoryPcs \cup CopyPcs \cup AssetPcs \cup PythonPcs
Pcs == {"idle"} \cup LooksOnly \cup FreshPcs \cup MigratePcs \cup ConfigPcs \cup StatePcs
       \cup ReplayDirectoryPcs \cup ReplayPcs \cup LastPcs

Runs == [pc : Pcs, mode : Modes, completed : Nat, mutated : BOOLEAN,
         c17 : {"absent", "predecessor", "current"}, state : {"absent", "initial", "used"},
         replay : {"absent", "created", "open", "initial", "used", "poisoned"}]

Typed ==
    /\ pin \in Modes
    /\ host \in Hosts /\ disk \in Hosts /\ before \in Hosts
    /\ run \in Runs
    /\ outcome \in [result : {"none", "already-converged", "failed", "provisioned"},
                    completed : Nat, mutated : BOOLEAN]

\* What can be ahead of the disk: directories and the application while a host is
\* first made, replaced application files in a step-20 recovery, and renames.  A
\* half-made object may be on the disk whenever it is visible.
DiskSound ==
    /\ disk.accounts = host.accounts /\ disk.stage = host.stage
    /\ disk.venv = host.venv /\ disk.audit = host.audit
    /\ disk.dirs =< host.dirs
    /\ host.residue \subseteq disk.residue
    /\ pin # "initial" => disk.dirs = host.dirs
    /\ pin \in {"reviewed", "populated"} => disk.app = host.app
    /\ "state" \in host.residue => host.state = "absent"
    /\ "state" \in disk.residue => host.state # "used"
    /\ disk.state = "used" => host.state = "used"

\* The services begin with state, database and audit log at once, for good
\* unless a directory is lost with them.
UseSound ==
    pin # "initial" =>
        /\ host.state = "used" <=> host.audit = "existing"
        /\ disk.state = "used" <=> host.audit = "existing"
        /\ host.replay = "used" <=> host.audit = "existing"
        /\ disk.replay = "used" <=> host.audit = "existing"

\* An application tree that is neither absent nor whole is being made.
TreeSound(h) == pin # "step20" => \/ h.app \in {0, Files}
                                  \/ "application" \in h.residue

\* Where the host can be, by the recovery that the reviewed commit is pinned to.
PinSound ==
    /\ TreeSound(host) /\ TreeSound(before)
    /\ pin # "step20" => /\ host.stage = "none"
                         /\ host.rdir = "current" /\ disk.rdir = "current"
    /\ pin = "initial" => host.config # "predecessor" /\ disk.config # "predecessor"
    /\ pin # "initial" => host.config # "absent" /\ disk.config # "absent"
    /\ pin # "initial" => /\ host.dirs = Directories
                          /\ {"application", "directory"} \cap disk.residue = {}
    /\ pin \in {"populated", "step20"} =>
        /\ host.accounts = Accounts /\ host.venv = "full"
        /\ host.assets = Assets /\ disk.assets = Assets
        /\ disk.residue \subseteq {"configuration", "state"}
    /\ pin \in {"reviewed", "populated"} => host.app = Files

\* The order of the step-20 recovery: application, configuration, directory,
\* database, each durable before the next is touched.
Step20Sound ==
    pin = "step20" =>
        /\ disk.app =< host.app
        /\ host.stage # "none" => host.app < Files
        /\ host.config = "current" => disk.app = Files
        /\ disk.config = "current" => host.config = "current"
        /\ host.rdir = "current" => disk.config = "current"
        /\ disk.rdir = "current" => host.rdir = "current"
        /\ disk.rdir = "old" => host.replay = "absent" /\ disk.replay = "absent"
        /\ host.state = disk.state /\ host.state # "absent"
        /\ disk.residue \subseteq {"configuration"}

\* The step of a run tells how many steps are complete, and in which mode it is.
StepSound ==
    /\ run.pc = "idle" => run = Idle
    /\ run.pc # "idle" => outcome = NoOutcome
    /\ run.pc \in {"idle", "inputs"} => run.completed = 0
    /\ run.pc = "preflight" => run.completed = 6
    /\ run.pc \in AccountPcs => run.completed = 7
    /\ run.pc \in DirectoryPcs => run.completed = 9
    /\ run.pc \in CopyPcs \cup MigratePcs => run.completed = 10
    /\ run.pc \in ConfigPcs => run.completed = 11
    /\ run.pc \in AssetPcs => run.completed = 12
    /\ run.pc \in PythonPcs => run.completed = 13
    /\ run.pc \in StatePcs => run.completed = 18
    /\ run.pc \in ReplayDirectoryPcs \cup ReplayPcs => run.completed = 19
    /\ run.pc = "audit" => run.completed = 20
    /\ run.pc = "verify" => run.completed = 21
    /\ run.pc = "release" => run.completed = 22
    /\ run.mutated <=> run.pc \notin {"idle"} \cup LooksOnly
    /\ run.pc \in LooksOnly => host = before
    /\ run.pc \notin {"idle"} \cup LooksOnly =>
        /\ run.mode = "step20" <=> pin = "step20"
        /\ run.mode = "populated" <=> pin = "populated"
    /\ run.pc \in FreshPcs => pin \in {"initial", "reviewed"}
    /\ run.pc \in MigratePcs => pin = "step20"
    /\ run.pc \in {"state_write", "state_sync"} => pin # "step20"
    /\ run.pc = "replay_directory_sync" => pin = "step20"

\* The steps that count as complete are in place.
InPlaceUpTo(k, h) ==
    /\ k >= 8 => h.accounts = Accounts
    /\ k >= 10 => h.dirs = Directories /\ "directory" \notin h.residue
    /\ k >= 11 => h.app = Files /\ h.stage = "none" /\ "application" \notin h.residue
    /\ k >= 12 => h.config = "current"
    /\ k >= 13 => h.assets = Assets
    /\ k >= 14 => h.venv = "full" /\ "snapshot" \notin h.residue
    /\ k >= 19 => h.state # "absent"
    /\ k >= 20 => h.replay \in {"initial", "used"} /\ h.rdir = "current"

\* What later steps change is as the run found it.
UntouchedAfter(k, h) ==
    /\ k =< 6 => h.accounts = before.accounts
    /\ k =< 8 => h.dirs = before.dirs
    /\ k =< 9 => h.app = before.app /\ h.stage = before.stage
    /\ k =< 10 => h.config = before.config
    /\ k =< 11 => h.assets = before.assets
    /\ k =< 12 => h.venv = before.venv
    /\ k =< 17 => h.state = before.state
    /\ k =< 18 => h.rdir = before.rdir /\ h.replay = before.replay
    /\ h.audit = before.audit

ProgressSound ==
    run.pc # "idle" => InPlaceUpTo(run.completed, host) /\ UntouchedAfter(run.completed, host)

\* What a run is making, and has to clean up if the step fails.
Makes(o) ==
    \/ o = "directory" /\ run.pc = "directory_exact"
    \/ o = "application" /\ run.pc \in {"application_file", "application_link",
                                          "application_unlink", "application_sync"}
    \/ o = "configuration" /\ run.pc = "config_replace"
    \/ o = "asset" /\ run.pc = "asset_replace"
    \/ o = "snapshot" /\ run.pc \in {"snapshot_copy", "venv", "pip", "cleanup"}
    \/ o = "state" /\ run.pc = "state_write"

MakingSound ==
    /\ run.pc # "idle" => \A o \in host.residue : o \in before.residue \/ Makes(o)
    /\ run.mutated /\ pin \in {"initial", "reviewed"} =>
          {"application", "directory"} \cap before.residue = {}
    /\ run.pc = "directory_exact" => host.dirs < Directories
    /\ run.pc = "directory_sync" => host.dirs > 0 /\ disk.dirs < host.dirs
    /\ run.pc \in CopyPcs => before.app =< host.app
    /\ run.pc = "application" => before.app = host.app
    /\ run.pc \in CopyPcs \ {"application"} => pin = "initial"
    /\ run.pc \in {"application_file", "application_sync"} =>
          ("application" \in host.residue <=> host.app # Files)
    /\ run.pc \in {"application_link", "application_unlink"} => "application" \in host.residue
    /\ run.pc = "application_link" => host.app < Files
    /\ run.pc \in {"migrate_stage", "migrate_replace"} => host.app < Files
    /\ run.pc \in AccountPcs \cup DirectoryPcs \cup CopyPcs \cup MigratePcs \cup {"config"} =>
          run.c17 = host.config
    /\ run.pc = "config_sync" => host.config = "current"
    /\ run.pc = "asset_replace" => host.assets < Assets
    /\ run.pc = "state_write" => host.state = "absent"
    /\ run.pc = "state_sync" => host.state = "initial"
    /\ run.pc = "replay_directory_sync" => host.rdir = "current"
    /\ run.pc \in ReplayDirectoryPcs \cup {"replay"} => host.replay = before.replay
    /\ run.pc \in {"replay_open", "replay_commit", "replay_sync", "replay_validate"} =>
          before.replay = "absent"
    /\ run.pc = "replay_open" => host.replay = "created"
    /\ run.pc = "replay_commit" => host.replay = "open"
    /\ run.pc \in {"replay_sync", "replay_validate"} => host.replay = "initial"
    /\ run.pc \in LastPcs => host.replay \in {before.replay, "initial"}

\* What a step-20 recovery has made durable so far.
SyncedSound ==
    pin = "step20" =>
        /\ run.pc \in MigratePcs \ {"migrate", "migrate_sync"} => disk.app = host.app
        /\ run.pc \in ConfigPcs => disk.app = Files
        /\ run.completed >= 18 => /\ disk.app = Files /\ disk.config = "current"
                                  /\ disk.residue = host.residue
        /\ run.pc \in ReplayPcs \cup LastPcs => disk.rdir = "current"
        /\ run.pc \in {"replay", "replay_validate"} \cup LastPcs => disk.replay = host.replay

\* The evidence of the last run.
EvidenceSound ==
    /\ outcome.result = "failed" =>
        /\ InPlaceUpTo(outcome.completed, host) /\ UntouchedAfter(outcome.completed, host)
        /\ host.residue \subseteq before.residue \cup MayLeave(FailedStep)
        /\ host.replay \in {before.replay, "initial", "poisoned"}
        /\ ~outcome.mutated => host = before
    /\ Step20SuccessIsDurable

ProvisioningInvariant ==
    /\ Typed /\ DiskSound /\ UseSound /\ PinSound /\ Step20Sound
    /\ StepSound /\ ProgressSound /\ MakingSound /\ SyncedSound /\ EvidenceSound

-----------------------------------------------------------------------------
(* A step of a running run.                                                *)

\* The parts of the invariant that a step of a run has to preserve itself.
HostSound == DiskSound /\ UseSound /\ PinSound /\ Step20Sound
RunSound == StepSound /\ ProgressSound /\ MakingSound /\ SyncedSound

\* What a sync of a directory makes of the disk.
LEMMA SyncBothTells ==
    ASSUME host \in Hosts, disk \in Hosts, host.residue \subseteq disk.residue,
           NEW o \in Objects
    PROVE  \E q \in SUBSET Objects :
             /\ q \subseteq disk.residue /\ host.residue \subseteq q
             /\ o \in q => o \in host.residue
             /\ \A p \in disk.residue : p \in q \/ p = o
             /\ SyncBoth("dirs", o) => disk' = [disk EXCEPT !.dirs = host.dirs, !.residue = q]
             /\ SyncBoth("app", o) => disk' = [disk EXCEPT !.app = host.app, !.residue = q]
             /\ SyncBoth("config", o) => disk' = [disk EXCEPT !.config = host.config, !.residue = q]
             /\ SyncBoth("assets", o) => disk' = [disk EXCEPT !.assets = host.assets, !.residue = q]
             /\ SyncBoth("state", o) => disk' = [disk EXCEPT !.state = host.state, !.residue = q]
  <1>1. PICK q \in SUBSET Objects : q = disk.residue \ ({o} \ host.residue)
    BY DEF Hosts
  <1>2. /\ q \subseteq disk.residue /\ host.residue \subseteq q
        /\ o \in q => o \in host.residue
        /\ \A p \in disk.residue : p \in q \/ p = o
    BY <1>1
  <1>3. \A f : SyncBoth(f, o) => disk' = [disk EXCEPT ![f] = host[f], !.residue = q]
    BY <1>1 DEF SyncBoth
  <1> QED BY <1>2, <1>3

\* Accounts and directories, steps 8 to 10.
LEMMA DirectoryStepsKeep ==
    ASSUME ProvisioningInvariant,
           \/ CreateAccount \/ MakeDirectory \/ ExactDirectory \/ SyncDirectory
           \/ DirectoriesDone
    PROVE  HostSound' /\ RunSound'
  <1> USE ProvisioningAssumption
      DEF ProvisioningInvariant, Typed, Hosts, Runs, Modes, Objects, Assets, HostSound,
          RunSound, DiskSound, UseSound, PinSound, Step20Sound, StepSound, ProgressSound,
          MakingSound, SyncedSound, TreeSound, InPlaceUpTo, UntouchedAfter, Makes, At, Go,
          Durable, Make, Made, Synced, NotSynced, Sync, SyncBoth,
          MayRemain
  <1> USE DEF Pcs, LooksOnly, AccountPcs, DirectoryPcs, CopyPcs, MigratePcs, ConfigPcs,
              AssetPcs, PythonPcs, StatePcs, ReplayDirectoryPcs, ReplayPcs, LastPcs, FreshPcs
  <1>1. CASE CreateAccount
    <2>1. PICK n \in 0..Accounts :
             /\ host' = [host EXCEPT !.accounts = n]
             /\ disk' = [f \in DOMAIN host' |-> IF f \in Synced THEN disk[f]
                            ELSE IF f = "residue" THEN MayRemain(host') ELSE host'[f]]
             /\ \/ n = Accounts /\ run' = [run EXCEPT !.pc = "directories", !.completed = 9]
                \/ n # Accounts /\ run' = [run EXCEPT !.pc = "accounts", !.completed = 7]
             /\ UNCHANGED <<pin, before, outcome>>
             /\ At("accounts")
      BY <1>1 DEF CreateAccount
    <2>2. HostSound' BY <2>1
    <2>3. CASE n = Accounts
      <3>1. run' = [run EXCEPT !.pc = "directories", !.completed = 9] BY <2>1, <2>3
      <3>2. StepSound' BY <3>1, <2>1, <2>3
      <3>3. ProgressSound' BY <3>1, <2>1, <2>3
      <3>4. MakingSound' BY <3>1, <2>1, <2>3
      <3>5. SyncedSound' BY <3>1, <2>1, <2>3
      <3> QED BY <2>2, <3>2, <3>3, <3>4, <3>5
    <2>4. CASE n # Accounts
      <3>1. run' = [run EXCEPT !.pc = "accounts", !.completed = 7] BY <2>1, <2>4
      <3>2. StepSound' BY <3>1, <2>1
      <3>3. ProgressSound' BY <3>1, <2>1
      <3>4. MakingSound' BY <3>1, <2>1
      <3>5. SyncedSound' BY <3>1, <2>1
      <3> QED BY <2>2, <3>2, <3>3, <3>4, <3>5
    <2> QED BY <2>2, <2>3, <2>4
  <1>2. CASE MakeDirectory
    <2>1. HostSound' BY <1>2 DEF MakeDirectory
    <2>2. RunSound' BY <1>2 DEF MakeDirectory
    <2> QED BY <2>1, <2>2
  <1>3. CASE ExactDirectory
    <2>1. /\ host' = [host EXCEPT !.residue = host.residue \ {"directory"},
                                 !.dirs = host.dirs + 1]
          /\ UNCHANGED disk
          /\ run' = [run EXCEPT !.pc = "directory_sync", !.completed = 9]
          /\ UNCHANGED <<pin, before, outcome>>
          /\ At("directory_exact") /\ host.dirs + 1 \in 0..Directories
      BY <1>3 DEF ExactDirectory
    <2>2. DiskSound' BY <2>1
    <2>3. UseSound' BY <2>1
    <2>4. PinSound' BY <2>1
    <2>5. Step20Sound' BY <2>1
    <2>6. RunSound' BY <2>1
    <2> QED BY <2>2, <2>3, <2>4, <2>5, <2>6
  <1>5. CASE SyncDirectory
    <2>1. /\ UNCHANGED <<host, pin, before, outcome>>
          /\ run' = [run EXCEPT !.pc = "directories", !.completed = 9]
          /\ At("directory_sync")
      <3> HIDE DEF SyncBoth
      <3> QED BY <1>5 DEF SyncDirectory
    <2>5. UNCHANGED disk \/ SyncBoth("dirs", "directory")
      <3> HIDE DEF SyncBoth
      <3> QED BY <1>5 DEF SyncDirectory
    <2>2. PICK q \in SUBSET Objects :
            /\ q \subseteq disk.residue /\ host.residue \subseteq q
            /\ UNCHANGED disk \/ disk' = [disk EXCEPT !.dirs = host.dirs, !.residue = q]
      <3> HIDE DEF SyncBoth, ProvisioningInvariant, Hosts, Objects
      <3>1. host \in Hosts /\ disk \in Hosts /\ host.residue \subseteq disk.residue
        BY DEF ProvisioningInvariant
      <3>2. "directory" \in Objects BY DEF Objects
      <3> QED BY <2>5, <3>1, <3>2, SyncBothTells
    <2>3. CASE UNCHANGED disk
      <3>1. HostSound' BY <2>1, <2>3
      <3>2. RunSound' BY <2>1, <2>3
      <3> QED BY <3>1, <3>2
    <2>4. CASE disk' = [disk EXCEPT !.dirs = host.dirs, !.residue = q]
      <3>1. DiskSound' BY <2>1, <2>2, <2>4
      <3>2. UseSound' BY <2>1, <2>4
      <3>3. PinSound' BY <2>1, <2>2, <2>4
      <3>4. Step20Sound' BY <2>1, <2>2, <2>4
      <3>5. StepSound' BY <2>1
      <3>6. ProgressSound' BY <2>1
      <3>7. MakingSound' BY <2>1
      <3>8. SyncedSound' BY <2>1, <2>2, <2>4
      <3> QED BY <3>1, <3>2, <3>3, <3>4, <3>5, <3>6, <3>7, <3>8
    <2> QED BY <2>2, <2>3, <2>4
  <1>4. CASE DirectoriesDone
    <2>1. HostSound' BY <1>4 DEF DirectoriesDone
    <2>2. RunSound' BY <1>4 DEF DirectoriesDone
    <2> QED BY <2>1, <2>2
  <1> QED BY <1>1, <1>2, <1>3, <1>4, <1>5

\* The application, step 11, copied or migrated.
LEMMA ApplicationStepsKeep ==
    ASSUME ProvisioningInvariant,
           \/ MakeApplicationDirectories \/ StageApplicationFile
           \/ LinkApplicationFile \/ UnlinkTemporary \/ SyncApplicationFile
           \/ VerifyApplication \/ SyncApplicationPrefix
           \/ WriteStage \/ ReplaceApplicationFile \/ SyncApplicationDirectory
    PROVE  HostSound' /\ RunSound'
  <1> USE ProvisioningAssumption
      DEF ProvisioningInvariant, Typed, Hosts, Runs, Modes, Objects, Assets, HostSound,
          RunSound, DiskSound, UseSound, PinSound, Step20Sound, StepSound, ProgressSound,
          MakingSound, SyncedSound, TreeSound, InPlaceUpTo, UntouchedAfter, Makes, At, Go,
          Durable, Make, Made, Synced, NotSynced, Sync, SyncBoth,
          MayRemain
  <1> USE DEF Pcs, LooksOnly, AccountPcs, DirectoryPcs, CopyPcs, MigratePcs, ConfigPcs,
              AssetPcs, PythonPcs, StatePcs, ReplayDirectoryPcs, ReplayPcs, LastPcs, FreshPcs
  <1>1. CASE MakeApplicationDirectories
    <2>1. HostSound' BY <1>1 DEF MakeApplicationDirectories, PreflightApplication
    <2>2. RunSound' BY <1>1 DEF MakeApplicationDirectories, PreflightApplication
    <2> QED BY <2>1, <2>2
  <1>2. CASE StageApplicationFile
    <2>1. HostSound' BY <1>2 DEF StageApplicationFile
    <2>2. RunSound' BY <1>2 DEF StageApplicationFile
    <2> QED BY <2>1, <2>2
  <1>3. CASE LinkApplicationFile
    <2>1. /\ host' = [host EXCEPT !.app = host.app + 1]
          /\ UNCHANGED disk
          /\ run' = [run EXCEPT !.pc = "application_unlink", !.completed = 10]
          /\ UNCHANGED <<pin, before, outcome>>
          /\ At("application_link") /\ host.app + 1 \in 0..Files
      BY <1>3 DEF LinkApplicationFile
    <2>2. DiskSound' BY <2>1
    <2>3. UseSound' BY <2>1
    <2>4. PinSound' BY <2>1
    <2>5. Step20Sound' BY <2>1
    <2>6. RunSound' BY <2>1
    <2> QED BY <2>2, <2>3, <2>4, <2>5, <2>6
  <1>9. CASE UnlinkTemporary
    <2>1. /\ host' = [host EXCEPT !.residue = IF host.app = Files THEN @ \ {"application"} ELSE @]
          /\ UNCHANGED disk
          /\ run' = [run EXCEPT !.pc = "application_sync", !.completed = 10]
          /\ UNCHANGED <<pin, before, outcome>>
          /\ At("application_unlink")
      BY <1>9, SMTT(30) DEF UnlinkTemporary
    <2>2. HostSound' BY <2>1
    <2>3. RunSound' BY <2>1
    <2> QED BY <2>2, <2>3
  <1>10. CASE SyncApplicationFile
    <2>1. SyncBoth("app", "application")
      <3> HIDE DEF SyncBoth
      <3> QED BY <1>10 DEF SyncApplicationFile
    <2>2. PICK q \in SUBSET Objects :
            /\ q \subseteq disk.residue /\ host.residue \subseteq q
            /\ disk' = [disk EXCEPT !.app = host.app, !.residue = q]
      <3> HIDE DEF SyncBoth, ProvisioningInvariant, Hosts, Objects
      <3>1. host \in Hosts /\ disk \in Hosts /\ host.residue \subseteq disk.residue
        BY DEF ProvisioningInvariant
      <3>2. "application" \in Objects BY DEF Objects
      <3> QED BY <2>1, <3>1, <3>2, SyncBothTells
    <2>3. /\ UNCHANGED <<host, pin, before, outcome>>
          /\ At("application_sync")
          /\ run' = [run EXCEPT !.pc = "application_file", !.completed = 10]
      <3> HIDE DEF SyncBoth
      <3> QED BY <1>10 DEF SyncApplicationFile
    <2>4. HostSound' BY <2>2, <2>3
    <2>5. RunSound' BY <2>2, <2>3
    <2> QED BY <2>4, <2>5
  <1>4. CASE VerifyApplication
    <2>1. HostSound' BY <1>4 DEF VerifyApplication
    <2>2. RunSound' BY <1>4 DEF VerifyApplication
    <2> QED BY <2>1, <2>2
  <1>5. CASE SyncApplicationPrefix
    <2>1. /\ UNCHANGED <<host, pin, before, outcome>>
          /\ disk' \in Hosts /\ disk' = [disk EXCEPT !.app = disk'.app]
          /\ disk'.app = host.app
          /\ \/ host.app = Files /\ run' = [run EXCEPT !.pc = "config", !.completed = 11]
             \/ host.app # Files /\ run' = [run EXCEPT !.pc = "migrate_stage", !.completed = 10]
          /\ At("migrate")
      BY <1>5 DEF SyncApplicationPrefix
    <2>2. HostSound' BY <2>1
    <2>3. CASE host.app = Files
      <3>1. run' = [run EXCEPT !.pc = "config", !.completed = 11] BY <2>1, <2>3
      <3>2. StepSound' BY <3>1, <2>1, <2>3
      <3>3. ProgressSound' BY <3>1, <2>1, <2>3
      <3>4. MakingSound' BY <3>1, <2>1, <2>3
      <3>5. SyncedSound' BY <3>1, <2>1, <2>3
      <3> QED BY <2>2, <3>2, <3>3, <3>4, <3>5
    <2>4. CASE host.app # Files
      <3>1. run' = [run EXCEPT !.pc = "migrate_stage", !.completed = 10] BY <2>1, <2>4
      <3>2. StepSound' BY <3>1, <2>1, <2>4
      <3>3. ProgressSound' BY <3>1, <2>1, <2>4
      <3>4. MakingSound' BY <3>1, <2>1, <2>4
      <3>5. SyncedSound' BY <3>1, <2>1, <2>4
      <3> QED BY <2>2, <3>2, <3>3, <3>4, <3>5
    <2> QED BY <2>2, <2>3, <2>4
  <1>6. CASE WriteStage
    <2>1. HostSound' BY <1>6 DEF WriteStage
    <2>2. RunSound' BY <1>6 DEF WriteStage
    <2> QED BY <2>1, <2>2
  <1>7. CASE ReplaceApplicationFile
    <2>1. HostSound' BY <1>7 DEF ReplaceApplicationFile
    <2>2. RunSound' BY <1>7 DEF ReplaceApplicationFile
    <2> QED BY <2>1, <2>2
  <1>8. CASE SyncApplicationDirectory
    <2>1. HostSound' BY <1>8 DEF SyncApplicationDirectory
    <2>2. RunSound' BY SMTT(30), <1>8 DEF SyncApplicationDirectory
    <2> QED BY <2>1, <2>2
  <1> QED BY <1>1, <1>2, <1>3, <1>4, <1>5, <1>6, <1>7, <1>8, <1>9, <1>10, ZenonT(40)

\* Configuration and assets, steps 12 and 13.
LEMMA ConfigurationStepsKeep ==
    ASSUME ProvisioningInvariant,
           \/ ConfigurationRetained \/ ConfigurationUnchanged \/ InstallConfiguration
           \/ ReplaceConfiguration \/ SyncConfiguration \/ InstallAsset
           \/ ReplaceAsset \/ SyncAsset \/ AssetsDone
    PROVE  HostSound' /\ RunSound'
  <1> USE ProvisioningAssumption
      DEF ProvisioningInvariant, Typed, Hosts, Runs, Modes, Objects, Assets, HostSound,
          RunSound, DiskSound, UseSound, PinSound, Step20Sound, StepSound, ProgressSound,
          MakingSound, SyncedSound, TreeSound, InPlaceUpTo, UntouchedAfter, Makes, At, Go,
          Durable, Make, Made, Synced, NotSynced, Sync, SyncBoth,
          MayRemain
  <1> USE DEF Pcs, LooksOnly, AccountPcs, DirectoryPcs, CopyPcs, MigratePcs, ConfigPcs,
              AssetPcs, PythonPcs, StatePcs, ReplayDirectoryPcs, ReplayPcs, LastPcs, FreshPcs
  <1>1. CASE ConfigurationRetained
    <2>1. HostSound' BY <1>1 DEF ConfigurationRetained
    <2>2. RunSound' BY <1>1 DEF ConfigurationRetained
    <2> QED BY <2>1, <2>2
  <1>2. CASE ConfigurationUnchanged
    <2>a. SyncBoth("config", "configuration")
      <3> HIDE DEF SyncBoth
      <3> QED BY <1>2 DEF ConfigurationUnchanged
    <2>b. PICK q \in SUBSET Objects :
            /\ q \subseteq disk.residue /\ host.residue \subseteq q
            /\ "configuration" \in q => "configuration" \in host.residue
            /\ disk' = [disk EXCEPT !.config = host.config, !.residue = q]
      <3> HIDE DEF SyncBoth, ProvisioningInvariant, Hosts, Objects
      <3>1. host \in Hosts /\ disk \in Hosts /\ host.residue \subseteq disk.residue
        BY DEF ProvisioningInvariant
      <3>2. "configuration" \in Objects BY DEF Objects
      <3> QED BY <2>a, <3>1, <3>2, SyncBothTells
    <2>2. /\ UNCHANGED <<host, pin, before, outcome>>
          /\ disk' = [disk EXCEPT !.config = host.config, !.residue = q]
          /\ q \subseteq disk.residue /\ host.residue \subseteq q
          /\ "configuration" \in q => "configuration" \in host.residue
          /\ At("config") /\ host.config = "current"
          /\ run' = [run EXCEPT !.pc = AfterConfiguration, !.completed = ConfigurationStep]
      <3>1. /\ UNCHANGED <<host, pin, before, outcome>>
            /\ At("config") /\ host.config = "current"
            /\ run' = [run EXCEPT !.pc = AfterConfiguration, !.completed = ConfigurationStep]
        <4> HIDE DEF SyncBoth
        <4> QED BY <1>2 DEF ConfigurationUnchanged
      <3> QED BY <2>b, <3>1
    <2>1. HostSound' BY <2>2
    <2>3. CASE Recovery
      <3>1. /\ run' = [run EXCEPT !.pc = "state", !.completed = 18]
            /\ pin \in {"populated", "step20"}
        BY <2>2, <2>3 DEF AfterConfiguration, ConfigurationStep, Recovery
      <3>2. StepSound' BY <3>1, <2>2
      <3>3. ProgressSound' BY <3>1, <2>2
      <3>4. MakingSound' BY <3>1, <2>2
      <3>5. SyncedSound' BY <3>1, <2>2
      <3> QED BY <2>1, <3>2, <3>3, <3>4, <3>5
    <2>4. CASE ~Recovery
      <3>1. /\ run' = [run EXCEPT !.pc = "assets", !.completed = 12]
            /\ pin \in {"initial", "reviewed"}
        BY <2>2, <2>4 DEF AfterConfiguration, ConfigurationStep, Recovery
      <3>2. StepSound' BY <3>1, <2>2
      <3>3. ProgressSound' BY <3>1, <2>2
      <3>4. MakingSound' BY <3>1, <2>2
      <3>5. SyncedSound' BY <3>1, <2>2
      <3> QED BY <2>1, <3>2, <3>3, <3>4, <3>5
    <2> QED BY <2>3, <2>4
  <1>3. CASE InstallConfiguration
    <2>1. HostSound' BY <1>3 DEF InstallConfiguration
    <2>2. RunSound' BY <1>3 DEF InstallConfiguration
    <2> QED BY <2>1, <2>2
  <1>4. CASE ReplaceConfiguration
    <2>1. HostSound' BY <1>4 DEF ReplaceConfiguration
    <2>2. RunSound' BY <1>4 DEF ReplaceConfiguration
    <2> QED BY <2>1, <2>2
  <1>5. CASE SyncConfiguration
    <2>a. SyncBoth("config", "configuration")
      <3> HIDE DEF SyncBoth
      <3> QED BY <1>5 DEF SyncConfiguration
    <2>b. PICK q \in SUBSET Objects :
            /\ q \subseteq disk.residue /\ host.residue \subseteq q
            /\ "configuration" \in q => "configuration" \in host.residue
            /\ disk' = [disk EXCEPT !.config = host.config, !.residue = q]
      <3> HIDE DEF SyncBoth, ProvisioningInvariant, Hosts, Objects
      <3>1. host \in Hosts /\ disk \in Hosts /\ host.residue \subseteq disk.residue
        BY DEF ProvisioningInvariant
      <3>2. "configuration" \in Objects BY DEF Objects
      <3> QED BY <2>a, <3>1, <3>2, SyncBothTells
    <2>2. /\ UNCHANGED <<host, pin, before, outcome>>
          /\ disk' = [disk EXCEPT !.config = host.config, !.residue = q]
          /\ q \subseteq disk.residue /\ host.residue \subseteq q
          /\ "configuration" \in q => "configuration" \in host.residue
          /\ At("config_sync") /\ host.config = "current"
          /\ run' = [run EXCEPT !.pc = AfterConfiguration, !.completed = ConfigurationStep]
      <3>1. /\ UNCHANGED <<host, pin, before, outcome>>
            /\ At("config_sync") /\ host.config = "current"
            /\ run' = [run EXCEPT !.pc = AfterConfiguration, !.completed = ConfigurationStep]
        <4> HIDE DEF SyncBoth
        <4> QED BY <1>5 DEF SyncConfiguration
      <3> QED BY <2>b, <3>1
    <2>1. HostSound' BY <2>2
    <2>3. CASE Recovery
      <3>1. /\ run' = [run EXCEPT !.pc = "state", !.completed = 18]
            /\ pin \in {"populated", "step20"}
        BY <2>2, <2>3 DEF AfterConfiguration, ConfigurationStep, Recovery
      <3>2. StepSound' BY <3>1, <2>2
      <3>3. ProgressSound' BY <3>1, <2>2
      <3>4. MakingSound' BY <3>1, <2>2
      <3>5. SyncedSound' BY <3>1, <2>2
      <3> QED BY <2>1, <3>2, <3>3, <3>4, <3>5
    <2>4. CASE ~Recovery
      <3>1. /\ run' = [run EXCEPT !.pc = "assets", !.completed = 12]
            /\ pin \in {"initial", "reviewed"}
        BY <2>2, <2>4 DEF AfterConfiguration, ConfigurationStep, Recovery
      <3>2. StepSound' BY <3>1, <2>2
      <3>3. ProgressSound' BY <3>1, <2>2
      <3>4. MakingSound' BY <3>1, <2>2
      <3>5. SyncedSound' BY <3>1, <2>2
      <3> QED BY <2>1, <3>2, <3>3, <3>4, <3>5
    <2> QED BY <2>3, <2>4
  <1>6. CASE InstallAsset
    <2>1. HostSound' BY <1>6 DEF InstallAsset
    <2>2. RunSound' BY <1>6 DEF InstallAsset
    <2> QED BY <2>1, <2>2
  <1>7. CASE ReplaceAsset
    <2>1. HostSound' BY <1>7 DEF ReplaceAsset
    <2>2. RunSound' BY <1>7 DEF ReplaceAsset
    <2> QED BY <2>1, <2>2
  <1>8. CASE SyncAsset
    <2>1. SyncBoth("assets", "asset")
      <3> HIDE DEF SyncBoth
      <3> QED BY <1>8 DEF SyncAsset
    <2>2. PICK q \in SUBSET Objects :
            /\ q \subseteq disk.residue /\ host.residue \subseteq q
            /\ disk' = [disk EXCEPT !.assets = host.assets, !.residue = q]
      <3> HIDE DEF SyncBoth, ProvisioningInvariant, Hosts, Objects
      <3>1. host \in Hosts /\ disk \in Hosts /\ host.residue \subseteq disk.residue
        BY DEF ProvisioningInvariant
      <3>2. "asset" \in Objects BY DEF Objects
      <3> QED BY <2>1, <3>1, <3>2, SyncBothTells
    <2>3. /\ UNCHANGED <<host, pin, before, outcome>>
          /\ At("asset_sync")
          /\ run' = [run EXCEPT !.pc = "assets", !.completed = 12]
      <3> HIDE DEF SyncBoth
      <3> QED BY <1>8 DEF SyncAsset
    <2>4. HostSound' BY <2>2, <2>3
    <2>5. RunSound' BY <2>2, <2>3
    <2> QED BY <2>4, <2>5
  <1>9. CASE AssetsDone
    <2>1. HostSound' BY <1>9 DEF AssetsDone
    <2>2. RunSound' BY <1>9, SMTT(30) DEF AssetsDone
    <2> QED BY <2>1, <2>2
  <1> QED BY <1>1, <1>2, <1>3, <1>4, <1>5, <1>6, <1>7, <1>8, <1>9, ZenonT(40)

\* The Python environment, steps 14 to 18.
LEMMA PythonStepsKeep ==
    ASSUME ProvisioningInvariant,
           \/ PrepareSnapshot \/ CopyInputs \/ RunVenv \/ RunPip \/ CleanupSnapshot
    PROVE  HostSound' /\ RunSound'
  <1> USE ProvisioningAssumption
      DEF ProvisioningInvariant, Typed, Hosts, Runs, Modes, Objects, Assets, HostSound,
          RunSound, DiskSound, UseSound, PinSound, Step20Sound, StepSound, ProgressSound,
          MakingSound, SyncedSound, TreeSound, InPlaceUpTo, UntouchedAfter, Makes, At, Go,
          Durable, Make, Made, Synced, NotSynced, Sync, SyncBoth,
          MayRemain
  <1> USE DEF Pcs, LooksOnly, AccountPcs, DirectoryPcs, CopyPcs, MigratePcs, ConfigPcs,
              AssetPcs, PythonPcs, StatePcs, ReplayDirectoryPcs, ReplayPcs, LastPcs, FreshPcs
  <1>1. CASE PrepareSnapshot
    <2>1. HostSound' BY <1>1 DEF PrepareSnapshot
    <2>2. RunSound' BY <1>1 DEF PrepareSnapshot
    <2> QED BY <2>1, <2>2
  <1>2. CASE CopyInputs
    <2>1. HostSound' BY <1>2 DEF CopyInputs
    <2>2. RunSound' BY <1>2 DEF CopyInputs
    <2> QED BY <2>1, <2>2
  <1>3. CASE RunVenv
    <2>1. HostSound' BY <1>3 DEF RunVenv
    <2>2. RunSound' BY <1>3 DEF RunVenv
    <2> QED BY <2>1, <2>2
  <1>4. CASE RunPip
    <2>1. HostSound' BY <1>4 DEF RunPip
    <2>2. RunSound' BY <1>4 DEF RunPip
    <2> QED BY <2>1, <2>2
  <1>5. CASE CleanupSnapshot
    <2>1. HostSound' BY <1>5 DEF CleanupSnapshot, QualifyPython, ObserveTree
    <2>2. RunSound' BY <1>5 DEF CleanupSnapshot, QualifyPython, ObserveTree
    <2> QED BY <2>1, <2>2
  <1> QED BY <1>1, <1>2, <1>3, <1>4, <1>5

\* The looks before step 7 and at step 22.
LEMMA LookStepsKeep ==
    ASSUME ProvisioningInvariant,
           \/ QualifySources \/ FinalQualification
    PROVE  HostSound' /\ RunSound'
  <1> USE ProvisioningAssumption
      DEF ProvisioningInvariant, Typed, Hosts, Runs, Modes, Objects, Assets, HostSound,
          RunSound, DiskSound, UseSound, PinSound, Step20Sound, StepSound, ProgressSound,
          MakingSound, SyncedSound, TreeSound, InPlaceUpTo, UntouchedAfter, Makes, At, Go,
          Durable, Make, Made, Synced, NotSynced, Sync, SyncBoth,
          MayRemain
  <1> USE DEF Pcs, LooksOnly, AccountPcs, DirectoryPcs, CopyPcs, MigratePcs, ConfigPcs,
              AssetPcs, PythonPcs, StatePcs, ReplayDirectoryPcs, ReplayPcs, LastPcs, FreshPcs
  <1>1. CASE QualifySources
    <2>1. HostSound' BY <1>1 DEF QualifySources
    <2>2. RunSound' BY <1>1 DEF QualifySources
    <2> QED BY <2>1, <2>2
  <1>2. CASE FinalQualification
    <2>1. HostSound' BY <1>2 DEF FinalQualification
    <2>2. RunSound' BY SMTT(30), <1>2 DEF FinalQualification
    <2> QED BY <2>1, <2>2
  <1> QED BY <1>1, <1>2

\* State, database and audit log, steps 19 to 21.
LEMMA PersistentStepsKeep ==
    ASSUME ProvisioningInvariant,
           \/ StateExisting \/ CreateState \/ WriteState \/ SyncState
           \/ MigrateReplayDirectory \/ SyncReplayDirectory \/ ReplayDirectoryKept
           \/ ReplayExisting \/ CreateReplay \/ OpenReplay \/ CommitReplay
           \/ SyncReplay \/ ValidatedReplay \/ PrepareAudit
    PROVE  HostSound' /\ RunSound'
  <1> USE ProvisioningAssumption
      DEF ProvisioningInvariant, Typed, Hosts, Runs, Modes, Objects, Assets, HostSound,
          RunSound, DiskSound, UseSound, PinSound, Step20Sound, StepSound, ProgressSound,
          MakingSound, SyncedSound, TreeSound, InPlaceUpTo, UntouchedAfter, Makes, At, Go,
          Durable, Make, Made, Synced, NotSynced, Sync, SyncBoth,
          MayRemain
  <1> USE DEF Pcs, LooksOnly, AccountPcs, DirectoryPcs, CopyPcs, MigratePcs, ConfigPcs,
              AssetPcs, PythonPcs, StatePcs, ReplayDirectoryPcs, ReplayPcs, LastPcs, FreshPcs
  <1>1. CASE StateExisting
    <2>1. HostSound' BY <1>1 DEF StateExisting
    <2>2. RunSound' BY <1>1 DEF StateExisting
    <2> QED BY <2>1, <2>2
  <1>2. CASE CreateState
    <2>1. HostSound' BY <1>2 DEF CreateState, Recovery
    <2>2. RunSound' BY <1>2 DEF CreateState, Recovery
    <2> QED BY <2>1, <2>2
  <1>3. CASE WriteState
    <2>1. HostSound' BY <1>3 DEF WriteState
    <2>2. RunSound' BY <1>3 DEF WriteState
    <2> QED BY <2>1, <2>2
  <1>4. CASE SyncState
    <2>1. SyncBoth("state", "state")
      <3> HIDE DEF SyncBoth
      <3> QED BY <1>4 DEF SyncState
    <2>2. PICK q \in SUBSET Objects :
            /\ q \subseteq disk.residue /\ host.residue \subseteq q
            /\ disk' = [disk EXCEPT !.state = host.state, !.residue = q]
      <3> HIDE DEF SyncBoth, ProvisioningInvariant, Hosts, Objects
      <3>1. host \in Hosts /\ disk \in Hosts /\ host.residue \subseteq disk.residue
        BY DEF ProvisioningInvariant
      <3>2. "state" \in Objects BY DEF Objects
      <3> QED BY <2>1, <3>1, <3>2, SyncBothTells
    <2>3. /\ UNCHANGED <<host, pin, before, outcome>>
          /\ At("state_sync")
          /\ run' = [run EXCEPT !.pc = "replay_directory", !.completed = 19]
      <3> HIDE DEF SyncBoth
      <3> QED BY <1>4 DEF SyncState
    <2>4. HostSound' BY <2>2, <2>3
    <2>5. RunSound' BY <2>2, <2>3
    <2> QED BY <2>4, <2>5
  <1>5. CASE MigrateReplayDirectory
    <2>1. HostSound' BY <1>5 DEF MigrateReplayDirectory
    <2>2. RunSound' BY <1>5 DEF MigrateReplayDirectory
    <2> QED BY <2>1, <2>2
  <1>6. CASE SyncReplayDirectory
    <2>1. HostSound' BY <1>6 DEF SyncReplayDirectory
    <2>2. RunSound' BY <1>6 DEF SyncReplayDirectory
    <2> QED BY <2>1, <2>2
  <1>7. CASE ReplayDirectoryKept
    <2>1. HostSound' BY <1>7 DEF ReplayDirectoryKept
    <2>2. RunSound' BY <1>7 DEF ReplayDirectoryKept
    <2> QED BY <2>1, <2>2
  <1>8. CASE ReplayExisting
    <2>1. HostSound' BY <1>8 DEF ReplayExisting, VerifyReplay, ValidateReplay, QuiescentFilesystem,
          ReplayFilesystem, ReplayDirectory, OpenStore, ReplaySchema
    <2>2. RunSound' BY <1>8 DEF ReplayExisting, VerifyReplay, ValidateReplay, QuiescentFilesystem,
          ReplayFilesystem, ReplayDirectory, OpenStore, ReplaySchema
    <2> QED BY <2>1, <2>2
  <1>9. CASE CreateReplay
    <2>1. HostSound' BY <1>9 DEF CreateReplay, BoundedEntries, ReplayDirectory
    <2>2. RunSound' BY <1>9 DEF CreateReplay, BoundedEntries, ReplayDirectory
    <2> QED BY <2>1, <2>2
  <1>10. CASE OpenReplay
    <2>1. HostSound' BY <1>10 DEF OpenReplay
    <2>2. RunSound' BY <1>10 DEF OpenReplay
    <2> QED BY <2>1, <2>2
  <1>11. CASE CommitReplay
    <2>1. HostSound' BY <1>11 DEF CommitReplay
    <2>2. RunSound' BY <1>11 DEF CommitReplay
    <2> QED BY <2>1, <2>2
  <1>12. CASE SyncReplay
    <2>1. HostSound' BY <1>12 DEF SyncReplay
    <2>2. RunSound' BY <1>12 DEF SyncReplay
    <2> QED BY <2>1, <2>2
  <1>13. CASE ValidatedReplay
    <2>1. HostSound' BY <1>13 DEF ValidatedReplay, ValidateReplay, QuiescentFilesystem,
          ReplayFilesystem, ReplayDirectory, OpenStore, ReplaySchema
    <2>2. RunSound' BY <1>13 DEF ValidatedReplay, ValidateReplay, QuiescentFilesystem,
          ReplayFilesystem, ReplayDirectory, OpenStore, ReplaySchema
    <2> QED BY <2>1, <2>2
  <1>14. CASE PrepareAudit
    <2>1. HostSound' BY <1>14 DEF PrepareAudit
    <2>2. RunSound' BY <1>14 DEF PrepareAudit
    <2> QED BY <2>1, <2>2
  <1> QED BY ZenonT(40), <1>1, <1>2, <1>3, <1>4, <1>5, <1>6, <1>7, <1>8, <1>9, <1>10, <1>11, <1>12, <1>13, <1>14

-----------------------------------------------------------------------------
(* Types.                                                                  *)

LEMMA PcsNamed ==
    Pcs = {"idle", "inputs", "preflight", "accounts", "directories", "directory_exact",
           "directory_sync", "application", "application_file", "application_link",
           "application_unlink", "application_sync", "migrate",
           "migrate_stage", "migrate_replace", "migrate_sync", "config", "config_replace",
           "config_sync", "assets", "asset_replace", "asset_sync", "snapshot",
           "snapshot_copy", "venv", "pip", "cleanup", "state", "state_write", "state_sync",
           "replay_directory", "replay_directory_sync", "replay", "replay_open",
           "replay_commit", "replay_sync", "replay_validate", "audit", "verify", "release"}
  BY DEF Pcs, LooksOnly, AccountPcs, DirectoryPcs, CopyPcs, MigratePcs, ConfigPcs,
         AssetPcs, PythonPcs, StatePcs, ReplayDirectoryPcs, ReplayPcs, LastPcs, FreshPcs

LEMMA DirectoryStepsTyped ==
    ASSUME ProvisioningInvariant,
           \/ CreateAccount \/ MakeDirectory \/ ExactDirectory \/ SyncDirectory
           \/ DirectoriesDone
    PROVE  Typed'
  <1> USE ProvisioningAssumption DEF ProvisioningInvariant, Typed, At, Go, Durable, Make,
          Made, Synced, NotSynced, Sync, SyncBoth, MayRemain
  <1>1. CASE CreateAccount
    <2>1. run' \in Runs /\ UNCHANGED <<pin, before, outcome>>
      <3>1. UNCHANGED <<pin, before, outcome>>
        BY <1>1 DEF CreateAccount
      <3>2. \/ run' = [run EXCEPT !.pc = "directories", !.completed = 9]
              \/ run' = [run EXCEPT !.pc = "accounts", !.completed = 7]
        BY <1>1 DEF CreateAccount
      <3>3. CASE run' = [run EXCEPT !.pc = "directories", !.completed = 9]
        BY ZenonT(40), <3>1, <3>3, PcsNamed DEF Runs
      <3>4. CASE run' = [run EXCEPT !.pc = "accounts", !.completed = 7]
        BY ZenonT(40), <3>1, <3>4, PcsNamed DEF Runs
      <3> QED BY <3>1, <3>2, <3>3, <3>4
    <2>2. host' \in Hosts BY <1>1 DEF CreateAccount, Hosts, Objects, Assets
    <2>3. disk' \in Hosts BY <1>1, <2>2 DEF CreateAccount, Hosts
    <2> QED BY <2>1, <2>2, <2>3
  <1>2. CASE MakeDirectory
    <2>1. run' \in Runs /\ UNCHANGED <<pin, before, outcome>>
      BY <1>2, PcsNamed DEF MakeDirectory, Runs
    <2>2. host' \in Hosts BY <1>2 DEF MakeDirectory, Hosts, Objects, Assets
    <2>3. disk' \in Hosts BY <1>2, <2>2 DEF MakeDirectory, Hosts
    <2> QED BY <2>1, <2>2, <2>3
  <1>3. CASE ExactDirectory
    <2>1. run' \in Runs /\ UNCHANGED <<pin, before, outcome>>
      BY <1>3, PcsNamed DEF ExactDirectory, Runs
    <2>0. PICK n \in 0..Directories : n = host.dirs + 1
      BY <1>3 DEF ExactDirectory, MakingSound, Hosts, Assets
    <2>2. host' \in Hosts
      <3>1. host' = [host EXCEPT !.residue = host.residue \ {"directory"}, !.dirs = n]
        BY <1>3, <2>0 DEF ExactDirectory, Hosts
      <3> QED BY <3>1, <2>0 DEF Hosts, Objects
    <2>3. disk' \in Hosts BY <1>3, <2>2 DEF ExactDirectory, Hosts
    <2> QED BY <2>1, <2>2, <2>3
  <1>5. CASE SyncDirectory
    <2>1. run' \in Runs /\ UNCHANGED <<pin, before, outcome>>
      BY <1>5, PcsNamed DEF SyncDirectory, Runs
    <2>2. host' \in Hosts BY <1>5 DEF SyncDirectory
    <2>3. disk' \in Hosts
      <3> HIDE DEF SyncBoth, ProvisioningInvariant
      <3>1. UNCHANGED disk \/ SyncBoth("dirs", "directory") BY <1>5 DEF SyncDirectory
      <3>2. host \in Hosts /\ disk \in Hosts /\ host.residue \subseteq disk.residue
        BY DEF ProvisioningInvariant, DiskSound
      <3>3. PICK q \in SUBSET Objects :
               UNCHANGED disk \/ disk' = [disk EXCEPT !.dirs = host.dirs, !.residue = q]
        BY <3>1, <3>2, SyncBothTells DEF Objects
      <3> QED BY <3>2, <3>3 DEF Hosts
    <2> QED BY <2>1, <2>2, <2>3
  <1>4. CASE DirectoriesDone
    <2>1. run' \in Runs /\ UNCHANGED <<pin, before, outcome>>
      BY <1>4, PcsNamed DEF DirectoriesDone, Runs
    <2>2. host' \in Hosts BY <1>4 DEF DirectoriesDone, Hosts, Objects, Assets
    <2>3. disk' \in Hosts BY <1>4, <2>2 DEF DirectoriesDone, Hosts
    <2> QED BY <2>1, <2>2, <2>3
  <1> QED BY <1>1, <1>2, <1>3, <1>4, <1>5

LEMMA ApplicationStepsTyped ==
    ASSUME ProvisioningInvariant,
           \/ MakeApplicationDirectories \/ StageApplicationFile
           \/ LinkApplicationFile \/ UnlinkTemporary \/ SyncApplicationFile
           \/ VerifyApplication \/ SyncApplicationPrefix
           \/ WriteStage \/ ReplaceApplicationFile \/ SyncApplicationDirectory
    PROVE  Typed'
  <1> USE ProvisioningAssumption DEF ProvisioningInvariant, Typed, At, Go, Durable, Make,
          Made, Synced, NotSynced, Sync, SyncBoth, MayRemain
  <1>1. CASE MakeApplicationDirectories
    <2>1. run' \in Runs /\ UNCHANGED <<pin, before, outcome>>
      BY <1>1, PcsNamed DEF MakeApplicationDirectories, Runs
    <2>2. host' \in Hosts BY <1>1 DEF MakeApplicationDirectories, Hosts, Objects, Assets
    <2>3. disk' \in Hosts BY <1>1, <2>2 DEF MakeApplicationDirectories, Hosts
    <2> QED BY <2>1, <2>2, <2>3
  <1>2. CASE StageApplicationFile
    <2>1. run' \in Runs /\ UNCHANGED <<pin, before, outcome>>
      BY <1>2, PcsNamed DEF StageApplicationFile, Runs
    <2>2. host' \in Hosts BY <1>2 DEF StageApplicationFile, Hosts, Objects, Assets
    <2>3. disk' \in Hosts BY <1>2, <2>2 DEF StageApplicationFile, Hosts
    <2> QED BY <2>1, <2>2, <2>3
  <1>3. CASE LinkApplicationFile
    <2>1. run' \in Runs /\ UNCHANGED <<pin, before, outcome>>
      BY <1>3, PcsNamed DEF LinkApplicationFile, Runs
    <2>0. PICK n \in 0..Files : n = host.app + 1
      BY <1>3 DEF LinkApplicationFile, MakingSound, Hosts, Assets
    <2>2. host' \in Hosts
      <3>1. host' = [host EXCEPT !.app = n]
        BY <1>3, <2>0 DEF LinkApplicationFile, Hosts
      <3> QED BY <3>1, <2>0 DEF Hosts, Objects
    <2>3. disk' \in Hosts BY <1>3 DEF LinkApplicationFile
    <2> QED BY <2>1, <2>2, <2>3
  <1>9. CASE UnlinkTemporary
    <2>1. run' \in Runs /\ UNCHANGED <<pin, before, outcome>>
      BY <1>9, PcsNamed DEF UnlinkTemporary, Runs
    <2>2. host' \in Hosts BY <1>9 DEF UnlinkTemporary, Hosts
    <2>3. disk' \in Hosts BY <1>9 DEF UnlinkTemporary
    <2> QED BY <2>1, <2>2, <2>3
  <1>10. CASE SyncApplicationFile
    <2>1. run' \in Runs /\ UNCHANGED <<pin, before, outcome>>
      BY <1>10, PcsNamed DEF SyncApplicationFile, Runs
    <2>2. host' \in Hosts BY <1>10 DEF SyncApplicationFile
    <2>3. disk' \in Hosts
      <3> HIDE DEF SyncBoth, ProvisioningInvariant
      <3>1. SyncBoth("app", "application") BY <1>10 DEF SyncApplicationFile
      <3>2. host \in Hosts /\ disk \in Hosts /\ host.residue \subseteq disk.residue
        BY DEF ProvisioningInvariant, DiskSound
      <3>3. PICK q \in SUBSET Objects :
               disk' = [disk EXCEPT !.app = host.app, !.residue = q]
        BY <3>1, <3>2, SyncBothTells DEF Objects
      <3> QED BY <3>2, <3>3 DEF Hosts
    <2> QED BY <2>1, <2>2, <2>3
  <1>4. CASE VerifyApplication
    <2>1. run' \in Runs /\ UNCHANGED <<pin, before, outcome>>
      BY <1>4, PcsNamed DEF VerifyApplication, Runs
    <2>2. host' \in Hosts BY <1>4 DEF VerifyApplication, Hosts, Objects, Assets
    <2>3. disk' \in Hosts BY <1>4, <2>2 DEF VerifyApplication, Hosts
    <2> QED BY <2>1, <2>2, <2>3
  <1>5. CASE SyncApplicationPrefix
    <2>1. run' \in Runs /\ UNCHANGED <<pin, before, outcome>>
      <3>1. UNCHANGED <<pin, before, outcome>>
        BY <1>5 DEF SyncApplicationPrefix
      <3>2. \/ run' = [run EXCEPT !.pc = "config", !.completed = 11]
              \/ run' = [run EXCEPT !.pc = "migrate_stage", !.completed = 10]
        BY <1>5 DEF SyncApplicationPrefix
      <3>3. CASE run' = [run EXCEPT !.pc = "config", !.completed = 11]
        BY ZenonT(40), <3>1, <3>3, PcsNamed DEF Runs
      <3>4. CASE run' = [run EXCEPT !.pc = "migrate_stage", !.completed = 10]
        BY ZenonT(40), <3>1, <3>4, PcsNamed DEF Runs
      <3> QED BY <3>1, <3>2, <3>3, <3>4
    <2>2. host' \in Hosts BY <1>5 DEF SyncApplicationPrefix, Hosts, Objects, Assets
    <2>3. disk' \in Hosts BY <1>5, <2>2 DEF SyncApplicationPrefix, Hosts
    <2> QED BY <2>1, <2>2, <2>3
  <1>6. CASE WriteStage
    <2>1. run' \in Runs /\ UNCHANGED <<pin, before, outcome>>
      <3>1. UNCHANGED <<pin, before, outcome>>
        BY <1>6 DEF WriteStage
      <3>2. \/ run' = [run EXCEPT !.pc = "migrate_stage", !.completed = 10]
              \/ run' = [run EXCEPT !.pc = "migrate_replace", !.completed = 10]
        BY <1>6 DEF WriteStage
      <3>3. CASE run' = [run EXCEPT !.pc = "migrate_stage", !.completed = 10]
        BY <3>1, <3>3, PcsNamed DEF Runs
      <3>4. CASE run' = [run EXCEPT !.pc = "migrate_replace", !.completed = 10]
        BY ZenonT(40), <3>1, <3>4, PcsNamed DEF Runs
      <3> QED BY <3>1, <3>2, <3>3, <3>4
    <2>2. host' \in Hosts BY <1>6 DEF WriteStage, Hosts, Objects, Assets
    <2>3. disk' \in Hosts BY <1>6, <2>2 DEF WriteStage, Hosts
    <2> QED BY <2>1, <2>2, <2>3
  <1>7. CASE ReplaceApplicationFile
    <2>1. run' \in Runs /\ UNCHANGED <<pin, before, outcome>>
      BY <1>7, PcsNamed DEF ReplaceApplicationFile, Runs
    <2>0. PICK n \in 0..Files : n = host.app + 1
      BY <1>7 DEF ReplaceApplicationFile, MakingSound, Hosts, Assets
    <2>2. host' \in Hosts
      <3>1. host' = [host EXCEPT !.app = n, !.stage = "none"]
        BY <1>7, <2>0 DEF ReplaceApplicationFile, Hosts
      <3> QED BY <3>1, <2>0 DEF Hosts, Objects
    <2>3. disk' \in Hosts BY <1>7, <2>2 DEF ReplaceApplicationFile, Hosts
    <2> QED BY <2>1, <2>2, <2>3
  <1>8. CASE SyncApplicationDirectory
    <2>1. run' \in Runs /\ UNCHANGED <<pin, before, outcome>>
      BY <1>8, PcsNamed DEF SyncApplicationDirectory, Runs
    <2>2. host' \in Hosts BY <1>8 DEF SyncApplicationDirectory, Hosts, Objects, Assets
    <2>3. disk' \in Hosts BY <1>8, <2>2 DEF SyncApplicationDirectory, Hosts
    <2> QED BY <2>1, <2>2, <2>3
  <1> QED BY <1>1, <1>2, <1>3, <1>4, <1>5, <1>6, <1>7, <1>8, <1>9, <1>10

LEMMA ConfigurationStepsTyped ==
    ASSUME ProvisioningInvariant,
           \/ ConfigurationRetained \/ ConfigurationUnchanged \/ InstallConfiguration
           \/ ReplaceConfiguration \/ SyncConfiguration \/ InstallAsset
           \/ ReplaceAsset \/ SyncAsset \/ AssetsDone
    PROVE  Typed'
  <1> USE ProvisioningAssumption DEF ProvisioningInvariant, Typed, At, Go, Durable, Make,
          Made, Synced, NotSynced, Sync, SyncBoth, MayRemain
  <1>1. CASE ConfigurationRetained
    <2>1. run' \in Runs /\ UNCHANGED <<pin, before, outcome>>
      BY <1>1, PcsNamed DEF ConfigurationRetained, Runs
    <2>2. host' \in Hosts BY <1>1 DEF ConfigurationRetained, Hosts, Objects, Assets
    <2>3. disk' \in Hosts BY <1>1, <2>2 DEF ConfigurationRetained, Hosts
    <2> QED BY <2>1, <2>2, <2>3
  <1>2. CASE ConfigurationUnchanged
    <2>1. run' \in Runs /\ UNCHANGED <<pin, before, outcome>>
      <3>1. UNCHANGED <<pin, before, outcome>>
        BY <1>2 DEF ConfigurationUnchanged
      <3>2. \/ run' = [run EXCEPT !.pc = "state", !.completed = 18]
              \/ run' = [run EXCEPT !.pc = "assets", !.completed = 12]
        BY <1>2 DEF ConfigurationUnchanged, AfterConfiguration, ConfigurationStep
      <3>3. CASE run' = [run EXCEPT !.pc = "state", !.completed = 18]
        BY ZenonT(40), <3>1, <3>3, PcsNamed DEF Runs
      <3>4. CASE run' = [run EXCEPT !.pc = "assets", !.completed = 12]
        BY ZenonT(40), <3>1, <3>4, PcsNamed DEF Runs
      <3> QED BY <3>1, <3>2, <3>3, <3>4
    <2>2. host' \in Hosts BY <1>2 DEF ConfigurationUnchanged
    <2>3. disk' \in Hosts
      <3> HIDE DEF SyncBoth, ProvisioningInvariant
      <3>1. SyncBoth("config", "configuration") BY <1>2 DEF ConfigurationUnchanged
      <3>2. host \in Hosts /\ disk \in Hosts /\ host.residue \subseteq disk.residue
        BY DEF ProvisioningInvariant, DiskSound
      <3>3. PICK q \in SUBSET Objects :
               disk' = [disk EXCEPT !.config = host.config, !.residue = q]
        BY <3>1, <3>2, SyncBothTells DEF Objects
      <3> QED BY <3>2, <3>3 DEF Hosts
    <2> QED BY <2>1, <2>2, <2>3
  <1>3. CASE InstallConfiguration
    <2>1. run' \in Runs /\ UNCHANGED <<pin, before, outcome>>
      BY <1>3, PcsNamed DEF InstallConfiguration, Runs
    <2>2. host' \in Hosts BY <1>3 DEF InstallConfiguration, Hosts, Objects, Assets
    <2>3. disk' \in Hosts BY <1>3, <2>2 DEF InstallConfiguration, Hosts
    <2> QED BY <2>1, <2>2, <2>3
  <1>4. CASE ReplaceConfiguration
    <2>1. run' \in Runs /\ UNCHANGED <<pin, before, outcome>>
      BY <1>4, PcsNamed DEF ReplaceConfiguration, Runs
    <2>2. host' \in Hosts BY ZenonT(40), <1>4 DEF ReplaceConfiguration, Hosts, Objects, Assets
    <2>3. disk' \in Hosts BY <1>4, <2>2 DEF ReplaceConfiguration, Hosts
    <2> QED BY <2>1, <2>2, <2>3
  <1>5. CASE SyncConfiguration
    <2>1. run' \in Runs /\ UNCHANGED <<pin, before, outcome>>
      <3>1. UNCHANGED <<pin, before, outcome>>
        BY <1>5 DEF SyncConfiguration
      <3>2. \/ run' = [run EXCEPT !.pc = "state", !.completed = 18]
              \/ run' = [run EXCEPT !.pc = "assets", !.completed = 12]
        BY <1>5 DEF SyncConfiguration, AfterConfiguration, ConfigurationStep
      <3>3. CASE run' = [run EXCEPT !.pc = "state", !.completed = 18]
        BY <3>1, <3>3, PcsNamed DEF Runs
      <3>4. CASE run' = [run EXCEPT !.pc = "assets", !.completed = 12]
        BY <3>1, <3>4, PcsNamed DEF Runs
      <3> QED BY <3>1, <3>2, <3>3, <3>4
    <2>2. host' \in Hosts BY <1>5 DEF SyncConfiguration
    <2>3. disk' \in Hosts
      <3> HIDE DEF SyncBoth, ProvisioningInvariant
      <3>1. SyncBoth("config", "configuration") BY <1>5 DEF SyncConfiguration
      <3>2. host \in Hosts /\ disk \in Hosts /\ host.residue \subseteq disk.residue
        BY DEF ProvisioningInvariant, DiskSound
      <3>3. PICK q \in SUBSET Objects :
               disk' = [disk EXCEPT !.config = host.config, !.residue = q]
        BY <3>1, <3>2, SyncBothTells DEF Objects
      <3> QED BY <3>2, <3>3 DEF Hosts
    <2> QED BY <2>1, <2>2, <2>3
  <1>6. CASE InstallAsset
    <2>1. run' \in Runs /\ UNCHANGED <<pin, before, outcome>>
      BY <1>6, PcsNamed DEF InstallAsset, Runs
    <2>2. host' \in Hosts BY <1>6 DEF InstallAsset, Hosts, Objects, Assets
    <2>3. disk' \in Hosts BY <1>6, <2>2 DEF InstallAsset, Hosts
    <2> QED BY <2>1, <2>2, <2>3
  <1>7. CASE ReplaceAsset
    <2>1. run' \in Runs /\ UNCHANGED <<pin, before, outcome>>
      BY <1>7, PcsNamed DEF ReplaceAsset, Runs
    <2>0. PICK n \in 0..Assets : n = host.assets + 1
      BY <1>7 DEF ReplaceAsset, MakingSound, Hosts, Assets
    <2>2. host' \in Hosts
      <3>1. host' = [host EXCEPT !.residue = host.residue \ {"asset"}, !.assets = n]
        BY <1>7, <2>0 DEF ReplaceAsset, Hosts
      <3> QED BY <3>1, <2>0 DEF Hosts, Objects
    <2>3. disk' \in Hosts BY <1>7, <2>2 DEF ReplaceAsset, Hosts
    <2> QED BY <2>1, <2>2, <2>3
  <1>8. CASE SyncAsset
    <2>1. run' \in Runs /\ UNCHANGED <<pin, before, outcome>>
      BY <1>8, PcsNamed, ZenonT(40) DEF SyncAsset, Runs
    <2>2. host' \in Hosts BY <1>8 DEF SyncAsset
    <2>3. disk' \in Hosts
      <3> HIDE DEF SyncBoth, ProvisioningInvariant
      <3>1. SyncBoth("assets", "asset") BY <1>8 DEF SyncAsset
      <3>2. host \in Hosts /\ disk \in Hosts /\ host.residue \subseteq disk.residue
        BY DEF ProvisioningInvariant, DiskSound
      <3>3. PICK q \in SUBSET Objects :
               disk' = [disk EXCEPT !.assets = host.assets, !.residue = q]
        BY <3>1, <3>2, SyncBothTells DEF Objects
      <3> QED BY <3>2, <3>3 DEF Hosts
    <2> QED BY <2>1, <2>2, <2>3
  <1>9. CASE AssetsDone
    <2>1. run' \in Runs /\ UNCHANGED <<pin, before, outcome>>
      BY <1>9, PcsNamed DEF AssetsDone, Runs
    <2>2. host' \in Hosts BY <1>9 DEF AssetsDone, Hosts, Objects, Assets
    <2>3. disk' \in Hosts BY <1>9, <2>2 DEF AssetsDone, Hosts
    <2> QED BY <2>1, <2>2, <2>3
  <1> QED BY <1>1, <1>2, <1>3, <1>4, <1>5, <1>6, <1>7, <1>8, <1>9

LEMMA PythonStepsTyped ==
    ASSUME ProvisioningInvariant,
           \/ PrepareSnapshot \/ CopyInputs \/ RunVenv \/ RunPip \/ CleanupSnapshot
    PROVE  Typed'
  <1> USE ProvisioningAssumption DEF ProvisioningInvariant, Typed, At, Go, Durable, Make,
          Made, Synced, NotSynced, Sync, SyncBoth, MayRemain
  <1>1. CASE PrepareSnapshot
    <2>1. run' \in Runs /\ UNCHANGED <<pin, before, outcome>>
      BY <1>1, PcsNamed DEF PrepareSnapshot, Runs
    <2>2. host' \in Hosts BY <1>1 DEF PrepareSnapshot, Hosts, Objects, Assets
    <2>3. disk' \in Hosts BY <1>1, <2>2 DEF PrepareSnapshot, Hosts
    <2> QED BY <2>1, <2>2, <2>3
  <1>2. CASE CopyInputs
    <2>1. run' \in Runs /\ UNCHANGED <<pin, before, outcome>>
      BY <1>2, PcsNamed DEF CopyInputs, Runs
    <2>2. host' \in Hosts BY <1>2 DEF CopyInputs, Hosts, Objects, Assets
    <2>3. disk' \in Hosts BY <1>2, <2>2 DEF CopyInputs, Hosts
    <2> QED BY <2>1, <2>2, <2>3
  <1>3. CASE RunVenv
    <2>1. run' \in Runs /\ UNCHANGED <<pin, before, outcome>>
      BY ZenonT(40), <1>3, PcsNamed DEF RunVenv, Runs
    <2>2. host' \in Hosts BY <1>3 DEF RunVenv, Hosts, Objects, Assets
    <2>3. disk' \in Hosts BY <1>3, <2>2 DEF RunVenv, Hosts
    <2> QED BY <2>1, <2>2, <2>3
  <1>4. CASE RunPip
    <2>1. run' \in Runs /\ UNCHANGED <<pin, before, outcome>>
      BY <1>4, PcsNamed DEF RunPip, Runs
    <2>2. host' \in Hosts BY <1>4 DEF RunPip, Hosts, Objects, Assets
    <2>3. disk' \in Hosts BY <1>4, <2>2 DEF RunPip, Hosts
    <2> QED BY <2>1, <2>2, <2>3
  <1>5. CASE CleanupSnapshot
    <2>1. run' \in Runs /\ UNCHANGED <<pin, before, outcome>>
      BY <1>5, PcsNamed DEF CleanupSnapshot, Runs
    <2>2. host' \in Hosts BY <1>5 DEF CleanupSnapshot, Hosts, Objects, Assets
    <2>3. disk' \in Hosts BY <1>5, <2>2 DEF CleanupSnapshot, Hosts
    <2> QED BY <2>1, <2>2, <2>3
  <1> QED BY <1>1, <1>2, <1>3, <1>4, <1>5

LEMMA LookStepsTyped ==
    ASSUME ProvisioningInvariant,
           \/ QualifySources \/ FinalQualification
    PROVE  Typed'
  <1> USE ProvisioningAssumption DEF ProvisioningInvariant, Typed, At, Go, Durable, Make,
          Made, Synced, NotSynced, Sync, SyncBoth, MayRemain
  <1>1. CASE QualifySources
    <2>1. run' \in Runs /\ UNCHANGED <<pin, before, outcome>>
      BY <1>1, PcsNamed DEF QualifySources, Runs
    <2>2. host' \in Hosts BY <1>1 DEF QualifySources, Hosts, Objects, Assets
    <2>3. disk' \in Hosts BY <1>1, <2>2 DEF QualifySources, Hosts
    <2> QED BY <2>1, <2>2, <2>3
  <1>2. CASE FinalQualification
    <2>1. run' \in Runs /\ UNCHANGED <<pin, before, outcome>>
      BY <1>2, PcsNamed DEF FinalQualification, Runs
    <2>2. host' \in Hosts BY <1>2 DEF FinalQualification, Hosts, Objects, Assets
    <2>3. disk' \in Hosts BY <1>2, <2>2 DEF FinalQualification, Hosts
    <2> QED BY <2>1, <2>2, <2>3
  <1> QED BY <1>1, <1>2

LEMMA PersistentStepsTyped ==
    ASSUME ProvisioningInvariant,
           \/ StateExisting \/ CreateState \/ WriteState \/ SyncState
           \/ MigrateReplayDirectory \/ SyncReplayDirectory \/ ReplayDirectoryKept
           \/ ReplayExisting \/ CreateReplay \/ OpenReplay \/ CommitReplay
           \/ SyncReplay \/ ValidatedReplay \/ PrepareAudit
    PROVE  Typed'
  <1> USE ProvisioningAssumption DEF ProvisioningInvariant, Typed, At, Go, Durable, Make,
          Made, Synced, NotSynced, Sync, SyncBoth, MayRemain
  <1>1. CASE StateExisting
    <2>1. run' \in Runs /\ UNCHANGED <<pin, before, outcome>>
      BY <1>1, PcsNamed DEF StateExisting, Runs
    <2>2. host' \in Hosts BY <1>1 DEF StateExisting, Hosts, Objects, Assets
    <2>3. disk' \in Hosts BY <1>1, <2>2 DEF StateExisting, Hosts
    <2> QED BY <2>1, <2>2, <2>3
  <1>2. CASE CreateState
    <2>1. run' \in Runs /\ UNCHANGED <<pin, before, outcome>>
      BY <1>2, PcsNamed DEF CreateState, Runs
    <2>2. host' \in Hosts BY <1>2 DEF CreateState, Hosts, Objects, Assets
    <2>3. disk' \in Hosts BY <1>2, <2>2 DEF CreateState, Hosts
    <2> QED BY <2>1, <2>2, <2>3
  <1>3. CASE WriteState
    <2>1. run' \in Runs /\ UNCHANGED <<pin, before, outcome>>
      BY <1>3, PcsNamed DEF WriteState, Runs
    <2>2. host' \in Hosts BY ZenonT(40), <1>3 DEF WriteState, Hosts, Objects, Assets
    <2>3. disk' \in Hosts BY <1>3, <2>2 DEF WriteState, Hosts
    <2> QED BY <2>1, <2>2, <2>3
  <1>4. CASE SyncState
    <2>1. run' \in Runs /\ UNCHANGED <<pin, before, outcome>>
      BY <1>4, PcsNamed DEF SyncState, Runs
    <2>2. host' \in Hosts BY <1>4 DEF SyncState
    <2>3. disk' \in Hosts
      <3> HIDE DEF SyncBoth, ProvisioningInvariant
      <3>1. SyncBoth("state", "state") BY <1>4 DEF SyncState
      <3>2. host \in Hosts /\ disk \in Hosts /\ host.residue \subseteq disk.residue
        BY DEF ProvisioningInvariant, DiskSound
      <3>3. PICK q \in SUBSET Objects :
               disk' = [disk EXCEPT !.state = host.state, !.residue = q]
        BY <3>1, <3>2, SyncBothTells DEF Objects
      <3> QED BY <3>2, <3>3 DEF Hosts
    <2> QED BY <2>1, <2>2, <2>3
  <1>5. CASE MigrateReplayDirectory
    <2>1. run' \in Runs /\ UNCHANGED <<pin, before, outcome>>
      BY <1>5, PcsNamed DEF MigrateReplayDirectory, Runs
    <2>2. host' \in Hosts BY <1>5 DEF MigrateReplayDirectory, Hosts, Objects, Assets
    <2>3. disk' \in Hosts BY <1>5, <2>2 DEF MigrateReplayDirectory, Hosts
    <2> QED BY <2>1, <2>2, <2>3
  <1>6. CASE SyncReplayDirectory
    <2>1. run' \in Runs /\ UNCHANGED <<pin, before, outcome>>
      BY <1>6, PcsNamed DEF SyncReplayDirectory, Runs
    <2>2. host' \in Hosts BY <1>6 DEF SyncReplayDirectory, Hosts, Objects, Assets
    <2>3. disk' \in Hosts
      <3>1. disk' = [disk EXCEPT !.rdir = host.rdir, !.replay = host.replay]
        BY <1>6 DEF SyncReplayDirectory
      <3>2. host \in Hosts /\ disk \in Hosts OBVIOUS
      <3> HIDE DEF ProvisioningInvariant, Typed
      <3> QED BY ZenonT(40), <3>1, <3>2 DEF Hosts
    <2> QED BY <2>1, <2>2, <2>3
  <1>7. CASE ReplayDirectoryKept
    <2>1. run' \in Runs /\ UNCHANGED <<pin, before, outcome>>
      BY <1>7, PcsNamed DEF ReplayDirectoryKept, Runs
    <2>2. host' \in Hosts BY <1>7 DEF ReplayDirectoryKept, Hosts, Objects, Assets
    <2>3. disk' \in Hosts BY <1>7, <2>2 DEF ReplayDirectoryKept, Hosts
    <2> QED BY <2>1, <2>2, <2>3
  <1>8. CASE ReplayExisting
    <2>1. run' \in Runs /\ UNCHANGED <<pin, before, outcome>>
      BY <1>8, PcsNamed DEF ReplayExisting, Runs
    <2>2. host' \in Hosts BY <1>8 DEF ReplayExisting, Hosts, Objects, Assets
    <2>3. disk' \in Hosts BY <1>8, <2>2 DEF ReplayExisting, Hosts
    <2> QED BY <2>1, <2>2, <2>3
  <1>9. CASE CreateReplay
    <2>1. run' \in Runs /\ UNCHANGED <<pin, before, outcome>>
      BY <1>9, PcsNamed DEF CreateReplay, Runs
    <2>2. host' \in Hosts BY <1>9 DEF CreateReplay, Hosts, Objects, Assets
    <2>3. disk' \in Hosts BY <1>9, <2>2 DEF CreateReplay, Hosts
    <2> QED BY <2>1, <2>2, <2>3
  <1>10. CASE OpenReplay
    <2>1. run' \in Runs /\ UNCHANGED <<pin, before, outcome>>
      BY <1>10, PcsNamed DEF OpenReplay, Runs
    <2>2. host' \in Hosts BY <1>10 DEF OpenReplay, Hosts, Objects, Assets
    <2>3. disk' \in Hosts BY <1>10, <2>2 DEF OpenReplay, Hosts
    <2> QED BY <2>1, <2>2, <2>3
  <1>11. CASE CommitReplay
    <2>1. run' \in Runs /\ UNCHANGED <<pin, before, outcome>>
      BY <1>11, PcsNamed DEF CommitReplay, Runs
    <2>2. host' \in Hosts BY <1>11 DEF CommitReplay, Hosts, Objects, Assets
    <2>3. disk' \in Hosts BY <1>11, <2>2 DEF CommitReplay, Hosts
    <2> QED BY <2>1, <2>2, <2>3
  <1>12. CASE SyncReplay
    <2>1. run' \in Runs /\ UNCHANGED <<pin, before, outcome>>
      BY <1>12, PcsNamed DEF SyncReplay, Runs
    <2>2. host' \in Hosts BY <1>12 DEF SyncReplay, Hosts, Objects, Assets
    <2>3. disk' \in Hosts BY <1>12, <2>2 DEF SyncReplay, Hosts
    <2> QED BY <2>1, <2>2, <2>3
  <1>13. CASE ValidatedReplay
    <2>1. run' \in Runs /\ UNCHANGED <<pin, before, outcome>>
      BY <1>13, PcsNamed DEF ValidatedReplay, Runs
    <2>2. host' \in Hosts BY <1>13 DEF ValidatedReplay, Hosts, Objects, Assets
    <2>3. disk' \in Hosts BY <1>13, <2>2 DEF ValidatedReplay, Hosts
    <2> QED BY <2>1, <2>2, <2>3
  <1>14. CASE PrepareAudit
    <2>1. run' \in Runs /\ UNCHANGED <<pin, before, outcome>>
      BY <1>14, PcsNamed DEF PrepareAudit, Runs
    <2>2. host' \in Hosts BY <1>14 DEF PrepareAudit, Hosts, Objects, Assets
    <2>3. disk' \in Hosts BY <1>14, <2>2 DEF PrepareAudit, Hosts
    <2> QED BY <2>1, <2>2, <2>3
  <1> QED BY <1>1, <1>2, <1>3, <1>4, <1>5, <1>6, <1>7, <1>8, <1>9, <1>10, <1>11, <1>12, <1>13, <1>14

-----------------------------------------------------------------------------
(* The end of a run.                                                       *)

\* The fields of a host, one by one.
SameHost(h, g) ==
    /\ h.accounts = g.accounts /\ h.dirs = g.dirs /\ h.app = g.app /\ h.stage = g.stage
    /\ h.config = g.config /\ h.assets = g.assets /\ h.venv = g.venv
    /\ h.state = g.state /\ h.replay = g.replay /\ h.rdir = g.rdir /\ h.audit = g.audit
    /\ h.residue = g.residue

LEMMA SameHostEqual ==
    ASSUME NEW h \in Hosts, NEW g \in Hosts, SameHost(h, g) PROVE h = g
  BY DEF Hosts, SameHost

\* The steps that give the application its files.
Copying == CopyPcs \ {"application"}

LEMMA MakingTells ==
    /\ Making = {} \/ \E o \in Objects : Making = {o}
    /\ "application" \in Making <=> run.pc \in Copying
    /\ "state" \in Making <=> run.pc \in {"state_write", "state_sync"}
    /\ "directory" \in Making <=> run.pc \in {"directory_exact", "directory_sync"}
    /\ "snapshot" \in Making <=> run.pc \in {"snapshot_copy", "venv", "pip", "cleanup"}
    /\ run.pc \in LooksOnly => Making = {}
    /\ \A o \in Objects : Makes(o) => o \in Making
  BY DEF Making, Makes, At, Copying, CopyPcs, LooksOnly, Objects

\* What the handlers leave of the host and its disk, whether or not they fail.
Cleaned ==
    /\ host' \in Hosts /\ disk' \in Hosts
    /\ SameHost(host', [host EXCEPT !.dirs = host'.dirs, !.app = host'.app,
                        !.state = host'.state, !.replay = host'.replay,
                        !.residue = host'.residue])
    /\ run.pc # "directory_sync" => host'.dirs = host.dirs
    /\ disk.dirs =< host'.dirs
    /\ run.pc \in Copying => host'.app \in {0, Files} \/ "application" \in host'.residue
    /\ run.pc \notin Copying => host'.app = host.app
    /\ run.pc \in {"state_write", "state_sync"} => host'.state \in {"absent", host.state}
    /\ run.pc \notin {"state_write", "state_sync"} => host'.state = host.state
    /\ "state" \in host'.residue => host'.state = "absent"
    /\ host'.replay \in Quarantined
    /\ host'.residue \subseteq disk'.residue
    /\ host'.residue \subseteq before.residue \cup Making
    /\ host'.residue \subseteq host.residue \cup (Making \cap {"application"})
    /\ run.pc \in LooksOnly => host'.residue = host.residue
    /\ disk'.residue \subseteq disk.residue \cup (Making \cap {"application"})
    /\ SameHost(disk', [disk EXCEPT !.app = disk'.app, !.state = disk'.state,
                        !.replay = disk'.replay, !.residue = disk'.residue])
    /\ run.pc \notin Copying => disk'.app = disk.app
    /\ disk'.state \in {disk.state, host'.state}
    /\ run.pc \notin {"state_write", "state_sync"} => disk'.state = disk.state
    /\ disk'.replay = IF host'.replay = host.replay THEN disk.replay ELSE host'.replay

\* The handlers took away what the step was making, and nothing else.
CleanedFields(h, replay) ==
    /\ h \in Hosts
    /\ SameHost(h, [host EXCEPT !.dirs = h.dirs, !.app = h.app, !.state = h.state,
                                !.replay = h.replay, !.residue = h.residue])
    /\ run.pc # "directory_sync" => h.dirs = host.dirs
    /\ run.pc = "directory_sync" => h.dirs = host.dirs - 1
    /\ disk.dirs =< h.dirs
    /\ run.pc \in Copying => h.app = before.app
    /\ run.pc \notin Copying => h.app = host.app
    /\ run.pc \in {"state_write", "state_sync"} => h.state = "absent"
    /\ run.pc \notin {"state_write", "state_sync"} => h.state = host.state
    /\ h.replay = replay
    /\ h.residue = host.residue \ Making

\* A host that the handlers have dealt with.
LEMMA CleanedUpFields ==
    ASSUME ProvisioningInvariant, NEW replay \in Quarantined, NEW h, h = CleanedUp(replay)
    PROVE  CleanedFields(h, replay)
  <1>1. host \in Hosts /\ disk \in Hosts /\ before \in Hosts /\ run \in Runs
    BY DEF ProvisioningInvariant, Typed
  <1>2. PICK d \in 0..Directories :
          /\ d = IF At("directory_sync") THEN host.dirs - 1 ELSE host.dirs
          /\ disk.dirs =< d
    <2>1. /\ host.dirs \in 0..Directories /\ disk.dirs \in 0..Directories
          /\ disk.dirs =< host.dirs
          /\ At("directory_sync") => host.dirs > 0 /\ disk.dirs < host.dirs
      BY <1>1 DEF ProvisioningInvariant, DiskSound, MakingSound, Hosts, At
    <2> QED BY <2>1, ProvisioningAssumption
  <1>3. PICK a \in 0..Files : a = IF "application" \in Making THEN before.app ELSE host.app
    BY <1>1 DEF Hosts
  <1>4. PICK st \in {"absent", "initial", "used"} :
           st = IF "state" \in Making THEN "absent" ELSE host.state
    BY <1>1 DEF Hosts
  <1>5. PICK r \in SUBSET Objects : r = host.residue \ Making
    BY <1>1 DEF Hosts
  <1>6. replay \in {"absent", "created", "open", "initial", "used", "poisoned"}
    BY <1>1 DEF Quarantined, Hosts
  <1>7. h = [host EXCEPT !.residue = r, !.dirs = d, !.app = a, !.state = st, !.replay = replay]
    BY <1>1, <1>2, <1>3, <1>4, <1>5 DEF CleanedUp, Hosts
  <1>8. h \in Hosts
    <2>1. PICK g : g = [host EXCEPT !.residue = r, !.dirs = d]
      OBVIOUS
    <2>2. g \in Hosts BY <1>1, <2>1 DEF Hosts
    <2>3. PICK e : e = [g EXCEPT !.app = a, !.state = st]
      OBVIOUS
    <2>4. e \in Hosts BY <2>2, <2>3 DEF Hosts
    <2>5. h = [e EXCEPT !.replay = replay]
      BY <1>1, <1>7, <2>1, <2>3 DEF Hosts
    <2> QED BY <1>6, <2>4, <2>5 DEF Hosts
  <1>9. /\ h.residue = r /\ h.dirs = d /\ h.app = a /\ h.state = st /\ h.replay = replay
        /\ h.accounts = host.accounts /\ h.stage = host.stage /\ h.config = host.config
        /\ h.assets = host.assets /\ h.venv = host.venv /\ h.rdir = host.rdir
        /\ h.audit = host.audit
    BY <1>1, <1>7 DEF Hosts
  <1>10. SameHost(h, [host EXCEPT !.dirs = h.dirs, !.app = h.app, !.state = h.state,
                                  !.replay = h.replay, !.residue = h.residue])
    BY <1>1, <1>9 DEF Hosts, SameHost
  <1> QED BY <1>2, <1>3, <1>4, <1>5, <1>8, <1>9, <1>10, MakingTells DEF At, CleanedFields

\* What the run did not find half made it is making.
LEMMA ResidueIsMade ==
    ASSUME ProvisioningInvariant, ~At("idle")
    PROVE  host.residue \subseteq before.residue \cup Making
  <1>1. \A o \in host.residue : o \in before.residue \/ Makes(o)
    BY DEF ProvisioningInvariant, MakingSound, At
  <1>2. host.residue \subseteq Objects
    BY DEF ProvisioningInvariant, Typed, Hosts
  <1> QED BY <1>1, <1>2, MakingTells

LEMMA CleanUpCleans ==
    ASSUME ProvisioningInvariant, ~At("idle"), CleanUp PROVE Cleaned
  <1>1. PICK replay \in Quarantined :
           /\ host' = CleanedUp(replay)
           /\ disk' = [f \in DOMAIN disk |->
                         IF f = "residue" THEN MayRemain(host')
                         ELSE IF f = "dirs" \/ (f \in Synced /\ host'[f] = host[f]) THEN disk[f]
                         ELSE host'[f]]
    BY DEF CleanUp
  <1>2. host \in Hosts /\ disk \in Hosts /\ before \in Hosts /\ run \in Runs
    BY DEF ProvisioningInvariant, Typed
  <1>3. PICK h : h = host'
    OBVIOUS
  <1>4. /\ h \in Hosts
        /\ SameHost(h, [host EXCEPT !.dirs = h.dirs, !.app = h.app, !.state = h.state,
                                    !.replay = h.replay, !.residue = h.residue])
        /\ run.pc # "directory_sync" => h.dirs = host.dirs
        /\ run.pc = "directory_sync" => h.dirs = host.dirs - 1
        /\ disk.dirs =< h.dirs
        /\ run.pc \in Copying => h.app = before.app
        /\ run.pc \notin Copying => h.app = host.app
        /\ run.pc \in {"state_write", "state_sync"} => h.state = "absent"
        /\ run.pc \notin {"state_write", "state_sync"} => h.state = host.state
        /\ h.replay = replay
        /\ h.residue = host.residue \ Making
    <2>1. CleanedFields(h, replay) BY <1>1, <1>3, CleanedUpFields
    <2> QED BY <2>1 DEF CleanedFields
  <1>5. /\ host.residue \subseteq disk.residue /\ disk.accounts = host.accounts
        /\ disk.stage = host.stage /\ disk.venv = host.venv /\ disk.audit = host.audit
        /\ "state" \in host.residue => host.state = "absent"
        /\ run.pc \in Copying => before.app \in {0, Files}
    BY <1>2 DEF ProvisioningInvariant, DiskSound, PinSound, TreeSound, MakingSound, StepSound,
           Copying, CopyPcs, LooksOnly, FreshPcs
  <1>6. PICK m \in SUBSET Objects : m = (disk.residue \ host.residue) \cup h.residue
    BY <1>2, <1>4 DEF Hosts
  <1>7. disk' = [f \in DOMAIN disk |->
                    IF f = "residue" THEN m
                    ELSE IF f = "dirs" \/ (f \in Synced /\ h[f] = host[f]) THEN disk[f]
                    ELSE h[f]]
    BY <1>1, <1>3, <1>6 DEF MayRemain
  <1>8. /\ disk'.residue = m /\ disk'.dirs = disk.dirs
        /\ disk'.accounts = h.accounts /\ disk'.stage = h.stage /\ disk'.venv = h.venv
        /\ disk'.audit = h.audit
        /\ disk'.app = IF h.app = host.app THEN disk.app ELSE h.app
        /\ disk'.config = IF h.config = host.config THEN disk.config ELSE h.config
        /\ disk'.assets = IF h.assets = host.assets THEN disk.assets ELSE h.assets
        /\ disk'.state = IF h.state = host.state THEN disk.state ELSE h.state
        /\ disk'.rdir = IF h.rdir = host.rdir THEN disk.rdir ELSE h.rdir
        /\ disk'.replay = IF h.replay = host.replay THEN disk.replay ELSE h.replay
    BY <1>2, <1>7 DEF Hosts, Synced
  <1>9. disk' \in Hosts
    BY <1>2, <1>4, <1>6, <1>7 DEF Hosts, Synced
  <1>10. /\ h.config = host.config /\ h.assets = host.assets /\ h.rdir = host.rdir
         /\ h.accounts = host.accounts /\ h.stage = host.stage /\ h.venv = host.venv
         /\ h.audit = host.audit
    BY <1>2, <1>4 DEF SameHost, Hosts
  <1>11. SameHost(disk', [disk EXCEPT !.app = disk'.app, !.state = disk'.state,
                                      !.replay = disk'.replay, !.residue = disk'.residue])
    BY <1>2, <1>5, <1>8, <1>9, <1>10 DEF SameHost, Hosts
  <1>12. /\ h.residue \subseteq disk'.residue
         /\ h.residue \subseteq before.residue \cup Making
         /\ run.pc \in LooksOnly => h.residue = host.residue
         /\ disk'.residue \subseteq disk.residue \cup (Making \cap {"application"})
         /\ "state" \in h.residue => h.state = "absent"
    BY <1>4, <1>5, <1>6, <1>8, ResidueIsMade, MakingTells
  <1> QED BY <1>3, <1>4, <1>5, <1>8, <1>9, <1>11, <1>12 DEF Cleaned

\* The same of handlers that fail.
LEMMA CleanUpFailsCleans ==
    ASSUME ProvisioningInvariant, ~At("idle"), CleanUpFails PROVE Cleaned
  <1>1. host \in Hosts /\ disk \in Hosts /\ before \in Hosts /\ run \in Runs
    BY DEF ProvisioningInvariant, Typed
  <1>2. /\ host.residue \subseteq disk.residue /\ disk.dirs =< host.dirs
        /\ "state" \in host.residue => host.state = "absent"
        /\ run.pc \in Copying =>
              /\ before.app \in {0, Files}
              /\ before.app =< host.app
              /\ host.app \in {0, Files} \/ "application" \in host.residue
        /\ host.residue \subseteq before.residue \cup Making
    <2>1. run.pc \in Copying =>
            /\ before.app \in {0, Files}
            /\ before.app =< host.app
            /\ host.app \in {0, Files} \/ "application" \in host.residue
      BY DEF ProvisioningInvariant, PinSound, TreeSound, MakingSound, StepSound,
             Copying, CopyPcs, LooksOnly, FreshPcs
    <2> QED BY <2>1, ResidueIsMade DEF ProvisioningInvariant, DiskSound
  <1>3. host.replay \in Quarantined
    BY MakingTells DEF Quarantined, CleanUpFails, Making, At
  <1>4. CASE UNCHANGED <<host, disk>>
    BY <1>1, <1>2, <1>3, <1>4 DEF Cleaned, SameHost, Hosts
  <1>5. CASE /\ host' = CleanedUp(host.replay)
             /\ disk' = [disk EXCEPT !.app = IF "application" \in Making
                                                THEN before.app ELSE @]
    <2>1. PICK h : h = host'
      OBVIOUS
    <2>2. /\ h \in Hosts
          /\ SameHost(h, [host EXCEPT !.dirs = h.dirs, !.app = h.app, !.state = h.state,
                                      !.replay = h.replay, !.residue = h.residue])
          /\ run.pc # "directory_sync" => h.dirs = host.dirs
          /\ run.pc = "directory_sync" => h.dirs = host.dirs - 1
          /\ disk.dirs =< h.dirs
          /\ run.pc \in Copying => h.app = before.app
          /\ run.pc \notin Copying => h.app = host.app
          /\ run.pc \in {"state_write", "state_sync"} => h.state = "absent"
          /\ run.pc \notin {"state_write", "state_sync"} => h.state = host.state
          /\ h.replay = host.replay
          /\ h.residue = host.residue \ Making
      <3>1. PICK replay \in Quarantined : replay = host.replay BY <1>3
      <3>2. h = CleanedUp(replay) BY <1>5, <2>1, <3>1
      <3>3. CleanedFields(h, replay) BY <3>2, CleanedUpFields
      <3> QED BY <3>1, <3>3 DEF CleanedFields
    <2>3. PICK a \in 0..Files : /\ a = IF "application" \in Making THEN before.app ELSE disk.app
                                /\ disk' = [disk EXCEPT !.app = a]
      BY <1>1, <1>5 DEF Hosts
    <2>4. disk' \in Hosts BY <1>1, <2>3 DEF Hosts
    <2>5. SameHost(disk', [disk EXCEPT !.app = disk'.app, !.state = disk'.state,
                                       !.replay = disk'.replay, !.residue = disk'.residue])
      BY <1>1, <2>3 DEF SameHost, Hosts
    <2>6. /\ disk'.app = a /\ disk'.state = disk.state /\ disk'.replay = disk.replay
          /\ disk'.residue = disk.residue
      BY <1>1, <2>3 DEF Hosts
    <2>7. /\ h.residue \subseteq disk'.residue
          /\ h.residue \subseteq before.residue \cup Making
          /\ run.pc \in LooksOnly => h.residue = host.residue
          /\ "state" \in h.residue => h.state = "absent"
          /\ run.pc \notin Copying => a = disk.app
      BY <1>2, <2>2, <2>3, <2>6, MakingTells
    <2> QED BY <1>2, <1>3, <2>1, <2>2, <2>4, <2>5, <2>6, <2>7 DEF Cleaned
  <1>6. CASE /\ "application" \in Making
             /\ \E n \in before.app .. host.app:
                  /\ n < host.app
                  /\ host' = [Make("application", host) EXCEPT !.app = n]
                  /\ \E k \in {n, n + 1}:
                       disk' = [Make("application", disk) EXCEPT !.app = k]
    <2>a. PICK n \in before.app .. host.app :
            /\ n < host.app
            /\ host' = [Make("application", host) EXCEPT !.app = n]
            /\ \E k \in {n, n + 1}: disk' = [Make("application", disk) EXCEPT !.app = k]
      BY <1>6
    <2>1. PICK k \in {n, n + 1} : disk' = [Make("application", disk) EXCEPT !.app = k]
      BY <2>a
    <2>2. n \in 0..Files /\ k \in 0..Files
      BY <1>1, <2>a, <2>1, ProvisioningAssumption DEF Hosts
    <2>3. PICK r \in SUBSET Objects, q \in SUBSET Objects :
            /\ r = host.residue \cup {"application"} /\ q = disk.residue \cup {"application"}
      BY <1>1 DEF Hosts, Objects
    <2>4. /\ host' = [host EXCEPT !.residue = r, !.app = n]
          /\ disk' = [disk EXCEPT !.residue = q, !.app = k]
      BY <1>1, <2>a, <2>1, <2>3 DEF Make, Hosts
    <2>5. host' \in Hosts /\ disk' \in Hosts
      BY <1>1, <2>2, <2>3, <2>4 DEF Hosts
    <2>6. /\ host'.residue = r /\ host'.app = n /\ host'.dirs = host.dirs
          /\ host'.state = host.state /\ host'.replay = host.replay
          /\ disk'.residue = q /\ disk'.app = k /\ disk'.state = disk.state
          /\ disk'.replay = disk.replay
      BY <1>1, <2>4 DEF Hosts
    <2>7. SameHost(host', [host EXCEPT !.dirs = host'.dirs, !.app = host'.app,
                          !.state = host'.state, !.replay = host'.replay,
                          !.residue = host'.residue])
      BY <1>1, <2>4, <2>6 DEF SameHost, Hosts
    <2>8. SameHost(disk', [disk EXCEPT !.app = disk'.app, !.state = disk'.state,
                          !.replay = disk'.replay, !.residue = disk'.residue])
      BY <1>1, <2>4, <2>6 DEF SameHost, Hosts
    <2>9. run.pc \in Copying /\ run.pc \notin LooksOnly \cup {"state_write", "state_sync"}
      BY <1>6, MakingTells DEF Copying, CopyPcs, LooksOnly
    <2>10. /\ r \subseteq q /\ r \subseteq before.residue \cup Making
           /\ q \subseteq disk.residue \cup (Making \cap {"application"})
           /\ r \subseteq host.residue \cup (Making \cap {"application"})
           /\ "state" \in r => host.state = "absent"
      BY <1>2, <1>6, <2>3
    <2> QED BY <1>2, <1>3, <2>3, <2>5, <2>6, <2>7, <2>8, <2>9, <2>10 DEF Cleaned
  <1> QED BY <1>4, <1>5, <1>6 DEF CleanUpFails

\* What is being made belongs to the step that the evidence will name.
LEMMA MakingIsLocated ==
    ASSUME ProvisioningInvariant, outcome'.completed = run.completed
    PROVE  Making \subseteq MayLeave(FailedStep')
  <1> USE DEF ProvisioningInvariant, StepSound, DirectoryPcs, CopyPcs, MigratePcs, ConfigPcs,
              AssetPcs, PythonPcs, StatePcs, Making, At
  <1>1. CASE run.pc \in {"directory_exact", "directory_sync"}
    <2>1. FailedStep' = 10 BY <1>1 DEF FailedStep
    <2> QED BY <1>1, <2>1 DEF MayLeave
  <1>2. CASE run.pc \in {"application_file", "application_link", "application_unlink",
                         "application_sync"}
    <2>1. FailedStep' = 11 BY <1>2 DEF FailedStep
    <2> QED BY <1>2, <2>1 DEF MayLeave
  <1>3. CASE run.pc = "config_replace"
    <2>1. FailedStep' = 12 BY <1>3 DEF FailedStep
    <2> QED BY <1>3, <2>1 DEF MayLeave
  <1>4. CASE run.pc = "asset_replace"
    <2>1. FailedStep' = 13 BY <1>4 DEF FailedStep
    <2> QED BY <1>4, <2>1 DEF MayLeave
  <1>5. CASE run.pc \in {"snapshot_copy", "venv", "pip", "cleanup"}
    <2>1. FailedStep' = 18 BY <1>5 DEF FailedStep
    <2>2. 18 \in 14 .. 18 OBVIOUS
    <2> QED BY <1>5, <2>1, <2>2 DEF MayLeave
  <1>6. CASE run.pc \in {"state_write", "state_sync"}
    <2>1. FailedStep' = 19 BY <1>6 DEF FailedStep
    <2> QED BY <1>6, <2>1 DEF MayLeave
  <1> QED BY <1>1, <1>2, <1>3, <1>4, <1>5, <1>6

\* A run that fails leaves what EvidenceSound says, and a host that the
\* invariant still describes.
LEMMA FailureKeeps ==
    ASSUME ProvisioningInvariant, ~At("idle"), Finish("failed", run.completed),
           CleanUp \/ CleanUpFails, UNCHANGED pin
    PROVE  ProvisioningInvariant'
  <1>1. Cleaned BY CleanUpCleans, CleanUpFailsCleans
  <1>0. Making \subseteq MayLeave(FailedStep')
    BY MakingIsLocated DEF Finish
  <1>m. /\ "application" \in Making <=> run.pc \in Copying
        /\ "state" \in Making <=> run.pc \in {"state_write", "state_sync"}
        /\ "directory" \in Making <=> run.pc \in {"directory_exact", "directory_sync"}
        /\ "snapshot" \in Making <=> run.pc \in {"snapshot_copy", "venv", "pip", "cleanup"}
    BY MakingTells
  <1> USE ProvisioningAssumption
      DEF ProvisioningInvariant, Typed, Hosts, Runs, Modes, Objects, Assets, DiskSound,
          UseSound, PinSound, Step20Sound, StepSound, ProgressSound, MakingSound,
          SyncedSound, TreeSound, InPlaceUpTo, UntouchedAfter, At, Finish, Idle, Cleaned,
          SameHost, Quarantined, Copying
  <1> USE DEF Pcs, LooksOnly, AccountPcs, DirectoryPcs, CopyPcs, MigratePcs, ConfigPcs,
              AssetPcs, PythonPcs, StatePcs, ReplayDirectoryPcs, ReplayPcs, LastPcs, FreshPcs
  <1>2. /\ run' = Idle /\ UNCHANGED before
        /\ outcome' = [result |-> "failed", completed |-> run.completed, mutated |-> run.mutated]
    OBVIOUS
  <1>3. Typed' BY <1>1, <1>2
  <1>4. DiskSound' BY <1>1
  <1>5. UseSound' BY <1>1
  <1>6. PinSound'
    <2>1. TreeSound(host)' /\ TreeSound(before)' BY <1>1, <1>2
    <2> QED BY <1>1, <1>m, <2>1
  <1>7. Step20Sound' BY <1>1, <1>m
  <1>8. (StepSound /\ ProgressSound /\ MakingSound /\ SyncedSound)' BY <1>2
  <1>9. InPlaceUpTo(run.completed, host')
    <2>1. /\ run.completed >= 10 => host'.dirs = Directories /\ "directory" \notin host'.residue
          /\ run.completed >= 11 => /\ host'.app = Files /\ host'.stage = "none"
                                    /\ "application" \notin host'.residue
      <3>1. run.completed >= 10 => run.mutated /\ "directory" \notin Making
        BY <1>m
      <3>2. run.completed >= 11 => "application" \notin Making
        BY <1>m
      <3>3. /\ host'.residue \subseteq before.residue \cup Making
            /\ host'.residue \subseteq disk.residue \cup (Making \cap {"application"})
        BY <1>1
      <3>4. run.mutated => \/ {"application", "directory"} \cap before.residue = {}
                           \/ {"application", "directory"} \cap disk.residue = {}
        OBVIOUS
      <3>5. run.completed >= 10 => "directory" \notin host'.residue
        BY <3>1, <3>3, <3>4
      <3>6. run.completed >= 11 => "application" \notin host'.residue
        BY <3>1, <3>2, <3>3, <3>4
      <3>7. run.completed >= 10 => host'.dirs = Directories
        BY <1>1
      <3>8. run.completed >= 11 => host'.app = Files /\ host'.stage = "none"
        BY <1>1
      <3> QED BY <3>5, <3>6, <3>7, <3>8
    <2>2. run.completed >= 14 => host'.venv = "full" /\ "snapshot" \notin host'.residue
      <3>1. host'.residue \subseteq host.residue \cup {"application"} BY <1>1
      <3> QED BY <1>1, <3>1
    <2>3. run.completed >= 19 => host'.state # "absent"
      BY <1>1
    <2>4. run.completed >= 20 => host'.replay \in {"initial", "used"} /\ host'.rdir = "current"
      BY <1>1
    <2> QED BY <1>1, <2>1, <2>2, <2>3, <2>4
  <1>10. UntouchedAfter(run.completed, host') BY <1>1
  <1>11. host'.residue \subseteq before.residue \cup MayLeave(FailedStep') BY <1>0, <1>1
  <1>12. host'.replay \in {before.replay, "initial", "poisoned"} BY <1>1
  <1>13. ~run.mutated => host' = before
    <2> SUFFICES ASSUME ~run.mutated PROVE host' = before
      OBVIOUS
    <2>1. run.pc \in LooksOnly /\ host = before
      OBVIOUS
    <2>2. SameHost(host', host) BY <1>1, <2>1
    <2> QED BY <1>1, <2>1, <2>2
  <1>14. EvidenceSound'
    BY <1>2, <1>9, <1>10, <1>11, <1>12, <1>13 DEF EvidenceSound, Step20SuccessIsDurable
  <1> QED BY <1>3, <1>4, <1>5, <1>6, <1>7, <1>8, <1>14

LEMMA EmptyHostTyped == EmptyHost \in Hosts
  BY ProvisioningAssumption DEF EmptyHost, Hosts, Assets, Objects

LEMMA IdleTyped == Idle \in Runs
  BY PcsNamed DEF Idle, Runs, Modes

LEMMA NoOutcomeTyped ==
    NoOutcome \in [result : {"none", "already-converged", "failed", "provisioned"},
                   completed : Nat, mutated : BOOLEAN]
  BY DEF NoOutcome

\* Without a run and without an outcome only the host has to be described.
LEMMA Forgotten ==
    ASSUME Typed', HostSound', run' = Idle, outcome' = NoOutcome
    PROVE  ProvisioningInvariant'
  <1>1. RunSound'
    BY DEF RunSound, StepSound, ProgressSound, MakingSound, SyncedSound, Idle, LooksOnly,
           AccountPcs, DirectoryPcs, CopyPcs, MigratePcs, ConfigPcs, AssetPcs, PythonPcs,
           StatePcs, ReplayDirectoryPcs, ReplayPcs, LastPcs, FreshPcs
  <1>2. EvidenceSound'
    BY DEF EvidenceSound, Step20SuccessIsDurable, NoOutcome
  <1> QED BY <1>1, <1>2 DEF ProvisioningInvariant, HostSound, RunSound

LEMMA KilledKeeps ==
    ASSUME ProvisioningInvariant, Killed PROVE ProvisioningInvariant'
  <1>1. Typed'
    BY EmptyHostTyped, IdleTyped, NoOutcomeTyped DEF ProvisioningInvariant, Typed, Killed
  <1>2. EmptyHost.app = 0 BY DEF EmptyHost
  <1>3. HostSound'
    BY <1>2 DEF ProvisioningInvariant, HostSound, DiskSound, UseSound, PinSound,
                Step20Sound, TreeSound, Killed
  <1> QED BY <1>1, <1>3, Forgotten DEF Killed

\* Each field of the host is afterwards what it was, visibly or on disk, but for
\* what a lost directory takes along and what is half made.
LEMMA PowerLossKeeps ==
    ASSUME ProvisioningInvariant, PowerLoss PROVE ProvisioningInvariant'
  <1>1. PICK lost \in SUBSET {f \in Synced : host[f] # disk[f]}, left \in SUBSET disk.residue :
           \E gone \in SUBSET (IF "dirs" \in lost THEN InDirectories ELSE {}) :
              host' = AfterLoss(lost, left, gone)
    BY DEF PowerLoss
  <1>2. PICK gone \in SUBSET (IF "dirs" \in lost THEN InDirectories ELSE {}) :
           host' = AfterLoss(lost, left, gone)
    BY <1>1
  <1>3. host \in Hosts /\ disk \in Hosts /\ EmptyHost \in Hosts
    BY EmptyHostTyped DEF ProvisioningInvariant, Typed
  <1>4. pin # "initial" => gone = {}
    BY <1>1, <1>2 DEF ProvisioningInvariant, DiskSound
  <1>5. PICK h : h = [f \in DOMAIN host |-> IF f \in gone THEN EmptyHost[f]
                                            ELSE IF f \in lost THEN disk[f] ELSE host[f]]
    OBVIOUS
  <1>6. h \in Hosts
    BY <1>3, <1>5 DEF Hosts
  <1>7. /\ h.accounts = host.accounts /\ h.stage = host.stage
        /\ h.dirs \in {host.dirs, disk.dirs} /\ h.rdir \in {host.rdir, disk.rdir}
        /\ \/ h.config \in {host.config, disk.config}
           \/ gone # {} /\ h.config = "absent"
        /\ gone = {} => /\ h.app \in {host.app, disk.app}
                        /\ h.config \in {host.config, disk.config}
                        /\ h.assets \in {host.assets, disk.assets}
                        /\ h.venv = host.venv
                        /\ h.state \in {host.state, disk.state}
                        /\ h.replay \in {host.replay, disk.replay}
                        /\ h.audit = host.audit
    <2>1. "absent" = EmptyHost.config BY DEF EmptyHost
    <2> QED BY <1>1, <1>2, <1>3, <1>5, <2>1 DEF Hosts, InDirectories, Synced
  <1>8. PICK r \in SUBSET Objects, st \in {"absent", "initial", "used"} :
          /\ r = IF pin # "step20" /\ h.app \notin {0, Files}
                   THEN left \cup {"application"} ELSE left
          /\ st = IF "state" \in left THEN "absent" ELSE h.state
    BY <1>1, <1>3, <1>6 DEF Hosts, Objects
  <1>9. host' = [h EXCEPT !.residue = r, !.state = st]
    BY <1>2, <1>5, <1>6, <1>8 DEF AfterLoss, Hosts
  <1>10. /\ host' \in Hosts
         /\ host'.accounts = h.accounts /\ host'.dirs = h.dirs /\ host'.app = h.app
         /\ host'.stage = h.stage /\ host'.config = h.config /\ host'.assets = h.assets
         /\ host'.venv = h.venv /\ host'.state = st /\ host'.replay = h.replay
         /\ host'.rdir = h.rdir /\ host'.audit = h.audit /\ host'.residue = r
    BY <1>6, <1>8, <1>9 DEF Hosts
  <1>13. disk' = host' /\ before' = EmptyHost /\ EmptyHost.app = 0 /\ UNCHANGED pin
    BY DEF PowerLoss, EmptyHost
  <1>14. Typed'
    BY <1>10, <1>13, EmptyHostTyped, IdleTyped, NoOutcomeTyped
       DEF ProvisioningInvariant, Typed, PowerLoss
  <1>15. /\ left \subseteq disk.residue /\ ("state" \in r => st = "absent")
         /\ pin # "initial" /\ "state" \in left => host.audit = "pristine"
         /\ pin \in {"populated", "step20", "reviewed"} => r = left
    <2>1. "state" \in r => st = "absent" BY <1>8
    <2>2. pin # "initial" /\ "state" \in left => host.audit = "pristine"
      BY <1>1, <1>3 DEF ProvisioningInvariant, DiskSound, UseSound, Hosts
    <2>3. pin \in {"populated", "reviewed"} => h.app = Files
      BY <1>4, <1>7 DEF ProvisioningInvariant, DiskSound, PinSound
    <2> QED BY <1>1, <1>8, <2>1, <2>2, <2>3
  <1> USE DEF ProvisioningInvariant, Typed, Hosts
  <1>7a. DiskSound' BY <1>4, <1>6, <1>7, <1>10, <1>13, <1>15 DEF DiskSound
  <1>8a. UseSound' BY <1>4, <1>7, <1>8, <1>10, <1>13, <1>15 DEF UseSound, DiskSound
  <1>9a. PinSound'
    <2>1. TreeSound(host)' /\ TreeSound(before)'
      BY <1>8, <1>10, <1>13 DEF TreeSound
    <2>2. pin # "initial" => r = left
      BY <1>15 DEF Modes
    <2> QED BY <1>4, <1>7, <1>10, <1>13, <1>15, <2>1, <2>2 DEF PinSound, DiskSound
  <1>10a. Step20Sound'
    <2> SUFFICES ASSUME pin = "step20" PROVE Step20Sound'
      BY <1>13 DEF Step20Sound
    <2> USE DEF Step20Sound, DiskSound
    <2>0. gone = {} /\ r = left /\ "state" \notin left
      BY <1>1, <1>4, <1>15
    <2>1. host'.app \in 0..Files /\ disk'.app =< host'.app
      BY <1>10, <1>13
    <2>2. host'.stage # "none" => host'.app < Files
      BY <1>7, <1>10, <2>0, ProvisioningAssumption
    <2>3. host'.config = "current" => disk'.app = Files
      BY <1>7, <1>10, <1>13, <2>0
    <2>4. host'.rdir = "current" => disk'.config = "current"
      BY <1>7, <1>10, <1>13, <2>0
    <2>5. disk'.rdir = "old" => host'.replay = "absent" /\ disk'.replay = "absent"
      BY <1>7, <1>10, <1>13, <2>0
    <2>6. host'.state # "absent"
      BY <1>7, <1>8, <1>10, <2>0
    <2>7. disk'.residue \subseteq {"configuration"}
      BY <1>1, <1>10, <1>13, <2>0
    <2> QED BY <1>13, <2>1, <2>2, <2>3, <2>4, <2>5, <2>6, <2>7
  <1>11. HostSound' BY <1>7a, <1>8a, <1>9a, <1>10a DEF HostSound
  <1>12. run' = Idle /\ outcome' = NoOutcome BY DEF PowerLoss
  <1> QED BY <1>14, <1>11, <1>12, Forgotten

LEMMA UsedTyped ==
    ASSUME NEW h \in Hosts, NEW r \in SUBSET Objects
    PROVE  [h EXCEPT !.state = "used", !.replay = "used", !.audit = "existing",
                     !.residue = r] \in Hosts
  BY ZenonT(40) DEF Hosts

\* The services begin: state, database and audit log are in use.
LEMMA ServicesRunKeep ==
    ASSUME ProvisioningInvariant, ServicesRun PROVE ProvisioningInvariant'
  <1>1. /\ host' = [host EXCEPT !.state = "used", !.replay = "used", !.audit = "existing"]
        /\ disk' = [disk EXCEPT !.state = "used", !.replay = "used", !.audit = "existing",
                                !.residue = @ \ {"state"}]
        /\ before' = EmptyHost /\ EmptyHost.app = 0
        /\ UNCHANGED <<pin, run>> /\ outcome' = NoOutcome
    BY DEF ServicesRun, Used, EmptyHost
  <1>2. /\ host.state # "absent" /\ "state" \notin host.residue
        /\ host.replay \in {"initial", "used"} /\ host.rdir = "current"
    BY DEF ServicesRun, QualifyProvisionedHost, ProvisionedEvidence, VerifyState,
           VerifyReplay, ValidateReplay, OpenStore, ReplaySchema
  <1>3. run = Idle
    BY DEF ServicesRun, At, ProvisioningInvariant, StepSound
  <1>4. Typed'
    <2>1. host' \in Hosts /\ disk' \in Hosts
      <3>1. PICK r \in SUBSET Objects : r = disk.residue \ {"state"}
        BY DEF ProvisioningInvariant, Typed, Hosts
      <3>2. disk' = [disk EXCEPT !.state = "used", !.replay = "used", !.audit = "existing",
                                 !.residue = r]
        BY <1>1, <3>1
      <3>3. host' = [host EXCEPT !.state = "used", !.replay = "used", !.audit = "existing",
                                 !.residue = host.residue]
        BY <1>1 DEF ProvisioningInvariant, Typed, Hosts
      <3>4. host \in Hosts /\ disk \in Hosts BY DEF ProvisioningInvariant, Typed
      <3>5. host.residue \in SUBSET Objects BY <3>4 DEF Hosts
      <3> QED BY <3>2, <3>3, <3>4, <3>5, UsedTyped
    <2> QED BY <1>1, <2>1, EmptyHostTyped, NoOutcomeTyped DEF ProvisioningInvariant, Typed
  <1> USE DEF ProvisioningInvariant, Typed, Hosts
  <1>5. DiskSound' BY <1>1, <1>2 DEF DiskSound
  <1>6. UseSound' BY <1>1 DEF UseSound
  <1>7. PinSound' BY <1>1 DEF PinSound, TreeSound
  <1>8. Step20Sound' BY <1>1, <1>2 DEF Step20Sound
  <1>9. HostSound' BY <1>5, <1>6, <1>7, <1>8 DEF HostSound
  <1>10. run' = Idle /\ outcome' = NoOutcome BY <1>1, <1>3
  <1> QED BY <1>4, <1>9, <1>10, Forgotten

LEMMA DriftKeeps ==
    ASSUME ProvisioningInvariant, UNCHANGED <<pin, host, disk, run, before, outcome>>
    PROVE  ProvisioningInvariant'
  BY DEF ProvisioningInvariant, Typed, DiskSound, UseSound, PinSound, Step20Sound,
         StepSound, ProgressSound, MakingSound, SyncedSound, EvidenceSound, TreeSound,
         InPlaceUpTo, UntouchedAfter, Makes, Step20SuccessIsDurable, FailedStep

LEMMA AcquireKeeps ==
    ASSUME ProvisioningInvariant, AcquireProcessLock PROVE ProvisioningInvariant'
  <1>1. /\ run' = [Idle EXCEPT !.pc = "inputs"]
        /\ before' = host /\ outcome' = NoOutcome /\ UNCHANGED <<pin, host, disk>>
    BY DEF AcquireProcessLock
  <1>2. run' \in Runs /\ run'.pc = "inputs" /\ run'.completed = 0 /\ ~run'.mutated
    BY <1>1, IdleTyped, PcsNamed DEF Runs, Idle
  <1>3. Typed'
    BY <1>1, <1>2, NoOutcomeTyped DEF ProvisioningInvariant, Typed
  <1>4. HostSound'
    BY <1>1 DEF ProvisioningInvariant, HostSound, DiskSound, UseSound, PinSound,
                Step20Sound, TreeSound
  <1>5. RunSound'
    BY <1>1, <1>2
       DEF RunSound, StepSound, ProgressSound, InPlaceUpTo, UntouchedAfter, MakingSound,
           SyncedSound, LooksOnly, AccountPcs, DirectoryPcs, CopyPcs, MigratePcs, ConfigPcs,
           AssetPcs, PythonPcs, StatePcs, ReplayDirectoryPcs, ReplayPcs, LastPcs, FreshPcs
  <1>6. EvidenceSound'
    BY <1>1 DEF EvidenceSound, Step20SuccessIsDurable, NoOutcome
  <1> QED BY <1>3, <1>4, <1>5, <1>6 DEF ProvisioningInvariant, HostSound, RunSound

\* A run that reports success.
LEMMA SuccessKeeps ==
    ASSUME ProvisioningInvariant, ProbeConverged \/ ReleaseProcessLock
    PROVE  ProvisioningInvariant'
  <1>1. /\ run' = Idle /\ UNCHANGED <<pin, host, disk, before>>
        /\ \/ outcome' = [result |-> "already-converged", completed |-> 22, mutated |-> run.mutated]
           \/ /\ outcome' = [result |-> "provisioned", completed |-> 22, mutated |-> run.mutated]
              /\ run.pc = "release"
    BY DEF ProbeConverged, ReleaseProcessLock, Finish, At
  <1>2. Typed'
    BY <1>1, IdleTyped DEF ProvisioningInvariant, Typed, Runs
  <1>3. HostSound'
    BY <1>1 DEF ProvisioningInvariant, HostSound, DiskSound, UseSound, PinSound,
                Step20Sound, TreeSound
  <1>4. RunSound'
    BY <1>1 DEF RunSound, StepSound, ProgressSound, MakingSound, SyncedSound, Idle, LooksOnly,
           AccountPcs, DirectoryPcs, CopyPcs, MigratePcs, ConfigPcs, AssetPcs, PythonPcs,
           StatePcs, ReplayDirectoryPcs, ReplayPcs, LastPcs, FreshPcs
  <1>5. run.pc = "release" /\ pin = "step20" => disk = host
    <2> SUFFICES ASSUME run.pc = "release", pin = "step20" PROVE SameHost(disk, host)
      BY SameHostEqual DEF ProvisioningInvariant, Typed
    <2> QED BY DEF SameHost, ProvisioningInvariant, DiskSound, PinSound, Step20Sound,
                   StepSound, ProgressSound, InPlaceUpTo, SyncedSound, LastPcs
  <1>6. EvidenceSound'
    BY <1>1, <1>5 DEF EvidenceSound, Step20SuccessIsDurable
  <1> QED BY <1>2, <1>3, <1>4, <1>6 DEF ProvisioningInvariant, HostSound, RunSound

-----------------------------------------------------------------------------
(* The beginning of a run.                                                 *)

\* The probe raises: the run goes on as if the host were not converged.
LEMMA InconclusiveKeeps ==
    ASSUME ProvisioningInvariant, ProbeInconclusive
    PROVE  Typed' /\ HostSound' /\ RunSound'
  <1>1. /\ run' = [run EXCEPT !.pc = "preflight", !.completed = 6]
        /\ UNCHANGED <<pin, host, disk, before, outcome>> /\ run.pc = "inputs"
    BY DEF ProbeInconclusive, At
  <1>2. run \in Runs BY DEF ProvisioningInvariant, Typed
  <1>3. Typed'
    <2>1. run' \in Runs BY <1>1, <1>2, PcsNamed DEF Runs
    <2> QED BY <1>1, <2>1 DEF ProvisioningInvariant, Typed
  <1> USE DEF ProvisioningInvariant, HostSound, RunSound, DiskSound, UseSound, PinSound,
              Step20Sound, StepSound, ProgressSound, MakingSound, SyncedSound, TreeSound,
              InPlaceUpTo, UntouchedAfter, Makes
  <1>4. HostSound' BY <1>1
  <1>5. RunSound'
    <2> USE DEF Runs, LooksOnly, AccountPcs, DirectoryPcs, CopyPcs, MigratePcs, ConfigPcs,
                AssetPcs, PythonPcs, StatePcs, ReplayDirectoryPcs, ReplayPcs, LastPcs,
                FreshPcs
    <2> QED BY <1>1, <1>2
  <1> QED BY <1>3, <1>4, <1>5

\* The mode that a host is admitted in tells what was qualified.
LEMMA AdmittedTells ==
    ASSUME Admitted # "refused"
    PROVE  \/ Admitted = "initial" /\ QualifyHost("current")
           \/ Admitted = "reviewed" /\ QualifyHost("predecessor")
           \/ Admitted = "step20" /\ QualifyStep20Recovery
           \/ Admitted = "populated" /\ QualifyPopulatedRecovery
  <1>1. CASE QualifyHost("current") /\ SnapshotAbsent
    <2>1. Admitted = "initial"
      BY <1>1 DEF Admitted
    <2> QED BY <1>1, <2>1
  <1>2. CASE ~QualifyHost("current") /\ QualifyReviewedRecovery /\ SnapshotAbsent
    <2>1. Admitted = "reviewed"
      BY <1>2 DEF Admitted, QualifyReviewedRecovery, QualifyStep20Recovery,
                  QualifyPopulatedRecovery
    <2> QED BY <1>2, <2>1 DEF QualifyReviewedRecovery
  <1>3. CASE ~QualifyHost("current") /\ QualifyStep20Recovery
    <2>1. Admitted = "step20"
      BY <1>3 DEF Admitted, QualifyReviewedRecovery, QualifyStep20Recovery,
                  QualifyPopulatedRecovery
    <2> QED BY <1>3, <2>1
  <1>4. CASE ~QualifyHost("current") /\ QualifyPopulatedRecovery
    <2>1. Admitted = "populated"
      BY <1>4 DEF Admitted, QualifyReviewedRecovery, QualifyStep20Recovery,
                  QualifyPopulatedRecovery
    <2> QED BY <1>4, <2>1
  <1> QED BY <1>1, <1>2, <1>3, <1>4 DEF Admitted

\* C29 admits a host without an environment, whole or not begun.
LEMMA QualifiedHost ==
    ASSUME ProvisioningInvariant, NEW expected, QualifyHost(expected)
    PROVE  /\ pin \in {"initial", "reviewed"}
           /\ {"application", "directory"} \cap host.residue = {}
  <1>1. /\ "directory" \notin host.residue /\ host.venv = "empty"
        /\ "application" \notin host.residue
    BY DEF QualifyHost, VirtualenvEmpty, ApplicationAbsent, ObserveApplication
  <1> QED BY <1>1 DEF ProvisioningInvariant, Typed, PinSound, Modes

\* Step 7 in each mode: where the run goes on, with how many steps complete.
LEMMA PreflightKeeps ==
    ASSUME ProvisioningInvariant, Preflight
    PROVE  Typed' /\ HostSound' /\ RunSound'
  <1>1. PICK pc, mode, k :
           /\ run' = [run EXCEPT !.pc = pc, !.mode = mode, !.mutated = TRUE, !.completed = k,
                                 !.c17 = host.config, !.state = host.state,
                                 !.replay = host.replay]
           /\ \/ /\ pc = "accounts" /\ k = 7 /\ mode \in {"initial", "reviewed"}
                 /\ pin \in {"initial", "reviewed"}
                 /\ {"application", "directory"} \cap host.residue = {}
              \/ pc = "migrate" /\ k = 10 /\ mode = "step20" /\ pin = "step20"
              \/ pc = "config" /\ k = 11 /\ mode = "populated" /\ pin = "populated"
           /\ UNCHANGED <<pin, host, disk, before, outcome>>
           /\ run.pc = "preflight"
    <2>1. /\ Admitted # "refused"
          /\ UNCHANGED <<pin, host, disk, before, outcome>>
          /\ run.pc = "preflight"
      BY DEF Preflight, At
    <2>2. \/ Admitted \in {"initial", "reviewed"} /\ \E e : QualifyHost(e)
          \/ Admitted = "step20" /\ QualifyStep20Recovery
          \/ Admitted = "populated" /\ QualifyPopulatedRecovery
      BY <2>1, AdmittedTells
    <2>3. \/ /\ Admitted \in {"initial", "reviewed"} /\ pin \in {"initial", "reviewed"}
             /\ {"application", "directory"} \cap host.residue = {}
          \/ Admitted = "step20" /\ pin = "step20"
          \/ Admitted = "populated" /\ pin = "populated"
      BY <2>2, QualifiedHost DEF QualifyStep20Recovery, QualifyPopulatedRecovery
    <2>4. PICK a : a = Admitted
      OBVIOUS
    <2>5. run' = [run EXCEPT !.pc = CASE a \in {"initial", "reviewed"} -> "accounts"
                                      [] a = "step20" -> "migrate"
                                      [] a = "populated" -> "config",
                             !.mode = a,
                             !.mutated = TRUE,
                             !.completed = CASE a \in {"initial", "reviewed"} -> 7
                                             [] a = "step20" -> 10
                                             [] a = "populated" -> 11,
                             !.c17 = host.config, !.state = host.state,
                             !.replay = host.replay]
      BY <2>4 DEF Preflight
    <2>6. CASE a \in {"initial", "reviewed"}
      <3>1. run' = [run EXCEPT !.pc = "accounts", !.mode = a, !.mutated = TRUE,
                               !.completed = 7, !.c17 = host.config, !.state = host.state,
                               !.replay = host.replay]
        BY <2>5, <2>6
      <3>2. /\ pin \in {"initial", "reviewed"}
            /\ {"application", "directory"} \cap host.residue = {}
        BY <2>3, <2>4, <2>6
      <3> QED BY <2>1, <2>6, <3>1, <3>2
    <2>7. CASE a = "step20"
      <3>1. run' = [run EXCEPT !.pc = "migrate", !.mode = a, !.mutated = TRUE,
                               !.completed = 10, !.c17 = host.config, !.state = host.state,
                               !.replay = host.replay]
        BY <2>5, <2>7
      <3>2. pin = "step20"
        BY <2>3, <2>4, <2>7
      <3> QED BY <2>1, <2>7, <3>1, <3>2
    <2>8. CASE a = "populated"
      <3>1. run' = [run EXCEPT !.pc = "config", !.mode = a, !.mutated = TRUE,
                               !.completed = 11, !.c17 = host.config, !.state = host.state,
                               !.replay = host.replay]
        BY <2>5, <2>8
      <3>2. pin = "populated"
        BY <2>3, <2>4, <2>8
      <3> QED BY <2>1, <2>8, <3>1, <3>2
    <2> QED BY <2>3, <2>4, <2>6, <2>7, <2>8
  <1>2. run \in Runs /\ host \in Hosts /\ host = before /\ outcome = NoOutcome
    BY <1>1 DEF ProvisioningInvariant, Typed, StepSound, LooksOnly
  <1>3. /\ run' \in Runs /\ run'.pc = pc /\ run'.mode = mode /\ run'.completed = k
        /\ run'.mutated /\ run'.c17 = host.config
    <2>1. pc \in Pcs /\ k \in Nat /\ mode \in Modes
      BY <1>1, PcsNamed DEF Modes
    <2>2. /\ host.config \in {"absent", "predecessor", "current"}
          /\ host.state \in {"absent", "initial", "used"}
          /\ host.replay \in {"absent", "created", "open", "initial", "used", "poisoned"}
      BY <1>2 DEF Hosts
    <2> QED BY <1>1, <1>2, <2>1, <2>2 DEF Runs
  <1>4. Typed'
    BY <1>1, <1>3 DEF ProvisioningInvariant, Typed
  <1> USE DEF ProvisioningInvariant, HostSound, RunSound, DiskSound, UseSound, PinSound,
              Step20Sound, StepSound, ProgressSound, MakingSound, SyncedSound, TreeSound,
              InPlaceUpTo, UntouchedAfter, Makes
  <1> USE DEF LooksOnly, AccountPcs, DirectoryPcs, CopyPcs, MigratePcs, ConfigPcs,
              AssetPcs, PythonPcs, StatePcs, ReplayDirectoryPcs, ReplayPcs, LastPcs,
              FreshPcs
  <1>5. HostSound' BY <1>1
  <1>6. StepSound' BY <1>1, <1>2, <1>3
  <1>7. ProgressSound' BY <1>1, <1>2, <1>3
  <1>8. MakingSound' BY <1>1, <1>2, <1>3
  <1>9. SyncedSound' BY <1>1, <1>2, <1>3
  <1> QED BY <1>4, <1>5, <1>6, <1>7, <1>8, <1>9

-----------------------------------------------------------------------------
(* The invariant is inductive.                                             *)

\* A step that leaves the evidence alone leaves it true: while a run is active
\* there is none.
LEMMA RunKeepsEvidence ==
    ASSUME ProvisioningInvariant, run.pc # "idle", UNCHANGED outcome,
           Typed', HostSound', RunSound'
    PROVE  ProvisioningInvariant'
  <1>1. outcome' = NoOutcome
    BY DEF ProvisioningInvariant, StepSound
  <1>2. EvidenceSound'
    BY <1>1 DEF EvidenceSound, Step20SuccessIsDurable, NoOutcome
  <1> QED BY <1>2 DEF ProvisioningInvariant, HostSound, RunSound

\* What a run does between its first look at the host and its outcome.
Works ==
    \/ QualifySources \/ FinalQualification
    \/ CreateAccount \/ MakeDirectory \/ ExactDirectory \/ SyncDirectory \/ DirectoriesDone
    \/ ApplicationSteps \/ ConfigurationSteps \/ PythonSteps \/ PersistentSteps

LEMMA WorksKeep ==
    ASSUME ProvisioningInvariant, Works
    PROVE  Typed' /\ HostSound' /\ RunSound'
  <1>1. CASE QualifySources \/ FinalQualification
    BY <1>1, LookStepsKeep, LookStepsTyped
  <1>2. CASE \/ CreateAccount \/ MakeDirectory \/ ExactDirectory \/ SyncDirectory
             \/ DirectoriesDone
    BY <1>2, DirectoryStepsKeep, DirectoryStepsTyped
  <1>3. CASE ApplicationSteps
    BY <1>3, ApplicationStepsKeep, ApplicationStepsTyped DEF ApplicationSteps
  <1>4. CASE ConfigurationSteps
    BY <1>4, ConfigurationStepsKeep, ConfigurationStepsTyped DEF ConfigurationSteps
  <1>5. CASE PythonSteps
    BY <1>5, PythonStepsKeep, PythonStepsTyped DEF PythonSteps
  <1>6. CASE PersistentSteps
    BY <1>6, PersistentStepsKeep, PersistentStepsTyped DEF PersistentSteps
  <1> QED BY <1>1, <1>2, <1>3, <1>4, <1>5, <1>6 DEF Works

LEMMA WorksLeave ==
    ASSUME Works PROVE run.pc # "idle" /\ UNCHANGED outcome
  <1> USE DEF At, Go
  <1>1. CASE QualifySources \/ FinalQualification
    BY <1>1 DEF QualifySources, FinalQualification
  <1>2. CASE \/ CreateAccount \/ MakeDirectory \/ ExactDirectory \/ SyncDirectory
             \/ DirectoriesDone
    BY <1>2 DEF CreateAccount, MakeDirectory, ExactDirectory, SyncDirectory, DirectoriesDone
  <1>3. CASE ApplicationSteps
    BY <1>3 DEF ApplicationSteps, MakeApplicationDirectories, StageApplicationFile,
                LinkApplicationFile, UnlinkTemporary, SyncApplicationFile, VerifyApplication, SyncApplicationPrefix, WriteStage,
                ReplaceApplicationFile, SyncApplicationDirectory
  <1>4. CASE ConfigurationSteps
    BY <1>4 DEF ConfigurationSteps, ConfigurationRetained, ConfigurationUnchanged,
                InstallConfiguration, ReplaceConfiguration, SyncConfiguration, InstallAsset,
                ReplaceAsset, SyncAsset, AssetsDone
  <1>5. CASE PythonSteps
    BY <1>5 DEF PythonSteps, PrepareSnapshot, CopyInputs, RunVenv, RunPip, CleanupSnapshot
  <1>6. CASE PersistentSteps
    BY <1>6 DEF PersistentSteps, StateExisting, CreateState, WriteState, SyncState,
                MigrateReplayDirectory, SyncReplayDirectory, ReplayDirectoryKept,
                ReplayExisting, CreateReplay, OpenReplay, CommitReplay, SyncReplay,
                ValidatedReplay, PrepareAudit
  <1> QED BY <1>1, <1>2, <1>3, <1>4, <1>5, <1>6 DEF Works

\* Every disjunct of the next-state relation keeps the invariant.
LEMMA NextKeeps ==
    ASSUME ProvisioningInvariant, [ProvisioningNext]_hostVars
    PROVE  ProvisioningInvariant'
  <1>1. CASE AcquireProcessLock
    BY <1>1, AcquireKeeps
  <1>2. CASE Works
    <2>1. Typed' /\ HostSound' /\ RunSound' BY <1>2, WorksKeep
    <2>2. run.pc # "idle" /\ UNCHANGED outcome BY <1>2, WorksLeave
    <2> QED BY <2>1, <2>2, RunKeepsEvidence
  <1>3. CASE ProbeConverged \/ ReleaseProcessLock
    BY <1>3, SuccessKeeps
  <1>4. CASE Preflight
    <2>1. Typed' /\ HostSound' /\ RunSound' BY <1>4, PreflightKeeps
    <2>2. run.pc # "idle" /\ UNCHANGED outcome BY <1>4 DEF Preflight, At
    <2> QED BY <2>1, <2>2, RunKeepsEvidence
  <1>5. CASE ProbeInconclusive
    <2>1. Typed' /\ HostSound' /\ RunSound' BY <1>5, InconclusiveKeeps
    <2>2. run.pc # "idle" /\ UNCHANGED outcome BY <1>5 DEF ProbeInconclusive, At
    <2> QED BY <2>1, <2>2, RunKeepsEvidence
  <1>6. CASE Refusal
    <2>1. ~At("idle") BY <1>6 DEF Refusal, Refuses, At
    <2>2. Finish("failed", run.completed) /\ CleanUp /\ UNCHANGED pin
      BY <1>6 DEF Refusal
    <2> QED BY <2>1, <2>2, FailureKeeps
  <1>7. CASE Failure
    <2>1. /\ ~At("idle") /\ Finish("failed", run.completed) /\ UNCHANGED pin
          /\ CleanUp \/ CleanUpFails
      BY <1>7 DEF Failure
    <2> QED BY <2>1, FailureKeeps
  <1>8. CASE Killed BY <1>8, KilledKeeps
  <1>9. CASE PowerLoss BY <1>9, PowerLossKeeps
  <1>10. CASE Drifts \/ Repaired \/ UNCHANGED hostVars
    <2>1. UNCHANGED <<pin, host, disk, run, before, outcome>>
      BY <1>10 DEF Drifts, Repaired, hostVars
    <2> QED BY <2>1, DriftKeeps
  <1>11. CASE ServicesRun BY <1>11, ServicesRunKeep
  <1> QED
    BY <1>1, <1>2, <1>3, <1>4, <1>5, <1>6, <1>7, <1>8, <1>9, <1>10, <1>11
       DEF ProvisioningNext, Steps, Faults, Works

\* What each pinned predecessor run left is such a host.
LEMMA InitKeeps ==
    ASSUME ProvisioningInit PROVE ProvisioningInvariant
  <1>1. /\ pin \in Modes /\ host = Left(pin) /\ disk = host /\ run = Idle
        /\ before = EmptyHost /\ outcome = NoOutcome
    BY DEF ProvisioningInit
  <1>2. PICK e : e = EmptyHost
    OBVIOUS
  <1>3. /\ e \in Hosts
        /\ e.accounts = 0 /\ e.dirs = 0 /\ e.app = 0 /\ e.stage = "none"
        /\ e.config = "absent" /\ e.assets = 0 /\ e.venv = "empty" /\ e.state = "absent"
        /\ e.replay = "absent" /\ e.rdir = "current" /\ e.audit = "pristine"
        /\ e.residue = {}
    BY <1>2, EmptyHostTyped DEF EmptyHost
  <1>4. PICK made : made = [e EXCEPT !.accounts = Accounts, !.dirs = Directories,
                                     !.app = Files, !.config = "predecessor",
                                     !.assets = Assets]
    OBVIOUS
  <1>5. /\ made.accounts = Accounts /\ made.dirs = Directories /\ made.app = Files
        /\ made.stage = "none" /\ made.config = "predecessor" /\ made.assets = Assets
        /\ made.venv = "empty" /\ made.state = "absent" /\ made.replay = "absent"
        /\ made.rdir = "current" /\ made.audit = "pristine" /\ made.residue = {}
    BY <1>3, <1>4 DEF Hosts
  <1>6. made \in Hosts
    <2>1. PICK a \in 0..Accounts, d \in 0..Directories, f \in 0..Files, s \in 0..Assets :
             a = Accounts /\ d = Directories /\ f = Files /\ s = Assets
      BY ProvisioningAssumption DEF Assets
    <2> QED BY <1>3, <1>4, <2>1 DEF Hosts
  <1>7. /\ pin = "initial" => host = e
        /\ pin = "reviewed" => host = made
        /\ pin = "populated" => host = [made EXCEPT !.venv = "full"]
        /\ pin = "step20" => host = [made EXCEPT !.venv = "full", !.app = 0,
                                                 !.state = "initial", !.rdir = "old"]
    BY <1>1, <1>2, <1>4 DEF Left
  <1>8. host \in Hosts
    <2>1. PICK f \in 0..Files : f = 0
      BY ProvisioningAssumption
    <2>2. CASE pin \in {"initial", "reviewed"} BY <1>3, <1>6, <1>7, <2>2
    <2>3. CASE pin = "populated" BY <1>6, <1>7, <2>3 DEF Hosts
    <2>4. CASE pin = "step20"
      <3>1. host = [made EXCEPT !.venv = "full", !.app = f, !.state = "initial",
                                !.rdir = "old"]
        BY <1>7, <2>1, <2>4
      <3> QED BY <1>6, <2>1, <3>1 DEF Hosts
    <2> QED BY <1>1, <2>2, <2>3, <2>4 DEF Modes
  <1>9. Typed
    BY <1>1, <1>8, EmptyHostTyped, IdleTyped, NoOutcomeTyped DEF Typed
  <1>10. HostSound
    <2>1. e.app = 0 /\ before = e BY <1>1, <1>2, <1>3
    <2> USE ProvisioningAssumption
        DEF HostSound, DiskSound, UseSound, PinSound, Step20Sound, TreeSound, Hosts
    <2>2. CASE pin = "initial" BY <1>1, <1>3, <1>7, <2>1, <2>2
    <2>3. CASE pin = "reviewed" BY <1>1, <1>5, <1>7, <2>1, <2>3
    <2>4. CASE pin = "populated"
      <3>1. host = [made EXCEPT !.venv = "full"] BY <1>7, <2>4
      <3> QED BY <1>1, <1>5, <1>6, <2>1, <2>4, <3>1
    <2>5. CASE pin = "step20"
      <3>1. host = [made EXCEPT !.venv = "full", !.app = 0, !.state = "initial",
                                !.rdir = "old"]
        BY <1>7, <2>5
      <3>2. /\ host.accounts = Accounts /\ host.dirs = Directories /\ host.app = 0
            /\ host.stage = "none" /\ host.config = "predecessor" /\ host.assets = Assets
            /\ host.venv = "full" /\ host.state = "initial" /\ host.replay = "absent"
            /\ host.rdir = "old" /\ host.audit = "pristine" /\ host.residue = {}
        BY <1>5, <1>6, <3>1
      <3> QED BY <1>1, <2>1, <2>5, <3>2
    <2> QED BY <1>1, <2>2, <2>3, <2>4, <2>5 DEF Modes
  <1>11. RunSound
    BY <1>1 DEF RunSound, StepSound, ProgressSound, MakingSound, SyncedSound, Idle, LooksOnly,
           AccountPcs, DirectoryPcs, CopyPcs, MigratePcs, ConfigPcs, AssetPcs, PythonPcs,
           StatePcs, ReplayDirectoryPcs, ReplayPcs, LastPcs, FreshPcs
  <1>12. EvidenceSound
    BY <1>1 DEF EvidenceSound, Step20SuccessIsDurable, NoOutcome
  <1> QED BY <1>9, <1>10, <1>11, <1>12 DEF ProvisioningInvariant, HostSound, RunSound

\* The invariant holds in every run of the provisioning, with any faults.
THEOREM ProvisioningIsInductive == ProvisioningSpec => []ProvisioningInvariant
  <1>1. ProvisioningInit => ProvisioningInvariant BY InitKeeps
  <1>2. ProvisioningInvariant /\ [ProvisioningNext]_hostVars => ProvisioningInvariant'
    BY NextKeeps
  <1> QED BY <1>1, <1>2, PTL DEF ProvisioningSpec

-----------------------------------------------------------------------------
(* What provisioning promises.                                             *)

\* Without drift, the steps up to the completed one are what the operator's
\* evidence calls in place.
LEMMA CompletedInPlace ==
    ASSUME ProvisioningInvariant, NEW n \in Nat, InPlaceUpTo(n, host), drift = {},
           NEW k \in 8..n
    PROVE  InPlace(k)
  <1> USE DEF InPlaceUpTo
  <1>1. PrincipalsFree /\ LoadManifest
    BY DEF PrincipalsFree, LoadManifest, RepositoryManifest, Holds
  <1>2. CASE k \in {8, 9}
    <2>1. ObservePrincipals BY <1>1, <1>2 DEF ObservePrincipals
    <2> QED BY <1>2, <2>1 DEF InPlace
  <1>3. CASE k = 10
    <2>1. ObserveDirectories BY <1>3 DEF ObserveDirectories
    <2> QED BY <1>3, <2>1 DEF InPlace
  <1>4. CASE k = 11
    <2>1. ObserveApplication BY <1>4 DEF ObserveApplication
    <2> QED BY <1>4, <2>1 DEF InPlace
  <1>5. CASE k = 12
    BY <1>5 DEF InPlace
  <1>6. CASE k = 13
    <2>1. ObserveAssets BY <1>6 DEF ObserveAssets
    <2> QED BY <1>6, <2>1 DEF InPlace
  <1>7. CASE k \in 14..18
    <2>1. QualifyPython /\ SnapshotAbsent
      BY <1>1, <1>7 DEF QualifyPython, OpenRoot, ObserveTree, SnapshotAbsent
    <2> QED BY <1>7, <2>1 DEF InPlace
  <1>8. CASE k = 19
    <2>1. VerifyState
      BY <1>8 DEF VerifyState, ProvisioningInvariant, DiskSound
    <2> QED BY <1>8, <2>1 DEF InPlace
  <1>9. CASE k = 20
    <2>1. /\ host.replay \in {"initial", "used"} /\ host.rdir = "current"
          /\ host.dirs = Directories
      BY <1>9
    <2>2. BoundedEntries = {"replay.sqlite3"}
      BY <2>1 DEF BoundedEntries
    <2>3. VerifyReplay
      BY <2>1, <2>2 DEF VerifyReplay, ReplayPresent, ReplayDirectory, ValidateReplay,
         QuiescentFilesystem, ReplayFilesystem, FileStatus, OpenStore, ReplaySchema
    <2> QED BY <1>9, <2>1, <2>3 DEF InPlace
  <1>10. CASE k > 20
    BY <1>10 DEF InPlace
  <1> QED BY <1>2, <1>3, <1>4, <1>5, <1>6, <1>7, <1>8, <1>9, <1>10

\* The fields of the steps after the one that failed are as they were.
LEMMA LaterUntouched ==
    ASSUME ProvisioningInvariant, NEW n \in Nat, UntouchedAfter(n, host), outcome.completed = n,
           NEW k \in (FailedStep + 1)..21, NEW f \in Touches(k)
    PROVE  f \in Touches(FailedStep) \/ host[f] = before[f]
  <1> USE DEF UntouchedAfter
  <1>1. PICK s : s = FailedStep
    OBVIOUS
  <1>2. /\ n = 13 => s = 18
        /\ n = 22 => s = 22
        /\ n \notin {13, 22} => s = n + 1
    BY <1>1 DEF FailedStep
  <1>3. k \in Nat /\ s < k /\ k =< 21
    BY <1>1, <1>2
  <1>4. CASE k \in {8, 9}
    <2>1. f = "accounts" BY <1>4 DEF Touches
    <2>2. CASE n =< 6 BY <2>1, <2>2
    <2>3. CASE n = 7
      <3>1. s = 8 BY <1>2, <2>3
      <3>2. Touches(s) = {"accounts"} BY <3>1 DEF Touches
      <3> QED BY <1>1, <2>1, <3>2
    <2> QED BY <1>2, <1>3, <1>4, <2>2, <2>3
  <1>5. CASE k = 10
    <2>1. f = "dirs" BY <1>5 DEF Touches
    <2>2. n =< 8 BY <1>2, <1>3, <1>5
    <2> QED BY <2>1, <2>2
  <1>6. CASE k = 11
    <2>1. f \in {"app", "stage"} BY <1>6 DEF Touches
    <2>2. n =< 9 BY <1>2, <1>3, <1>6
    <2> QED BY <2>1, <2>2
  <1>7. CASE k = 12
    <2>1. f = "config" BY <1>7 DEF Touches
    <2>2. n =< 10 BY <1>2, <1>3, <1>7
    <2> QED BY <2>1, <2>2
  <1>8. CASE k = 13
    <2>1. f = "assets" BY <1>8 DEF Touches
    <2>2. n =< 11 BY <1>2, <1>3, <1>8
    <2> QED BY <2>1, <2>2
  <1>9. CASE k \in 14..18
    <2>1. f = "venv" BY <1>9 DEF Touches
    <2>2. CASE n =< 12 BY <2>1, <2>2
    <2>3. CASE n > 12
      <3>1. s \in 14..18 BY <1>2, <1>3, <1>9, <2>3
      <3>2. Touches(s) = {"venv"} BY <3>1 DEF Touches
      <3> QED BY <1>1, <2>1, <3>2
    <2> QED BY <2>2, <2>3
  <1>10. CASE k = 19
    <2>1. f = "state" BY <1>10 DEF Touches
    <2>2. n =< 17 BY <1>2, <1>3, <1>10
    <2> QED BY <2>1, <2>2
  <1>11. CASE k = 20
    <2>1. f \in {"rdir", "replay"} BY <1>11 DEF Touches
    <2>2. n =< 18 BY <1>2, <1>3, <1>11
    <2> QED BY <2>1, <2>2
  <1>12. CASE k < 8 \/ k > 20
    <2>1. f = "audit" BY <1>3, <1>12 DEF Touches
    <2> QED BY <2>1
  <1> QED BY <1>3, <1>4, <1>5, <1>6, <1>7, <1>8, <1>9, <1>10, <1>11, <1>12

\* The evidence of a failure locates the boundary: the steps it counts as
\* complete are in place, later ones left the host as it was, only what the
\* failed step was making can be half made, and a failure without mutation
\* changed nothing, however many runs and handlers failed or were killed before.
THEOREM EvidenceLocatesFailure == ProvisioningSpec => []FailureIsLocated
  <1>1. ProvisioningInvariant => FailureIsLocated
    <2> SUFFICES ASSUME ProvisioningInvariant, outcome.result = "failed"
                 PROVE  FailureIsLocated
      BY DEF FailureIsLocated
    <2>1. PICK n \in Nat : n = outcome.completed
      BY DEF ProvisioningInvariant, Typed
    <2>2. /\ InPlaceUpTo(n, host) /\ UntouchedAfter(n, host)
          /\ host.residue \subseteq before.residue \cup MayLeave(FailedStep)
          /\ host.replay \in {before.replay, "initial", "poisoned"}
          /\ ~outcome.mutated => host = before
      BY <2>1 DEF ProvisioningInvariant, EvidenceSound
    <2>3. drift = {} => \A k \in 8..outcome.completed : InPlace(k)
      BY <2>1, <2>2, CompletedInPlace
    <2>4. \A k \in (FailedStep + 1)..21 : \A f \in Touches(k) :
             f \in Touches(FailedStep) \/ host[f] = before[f]
      BY <2>1, <2>2, LaterUntouched
    <2> QED BY <2>2, <2>3, <2>4 DEF FailureIsLocated
  <1> QED BY <1>1, ProvisioningIsInductive, PTL

\* A step-20 recovery that reports success has synced every rename it relies
\* on, also those of runs that were killed before.
THEOREM Step20IsDurable == ProvisioningSpec => []Step20SuccessIsDurable
  <1>1. ProvisioningInvariant => Step20SuccessIsDurable
    BY DEF ProvisioningInvariant, EvidenceSound
  <1> QED BY <1>1, ProvisioningIsInductive, PTL

\* A host without an environment and without residue is one that C29 admits.
LEMMA FreshHostAdmitted ==
    ASSUME ProvisioningInvariant, drift = {}, ~Stuck, ~Unpinned,
           pin \in {"initial", "reviewed"}
    PROVE  Admitted \in {"initial", "reviewed"}
  <1>1. Platform /\ PrincipalsFree
    BY DEF Platform, PlatformObservation, QueryPackages, ObservePayload, LoadPayload,
           PrincipalsFree, Holds
  <1>2. /\ "directory" \notin host.residue /\ "application" \notin host.residue
        /\ SnapshotAbsent /\ host.venv = "empty"
    BY DEF Stuck, Unpinned, SnapshotAbsent
  <1>3. /\ host.stage = "none" /\ host.rdir = "current" /\ host.app \in {0, Files}
        /\ pin = "initial" => host.config # "predecessor"
        /\ pin = "reviewed" => host.config # "absent"
        /\ host.config \in {"absent", "predecessor", "current"}
    BY <1>2 DEF ProvisioningInvariant, Typed, Hosts, PinSound, TreeSound
  <1>4. \A expected : host.config \in {"absent", expected} => QualifyHost(expected)
    BY <1>1, <1>2, <1>3
       DEF QualifyHost, ApplicationAbsent, ObserveApplication, VirtualenvEmpty
  <1>5. CASE host.config \in {"absent", "current"}
    <2>1. QualifyHost("current") BY <1>4, <1>5
    <2> QED BY <1>2, <2>1 DEF Admitted
  <1>6. CASE host.config = "predecessor"
    <2>1. pin = "reviewed" BY <1>3, <1>6
    <2>2. ~QualifyHost("current") BY <1>6 DEF QualifyHost
    <2>3. QualifyReviewedRecovery BY <1>4, <1>6, <2>1 DEF QualifyReviewedRecovery
    <2>4. ~QualifyStep20Recovery /\ ~QualifyPopulatedRecovery
      BY <2>1 DEF QualifyStep20Recovery, QualifyPopulatedRecovery
    <2> QED BY <1>2, <2>2, <2>3, <2>4 DEF Admitted
  <1> QED BY <1>3, <1>5, <1>6

\* What the two recoveries of a host with an environment have in common.
LEMMA RecoveryQualified ==
    ASSUME ProvisioningInvariant, drift = {}, ~Stuck, ~LostRename, ~QualifyProvisionedHost,
           pin \in {"populated", "step20"},
           host.rdir = "old" => host.replay = "absent"
    PROVE  /\ RecoveryCommon /\ ~QualifyHost("current")
           /\ host.state \in {"absent", "initial"} /\ host.replay \in {"absent", "initial"}
           /\ host.state = "absent" => host.replay = "absent"
  <1>1. /\ Platform /\ PrincipalsFree /\ LoadManifest
    BY DEF Platform, PlatformObservation, QueryPackages, ObservePayload, LoadPayload,
           PrincipalsFree, LoadManifest, RepositoryManifest, Holds
  <1>2. /\ host.accounts = Accounts /\ host.dirs = Directories /\ host.venv = "full"
        /\ host.assets = Assets
        /\ host.rdir \in {"old", "current"} /\ host.audit \in {"pristine", "existing"}
        /\ host.state \in {"absent", "initial", "used"}
        /\ host.replay \in {"absent", "created", "open", "initial", "used", "poisoned"}
    BY DEF ProvisioningInvariant, Typed, Hosts, PinSound
  <1>3. /\ {"directory", "snapshot", "state"} \cap host.residue = {}
        /\ host.replay \notin {"created", "open", "poisoned"}
    BY DEF Stuck
  <1>4. host.state # "used" /\ (host.state = "absent" => host.replay = "absent")
    BY DEF LostRename
  <1>5. host.audit = "pristine" /\ host.replay # "used"
    BY <1>2, <1>4 DEF ProvisioningInvariant, UseSound
  <1>6. BoundedEntries = {} \/ (VerifyReplay /\ VerifyInitialReplay)
    <2>1. CASE host.replay = "absent" BY <2>1 DEF BoundedEntries
    <2>2. CASE host.replay = "initial"
      <3>1. BoundedEntries = {"replay.sqlite3"} BY <2>2 DEF BoundedEntries
      <3>2. ReplayDirectory /\ FileStatus /\ OpenStore
        BY <1>2, <2>2 DEF ReplayDirectory, FileStatus, OpenStore, ReplaySchema
      <3>3. ValidateReplay
        BY <3>1, <3>2 DEF ValidateReplay, QuiescentFilesystem, ReplayFilesystem
      <3> QED BY <2>2, <3>1, <3>2, <3>3 DEF VerifyReplay, ReplayPresent, VerifyInitialReplay
    <2> QED BY <1>2, <1>3, <1>5, <2>1, <2>2
  <1>7. QualifyPersistentState
    BY <1>2, <1>3, <1>4, <1>5, <1>6 DEF QualifyPersistentState
  <1>8. RecoveryCommon
    BY <1>1, <1>2, <1>3, <1>7
       DEF RecoveryCommon, ObservePrincipals, ObserveDirectories, ObserveAssets,
           SnapshotAbsent, QualifyPython, OpenRoot, ObserveTree
  <1>9. ~QualifyHost("current")
    BY <1>2 DEF QualifyHost, VirtualenvEmpty
  <1> QED BY <1>2, <1>3, <1>4, <1>5, <1>8, <1>9

\* Whatever stopped the last run, the host is provisioned, or the next run is
\* admitted, or the host is in one of the dead ends that the model names.
THEOREM EveryOtherHostGoesOn == ProvisioningSpec => []NoOtherDeadEnd
  <1>1. ProvisioningInvariant => NoOtherDeadEnd
    <2> SUFFICES ASSUME ProvisioningInvariant, drift = {}, ~QualifyProvisionedHost,
                        ~Stuck, ~Unpinned, ~LostRename
                 PROVE  Admitted # "refused"
      BY DEF NoOtherDeadEnd, DeadEnd
    <2>1. CASE pin \in {"initial", "reviewed"}
      BY <2>1, FreshHostAdmitted
    <2>2. CASE pin = "populated"
      <3>1. /\ host.app = Files /\ host.stage = "none" /\ host.rdir = "current"
            /\ host.config \in {"predecessor", "current"}
            /\ "application" \notin host.residue
        BY <2>2 DEF ProvisioningInvariant, Typed, Hosts, PinSound, DiskSound
      <3>2. /\ RecoveryCommon /\ ~QualifyHost("current")
            /\ host.state \in {"absent", "initial"} /\ host.replay \in {"absent", "initial"}
            /\ host.state = "absent" => host.replay = "absent"
        BY <2>2, <3>1, RecoveryQualified
      <3>3. host.config = "predecessor" => host.state = "absent"
        BY <2>2 DEF LostRename
      <3>4. <<host.config, host.state, host.replay>> \in PopulatedTuples
        BY <3>1, <3>2, <3>3 DEF PopulatedTuples
      <3>5. QualifyPopulatedRecovery
        BY <2>2, <3>1, <3>2, <3>4 DEF QualifyPopulatedRecovery, ObserveApplication
      <3>6. ~QualifyReviewedRecovery /\ ~QualifyStep20Recovery
        BY <2>2 DEF QualifyReviewedRecovery, QualifyStep20Recovery
      <3>7. Admitted = "populated" BY <3>2, <3>5, <3>6 DEF Admitted
      <3> QED BY <3>7
    <2>3. CASE pin = "step20"
      <3>1. /\ host.config \in {"predecessor", "current"} /\ host.state # "absent"
            /\ host.rdir = "old" => host.replay = "absent"
            /\ host.config = "current" => host.app = Files
            /\ host.config = "predecessor" => host.rdir = "old"
        <4>1. /\ host.config \in {"predecessor", "current"}
              /\ host.rdir \in {"old", "current"} /\ disk.rdir \in {"old", "current"}
              /\ host.app \in 0..Files /\ disk.app \in 0..Files
          BY <2>3 DEF ProvisioningInvariant, Typed, Hosts, PinSound
        <4> QED BY <2>3, <4>1, ProvisioningAssumption DEF ProvisioningInvariant, Step20Sound
      <3>2. /\ RecoveryCommon /\ ~QualifyHost("current")
            /\ host.state \in {"absent", "initial"}
        BY <2>3, <3>1, RecoveryQualified
      <3>3. InspectApplication
        BY DEF InspectApplication, Stuck
      <3>4. QualifyStep20Recovery
        BY <2>3, <3>1, <3>2, <3>3
           DEF QualifyStep20Recovery, InspectReplayDirectory, Step20Preflight
      <3>5. ~QualifyReviewedRecovery /\ ~QualifyPopulatedRecovery
        BY <2>3 DEF QualifyReviewedRecovery, QualifyPopulatedRecovery
      <3>6. Admitted = "step20" BY <3>2, <3>4, <3>5 DEF Admitted
      <3> QED BY <3>6
    <2> QED BY <2>1, <2>2, <2>3 DEF ProvisioningInvariant, Typed, Modes
  <1> QED BY <1>1, ProvisioningIsInductive, PTL
=============================================================================
