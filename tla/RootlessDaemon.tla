--------------------------- MODULE RootlessDaemon ---------------------------
(***************************************************************************)
(* The rootless daemon: first start, replacement of its launcher, restart, *)
(* enabling across reboots and recycling its user manager, with the        *)
(* preflights that admit them; and the chain of all nine operations.       *)
(*                                                                         *)
(* `starts' and `managers' number the incarnations of the daemon and of    *)
(* the user manager: equal numbers stand for equal process ids.  `ran' is  *)
(* the launcher the running daemon was started by.                         *)
(***************************************************************************)
EXTENDS RootlessBootstrap

DaemonKeeps == UNCHANGED <<outside, bundleVars, packageVars, staticVars>>

\* The unit file allows so many starts in one StartLimitIntervalSec.
StartLimitBurst == 3

\* systemd starts the unit, by command or because of Restart=always, or finds
\* the interval's starts used up; then the unit has failed.
Launch ==
    /\ daemon' = IF burst < StartLimitBurst THEN "activating" ELSE "failed"
    /\ burst' = IF burst < StartLimitBurst THEN burst + 1 ELSE burst

\* A start that is not refused leads to one more incarnation.
Countable == starts < MaxStarts \/ burst = StartLimitBurst

-----------------------------------------------------------------------------
(* Start: rootless_docker_daemon_start.py. *)

StartAdmits ==
    \/ /\ daemon = "inactive"
       /\ QualifyUserManager
    \/ daemon = "running" /\ ~seen

StartBegin ==
    /\ StartAdmits
    /\ Begin("start", IF daemon = "inactive" THEN "command" ELSE "found")

StartCommand ==
    /\ At("start", "command")
    /\ Countable
    /\ Launch
    /\ UNCHANGED <<starts, ran, data, managerVars, launcherVars, enableVars>>
    /\ Goto("ready")
    /\ DaemonKeeps

PackageHostAllowDaemon ==
    /\ InstalledHost
    /\ RequireRootfulMasks
    /\ policy = "absent" /\ incoming = "absent"

\* The data root as the daemon fills it, and the other assets unchanged.
PostDaemonAssets == RequirePostDaemonStaticAssets

StaticEvidenceAfterStart ==
    /\ PackageHostAllowDaemon
    /\ RequireSubids
    /\ PostDaemonAssets
    /\ RequireUserManagerTemplateDropins
    /\ DropinsVisible
    /\ DeploymentUnitsInactive
    /\ UserManagerEvidence

\* Unit state, socket and runtime artifacts.
StartedUnit == daemon = "running" /\ ~seen

\* docker info and the one dockerd process.
StartedDaemon == DockerInfoEvidence /\ ProcessEvidence

ReadyEvidence == StartedUnit /\ StartedDaemon /\ ~link

\* The qualification from before the command is compared with what is found.
StartResult ==
    /\ At("start", "ready")
    /\ StaticEvidenceAfterStart
    /\ ReadyEvidence
    /\ Unchanged
    /\ UNCHANGED <<daemonVars, managerVars, launcherVars, enableVars>>
    /\ Return("started")
    /\ DaemonKeeps

\* A daemon that ran already was not qualified before: nothing is compared.
AlreadyStarted ==
    /\ At("start", "found")
    /\ StaticEvidenceAfterStart
    /\ ReadyEvidence
    /\ UNCHANGED <<daemonVars, managerVars, launcherVars, enableVars>>
    /\ Return("already-started")
    /\ DaemonKeeps

-----------------------------------------------------------------------------
(* Launcher: rootless_docker_launcher_replacement.py, restart_preflight.py. *)

LauncherKeeps == DaemonKeeps /\ UNCHANGED <<managerVars, daemonVars, enableVars>>

\* What the launcher would find if it were started now.
LauncherStaticLive ==
    /\ shipped = "target"
    /\ RuntimeDirectory
    /\ data \in {"initial", "managed"}
    /\ daemon = "running"

RuntimePrincipalAndEnvironment == UserUnitEvidence /\ ProcessEvidence

RestartUnitPolicy == ~seen

\* The installed launcher is not among the candidate's checks.
RestartCandidate ==
    /\ LauncherStaticLive
    /\ RuntimePrincipalAndEnvironment
    /\ RestartUnitPolicy

InstalledLauncher == launcher = shipped

\* Every check of the daemon qualification, one by one.
DaemonMatrix == QualifyDaemon

RestartPreflight == DaemonMatrix /\ InstalledLauncher /\ RestartCandidate

\* An empty temporary has no length to resume from and is refused.
TemporaryState == IF launchTmp = "empty" THEN "error" ELSE launchTmp

LauncherAdmits ==
    /\ RestartCandidate
    /\ TemporaryState # "error"
    /\ launcher = "target" => TemporaryState \in {"absent", "exact"}

LauncherBegin ==
    /\ LauncherAdmits
    /\ Begin("launcher",
             IF launcher = "target" THEN "clean"
             ELSE IF launchTmp = "exact" THEN "replace"
             ELSE IF launchTmp = "prefix" THEN "write"
             ELSE "create")

CreateTemporary ==
    /\ At("launcher", "create")
    /\ launchTmp' = "empty"
    /\ UNCHANGED launcher
    /\ Goto("write")
    /\ LauncherKeeps

\* The rest of the bytes after the prefix that is already there.
WriteAll ==
    /\ At("launcher", "write")
    /\ launchTmp' \in IF launchTmp = "prefix" THEN {"exact"} ELSE {"prefix", "exact"}
    /\ UNCHANGED launcher
    /\ Goto(IF launchTmp' = "exact" THEN "replace" ELSE "write")
    /\ LauncherKeeps

ReplaceLauncher ==
    /\ At("launcher", "replace")
    /\ launcher = "predecessor"
    /\ launchTmp = "exact"
    /\ launcher' = "target"
    /\ launchTmp' = "absent"
    /\ Goto("qualify")
    /\ LauncherKeeps

\* Already replaced: a complete temporary that was left behind is removed.
RemoveTemporary ==
    /\ At("launcher", "clean")
    /\ launchTmp' = "absent"
    /\ UNCHANGED launcher
    /\ Goto("qualify")
    /\ LauncherKeeps

LauncherResult ==
    /\ At("launcher", "qualify")
    /\ RestartPreflight
    /\ UNCHANGED launcherVars
    /\ Return("replaced")
    /\ LauncherKeeps

-----------------------------------------------------------------------------
(* Restart: rootless_docker_daemon_restart.py. *)

RestartBegin ==
    /\ RestartPreflight
    /\ Begin("restart", "command")

RunRestart ==
    /\ At("restart", "command")
    /\ Countable
    /\ Launch
    /\ UNCHANGED <<starts, ran, data, managerVars, launcherVars, enableVars>>
    /\ Goto("verify")
    /\ DaemonKeeps

\* Mutant: the evidence of after is not compared with that of before.
RestartResultUncompared ==
    /\ At("restart", "verify")
    /\ daemon = "running"
    /\ RestartPreflight
    /\ UNCHANGED <<daemonVars, managerVars, launcherVars, enableVars>>
    /\ Return("restarted")
    /\ DaemonKeeps

\* No process of before is among those of after; all else is equal.
RestartResult ==
    /\ At("restart", "verify")
    /\ daemon = "running"
    /\ starts # saw.starts
    /\ RestartPreflight
    /\ Unchanged
    /\ UNCHANGED <<daemonVars, managerVars, launcherVars, enableVars>>
    /\ Return("restarted")
    /\ DaemonKeeps

-----------------------------------------------------------------------------
(* Persistence: rootless_docker_persistence_enablement.py. *)

EnableBegin ==
    /\ QualifyDaemon
    /\ Begin("enable", "command")

\* systemctl --global enable: the live manager does not notice.
RunEnable ==
    /\ At("enable", "command")
    /\ link' = TRUE
    /\ UNCHANGED <<seen, daemonVars, managerVars, launcherVars>>
    /\ Goto("verify")
    /\ DaemonKeeps

PostEnableUserUnit == daemon = "running" /\ ~seen /\ link

QualifyPersistence == link /\ QualifyOnceWithUserUnit(PostEnableUserUnit)

EnableResult ==
    /\ At("enable", "verify")
    /\ QualifyPersistence
    /\ Unchanged
    /\ saw.starts = starts
    /\ UNCHANGED <<daemonVars, managerVars, launcherVars, enableVars>>
    /\ Return("enabled")
    /\ DaemonKeeps

-----------------------------------------------------------------------------
(* Recycling: rootless_docker_fresh_manager_preflight.py and _transition.py. *)

\* Persistence, the manager's own state and the cgroup of every process.
ManagerState == manager = "active" /\ linger

Snapshot == QualifyPersistence /\ ManagerState

\* Every process of the executor's uid is below its manager's control group.
ProcessCgroupBoundary == ManagerState /\ ProcessEvidence

BootActivationContract == link /\ placed = Resources

FreshManagerPreflight == Snapshot /\ ProcessCgroupBoundary /\ BootActivationContract

\* The live unit with the enablement its manager has read.
LiveUserUnit(enabled) == daemon = "running" /\ link /\ seen = enabled

LifecycleEvidence(enabled) ==
    /\ LiveUserUnit(enabled)
    /\ ManagerState
    /\ SocketEvidence
    /\ DockerInfoEvidence

LifecycleOnce(enabled) ==
    /\ BootActivationContract
    /\ LifecycleEvidence(enabled)
    /\ ProcessCgroupBoundary
    /\ RequireRootfulMasks
    /\ DeploymentUnitsInactive

RecycleBegin ==
    /\ FreshManagerPreflight
    /\ LifecycleOnce(FALSE)
    /\ Begin("recycle", "command")

\* Mutant: the manager is stopped and not started again.
StopUserManager ==
    /\ At("recycle", "command")
    /\ managers < MaxStarts /\ starts < MaxStarts
    /\ manager' = "inactive"
    /\ daemon' = "inactive"
    /\ burst' = 0
    /\ UNCHANGED <<linger, managers, starts, ran, data, launcherVars, enableVars>>
    /\ Goto("verify")
    /\ DaemonKeeps

\* systemctl restart user@991: everything below the manager goes with it.
RunUserManagerRestart ==
    /\ At("recycle", "command")
    /\ managers < MaxStarts /\ starts < MaxStarts
    /\ manager' = "activating"
    /\ daemon' = "inactive"
    /\ burst' = 0
    /\ UNCHANGED <<linger, managers, starts, ran, data, launcherVars, enableVars>>
    /\ Goto("verify")
    /\ DaemonKeeps

\* The unit is polled until it runs as enabled or the deadline passes (Stop).
RecycleResult ==
    /\ At("recycle", "verify")
    /\ LifecycleOnce(TRUE)
    /\ managers # saw.managers
    /\ starts # saw.starts
    /\ UNCHANGED <<daemonVars, managerVars, launcherVars, enableVars>>
    /\ Return("recycled")
    /\ DaemonKeeps

-----------------------------------------------------------------------------
(* systemd and the host. *)

\* Empty as the bootstrap left it, or filled by an earlier daemon.
LauncherDataRoot == data \in {"initial", "managed"}

\* The launcher's own checks, then the vendor script and the daemon.
LauncherMain ==
    /\ RuntimeDirectory
    /\ placed = Resources
    /\ LauncherDataRoot

DaemonUp ==
    /\ daemon = "activating"
    /\ starts < MaxStarts
    /\ LauncherMain
    /\ daemon' = "running"
    /\ starts' = starts + 1
    /\ ran' = launcher
    /\ data' = "managed"
    /\ UNCHANGED <<outside, bundleVars, packageVars, staticVars, managerVars,
                   burst, launcherVars, enableVars, control>>

\* The daemon dies, or its launcher before it was ready: Restart=always starts
\* it again as long as the start limit allows.
DaemonCrash ==
    /\ daemon \in {"activating", "running"}
    /\ Countable
    /\ Launch
    /\ UNCHANGED <<outside, bundleVars, packageVars, staticVars, managerVars,
                   starts, ran, data, launcherVars, enableVars, control>>

\* StartLimitIntervalSec is over: earlier starts are no longer counted.
IntervalEnds ==
    /\ burst > 0
    /\ burst' = 0
    /\ UNCHANGED <<outside, bundleVars, packageVars, staticVars, managerVars, daemon,
                   starts, ran, data, launcherVars, enableVars, control>>

\* Between operations; a reboot during one is a kill and then this.
Reboot ==
    /\ op = NoOp
    /\ managers < MaxStarts
    /\ starts < MaxStarts
    /\ manager' = IF linger THEN "activating" ELSE "inactive"
    /\ daemon' = "inactive"
    /\ seen' = FALSE
    /\ stale' = {}
    /\ burst' = 0
    /\ UNCHANGED <<drift, epoch, shipped, bundleVars, packageVars,
                   staticVars, linger, managers, link, starts, ran, data,
                   launcherVars, control>>

RootlessInit ==
    /\ drift = {} /\ epoch = 0 /\ stale = {}
    /\ shipped \in {"predecessor", "target"}
    /\ incoming = "absent" /\ staged = 0 /\ partial = FALSE /\ bundle = FALSE
    /\ policy = "absent" /\ masks = 0 /\ pkg = "absent"
    /\ subids = 0 /\ placed = 0 /\ temp = "absent"
    /\ linger = FALSE /\ manager = "inactive" /\ managers = 0
    /\ link = FALSE /\ seen = FALSE
    /\ daemon = "inactive" /\ starts = 0 /\ ran = "predecessor" /\ data = "initial"
    /\ burst = 0
    /\ launcher = "predecessor" /\ launchTmp = "absent"
    /\ op = NoOp /\ pc = "idle" /\ saw = NoEvidence /\ done = Nothing

DaemonNext ==
    \/ StartBegin \/ StartCommand \/ StartResult \/ AlreadyStarted
    \/ LauncherBegin \/ CreateTemporary \/ WriteAll \/ ReplaceLauncher
    \/ RemoveTemporary \/ LauncherResult
    \/ RestartBegin \/ RunRestart \/ RestartResult
    \/ EnableBegin \/ RunEnable \/ EnableResult
    \/ RecycleBegin \/ RunUserManagerRestart \/ RecycleResult

Systemd == ManagerUp \/ DaemonUp

Surroundings ==
    \/ Drifts \/ Repaired \/ Upgraded \/ Reread \/ Ships
    \/ DaemonCrash \/ IntervalEnds \/ Reboot

RootlessNext ==
    InstallNext \/ BootstrapNext \/ DaemonNext \/ Stop \/ Systemd \/ Surroundings

RootlessSpec == RootlessInit /\ [][RootlessNext]_rootlessVars

\* A running operation never waits for anything but a command with a timeout,
\* so it takes steps; systemd carries out the jobs it has accepted.
RootlessFairSpec ==
    /\ RootlessSpec
    /\ WF_rootlessVars(op # NoOp /\ (InstallNext \/ BootstrapNext \/ DaemonNext \/ Stop))
    /\ WF_rootlessVars(Systemd)
-----------------------------------------------------------------------------
(* What the chain promises. *)

\* Nothing ever starts a rootful daemon, although dpkg unpacks packages that
\* start one and an installation may be killed and resumed at any step: at every
\* moment with a package on the host policy-rc.d or all masks are in force.
RootfulNeverStarts == ~RootfulStartable

\* The operation compares the accepted facts of before and after.
Compared(o, result) ==
    \/ o \in {"install", "static", "manager", "restart", "enable"}
    \/ o = "start" /\ result = "started"

\* Evidence that an operation returned is true of one host.  The operations
\* that compare facts before and after saw one epoch (a start that found the
\* daemon running has no facts of before); a restart and a recycle
\* replaced every process while an enablement kept them; and the daemon a
\* restart left behind was started by the launcher that was reviewed.
EvidenceIsTrue ==
    /\ Compared(done.op, done.result) => done.first.epoch = done.last.epoch
    /\ done.op \in {"restart", "recycle"} => done.first.starts < done.last.starts
    /\ done.op = "recycle" => done.first.managers < done.last.managers
    /\ done.op = "enable" => done.first.starts = done.last.starts
    /\ (done.op = "restart" /\ done.last.starts = starts) => ran = "target"

Installed == pkg = "installed" /\ policy = "absent" /\ masks = RootfulUnits

\* The operation that the state of the host calls for.
NextOperation ==
    IF ~bundle THEN "stage"
    ELSE IF ~Installed THEN "install"
    ELSE IF ~(subids = 2 /\ placed = Resources) THEN "static"
    ELSE IF manager = "inactive" THEN "manager"
    ELSE IF data = "initial" THEN "start"
    ELSE IF link THEN IF seen THEN NoOp ELSE "recycle"
    ELSE IF launcher # shipped THEN "launcher"
    ELSE IF ran # launcher THEN "restart"
    ELSE "enable"

Admitted(o) ==
    CASE o = "stage" -> StageAdmits
      [] o = "install" -> InstallAdmits
      [] o = "static" -> StaticAdmits
      [] o = "manager" -> ManagerAdmits
      [] o = "start" -> StartAdmits
      [] o = "launcher" -> LauncherAdmits
      [] o = "restart" -> RestartPreflight
      [] o = "enable" -> QualifyDaemon
      [] o = "recycle" -> FreshManagerPreflight /\ LifecycleOnce(FALSE)
      [] OTHER -> TRUE

\* Nothing runs and the outside is as reviewed.
Quiet ==
    /\ op = NoOp
    /\ drift = {}
    /\ manager # "activating" /\ daemon # "activating"

\* Where the chain cannot go on by itself.  A kill left a file that is neither
\* absent nor exact: the policy or a static temporary half made, the launcher's
\* temporary without a byte.  A kill came after the last static resource was
\* placed and before daemon-reload: a host found complete is not reloaded, and
\* systemd does not show the drop-ins until something else makes it read them.
\* The unit used up its start limit and is failed until the manager is new.
\* A reboot stopped the daemon after its first start
\* and before it was enabled: the start wants the data root as it was before the
\* daemon wrote there.  Or a second launcher was shipped when the daemon that
\* must be restarted under it does not run, or runs enabled already.
DeadEnd ==
    \/ policy = "partial"
    \/ temp = "raw"
    \/ launchTmp = "empty"
    \/ placed = Resources /\ "dropins" \in stale
    \/ daemon = "failed"
    \/ data = "managed" /\ daemon = "inactive" /\ ~link
    \/ placed = Resources /\ launcher # shipped /\ (daemon # "running" \/ link)

\* Wherever a kill, a failed command or a reboot left the host, the operation
\* that comes next is admitted by its own preflight, except in the dead ends
\* named above.
NoOtherDeadEnd == Quiet => DeadEnd \/ Admitted(NextOperation)

\* Once the daemon is enabled and its user lingers, it runs again after every
\* crash, restart of its manager or reboot, unless it was started StartLimitBurst
\* times in one interval and has failed; a new manager or a reboot starts even
\* that one again.
EnabledDaemonReturns == link /\ linger ~> daemon \in {"running", "failed"}
=============================================================================
