---------------------------- MODULE RootlessHost ----------------------------
(***************************************************************************)
(* The DEV host on which rootless Docker is set up, and what the           *)
(* read-only qualifications of deployment/rootless_docker_*_qualification  *)
(* require of it.                                                          *)
(*                                                                         *)
(* Nine operations, each started by hand, take a host from no Docker at    *)
(* all to a rootless daemon that survives a reboot.  They share no memory: *)
(* an operation learns how far the others came only by looking at the      *)
(* host, it changes the host without ever rolling back, and it may be      *)
(* killed between any two system calls.  All take one process lock without *)
(* waiting, so at most one of them, `op', runs at a time; another caller   *)
(* is refused before it looks at anything.                                 *)
(*                                                                         *)
(* Facts of the host that no operation of the chain changes are one        *)
(* variable, `drift': the reviewed facts that do not hold now.  A change   *)
(* that every check accepts, such as a dependency upgraded above its       *)
(* minimum version, shows as a new `epoch' of the evidence.                *)
(***************************************************************************)
EXTENDS Naturals

CONSTANTS
    Payloads,       \* number of packages in the bundle
    RootfulUnits,   \* number of rootful units to mask
    Resources,      \* number of directories and files of the static bootstrap
    MaxEpoch,       \* bound on accepted changes of the host
    MaxStarts       \* bound on incarnations of the daemon and of its manager

ASSUME RootlessAssumption ==
    /\ Payloads \in Nat \ {0}
    /\ RootfulUnits \in Nat \ {0}
    /\ Resources \in Nat \ {0}
    /\ MaxEpoch \in Nat
    /\ MaxStarts \in Nat

VARIABLES
    drift, epoch,   \* the external facts
    stale,          \* unit files systemd has not read since they changed
    shipped,        \* the launcher the reviewed application ships
    incoming, staged, partial, bundle,  \* the package bundle
    policy, masks, pkg,                 \* start blockers and packages
    subids, placed, temp,               \* static bootstrap
    linger, manager, managers,          \* the executor's user manager
    link, seen,     \* enable link; whether the live manager has read it
    daemon, starts, ran, data,          \* the rootless daemon
    burst,          \* its starts in the current start-limit interval
    launcher, launchTmp,                \* its launcher
    op, pc, saw,    \* the running operation and the evidence it holds
    done            \* what the last operation returned, until the next one

bundleVars == <<incoming, staged, partial, bundle>>
packageVars == <<policy, masks, pkg>>
staticVars == <<subids, placed, temp>>
managerVars == <<linger, manager, managers>>
daemonVars == <<daemon, starts, ran, data, burst>>
launcherVars == <<launcher, launchTmp>>
enableVars == <<link, seen>>
outside == <<drift, epoch, stale, shipped>>
control == <<op, pc, saw, done>>
host == <<bundleVars, packageVars, staticVars, managerVars, daemonVars,
          launcherVars, enableVars>>
rootlessVars == <<outside, host, control>>

Facts == {"migration", "executor_identity", "host_dependency", "conflicts",
          "kernel", "shadowing", "executables", "deployment_units",
          "template_dropins", "subid_overlap", "rootful_runtime"}

Operations == {"stage", "install", "static", "manager", "start", "launcher",
               "restart", "enable", "recycle"}

NoOp == "none"

\* What an operation compares before and after: accepted facts and processes.
Evidence == [epoch |-> epoch, starts |-> starts, managers |-> managers]

NoEvidence == [epoch |-> 0, starts |-> 0, managers |-> 0]

Nothing == [op |-> NoOp, result |-> "none", first |-> NoEvidence, last |-> NoEvidence]

-----------------------------------------------------------------------------
(* What single checks require. *)

Holds(f) == f \notin drift

RequireExecutorIdentity == Holds("executor_identity")

\* Installed, of the reviewed architecture, at least the minimum version.
RequireHostDependency == Holds("host_dependency")

RequireKernelPrerequisites == Holds("kernel")

RequireConflictsAbsent == Holds("conflicts")

RequireNoShadowing == Holds("shadowing")

\* Owned by the installed packages, with the reviewed mode and bytes.
RequireCriticalExecutables == pkg = "installed" /\ Holds("executables")

RequirePackageAbsent == pkg = "absent"

RequirePackage == pkg = "installed"

\* No other range overlaps the reserved one and the executor has none yet.
RequireSubidAuthority == subids = 0 /\ Holds("subid_overlap")

RequireSubids == subids = 2

\* /run/user/991, which the user manager's runtime unit creates.
RuntimeDirectory == manager = "active"

\* pgrep finds a daemon of either kind, or its socket is in the way; a unit
\* that failed is not inactive either.
RuntimePresent == ~Holds("rootful_runtime") \/ daemon # "inactive"

RequireRootfulRuntimeAbsent ==
    /\ masks = 0
    /\ policy = "absent"
    /\ ~RuntimePresent
    /\ ~RuntimeDirectory

\* The daemon qualifications look at the masks only.
RequireRootfulMasks ==
    /\ masks = RootfulUnits
    /\ "masks" \notin stale
    /\ Holds("rootful_runtime")

RequireRootfulMasked ==
    /\ RequireRootfulMasks
    /\ ~RuntimePresent
    /\ ~RuntimeDirectory
    /\ policy = "absent"
    /\ incoming = "absent"

RequireFinalBundleAbsent == ~bundle

\* A chain of trusted directories down to the published one.
BundleChain == bundle

\* Every file has its reviewed owner, mode, size and hash, and there is no other.
BundleFiles == staged = Payloads /\ ~partial

QualifyBundleAt == BundleChain /\ BundleFiles

RequireFile == placed = Resources /\ launcher = shipped

RequireDirectory == placed = Resources /\ temp = "absent" /\ data = "initial"

\* The data root after the daemon has populated it.
RequirePostDaemonDataRoot == data = "managed"

RequirePostDaemonStaticAssets ==
    /\ RequirePostDaemonDataRoot
    /\ placed = Resources
    /\ temp = "absent"
    /\ launcher = shipped

RequireStaticAssets == RequireDirectory /\ RequireFile

RequireUserManagerTemplateDropins == Holds("template_dropins")

\* systemd shows the drop-ins only if it read them after they were placed.
DropinsVisible == "dropins" \notin stale /\ placed = Resources

DeploymentUnitsInactive == Holds("deployment_units")

RequireInertSystemd ==
    /\ DeploymentUnitsInactive
    /\ manager = "inactive"
    /\ DropinsVisible
    /\ RequireUserManagerTemplateDropins
    /\ ~linger
    /\ ~link

RequireRootlessInactive ==
    /\ RequireRootfulMasks
    /\ ~RuntimePresent
    /\ ~link
    /\ policy = "absent"
    /\ incoming = "absent"

-----------------------------------------------------------------------------
(* The qualifications: each reads everything twice and compares. *)

HostFacts ==
    /\ Holds("migration")
    /\ RequireExecutorIdentity
    /\ RequireHostDependency
    /\ RequireKernelPrerequisites

QualifyHost ==
    /\ HostFacts
    /\ RequireConflictsAbsent
    /\ RequirePackageAbsent
    /\ RequireRootfulRuntimeAbsent
    /\ RequireSubidAuthority

QualifyPreinstall == RequireFinalBundleAbsent /\ QualifyHost

QualifyStagedPreinstall ==
    /\ incoming = "absent"
    /\ QualifyHost
    /\ QualifyBundleAt

InstalledHost ==
    /\ HostFacts
    /\ RequirePackage
    /\ RequireConflictsAbsent
    /\ RequireNoShadowing
    /\ RequireCriticalExecutables
    /\ QualifyBundleAt

QualifyPostinstall ==
    /\ InstalledHost
    /\ RequireRootfulMasked
    /\ RequireSubidAuthority

RequirePackageHost == InstalledHost /\ RequireRootfulMasked

\* What the evidence of the static bootstrap states, whoever collects it.
StaticBootstrapEvidence ==
    /\ InstalledHost
    /\ RequireSubids
    /\ RequireStaticAssets
    /\ DropinsVisible

QualifyStaticBootstrap ==
    /\ RequirePackageHost
    /\ RequireInertSystemd
    /\ StaticBootstrapEvidence

\* The host once a user manager may run.
ManagedPackageHost == InstalledHost /\ RequireRootlessInactive

LingerEvidence == linger

RuntimeEvidence == RuntimeDirectory

RequireUserManager == manager = "active" /\ ~seen

\* The user manager runs with its reviewed delegation, and nothing below it.
ManagerEvidence ==
    /\ StaticBootstrapEvidence
    /\ LingerEvidence
    /\ RuntimeEvidence
    /\ RequireUserManager

QualifyUserManager ==
    /\ ManagedPackageHost
    /\ RequireUserManagerTemplateDropins
    /\ DeploymentUnitsInactive
    /\ ManagerEvidence

DaemonPackageHost ==
    /\ InstalledHost
    /\ RequireRootfulMasks
    /\ policy = "absent"
    /\ incoming = "absent"

UserManagerEvidence == manager = "active" /\ LingerEvidence /\ RuntimeEvidence

\* Exactly one rootlesskit, dockerd and containerd of the executor's uid.
ProcessEvidence == daemon = "running"

\* The socket answers and the runtime directory holds what it should.
SocketEvidence == daemon = "running"

\* docker info: rootless, the reviewed version and data root, no container.
DockerInfoEvidence == daemon = "running" /\ data = "managed"

\* The live manager still reports the unit as not enabled.
UserUnitEvidence == daemon = "running" /\ ~seen /\ ~link

DaemonEvidence(unit) ==
    /\ unit
    /\ InstalledHost
    /\ RequireSubids
    /\ DropinsVisible
    /\ ProcessEvidence
    /\ SocketEvidence
    /\ DockerInfoEvidence

QualifyOnceWithUserUnit(unit) ==
    /\ DaemonPackageHost
    /\ RequirePostDaemonStaticAssets
    /\ RequireUserManagerTemplateDropins
    /\ DeploymentUnitsInactive
    /\ UserManagerEvidence
    /\ DaemonEvidence(unit)

QualifyDaemon == QualifyOnceWithUserUnit(UserUnitEvidence)

-----------------------------------------------------------------------------
(* The lock and the ends of an operation. *)

\* The lock is free and the caller is root: the operation runs from step p.
Begin(o, p) ==
    /\ op = NoOp
    /\ op' = o
    /\ pc' = p
    /\ saw' = Evidence
    /\ done' = Nothing
    /\ UNCHANGED <<outside, host>>

At(o, p) == op = o /\ pc = p

Goto(p) == pc' = p /\ UNCHANGED <<op, saw, done>>

\* Accepted facts are those of the first look.
Unchanged == saw.epoch = epoch

Return(result) ==
    /\ op' = NoOp
    /\ pc' = "idle"
    /\ saw' = NoEvidence
    /\ done' = [op |-> op, result |-> result, first |-> saw, last |-> Evidence]

\* A check fails, a command fails or times out, or the process is killed: the
\* lock is released and the host stays as it is.
Stop ==
    /\ op # NoOp
    /\ op' = NoOp
    /\ pc' = "idle"
    /\ saw' = NoEvidence
    /\ done' = Nothing
    /\ UNCHANGED <<outside, host>>

-----------------------------------------------------------------------------
(* The host outside the chain. *)

Drifts ==
    /\ drift = {}
    /\ \E f \in Facts : drift' = {f}
    /\ UNCHANGED <<epoch, stale, shipped, host, control>>

Repaired ==
    /\ drift # {}
    /\ drift' = {}
    /\ UNCHANGED <<epoch, stale, shipped, host, control>>

Upgraded ==
    /\ epoch < MaxEpoch
    /\ epoch' = epoch + 1
    /\ UNCHANGED <<drift, stale, shipped, host, control>>

\* Any other daemon-reload, or systemd dropping and reading the units again.
Reread ==
    /\ stale # {}
    /\ stale' = {}
    /\ UNCHANGED <<drift, epoch, shipped, host, control>>

\* The successor application, with the second launcher, is installed.
Ships ==
    /\ shipped = "predecessor"
    /\ shipped' = "target"
    /\ UNCHANGED <<drift, epoch, stale, host, control>>

\* Maintainer scripts, sockets and timers start whatever nothing blocks.
RootfulStartable ==
    /\ pkg # "absent"
    /\ policy # "exact"
    /\ masks < RootfulUnits \/ "masks" \in stale
=============================================================================
