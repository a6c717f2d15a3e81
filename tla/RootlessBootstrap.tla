-------------------------- MODULE RootlessBootstrap --------------------------
(***************************************************************************)
(* The static bootstrap (rootless_docker_static_bootstrap.py) and the      *)
(* executor's user manager (rootless_docker_user_manager_bootstrap.py).    *)
(*                                                                         *)
(* The static bootstrap adds the two subordinate id ranges and then places *)
(* `Resources' directories and files in one order, each under a temporary  *)
(* name first and then by a rename that never replaces.  `temp' is the     *)
(* temporary of the next one: "raw" until its owner, mode and bytes are    *)
(* the reviewed ones.                                                      *)
(***************************************************************************)
EXTENDS RootlessInstall

StaticKeeps == UNCHANGED <<bundleVars, packageVars, managerVars, daemonVars,
                           enableVars, launchTmp>>

RequireInactiveControlPlane ==
    /\ DeploymentUnitsInactive
    /\ manager = "inactive"
    /\ ~link

\* Neither range overlaps another user's.
SubidState == Holds("subid_overlap")

StaticPackageHost == RequirePackageHost /\ RequireInactiveControlPlane

\* A file that is there has the reviewed bytes, owner and mode.
FileState == placed = Resources => launcher = shipped

\* What is found must be absent or exact; contents may include temporaries.
BootstrapState ==
    /\ SubidState
    /\ data = "initial"
    /\ FileState
    /\ RequireInactiveControlPlane

StaticPhase ==
    CASE subids = 0 /\ placed = 0 -> "initial"
      [] subids = 2 /\ placed = Resources -> "complete"
      [] OTHER -> "resume"

StaticAdmits ==
    /\ BootstrapState
    /\ IF StaticPhase = "initial" THEN QualifyPostinstall ELSE StaticPackageHost

StaticBegin ==
    /\ StaticAdmits
    /\ Begin("static", IF StaticPhase = "complete" THEN "verify" ELSE "subids")

\* usermod adds the subordinate user ids, then the group ids.
EnsureSubids ==
    /\ At("static", "subids")
    /\ subids' = IF subids < 2 THEN subids + 1 ELSE 2
    /\ UNCHANGED <<outside, placed, temp, launcher>>
    /\ Goto(IF subids < 1 THEN "subids" ELSE "assets")
    /\ RequireExecutorIdentity
    /\ StaticKeeps

\* mkdir or an exclusive create under the temporary name.
EnsureDirectory ==
    /\ At("static", "assets")
    /\ placed < Resources
    /\ temp = "absent"
    /\ temp' = "raw"
    /\ UNCHANGED <<outside, subids, placed, launcher>>
    /\ Goto("fill")
    /\ StaticKeeps

\* Owner, mode and bytes; then the file and its directory are synced.
EnsureFile ==
    /\ At("static", "fill")
    /\ temp' = "exact"
    /\ UNCHANGED <<outside, subids, placed, launcher>>
    /\ Goto("assets")
    /\ StaticKeeps

\* An exact temporary, this run's or an earlier one's, is renamed.  The last
\* file is taken to be the launcher of the running release.
RenameNoReplace ==
    /\ At("static", "assets")
    /\ temp = "exact"
    /\ placed' = placed + 1
    /\ temp' = "absent"
    /\ launcher' = IF placed' = Resources THEN shipped ELSE launcher
    /\ stale' = stale \cup {"dropins"}
    /\ UNCHANGED <<drift, epoch, shipped, subids>>
    /\ Goto("assets")
    /\ StaticKeeps

InstallStaticAssets ==
    /\ At("static", "assets")
    /\ placed = Resources
    /\ temp = "absent"
    /\ stale' = {}
    /\ UNCHANGED <<drift, epoch, shipped, staticVars, launcher>>
    /\ Goto("verify")
    /\ StaticKeeps

RequireSystemdAssetsVisible ==
    /\ DropinsVisible
    /\ RequireUserManagerTemplateDropins
    /\ DeploymentUnitsInactive

\* A host found complete is not reloaded, only checked.
StaticResult ==
    /\ At("static", "verify")
    /\ BootstrapState
    /\ StaticPhase = "complete"
    /\ temp = "absent"
    /\ RequireSystemdAssetsVisible
    /\ StaticPackageHost
    /\ Unchanged
    /\ UNCHANGED <<outside, staticVars, launcher>>
    /\ Return("bootstrapped")
    /\ StaticKeeps

-----------------------------------------------------------------------------

ManagerKeeps == UNCHANGED <<outside, bundleVars, packageVars, staticVars,
                            daemonVars, launcherVars>>

\* The runtime directory is absent, or exactly the manager's.
RuntimeState == IF RuntimeDirectory THEN "exact" ELSE "absent"

\* Linger file, runtime directory and manager, as one of three reviewed forms.
ManagerPhase ==
    CASE ~linger /\ manager = "inactive" -> "initial"
      [] linger /\ manager = "inactive" -> "resume"
      [] linger /\ RuntimeState = "exact" /\ manager = "active" -> "complete"
      [] OTHER -> "error"

StaticState ==
    /\ ManagedPackageHost
    /\ RequireSubids
    /\ RequireStaticAssets
    /\ RequireUserManagerTemplateDropins
    /\ DropinsVisible
    /\ DeploymentUnitsInactive

ManagerAdmits ==
    /\ ManagerPhase # "error"
    /\ IF ManagerPhase = "initial" THEN QualifyStaticBootstrap ELSE StaticState

ManagerBegin ==
    /\ ManagerAdmits
    /\ Begin("manager", ManagerPhase)

\* loginctl: logind may start the manager by itself.
EnableLinger ==
    /\ At("manager", "initial")
    /\ managers < MaxStarts
    /\ linger' = TRUE
    /\ manager' \in {manager, "activating"}
    /\ UNCHANGED <<managers, enableVars>>
    /\ Goto("resume")
    /\ ManagerKeeps

StartUserManager ==
    /\ At("manager", "resume")
    /\ managers < MaxStarts
    /\ RequireRootlessInactive
    /\ manager' = IF manager = "inactive" THEN "activating" ELSE manager
    /\ UNCHANGED <<linger, managers, enableVars>>
    /\ Goto("complete")
    /\ ManagerKeeps

\* Linger, runtime directory, delegated controllers, and the daemon not started.
RequireCompleteUserManager ==
    /\ RequireUserManager
    /\ RequireRootlessInactive
    /\ DeploymentUnitsInactive

ManagerResult ==
    /\ At("manager", "complete")
    /\ RequireCompleteUserManager
    /\ StaticState
    /\ Unchanged
    /\ UNCHANGED <<managerVars, enableVars>>
    /\ Return("bootstrapped")
    /\ ManagerKeeps

\* systemd: the manager comes up, reads the enable links, and starts what they
\* name; a new manager has counted no start before that.
ManagerUp ==
    /\ manager = "activating"
    /\ managers < MaxStarts
    /\ manager' = "active"
    /\ managers' = managers + 1
    /\ seen' = link
    /\ daemon' = IF link THEN "activating" ELSE "inactive"
    /\ burst' = IF link THEN 1 ELSE 0
    /\ UNCHANGED <<outside, bundleVars, packageVars, staticVars, linger, link,
                   starts, ran, data, launcherVars, control>>

BootstrapNext ==
    \/ StaticBegin \/ EnsureSubids \/ EnsureDirectory \/ EnsureFile
    \/ RenameNoReplace \/ InstallStaticAssets \/ StaticResult
    \/ ManagerBegin \/ EnableLinger \/ StartUserManager \/ ManagerResult
=============================================================================
