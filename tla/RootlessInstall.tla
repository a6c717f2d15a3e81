--------------------------- MODULE RootlessInstall ---------------------------
(***************************************************************************)
(* Staging the package bundle (rootless_docker_package_staging.py) and     *)
(* installing it behind start blockers                                     *)
(* (rootless_docker_package_installation.py).                              *)
(*                                                                         *)
(* Staging downloads into a directory named `incoming' and publishes it by *)
(* one rename that never replaces.  Installing must unpack packages whose  *)
(* maintainer scripts start daemons, on a host where no rootful daemon may *)
(* ever run: it first writes a policy-rc.d that refuses every start, then  *)
(* masks the rootful units one by one, and removes the policy last.        *)
(***************************************************************************)
EXTENDS RootlessHost

StageKeeps == UNCHANGED <<outside, packageVars, staticVars, managerVars,
                          daemonVars, launcherVars, enableVars>>

StageAdmits == IF bundle THEN incoming = "absent" /\ QualifyBundleAt
                         ELSE QualifyPreinstall

StageBegin ==
    /\ StageAdmits
    /\ Begin("stage", IF bundle THEN "result" ELSE "open")

\* A directory left by an earlier run is taken over if it is exact.
OpenIncoming ==
    /\ At("stage", "open")
    /\ incoming' = "exact"
    /\ UNCHANGED <<staged, partial, bundle>>
    /\ Goto("payload")
    /\ StageKeeps

\* A payload that is complete by its hash is kept; any other is emptied and
\* downloaded again.
ExistingPayload ==
    /\ At("stage", "payload")
    /\ staged < Payloads
    /\ ~partial
    /\ partial' = TRUE
    /\ UNCHANGED <<incoming, staged, bundle>>
    /\ Goto("download")
    /\ StageKeeps

ResumePayload ==
    /\ At("stage", "payload")
    /\ partial
    /\ UNCHANGED bundleVars
    /\ Goto("download")
    /\ StageKeeps

\* The download is exact in size and hash before the next payload starts.
StagePayload ==
    /\ At("stage", "download")
    /\ staged' = staged + 1
    /\ partial' = FALSE
    /\ UNCHANGED <<incoming, bundle>>
    /\ Goto("payload")
    /\ StageKeeps

\* Every file is read back, and the host must still be the one first seen.
StageIncoming ==
    /\ At("stage", "payload")
    /\ staged = Payloads
    /\ QualifyPreinstall
    /\ Unchanged
    /\ UNCHANGED bundleVars
    /\ Goto("publish")
    /\ StageKeeps

Publish ==
    /\ At("stage", "publish")
    /\ ~bundle
    /\ incoming = "exact"
    /\ bundle' = TRUE
    /\ incoming' = "absent"
    /\ UNCHANGED <<staged, partial>>
    /\ Goto("result")
    /\ StageKeeps

StageResult ==
    /\ At("stage", "result")
    /\ QualifyBundleAt
    /\ UNCHANGED bundleVars
    /\ Return("staged")
    /\ StageKeeps

-----------------------------------------------------------------------------

InstallKeeps == UNCHANGED <<bundleVars, staticVars, managerVars, daemonVars,
                            launcherVars, enableVars>>

\* A policy file that is not exact raises before any phase is chosen.
PolicyReadable == policy # "partial"

\* Every package of the bundle is installed at its reviewed version.
AllInstalled == pkg = "installed"

\* Mutant: a resumed installation must find all its masks.
InstallPhaseMasked ==
    IF policy = "absent"
    THEN IF masks = 0 /\ pkg = "absent" THEN "initial"
         ELSE IF masks = RootfulUnits /\ AllInstalled THEN "complete"
         ELSE "error"
    ELSE IF masks < RootfulUnits THEN "error" ELSE "resume"

InstallPhase ==
    IF policy = "absent"
    THEN IF masks = 0 /\ pkg = "absent" THEN "initial"
         ELSE IF masks = RootfulUnits /\ AllInstalled THEN "complete"
         ELSE "error"
    ELSE IF masks < RootfulUnits /\ pkg # "absent" THEN "error" ELSE "resume"

RequireNoRuntime == ~RuntimePresent

RequireMasksEffective == RequireRootfulMasks

QualifyStaticHost ==
    /\ HostFacts
    /\ RequireConflictsAbsent
    /\ RequireSubidAuthority
    /\ RequireNoRuntime

\* The bundle is opened once and hashed again through the same descriptors.
RehashBundle == QualifyBundleAt

InstallAdmits ==
    /\ PolicyReadable
    /\ InstallPhase # "error"
    /\ IF InstallPhase = "initial" THEN QualifyStagedPreinstall
       ELSE QualifyStaticHost /\ QualifyBundleAt

InstallBegin ==
    /\ InstallAdmits
    /\ Begin("install", InstallPhase)

AlreadyInstalled ==
    /\ At("install", "complete")
    /\ RequireMasksEffective
    /\ QualifyStaticHost
    /\ Unchanged
    /\ RehashBundle
    /\ AllInstalled
    /\ UNCHANGED <<outside, packageVars>>
    /\ Return("already-installed")
    /\ InstallKeeps

\* The file exists with its final mode before its bytes are written.
OpenPolicy ==
    /\ op = "install" /\ pc = "initial"
    /\ policy = "absent"
    /\ policy' = "partial"
    /\ UNCHANGED <<outside, masks, pkg>>
    /\ Goto("policy")
    /\ InstallKeeps

\* Mutant: the packages are unpacked while the policy is still being made.
CreatePolicyLater ==
    /\ At("install", "policy")
    /\ UNCHANGED <<outside, packageVars>>
    /\ Goto("dpkg")
    /\ InstallKeeps

CreatePolicy ==
    /\ At("install", "policy")
    /\ policy' = "exact"
    /\ UNCHANGED <<outside, masks, pkg>>
    /\ Goto("masks")
    /\ InstallKeeps

KeepPolicy ==
    /\ At("install", "resume")
    /\ policy = "exact"
    /\ UNCHANGED <<outside, packageVars>>
    /\ Goto("masks")
    /\ InstallKeeps

\* One symbolic link and one fsync for each unit, in order.
CreateMasks ==
    /\ At("install", "masks")
    /\ masks < RootfulUnits
    /\ RequirePackageAbsent
    /\ masks' = masks + 1
    /\ stale' = stale \cup {"masks"}
    /\ UNCHANGED <<drift, epoch, shipped, policy, pkg>>
    /\ Goto("masks")
    /\ InstallKeeps

DaemonReload ==
    /\ At("install", "masks")
    /\ masks = RootfulUnits
    /\ stale' = {}
    /\ UNCHANGED <<drift, epoch, shipped, packageVars>>
    /\ Goto("blockers")
    /\ InstallKeeps

\* policy-rc.d is asked to start each unit and must refuse.
VerifyStartBlockers ==
    /\ At("install", "blockers")
    /\ RequireMasksEffective
    /\ RequireNoRuntime
    /\ policy = "exact"
    /\ AllInstalled \/ RehashBundle
    /\ UNCHANGED <<outside, packageVars>>
    /\ Goto(IF AllInstalled THEN "installed" ELSE "dpkg")
    /\ InstallKeeps

\* dpkg unpacks and configures; a kill leaves some packages half way.
RunDpkg ==
    /\ At("install", "dpkg")
    /\ pkg' = IF pkg = "absent" THEN "partial" ELSE "installed"
    /\ UNCHANGED <<outside, policy, masks>>
    /\ Goto(IF pkg = "absent" THEN "dpkg" ELSE "installed")
    /\ InstallKeeps

RemovePolicy ==
    /\ At("install", "installed")
    /\ AllInstalled
    /\ RehashBundle
    /\ QualifyStaticHost
    /\ Unchanged
    /\ RequireMasksEffective
    /\ policy = "exact"
    /\ policy' = "absent"
    /\ UNCHANGED <<outside, masks, pkg>>
    /\ Goto("recheck")
    /\ InstallKeeps

InstallResult ==
    /\ At("install", "recheck")
    /\ policy = "absent"
    /\ RequireMasksEffective
    /\ QualifyStaticHost
    /\ Unchanged
    /\ AllInstalled
    /\ QualifyBundleAt
    /\ UNCHANGED <<outside, packageVars>>
    /\ Return("installed")
    /\ InstallKeeps

InstallNext ==
    \/ StageBegin \/ OpenIncoming \/ ExistingPayload \/ ResumePayload
    \/ StagePayload \/ StageIncoming \/ Publish \/ StageResult
    \/ InstallBegin \/ AlreadyInstalled \/ OpenPolicy \/ CreatePolicy
    \/ KeepPolicy \/ CreateMasks \/ DaemonReload \/ VerifyStartBlockers
    \/ RunDpkg \/ RemovePolicy \/ InstallResult
=============================================================================
