------------------------ MODULE RootlessDaemon_proofs ------------------------
(***************************************************************************)
(* Proofs about the chain of nine rootless Docker operations, for any      *)
(* number of packages, units, resources, restarts and accepted changes.    *)
(***************************************************************************)
EXTENDS RootlessDaemon, TLAPS

-----------------------------------------------------------------------------
(* The inductive invariant.                                                *)

Launchers == {"predecessor", "target"}
EvidenceRecords == [epoch : Nat, starts : Nat, managers : Nat]

Typed ==
    /\ {epoch, starts, managers, burst, staged, masks, placed} \subseteq Nat
    /\ staged =< Payloads /\ masks =< RootfulUnits /\ placed =< Resources
    /\ subids \in 0..2
    /\ {shipped, launcher, ran} \subseteq Launchers
    /\ launchTmp \in {"absent", "empty", "prefix", "exact"}
    /\ incoming \in {"absent", "exact"}
    /\ {partial, bundle, linger, link, seen} \subseteq BOOLEAN
    /\ policy \in {"absent", "partial", "exact"}
    /\ pkg \in {"absent", "partial", "installed"}
    /\ temp \in {"absent", "raw", "exact"}
    /\ manager \in {"inactive", "activating", "active"}
    /\ daemon \in {"inactive", "activating", "running", "failed"}
    /\ data \in {"initial", "managed"}
    /\ op \in Operations \cup {NoOp}
    /\ saw \in EvidenceRecords
    /\ {done.first, done.last} \subseteq EvidenceRecords

\* The bundle is published only complete, and never touched again.
BundleSound ==
    /\ partial => staged < Payloads
    /\ bundle => incoming = "absent" /\ staged = Payloads
    /\ op = "stage" /\ pc \in {"open", "payload", "download", "publish"} => ~bundle
    /\ At("stage", "download") => partial
    /\ At("stage", "publish") => staged = Payloads
    /\ op \in Operations \ {"stage"} => bundle

MasksInForce == masks = RootfulUnits /\ "masks" \notin stale

\* No package comes before all masks, and the policy goes only after the last.
PackageSound ==
    /\ ~bundle => policy = "absent" /\ masks = 0 /\ pkg = "absent"
    /\ policy = "partial" => masks = 0 /\ pkg = "absent"
    /\ policy = "absent" => (masks = 0 /\ pkg = "absent") \/ (masks = RootfulUnits /\ pkg = "installed")
    /\ pkg # "absent" => MasksInForce
    /\ op = "install" =>
        /\ pc = "initial" => masks = 0 /\ pkg = "absent"
        /\ pc = "policy" => policy = "partial"
        /\ pc \in {"masks", "blockers", "dpkg", "installed"} => policy = "exact"
        /\ pc = "dpkg" => MasksInForce
    /\ op \in Operations \ {"stage", "install"} => Installed

\* Each part of the host is made only on top of the one before it.
ChainSound ==
    /\ ~Installed => subids = 0
    /\ subids < 2 => placed = 0 /\ temp = "absent"
    /\ placed = Resources => temp = "absent"
    /\ placed < Resources => ~linger
    /\ ~linger => manager = "inactive"
    /\ manager = "inactive" => data = "initial"
    /\ manager # "active" => daemon = "inactive"
    /\ daemon = "running" => data = "managed"
    /\ link => data = "managed"
    /\ seen => link
    /\ link /\ ~seen /\ manager = "active" => daemon # "inactive"
    /\ launcher = "target" => shipped = "target"
    /\ ran = "target" => launcher = "target"

\* What the step of a running operation rests on.
StepSound ==
    /\ op = "static" /\ pc = "assets" => subids = 2
    /\ op = "static" /\ pc = "fill" => subids = 2 /\ placed < Resources
    /\ op = "manager" =>
        /\ placed = Resources /\ subids = 2
        /\ pc = "initial" => manager = "inactive"
        /\ pc = "resume" => linger
    /\ op \in {"launcher", "restart"} => shipped = "target"
    /\ op = "restart" => launcher = "target" /\ (starts > saw.starts => ran = "target")
    /\ op \in {"start", "restart"} /\ pc = "command" => manager = "active"
    /\ op = "enable" /\ pc = "command" => /\ manager = "active" /\ daemon # "inactive"
                                          /\ data = "managed"
    /\ op = "recycle" => linger /\ data = "managed"

\* Evidence of a running and of a finished operation is not ahead of the host.
EvidenceSound ==
    /\ op # NoOp => saw.starts =< starts /\ saw.managers =< managers
    /\ done.last.starts =< starts
    /\ EvidenceIsTrue

ChainInvariant ==
    /\ Typed /\ BundleSound /\ PackageSound /\ ChainSound /\ StepSound /\ EvidenceSound

\* Nothing above a part exists without it.
LEMMA ChainOrder ==
    ASSUME ChainInvariant, daemon # "inactive" \/ data = "managed" \/ linger
    PROVE  linger /\ placed = Resources /\ subids = 2 /\ temp = "absent" /\ Installed /\ bundle
BY RootlessAssumption
   DEF ChainInvariant, Typed, PackageSound, ChainSound, Installed

\* An operation takes the lock and its first look; the host is as it was.
LEMMA Begins ==
    ASSUME ChainInvariant, op = NoOp, op' \in Operations, saw' = Evidence, done' = Nothing,
           UNCHANGED <<outside, host>>,
           (BundleSound /\ PackageSound /\ StepSound)'
    PROVE  ChainInvariant'
<1>1. /\ UNCHANGED <<drift, epoch, stale, shipped, incoming, staged, partial, bundle>>
      /\ UNCHANGED <<policy, masks, pkg, subids, placed, temp, linger, manager, managers>>
      /\ UNCHANGED <<daemon, starts, ran, data, burst, launcher, launchTmp, link, seen>>
  BY DEF outside, host, bundleVars, packageVars, staticVars, managerVars, daemonVars,
         launcherVars, enableVars
<1>2. /\ {epoch, starts, managers} \subseteq Nat
      /\ saw'.starts = starts /\ saw'.managers = managers
      /\ saw' \in EvidenceRecords
  BY DEF ChainInvariant, Typed, Evidence, EvidenceRecords
<1>3. /\ {done'.first, done'.last} \subseteq EvidenceRecords
      /\ done'.op = NoOp /\ done'.last.starts = 0
  BY DEF Nothing, NoEvidence, EvidenceRecords
<1>4. Typed' /\ ChainSound'
  BY <1>1, <1>2, <1>3 DEF ChainInvariant, Typed, ChainSound, Installed
<1>5. EvidenceSound'
  <2>1. EvidenceIsTrue'
    BY <1>3 DEF EvidenceIsTrue, Compared, NoOp
  <2>2. starts \in Nat /\ managers \in Nat
    BY <1>2
  <2> QED BY <1>1, <1>2, <1>3, <2>1, <2>2 DEF EvidenceSound
<1> QED BY <1>4, <1>5 DEF ChainInvariant

\* An operation returns evidence: of one host, and of new processes where it
\* replaced them.
LEMMA Returns ==
    ASSUME ChainInvariant, op # NoOp, NEW result, Return(result),
           UNCHANGED <<outside, host>>,
           Compared(op, result) => saw.epoch = epoch,
           op \in {"restart", "recycle"} => saw.starts # starts,
           op = "recycle" => saw.managers # managers,
           op = "enable" => saw.starts = starts
    PROVE  ChainInvariant'
<1>1. /\ UNCHANGED <<drift, epoch, stale, shipped, incoming, staged, partial, bundle>>
      /\ UNCHANGED <<policy, masks, pkg, subids, placed, temp, linger, manager, managers>>
      /\ UNCHANGED <<daemon, starts, ran, data, burst, launcher, launchTmp, link, seen>>
  BY DEF outside, host, bundleVars, packageVars, staticVars, managerVars, daemonVars,
         launcherVars, enableVars
<1>2. /\ {epoch, starts, managers} \subseteq Nat /\ saw \in EvidenceRecords
      /\ op \in Operations
      /\ saw.starts =< starts /\ saw.managers =< managers
      /\ op = "restart" /\ starts > saw.starts => ran = "target"
  BY DEF ChainInvariant, Typed, EvidenceSound, StepSound
<1>3. /\ op' = NoOp /\ saw' \in EvidenceRecords
      /\ done'.op = op /\ done'.result = result /\ done'.first = saw /\ done'.last.starts = starts
      /\ done'.last.managers = managers /\ done'.last.epoch = epoch
      /\ done'.last \in EvidenceRecords
  BY <1>2 DEF Return, Evidence, NoEvidence, EvidenceRecords
<1>4. Typed' /\ ChainSound'
  BY <1>1, <1>3 DEF ChainInvariant, Typed, ChainSound, Installed
<1>5. BundleSound' /\ PackageSound' /\ StepSound'
  BY <1>1, <1>3 DEF ChainInvariant, BundleSound, PackageSound, StepSound, MasksInForce, Installed,
                    At, Operations, NoOp
<1>6. EvidenceSound'
  BY <1>1, <1>2, <1>3 DEF EvidenceSound, EvidenceIsTrue, Compared, EvidenceRecords
<1> QED BY <1>4, <1>5, <1>6 DEF ChainInvariant

-----------------------------------------------------------------------------
(* Staging and installing the packages.                                    *)

\* Everything but the bundle is as it was.
LEMMA StageSteps ==
    ASSUME ChainInvariant,
           \/ StageBegin \/ OpenIncoming \/ ExistingPayload \/ ResumePayload
           \/ StagePayload \/ StageIncoming \/ Publish \/ StageResult
    PROVE  ChainInvariant'
<1>1. CASE StageBegin
  <2>1. /\ op = NoOp /\ op' = "stage" /\ saw' = Evidence /\ done' = Nothing
        /\ UNCHANGED <<outside, host>>
        /\ pc' = (IF bundle THEN "result" ELSE "open")
    BY <1>1 DEF StageBegin, Begin
  <2>2. (BundleSound /\ PackageSound /\ StepSound)'
    BY <2>1 DEF ChainInvariant, BundleSound, PackageSound, StepSound, At, Operations, NoOp,
                MasksInForce, Installed, outside, host, bundleVars, packageVars, staticVars
  <2>3. op' \in Operations
    BY <2>1 DEF Operations
  <2> QED BY <2>1, <2>2, <2>3, Begins
<1>2. CASE StageResult
  <2>1. op = "stage" /\ Return("staged") /\ UNCHANGED <<outside, host>>
    BY <1>2 DEF StageResult, At, StageKeeps, host
  <2> QED BY <2>1, Returns DEF NoOp, Compared
<1> USE RootlessAssumption
    DEF ChainInvariant, Typed, BundleSound, PackageSound, ChainSound, StepSound, EvidenceSound,
        EvidenceIsTrue, MasksInForce, Installed, Operations, NoOp, At, Goto, StageKeeps,
        outside, packageVars, staticVars, managerVars, daemonVars, launcherVars, enableVars,
        bundleVars
<1>3. CASE OpenIncoming
  BY <1>3 DEF OpenIncoming
<1>4. CASE ExistingPayload
  BY <1>4 DEF ExistingPayload
<1>5. CASE ResumePayload
  BY <1>5 DEF ResumePayload
<1>6. CASE StagePayload
  <2>1. partial /\ staged < Payloads /\ staged + 1 =< Payloads /\ staged + 1 \in Nat
    BY <1>6 DEF StagePayload
  <2>2. Typed' /\ BundleSound'
    BY ZenonT(40), <1>6, <2>1 DEF StagePayload
  <2>3. PackageSound' /\ ChainSound' /\ StepSound' /\ EvidenceSound'
    BY <1>6 DEF StagePayload
  <2> QED BY <2>2, <2>3
<1>7. CASE StageIncoming
  BY <1>7 DEF StageIncoming
<1>8. CASE Publish
  BY <1>8 DEF Publish
<1> QED BY <1>1, <1>2, <1>3, <1>4, <1>5, <1>6, <1>7, <1>8

\* Policy first, then the masks, then the packages, then the policy away.
LEMMA InstallSteps ==
    ASSUME ChainInvariant,
           \/ InstallBegin \/ AlreadyInstalled \/ OpenPolicy \/ CreatePolicy
           \/ KeepPolicy \/ CreateMasks \/ DaemonReload \/ VerifyStartBlockers
           \/ RunDpkg \/ RemovePolicy \/ InstallResult
    PROVE  ChainInvariant'
<1>1. CASE InstallBegin
  <2>1. /\ op = NoOp /\ op' = "install" /\ saw' = Evidence /\ done' = Nothing
        /\ UNCHANGED <<outside, host>>
        /\ pc' = InstallPhase /\ bundle /\ policy # "partial"
    BY <1>1 DEF InstallBegin, Begin, InstallAdmits, PolicyReadable, QualifyStagedPreinstall,
                QualifyBundleAt, BundleChain
  <2>2. (BundleSound /\ PackageSound /\ StepSound)'
    BY <2>1 DEF ChainInvariant, BundleSound, PackageSound, StepSound, At, Operations, NoOp,
                MasksInForce, Installed, outside, host, bundleVars, packageVars, staticVars,
                InstallPhase
  <2>3. op' \in Operations
    BY <2>1 DEF Operations
  <2> QED BY <2>1, <2>2, <2>3, Begins
<1>2. CASE AlreadyInstalled
  <2>1. /\ op = "install" /\ Return("already-installed") /\ saw.epoch = epoch
        /\ UNCHANGED <<outside, host>>
    BY <1>2 DEF AlreadyInstalled, At, Unchanged, InstallKeeps, host
  <2> QED BY <2>1, Returns DEF NoOp
<1>3. CASE InstallResult
  <2>1. /\ op = "install" /\ Return("installed") /\ saw.epoch = epoch
        /\ UNCHANGED <<outside, host>>
    BY <1>3 DEF InstallResult, At, Unchanged, InstallKeeps, host
  <2> QED BY <2>1, Returns DEF NoOp
<1> USE RootlessAssumption
    DEF ChainInvariant, Typed, BundleSound, PackageSound, ChainSound, StepSound, EvidenceSound,
        EvidenceIsTrue, MasksInForce, Installed, Operations, NoOp, At, Goto, InstallKeeps,
        outside, packageVars, staticVars, managerVars, daemonVars, launcherVars, enableVars,
        bundleVars
<1>4. CASE OpenPolicy
  BY <1>4 DEF OpenPolicy
<1>5. CASE CreatePolicy
  BY <1>5 DEF CreatePolicy
<1>6. CASE KeepPolicy
  BY <1>6 DEF KeepPolicy
<1>7. CASE CreateMasks
  BY <1>7 DEF CreateMasks, RequirePackageAbsent
<1>8. CASE DaemonReload
  BY <1>8 DEF DaemonReload
<1>9. CASE VerifyStartBlockers
  BY <1>9 DEF VerifyStartBlockers, RequireMasksEffective, RequireRootfulMasks, AllInstalled
<1>10. CASE RunDpkg
  BY <1>10 DEF RunDpkg
<1>11. CASE RemovePolicy
  BY <1>11 DEF RemovePolicy, AllInstalled, RequireMasksEffective, RequireRootfulMasks
<1> QED BY <1>1, <1>2, <1>3, <1>4, <1>5, <1>6, <1>7, <1>8, <1>9, <1>10, <1>11

-----------------------------------------------------------------------------
(* The static bootstrap and the user manager.                              *)

LEMMA StaticSteps ==
    ASSUME ChainInvariant,
           \/ StaticBegin \/ EnsureSubids \/ EnsureDirectory \/ EnsureFile
           \/ RenameNoReplace \/ InstallStaticAssets \/ StaticResult
    PROVE  ChainInvariant'
<1>1. CASE StaticBegin
  <2>1. /\ op = NoOp /\ op' = "static" /\ saw' = Evidence /\ done' = Nothing
        /\ UNCHANGED <<outside, host>>
        /\ pc' \in {"verify", "subids"}
        /\ bundle /\ Installed
    BY <1>1 DEF StaticBegin, Begin, StaticAdmits, QualifyPostinstall, StaticPackageHost,
                RequirePackageHost, InstalledHost, RequirePackage, RequireRootfulMasked,
                RequireRootfulMasks, QualifyBundleAt, BundleChain, Installed
  <2>2. (BundleSound /\ PackageSound /\ StepSound)'
    BY <2>1 DEF ChainInvariant, BundleSound, PackageSound, StepSound, At, Operations, NoOp,
                MasksInForce, Installed, outside, host, bundleVars, packageVars, staticVars
  <2>3. op' \in Operations
    BY <2>1 DEF Operations
  <2> QED BY <2>1, <2>2, <2>3, Begins
<1>2. CASE StaticResult
  <2>1. /\ op = "static" /\ Return("bootstrapped") /\ saw.epoch = epoch
        /\ UNCHANGED <<outside, host>>
    BY <1>2 DEF StaticResult, At, Unchanged, StaticKeeps, host, launcherVars
  <2> QED BY <2>1, Returns DEF NoOp
<1> USE RootlessAssumption
    DEF ChainInvariant, Typed, BundleSound, PackageSound, ChainSound, StepSound, EvidenceSound,
        EvidenceIsTrue, MasksInForce, Installed, Operations, NoOp, At, Goto, StaticKeeps,
        outside, packageVars, staticVars, managerVars, daemonVars, launcherVars, enableVars,
        bundleVars
<1>3. CASE EnsureSubids
  BY <1>3 DEF EnsureSubids
<1>4. CASE EnsureDirectory
  BY <1>4 DEF EnsureDirectory
<1>5. CASE EnsureFile
  BY <1>5 DEF EnsureFile
<1>6. CASE RenameNoReplace
  BY <1>6 DEF RenameNoReplace
<1>7. CASE InstallStaticAssets
  BY <1>7 DEF InstallStaticAssets
<1> QED BY <1>1, <1>2, <1>3, <1>4, <1>5, <1>6, <1>7

LEMMA ManagerSteps ==
    ASSUME ChainInvariant, ManagerBegin \/ EnableLinger \/ StartUserManager \/ ManagerResult
    PROVE  ChainInvariant'
<1>1. CASE ManagerBegin
  <2>1. /\ op = NoOp /\ op' = "manager" /\ saw' = Evidence /\ done' = Nothing
        /\ UNCHANGED <<outside, host>>
        /\ bundle /\ Installed /\ placed = Resources /\ subids = 2 /\ pc' = ManagerPhase
    BY <1>1 DEF ManagerBegin, Begin, ManagerAdmits, QualifyStaticBootstrap, StaticState,
                StaticBootstrapEvidence, ManagedPackageHost, RequireRootlessInactive,
                RequirePackageHost, InstalledHost, RequirePackage, RequireRootfulMasked,
                RequireRootfulMasks, QualifyBundleAt, BundleChain, Installed, RequireSubids,
                RequireStaticAssets, RequireDirectory
  <2>2. (BundleSound /\ PackageSound /\ StepSound)'
    BY <2>1 DEF ChainInvariant, BundleSound, PackageSound, StepSound, At, Operations, NoOp,
                MasksInForce, Installed, outside, host, bundleVars, packageVars, staticVars,
                managerVars, ManagerPhase
  <2>3. op' \in Operations
    BY <2>1 DEF Operations
  <2> QED BY <2>1, <2>2, <2>3, Begins
<1>2. CASE ManagerResult
  <2>1. /\ op = "manager" /\ Return("bootstrapped") /\ saw.epoch = epoch
        /\ UNCHANGED <<outside, host>>
    BY <1>2 DEF ManagerResult, At, Unchanged, ManagerKeeps, host
  <2> QED BY <2>1, Returns DEF NoOp
<1> USE RootlessAssumption
    DEF ChainInvariant, Typed, BundleSound, PackageSound, ChainSound, StepSound, EvidenceSound,
        EvidenceIsTrue, MasksInForce, Installed, Operations, NoOp, At, Goto, ManagerKeeps,
        outside, packageVars, staticVars, managerVars, daemonVars, launcherVars, enableVars,
        bundleVars
<1>3. CASE EnableLinger
  BY <1>3 DEF EnableLinger
<1>4. CASE StartUserManager
  BY <1>4 DEF StartUserManager
<1> QED BY <1>1, <1>2, <1>3, <1>4

-----------------------------------------------------------------------------
(* The daemon, its launcher and its enablement.                            *)

LEMMA StartSteps ==
    ASSUME ChainInvariant, StartBegin \/ StartCommand \/ StartResult \/ AlreadyStarted
    PROVE  ChainInvariant'
<1>1. CASE StartBegin
  <2>1. /\ op = NoOp /\ op' = "start" /\ saw' = Evidence /\ done' = Nothing
        /\ UNCHANGED <<outside, host>>
        /\ pc' = (IF daemon = "inactive" THEN "command" ELSE "found")
    BY <1>1 DEF StartBegin, Begin
  <2>2. daemon = "inactive" => linger /\ manager = "active"
    BY <1>1 DEF StartBegin, StartAdmits, QualifyUserManager, ManagerEvidence, LingerEvidence,
                RequireUserManager
  <2>3. Installed /\ bundle
    BY <2>2, ChainOrder
  <2>4. (BundleSound /\ PackageSound /\ StepSound)'
    BY <2>1, <2>2, <2>3
       DEF ChainInvariant, BundleSound, PackageSound, StepSound, At, Operations, NoOp,
           MasksInForce, Installed, outside, host, bundleVars, packageVars, staticVars, managerVars
  <2>5. op' \in Operations
    BY <2>1 DEF Operations
  <2> QED BY <2>1, <2>4, <2>5, Begins
<1>2. CASE StartResult
  <2>1. /\ op = "start" /\ Return("started") /\ saw.epoch = epoch
        /\ UNCHANGED <<outside, host>>
    BY <1>2 DEF StartResult, At, Unchanged, DaemonKeeps, host
  <2> QED BY <2>1, Returns DEF NoOp
<1>3. CASE AlreadyStarted
  <2>1. op = "start" /\ Return("already-started") /\ UNCHANGED <<outside, host>>
    BY <1>3 DEF AlreadyStarted, At, DaemonKeeps, host
  <2> QED BY <2>1, Returns DEF NoOp, Compared
<1>4. CASE StartCommand
  BY <1>4, RootlessAssumption
     DEF StartCommand, Launch, StartLimitBurst, ChainInvariant, Typed, BundleSound, PackageSound, ChainSound, StepSound,
         EvidenceSound, EvidenceIsTrue, MasksInForce, Installed, Operations, NoOp, At, Goto,
         DaemonKeeps, outside, packageVars, staticVars, managerVars, daemonVars, launcherVars,
         enableVars, bundleVars
<1> QED BY <1>1, <1>2, <1>3, <1>4

LEMMA LauncherSteps ==
    ASSUME ChainInvariant,
           \/ LauncherBegin \/ CreateTemporary \/ WriteAll \/ ReplaceLauncher
           \/ RemoveTemporary \/ LauncherResult
    PROVE  ChainInvariant'
<1>1. CASE LauncherBegin
  <2>1. /\ op = NoOp /\ op' = "launcher" /\ saw' = Evidence /\ done' = Nothing
        /\ UNCHANGED <<outside, host>>
        /\ shipped = "target" /\ daemon = "running"
    BY <1>1 DEF LauncherBegin, Begin, LauncherAdmits, RestartCandidate, LauncherStaticLive
  <2>2. Installed /\ bundle
    BY <2>1, ChainOrder
  <2>3. (BundleSound /\ PackageSound /\ StepSound)'
    BY <2>1, <2>2
       DEF ChainInvariant, BundleSound, PackageSound, StepSound, At, Operations, NoOp,
           MasksInForce, Installed, outside, host, bundleVars, packageVars, staticVars
  <2>4. op' \in Operations
    BY <2>1 DEF Operations
  <2> QED BY <2>1, <2>3, <2>4, Begins
<1>2. CASE LauncherResult
  <2>1. op = "launcher" /\ Return("replaced") /\ UNCHANGED <<outside, host>>
    BY <1>2 DEF LauncherResult, At, LauncherKeeps, DaemonKeeps, host
  <2> QED BY <2>1, Returns DEF NoOp, Compared
<1> USE RootlessAssumption
    DEF ChainInvariant, Typed, BundleSound, PackageSound, ChainSound, StepSound, EvidenceSound,
        EvidenceIsTrue, MasksInForce, Installed, Operations, NoOp, At, Goto, LauncherKeeps,
        DaemonKeeps, outside, packageVars, staticVars, managerVars, daemonVars, launcherVars,
        enableVars, bundleVars
<1>3. CASE CreateTemporary
  BY <1>3 DEF CreateTemporary
<1>4. CASE WriteAll
  BY <1>4 DEF WriteAll
<1>5. CASE ReplaceLauncher
  BY <1>5 DEF ReplaceLauncher, Launchers
<1>6. CASE RemoveTemporary
  BY <1>6 DEF RemoveTemporary
<1> QED BY <1>1, <1>2, <1>3, <1>4, <1>5, <1>6

\* Every daemon started while a restart runs is started by the new launcher.
LEMMA RestartSteps ==
    ASSUME ChainInvariant, RestartBegin \/ RunRestart \/ RestartResult
    PROVE  ChainInvariant'
<1>1. CASE RestartBegin
  <2>1. /\ op = NoOp /\ op' = "restart" /\ saw' = Evidence /\ done' = Nothing
        /\ UNCHANGED <<outside, host>>
        /\ shipped = "target" /\ launcher = "target" /\ daemon = "running" /\ manager = "active"
    BY <1>1 DEF RestartBegin, Begin, RestartPreflight, RestartCandidate, LauncherStaticLive,
                InstalledLauncher, RuntimeDirectory
  <2>2. Installed /\ bundle
    BY <2>1, ChainOrder
  <2>3. saw'.starts = starts' /\ starts' \in Nat
    BY <2>1 DEF Evidence, host, daemonVars, ChainInvariant, Typed
  <2>4. (BundleSound /\ PackageSound /\ StepSound)'
    BY <2>1, <2>2, <2>3
       DEF ChainInvariant, BundleSound, PackageSound, StepSound, At, Operations, NoOp,
           MasksInForce, Installed, outside, host, bundleVars, packageVars, staticVars,
           managerVars, launcherVars
  <2>5. op' \in Operations
    BY <2>1 DEF Operations
  <2> QED BY <2>1, <2>4, <2>5, Begins
<1>2. CASE RestartResult
  <2>1. /\ op = "restart" /\ Return("restarted") /\ saw.epoch = epoch /\ saw.starts # starts
        /\ UNCHANGED <<outside, host>>
    BY <1>2 DEF RestartResult, At, Unchanged, DaemonKeeps, host
  <2> QED BY <2>1, Returns DEF NoOp
<1>3. CASE RunRestart
  BY <1>3, RootlessAssumption
     DEF RunRestart, Launch, StartLimitBurst, ChainInvariant, Typed, BundleSound, PackageSound, ChainSound, StepSound,
         EvidenceSound, EvidenceIsTrue, MasksInForce, Installed, Operations, NoOp, At, Goto,
         DaemonKeeps, outside, packageVars, staticVars, managerVars, daemonVars, launcherVars,
         enableVars, bundleVars
<1> QED BY <1>1, <1>2, <1>3

LEMMA EnableSteps ==
    ASSUME ChainInvariant, EnableBegin \/ RunEnable \/ EnableResult
    PROVE  ChainInvariant'
<1>1. CASE EnableBegin
  <2>1. /\ op = NoOp /\ op' = "enable" /\ saw' = Evidence /\ done' = Nothing
        /\ UNCHANGED <<outside, host>>
        /\ manager = "active" /\ daemon = "running" /\ data = "managed"
    BY <1>1 DEF EnableBegin, Begin, QualifyDaemon, QualifyOnceWithUserUnit, UserManagerEvidence,
                DaemonEvidence, ProcessEvidence, DockerInfoEvidence
  <2>2. Installed /\ bundle
    BY <2>1, ChainOrder
  <2>3. (BundleSound /\ PackageSound /\ StepSound)'
    BY <2>1, <2>2
       DEF ChainInvariant, BundleSound, PackageSound, StepSound, At, Operations, NoOp,
           MasksInForce, Installed, outside, host, bundleVars, packageVars, staticVars,
           managerVars, daemonVars
  <2>4. op' \in Operations
    BY <2>1 DEF Operations
  <2> QED BY <2>1, <2>3, <2>4, Begins
<1>2. CASE EnableResult
  <2>1. /\ op = "enable" /\ Return("enabled") /\ saw.epoch = epoch /\ saw.starts = starts
        /\ UNCHANGED <<outside, host>>
    BY <1>2 DEF EnableResult, At, Unchanged, DaemonKeeps, host
  <2> QED BY <2>1, Returns DEF NoOp
<1>3. CASE RunEnable
  BY <1>3, RootlessAssumption
     DEF RunEnable, ChainInvariant, Typed, BundleSound, PackageSound, ChainSound, StepSound,
         EvidenceSound, EvidenceIsTrue, MasksInForce, Installed, Operations, NoOp, At, Goto,
         DaemonKeeps, outside, packageVars, staticVars, managerVars, daemonVars, launcherVars,
         enableVars, bundleVars
<1> QED BY <1>1, <1>2, <1>3

LEMMA RecycleSteps ==
    ASSUME ChainInvariant, RecycleBegin \/ RunUserManagerRestart \/ RecycleResult
    PROVE  ChainInvariant'
<1>1. CASE RecycleBegin
  <2>1. /\ op = NoOp /\ op' = "recycle" /\ saw' = Evidence /\ done' = Nothing
        /\ UNCHANGED <<outside, host>>
        /\ linger /\ data = "managed"
    BY <1>1 DEF RecycleBegin, Begin, LifecycleOnce, LifecycleEvidence, ManagerState,
                DockerInfoEvidence
  <2>2. Installed /\ bundle
    BY <2>1, ChainOrder
  <2>3. (BundleSound /\ PackageSound /\ StepSound)'
    BY <2>1, <2>2
       DEF ChainInvariant, BundleSound, PackageSound, StepSound, At, Operations, NoOp,
           MasksInForce, Installed, outside, host, bundleVars, packageVars, staticVars,
           managerVars, daemonVars
  <2>4. op' \in Operations
    BY <2>1 DEF Operations
  <2> QED BY <2>1, <2>3, <2>4, Begins
<1>2. CASE RecycleResult
  <2>1. /\ op = "recycle" /\ Return("recycled") /\ saw.starts # starts
        /\ saw.managers # managers /\ UNCHANGED <<outside, host>>
    BY <1>2 DEF RecycleResult, At, DaemonKeeps, host
  <2> QED BY <2>1, Returns DEF NoOp, Compared
<1>3. CASE RunUserManagerRestart
  BY <1>3, RootlessAssumption
     DEF RunUserManagerRestart, ChainInvariant, Typed, BundleSound, PackageSound, ChainSound,
         StepSound, EvidenceSound, EvidenceIsTrue, MasksInForce, Installed, Operations, NoOp, At,
         Goto, DaemonKeeps, outside, packageVars, staticVars, managerVars, daemonVars,
         launcherVars, enableVars, bundleVars
<1> QED BY <1>1, <1>2, <1>3

-----------------------------------------------------------------------------
(* What happens around the operations.                                     *)

\* A stopped operation leaves the host where the next one finds it.
LEMMA StopStep ==
    ASSUME ChainInvariant, Stop
    PROVE  ChainInvariant'
<1>1. /\ UNCHANGED <<drift, epoch, stale, shipped, incoming, staged, partial, bundle>>
      /\ UNCHANGED <<policy, masks, pkg, subids, placed, temp, linger, manager, managers>>
      /\ UNCHANGED <<daemon, starts, ran, data, burst, launcher, launchTmp, link, seen>>
  BY DEF Stop, outside, host, bundleVars, packageVars, staticVars, managerVars, daemonVars,
         launcherVars, enableVars
<1>2. /\ op' = NoOp /\ saw' \in EvidenceRecords
      /\ {done'.first, done'.last} \subseteq EvidenceRecords
      /\ done'.op = NoOp /\ done'.last.starts = 0 /\ starts \in Nat
  BY DEF Stop, Nothing, NoEvidence, EvidenceRecords, ChainInvariant, Typed
<1>3. Typed' /\ ChainSound'
  BY <1>1, <1>2 DEF ChainInvariant, Typed, ChainSound, Installed
<1>4. BundleSound' /\ PackageSound' /\ StepSound'
  BY <1>1, <1>2 DEF ChainInvariant, BundleSound, PackageSound, StepSound, MasksInForce, Installed,
                    At, Operations, NoOp
<1>5. EvidenceSound'
  BY <1>1, <1>2 DEF EvidenceSound, EvidenceIsTrue, Compared, NoOp
<1> QED BY <1>3, <1>4, <1>5 DEF ChainInvariant

\* A reboot between two operations: all that runs is started again or gone.
LEMMA RebootStep ==
    ASSUME ChainInvariant, Reboot
    PROVE  ChainInvariant'
<1>1. /\ op = NoOp /\ daemon' = "inactive" /\ burst' = 0 /\ seen' = FALSE /\ stale' = {}
      /\ manager' = (IF linger THEN "activating" ELSE "inactive")
      /\ UNCHANGED <<drift, epoch, shipped, incoming, staged, partial, bundle, policy, masks, pkg>>
      /\ UNCHANGED <<subids, placed, temp, linger, managers, link, starts, ran, data, launcher>>
      /\ UNCHANGED <<launchTmp, op, pc, saw, done>>
  BY DEF Reboot, bundleVars, packageVars, staticVars, launcherVars, control
<1>2. Typed'
  <2>1. burst' \in Nat
    BY <1>1
  <2> QED BY <1>1, <2>1, Zenon DEF ChainInvariant, Typed
<1>3. ChainSound'
  BY <1>1 DEF ChainInvariant, Typed, ChainSound, Installed
<1>4. BundleSound' /\ PackageSound' /\ StepSound'
  BY <1>1 DEF ChainInvariant, BundleSound, PackageSound, StepSound, MasksInForce, Installed, At,
              NoOp, Operations
<1>5. EvidenceSound'
  BY <1>1 DEF ChainInvariant, EvidenceSound, EvidenceIsTrue
<1> QED BY <1>2, <1>3, <1>4, <1>5 DEF ChainInvariant

LEMMA SystemdSteps ==
    ASSUME ChainInvariant, ManagerUp \/ DaemonUp \/ DaemonCrash \/ IntervalEnds \/ Reboot
    PROVE  ChainInvariant'
<1> USE RootlessAssumption
    DEF ChainInvariant, Typed, BundleSound, PackageSound, ChainSound, StepSound, EvidenceSound,
        EvidenceIsTrue, MasksInForce, Installed, Operations, NoOp, At, outside, packageVars,
        staticVars, managerVars, daemonVars, launcherVars, enableVars, bundleVars, control
<1>1. CASE ManagerUp
  BY <1>1 DEF ManagerUp, EvidenceRecords
<1>2. CASE DaemonUp
  <2>1. starts \in Nat /\ starts' = starts + 1 /\ saw.starts \in Nat /\ done.last.starts \in Nat
    BY <1>2 DEF DaemonUp, EvidenceRecords
  <2>2. Typed' /\ BundleSound' /\ PackageSound' /\ ChainSound'
    BY <1>2, <2>1 DEF DaemonUp, LauncherMain, RuntimeDirectory
  <2>3. StepSound'
    BY <1>2, <2>1 DEF DaemonUp
  <2>4. EvidenceSound'
    BY <1>2, <2>1 DEF DaemonUp
  <2> QED BY <2>2, <2>3, <2>4
<1>3. CASE DaemonCrash
  BY <1>3 DEF DaemonCrash, Launch, StartLimitBurst
<1>4. CASE IntervalEnds
  BY <1>4 DEF IntervalEnds
<1>5. CASE Reboot
  BY <1>5, RebootStep
<1> QED BY <1>1, <1>2, <1>3, <1>4, <1>5

LEMMA OutsideSteps ==
    ASSUME ChainInvariant, Drifts \/ Repaired \/ Upgraded \/ Reread \/ Ships
    PROVE  ChainInvariant'
<1> USE RootlessAssumption
    DEF ChainInvariant, Typed, BundleSound, PackageSound, ChainSound, StepSound, EvidenceSound,
        EvidenceIsTrue, MasksInForce, Installed, Operations, NoOp, At, host, packageVars,
        staticVars, managerVars, daemonVars, launcherVars, enableVars, bundleVars, control
<1>1. CASE Drifts
  BY <1>1 DEF Drifts
<1>2. CASE Repaired
  BY <1>2 DEF Repaired
<1>3. CASE Upgraded
  BY <1>3 DEF Upgraded
<1>4. CASE Reread
  BY <1>4 DEF Reread
<1>5. CASE Ships
  BY <1>5 DEF Ships, Launchers
<1> QED BY <1>1, <1>2, <1>3, <1>4, <1>5

-----------------------------------------------------------------------------
(* The invariant, and what follows from it.                                *)

LEMMA InitChain == RootlessInit => ChainInvariant
<1> SUFFICES ASSUME RootlessInit PROVE ChainInvariant
  OBVIOUS
<1>1. Typed
  <2>1. saw \in EvidenceRecords /\ {done.first, done.last} \subseteq EvidenceRecords
    BY DEF RootlessInit, NoEvidence, Nothing, EvidenceRecords
  <2>2. /\ {epoch, starts, managers, burst, staged, masks, placed} \subseteq Nat
        /\ staged =< Payloads /\ masks =< RootfulUnits /\ placed =< Resources
        /\ subids \in 0..2 /\ op \in Operations \cup {NoOp}
        /\ {shipped, launcher, ran} \subseteq Launchers
    BY RootlessAssumption DEF RootlessInit, Launchers
  <2>3. {partial, bundle, linger, link, seen} \subseteq BOOLEAN
    BY DEF RootlessInit
  <2> QED BY <2>1, <2>2, <2>3 DEF RootlessInit, Typed
<1>2. BundleSound /\ PackageSound /\ ChainSound /\ StepSound
  BY RootlessAssumption
     DEF RootlessInit, BundleSound, PackageSound, ChainSound, StepSound, Installed, At,
         Operations, NoOp
<1>3. EvidenceSound
  BY DEF RootlessInit, EvidenceSound, EvidenceIsTrue, Compared, NoOp, Nothing, NoEvidence
<1> QED BY <1>1, <1>2, <1>3 DEF ChainInvariant

LEMMA NextChain ==
    ASSUME ChainInvariant, [RootlessNext]_rootlessVars
    PROVE  ChainInvariant'
<1>1. CASE InstallNext
  BY <1>1, StageSteps, InstallSteps DEF InstallNext
<1>2. CASE BootstrapNext
  BY <1>2, StaticSteps, ManagerSteps DEF BootstrapNext
<1>3. CASE DaemonNext
  BY <1>3, StartSteps, LauncherSteps, RestartSteps, EnableSteps, RecycleSteps DEF DaemonNext
<1>4. CASE Stop
  BY <1>4, StopStep
<1>5. CASE Systemd
  BY <1>5, SystemdSteps DEF Systemd
<1>6. CASE Surroundings
  BY <1>6, SystemdSteps, OutsideSteps DEF Surroundings
<1>7. CASE UNCHANGED rootlessVars
  BY <1>7 DEF rootlessVars, outside, host, control, bundleVars, packageVars, staticVars,
              managerVars, daemonVars, launcherVars, enableVars, ChainInvariant, Typed,
              BundleSound, PackageSound, ChainSound, StepSound, EvidenceSound, EvidenceIsTrue,
              MasksInForce, Installed, At
<1> QED BY <1>1, <1>2, <1>3, <1>4, <1>5, <1>6, <1>7 DEF RootlessNext

\* However often operations are killed, resumed and repeated, and whenever the
\* host reboots or changes under them, each part of the rootless installation
\* stands on the parts before it.
THEOREM ChainIsInductive == RootlessSpec => []ChainInvariant
BY InitChain, NextChain, PTL DEF RootlessSpec

\* From the first unpacked package on, all rootful units are masked and systemd
\* has read the masks, or policy-rc.d refuses every start.
THEOREM RootfulDaemonNeverStarts == RootlessSpec => []RootfulNeverStarts
<1>1. ChainInvariant => RootfulNeverStarts
  BY RootlessAssumption
     DEF ChainInvariant, Typed, PackageSound, MasksInForce, RootfulNeverStarts, RootfulStartable
<1> QED BY <1>1, ChainIsInductive, PTL

\* Whatever an operation returned is true of one host and of the processes it
\* says it replaced or kept.
THEOREM ReturnedEvidenceIsTrue == RootlessSpec => []EvidenceIsTrue
<1>1. ChainInvariant => EvidenceIsTrue
  BY DEF ChainInvariant, EvidenceSound
<1> QED BY <1>1, ChainIsInductive, PTL

\* The preflights and the effects of the operations fit together: on a quiet
\* host that is in none of the named dead ends the next operation is admitted.
THEOREM ChainGoesOn == RootlessSpec => []NoOtherDeadEnd
<1>1. ChainInvariant => NoOtherDeadEnd
  <2> SUFFICES ASSUME ChainInvariant, Quiet, ~DeadEnd
               PROVE  Admitted(NextOperation)
    BY DEF NoOtherDeadEnd
  <2>1. \A f \in Facts : Holds(f)
    BY DEF Quiet, Holds
  <2>2. /\ HostFacts /\ RequireConflictsAbsent /\ RequireNoShadowing
        /\ RequireUserManagerTemplateDropins /\ DeploymentUnitsInactive
        /\ Holds("subid_overlap") /\ Holds("executables") /\ Holds("rootful_runtime")
    BY <2>1 DEF Facts, HostFacts, RequireConflictsAbsent, RequireNoShadowing,
                RequireUserManagerTemplateDropins, DeploymentUnitsInactive,
                RequireExecutorIdentity, RequireHostDependency, RequireKernelPrerequisites
  <2>3. /\ manager \in {"inactive", "active"} /\ daemon \in {"inactive", "running"}
        /\ placed = Resources => "dropins" \notin stale
    BY DEF Quiet, DeadEnd, ChainInvariant, Typed
  <2>4. CASE ~bundle
    <3>1. /\ NextOperation = "stage" /\ policy = "absent" /\ masks = 0 /\ pkg = "absent"
          /\ ~Installed
      BY <2>4 DEF NextOperation, ChainInvariant, PackageSound, Installed
    <3>2. daemon = "inactive" /\ manager = "inactive" /\ subids = 0
      BY <3>1, <2>4, ChainOrder DEF ChainInvariant, Typed, ChainSound
    <3> QED BY <2>2, <2>4, <3>1, <3>2
        DEF Admitted, StageAdmits, QualifyPreinstall, RequireFinalBundleAbsent, QualifyHost,
            RequirePackageAbsent, RequireRootfulRuntimeAbsent, RuntimePresent, RuntimeDirectory,
            RequireSubidAuthority
  <2>5. CASE bundle /\ ~Installed
    <3>1. NextOperation = "install" /\ policy # "partial" /\ QualifyBundleAt /\ incoming = "absent"
      BY <2>5, RootlessAssumption
         DEF NextOperation, DeadEnd, ChainInvariant, Typed, BundleSound, QualifyBundleAt,
             BundleChain, BundleFiles
    <3>2. daemon = "inactive" /\ manager = "inactive" /\ subids = 0
      BY <2>5, ChainOrder DEF ChainInvariant, Typed, ChainSound
    <3>3. InstallPhase # "error"
      BY <3>1, RootlessAssumption
         DEF InstallPhase, ChainInvariant, Typed, PackageSound, MasksInForce, AllInstalled
    <3>4. InstallPhase = "initial" => policy = "absent" /\ masks = 0 /\ pkg = "absent"
      BY DEF InstallPhase
    <3> QED BY <2>2, <2>5, <3>1, <3>2, <3>3, <3>4
        DEF Admitted, InstallAdmits, PolicyReadable, QualifyStagedPreinstall, QualifyHost,
            RequirePackageAbsent, RequireRootfulRuntimeAbsent, RuntimePresent, RuntimeDirectory,
            RequireSubidAuthority, QualifyStaticHost, RequireNoRuntime
  <2>6. ASSUME bundle, Installed
        PROVE  /\ InstalledHost /\ RequireRootfulMasks
               /\ policy = "absent" /\ incoming = "absent"
    BY <2>2, <2>3, <2>6, RootlessAssumption
       DEF ChainInvariant, Typed, BundleSound, PackageSound, InstalledHost, RequirePackage,
           RequireCriticalExecutables, QualifyBundleAt, BundleChain, BundleFiles,
           RequireRootfulMasks, MasksInForce, Installed
  <2>7. CASE bundle /\ Installed /\ ~(subids = 2 /\ placed = Resources)
    <3>1. NextOperation = "static"
      BY <2>7 DEF NextOperation
    <3>2. daemon = "inactive" /\ manager = "inactive" /\ data = "initial" /\ ~link
      BY <2>7, ChainOrder DEF ChainInvariant, Typed, ChainSound
    <3>3. FileState
      BY <2>7, <3>2 DEF FileState, DeadEnd
    <3>4. StaticPhase = "initial" => subids = 0
      BY DEF StaticPhase
    <3> QED BY <2>2, <2>6, <2>7, <3>1, <3>2, <3>3, <3>4
        DEF Admitted, StaticAdmits, BootstrapState, SubidState, RequireInactiveControlPlane,
            QualifyPostinstall, RequireRootfulMasked, RuntimePresent, RuntimeDirectory,
            RequireSubidAuthority, StaticPackageHost, RequirePackageHost
  <2>8. CASE bundle /\ Installed /\ subids = 2 /\ placed = Resources /\ manager = "inactive"
    <3>1. NextOperation = "manager"
      BY <2>8 DEF NextOperation
    <3>2. daemon = "inactive" /\ data = "initial" /\ ~link /\ temp = "absent"
      BY <2>8 DEF ChainInvariant, Typed, ChainSound
    <3>3. launcher = shipped
      BY <2>8, <3>2 DEF DeadEnd
    <3>4. ManagerPhase # "error" /\ (ManagerPhase = "initial" => ~linger)
      BY <2>8 DEF ManagerPhase, ChainInvariant, Typed
    <3> QED BY <2>2, <2>3, <2>6, <2>8, <3>1, <3>2, <3>3, <3>4
        DEF Admitted, ManagerAdmits, QualifyStaticBootstrap, RequirePackageHost,
            RequireRootfulMasked, RuntimePresent, RuntimeDirectory, RequireInertSystemd,
            DropinsVisible, StaticBootstrapEvidence, RequireSubids, RequireStaticAssets,
            RequireDirectory, RequireFile, StaticState, ManagedPackageHost,
            RequireRootlessInactive
  <2>9. CASE /\ bundle /\ Installed /\ subids = 2 /\ placed = Resources /\ manager = "active"
             /\ data = "initial"
    <3>1. NextOperation = "start"
      BY <2>9 DEF NextOperation
    <3>2. daemon = "inactive" /\ ~link /\ ~seen /\ linger /\ temp = "absent"
      BY <2>3, <2>9 DEF ChainInvariant, Typed, ChainSound
    <3>3. launcher = shipped
      BY <2>9, <3>2 DEF DeadEnd
    <3> QED BY <2>2, <2>3, <2>6, <2>9, <3>1, <3>2, <3>3
        DEF Admitted, StartAdmits, QualifyUserManager, ManagedPackageHost,
            RequireRootlessInactive, RuntimePresent, ManagerEvidence, StaticBootstrapEvidence,
            RequireSubids, RequireStaticAssets, RequireDirectory, RequireFile, DropinsVisible,
            LingerEvidence, RuntimeEvidence, RuntimeDirectory, RequireUserManager
  <2>10. ASSUME bundle, Installed, subids = 2, placed = Resources, manager = "active",
                data = "managed", daemon = "running", launcher = shipped, NEW unit, unit
         PROVE  QualifyOnceWithUserUnit(unit)
    <3>1. linger /\ temp = "absent"
      BY <2>10, ChainOrder
    <3> QED BY <2>2, <2>3, <2>6, <2>10, <3>1
        DEF QualifyOnceWithUserUnit, DaemonPackageHost, RequirePostDaemonStaticAssets,
            RequirePostDaemonDataRoot, UserManagerEvidence, LingerEvidence, RuntimeEvidence,
            RuntimeDirectory, DaemonEvidence, RequireSubids, DropinsVisible, ProcessEvidence,
            SocketEvidence, DockerInfoEvidence
  <2>11. CASE /\ bundle /\ Installed /\ subids = 2 /\ placed = Resources /\ manager = "active"
              /\ data = "managed" /\ ~link
    <3>1. daemon = "running" /\ ~seen
      BY <2>3, <2>11 DEF DeadEnd, ChainInvariant, Typed, ChainSound
    <3>2. ASSUME shipped = "target" PROVE RestartCandidate
      BY <2>11, <3>1, <3>2
         DEF RestartCandidate, LauncherStaticLive, RuntimeDirectory, RestartUnitPolicy,
             RuntimePrincipalAndEnvironment, UserUnitEvidence, ProcessEvidence
    <3>3. ASSUME launcher = shipped PROVE QualifyDaemon
      BY <2>10, <2>11, <3>1, <3>3 DEF QualifyDaemon, UserUnitEvidence
    <3>4. CASE launcher # shipped
      <4>1. shipped = "target" /\ launcher = "predecessor" /\ NextOperation = "launcher"
        BY <2>11, <3>4 DEF ChainInvariant, Typed, Launchers, ChainSound, NextOperation
      <4>2. TemporaryState # "error"
        BY DEF DeadEnd, TemporaryState, ChainInvariant, Typed
      <4>3. LauncherAdmits
        BY <3>2, <4>1, <4>2 DEF LauncherAdmits
      <4> QED BY <4>1, <4>3 DEF Admitted
    <3>5. CASE launcher = shipped /\ ran # launcher
      <4>1. shipped = "target" /\ NextOperation = "restart"
        BY <2>11, <3>5 DEF ChainInvariant, Typed, Launchers, ChainSound, NextOperation
      <4> QED BY <3>2, <3>3, <3>5, <4>1
          DEF Admitted, RestartPreflight, DaemonMatrix, InstalledLauncher
    <3>6. CASE launcher = shipped /\ ran = launcher
      <4>1. NextOperation = "enable"
        BY <2>11, <3>6 DEF NextOperation
      <4> QED BY <3>3, <3>6, <4>1 DEF Admitted
    <3> QED BY <3>4, <3>5, <3>6
  <2>12. CASE /\ bundle /\ Installed /\ subids = 2 /\ placed = Resources /\ manager = "active"
              /\ data = "managed" /\ link
    <3>1. CASE seen
      BY <2>12, <3>1 DEF NextOperation, Admitted, NoOp
    <3>2. CASE ~seen
      <4>1. NextOperation = "recycle"
        BY <2>12, <3>2 DEF NextOperation
      <4>2. daemon = "running" /\ launcher = shipped /\ linger
        BY <2>3, <2>12, <3>2 DEF DeadEnd, ChainInvariant, Typed, ChainSound
      <4>3. PostEnableUserUnit
        BY <2>12, <3>2, <4>2 DEF PostEnableUserUnit
      <4>4. QualifyPersistence
        BY <2>10, <2>12, <4>2, <4>3 DEF QualifyPersistence
      <4> QED BY <2>2, <2>6, <2>12, <3>2, <4>1, <4>2, <4>4
          DEF Admitted, FreshManagerPreflight, Snapshot, ManagerState, ProcessCgroupBoundary,
              ProcessEvidence, BootActivationContract, LifecycleOnce, LifecycleEvidence,
              LiveUserUnit, SocketEvidence, DockerInfoEvidence
    <3> QED BY <3>1, <3>2
  <2>13. data \in {"initial", "managed"}
    BY DEF ChainInvariant, Typed
  <2> QED BY <2>3, <2>4, <2>5, <2>7, <2>8, <2>9, <2>11, <2>12, <2>13
<1> QED BY <1>1, ChainIsInductive, PTL
=============================================================================
