-------------------------- MODULE AnalyticsResume ---------------------------
(***************************************************************************)
(* The owner's operations on the installed Analytics control plane         *)
(* (deployment/analytics_task014_resume.py): the resume with a new         *)
(* workflow SHA, the identity, transport and stream repairs of the         *)
(* installed sources, and the explicit recovery of each.  They share the   *)
(* lifecycle of resume_analytics (analytics_service_recovery.py): stop     *)
(* everything, publish, start, probe, report; on any failure stop again    *)
(* and restore.                                                            *)
(*                                                                         *)
(* Generation 0 is the installed product, and the repairs lead to 1, 2 and *)
(* 3.  A repair replaces its source files, the authority assets and the    *)
(* broker's configuration, one atomic publication each; a configuration is *)
(* named by its workflow SHA, and the SHA that a repair wants to find is   *)
(* the number of the generation it starts from.  An operation may fail at  *)
(* any step, with or without the step's effect, be interrupted, or be      *)
(* killed.  Meanwhile the plane, while it runs, may install the            *)
(* application.                                                            *)
(***************************************************************************)
EXTENDS AnalyticsInstall

CONSTANTS
    Assets,         \* authority files that a repair replaces (the code has four)
    StreamSources   \* modules of the stream repair (the code has three)

ASSUME AnalyticsAssumption ==
    /\ Assets \in Nat \ {0} /\ StreamSources \in Nat \ {0}
    /\ MaxMishaps \in Nat

VARIABLES
    live,       \* installed files: sources of each repair, assets, configuration
    leftovers,  \* temporaries of publications that a kill interrupted
    evidence,   \* each operation's private directory, and the SHA it pins
    unit,       \* broker and listener
    public,     \* the result file of each operation
    owner       \* the operation in progress, under the provisioning lock

resumeVars == <<live, leftovers, evidence, unit, public, owner>>

Repairs == {"identity", "transport", "stream"}
OwnerOperations == {"resume"} \cup Repairs
Generations == 0..3
Workflows == 0..2   \* CURRENT_WORKFLOW, TRANSPORT_WORKFLOW, STREAM_WORKFLOW
Modes == {"forward", "recover"}

To(op) == CASE op = "resume" -> 0 [] op = "identity" -> 1
            [] op = "transport" -> 2 [] op = "stream" -> 3

From(op) == IF op = "resume" THEN 0 ELSE To(op) - 1

NoOwner == [op |-> "none", mode |-> "none", sha |-> 0, next |-> 1, failing |-> FALSE,
            changed |-> FALSE, control |-> FALSE, errors |-> FALSE, pc |-> "idle"]

AnalyticsInit ==
    /\ InstallInit
    /\ live = [source |-> [g \in Generations |-> {}],
               asset |-> [i \in 1..Assets |-> 0], config |-> 0]
    /\ leftovers = {}
    /\ evidence = [op \in OwnerOperations |-> [at |-> "none", sha |-> 0]]
    /\ unit = [broker |-> FALSE, listener |-> FALSE]
    /\ public = [op \in OwnerOperations |-> "none"]
    /\ owner = NoOwner
    /\ mishaps = 0

-----------------------------------------------------------------------------
(* The files of an operation, in the order of their publication. *)

SourceFiles(g) == CASE g = 0 -> {} [] g \in {1, 2} -> {1} [] g = 3 -> 1..StreamSources

SourceCount(op) == CASE op = "resume" -> 0 [] op \in {"identity", "transport"} -> 1
                     [] op = "stream" -> StreamSources

Last(op) == IF op = "resume" THEN 1 ELSE SourceCount(op) + Assets + 1
Entries(op) == 1..Last(op)

IsSource(op, i) == i <= SourceCount(op)
AssetAt(op, i) == i - SourceCount(op)

File(kind, gen, index) == [kind |-> kind, gen |-> gen, index |-> index]

Path(op, i) == CASE i = Last(op) -> File("config", 0, 0)
                 [] IsSource(op, i) -> File("source", To(op), i)
                 [] OTHER -> File("asset", 0, AssetAt(op, i))

\* The bytes of entry i before and after operation op with workflow SHA w.
IsBefore(op, i) ==
    CASE i = Last(op) -> live.config = From(op)
      [] IsSource(op, i) -> i \notin live.source[To(op)]
      [] OTHER -> live.asset[AssetAt(op, i)] = From(op)

IsAfter(op, w, i) ==
    CASE i = Last(op) -> live.config = w
      [] IsSource(op, i) -> i \in live.source[To(op)]
      [] OTHER -> live.asset[AssetAt(op, i)] = To(op)

Published(op, w, i) ==
    CASE i = Last(op) -> [live EXCEPT !.config = w]
      [] IsSource(op, i) -> [live EXCEPT !.source[To(op)] = @ \cup {i}]
      [] OTHER -> [live EXCEPT !.asset[AssetAt(op, i)] = To(op)]

Restored(op, i) ==
    CASE i = Last(op) -> [live EXCEPT !.config = From(op)]
      [] IsSource(op, i) -> [live EXCEPT !.source[To(op)] = @ \ {i}]
      [] OTHER -> [live EXCEPT !.asset[AssetAt(op, i)] = From(op)]

\* closed_tree and the installed assets: exactly the files of generation g.
Whole(g) ==
    /\ \A h \in Generations : live.source[h] = IF h <= g THEN SourceFiles(h) ELSE {}
    /\ \A i \in 1..Assets : live.asset[i] = g

SourceLeftovers == {l \in leftovers : l.path.kind = "source"}

NoApplication == slot = "none"
ExecutorIdle == serving = Resting
Stopped == ~unit.broker /\ ~unit.listener /\ ExecutorIdle

\* inspect_generation before a forward operation.
Baseline(op) ==
    /\ Whole(From(op)) /\ SourceLeftovers = {}
    /\ live.config = From(op)
    /\ NoApplication
    /\ IF op \in {"transport", "stream"} THEN ExecutorIdle ELSE Stopped

\* inspect_generation of a recovery.
Reinspected(op, w) ==
    /\ Whole(From(op)) /\ SourceLeftovers = {}
    /\ live.config \in {From(op), w}
    /\ NoApplication /\ Stopped

\* Every live file is one of the two that the operation knows.
Known(op, w, i) == IsBefore(op, i) \/ IsAfter(op, w, i)

\* The audit and the result of a recovery.
Records(op) == File("records", To(op), 0)

\* Targets of recovery_temporaries.
Targets(op) == {Path(op, i) : i \in Entries(op)} \cup {Records(op)}

\* The other sources are exact, and only the operation's own temporaries remain.
PartialTree(op) ==
    /\ \A h \in Generations \ {To(op)} :
          live.source[h] = IF h <= To(op) THEN SourceFiles(h) ELSE {}
    /\ \A l \in SourceLeftovers : l.path.gen = To(op) /\ l.suffix = "normal"

\* recovery_intent, and what a repair's recovery qualifies before it stops
\* anything: the retained evidence, every live file known, and no temporary of
\* an interrupted restoration.
RecoverAdmitted(op, w) ==
    /\ evidence[op].at = "complete"
    /\ op = "resume" => evidence[op].sha = w
    /\ \A i \in Entries(op) : Known(op, w, i)
    /\ \A l \in leftovers : l.path \in Targets(op) => l.suffix = "normal"
    /\ op # "resume" => PartialTree(op)
    /\ NoApplication

-----------------------------------------------------------------------------
(* The steps of an operation. *)

Runs(pc) == owner.pc = pc
Recovers == owner.mode = "recover"
StepTo(pc) == owner' = [owner EXCEPT !.pc = pc]

Preparation == {"inspect", "directory", "retain", "qualify"}
Stopping == {"stop_broker", "stop_listener", "stop_executor"}

\* What an exception leads to: resume_analytics stops and restores once and
\* remembers what fails meanwhile; everywhere else the operation ends.
Raised(control) ==
    IF owner.pc \in Preparation \/ Recovers THEN NoOwner
    ELSE IF owner.failing THEN [owner EXCEPT !.pc = "report", !.errors = TRUE]
    ELSE [owner EXCEPT !.pc = "stop_broker", !.failing = TRUE,
                       !.control = control, !.next = 1]

OnlyOwner == UNCHANGED <<installVars, live, leftovers, evidence, unit, public, mishaps>>

\* A step that reads the host and goes on or raises.
Require(pc, holds, next) ==
    /\ Runs(pc)
    /\ owner' = IF holds THEN [owner EXCEPT !.pc = next] ELSE Raised(FALSE)
    /\ OnlyOwner

\* main and repair_identity take the lock with a reviewed SHA.
Start(op, mode, w) ==
    /\ owner = NoOwner
    /\ w \notin {0, From(op)}
    /\ owner' = [op |-> op, mode |-> mode, sha |-> w, next |-> 1, failing |-> FALSE,
                 changed |-> FALSE, control |-> FALSE, errors |-> FALSE,
                 pc |-> IF mode = "forward" THEN "inspect" ELSE "qualify"]
    /\ OnlyOwner

InspectGeneration == Require("inspect", Baseline(owner.op), "directory")

\* An operation is attempted once: its private directory must not exist.
MakePrivateDirectory ==
    /\ Runs("directory")
    /\ IF evidence[owner.op].at = "none"
       THEN /\ evidence' = [evidence EXCEPT ![owner.op] = [at |-> "partial", sha |-> 0]]
            /\ StepTo("retain")
       ELSE owner' = NoOwner /\ UNCHANGED evidence
    /\ UNCHANGED <<installVars, live, leftovers, unit, public, mishaps>>

\* The new inputs and every preimage, each published atomically.
RetainEvidence ==
    /\ Runs("retain")
    /\ evidence' = [evidence EXCEPT ![owner.op] = [at |-> "complete", sha |-> owner.sha]]
    /\ StepTo("stop_broker")
    /\ UNCHANGED <<installVars, live, leftovers, unit, public, mishaps>>

QualifyRecovery == Require("qualify", RecoverAdmitted(owner.op, owner.sha), "stop_broker")

\* stop_and_confirm: every unit is tried whatever happens to the others; a stop
\* that fails leaves the unit as it is.
StopUnit(pc, u, next) ==
    /\ Runs(pc)
    /\ StepTo(next)
    /\ \/ unit' = [unit EXCEPT ![u] = FALSE] /\ UNCHANGED mishaps
       \/ unit[u] /\ Mishap /\ UNCHANGED unit
    /\ UNCHANGED <<installVars, live, leftovers, evidence, public>>

StopBroker == StopUnit("stop_broker", "broker", "stop_listener")
StopListener == StopUnit("stop_listener", "listener", "stop_executor")

StopExecutor ==
    /\ Runs("stop_executor")
    /\ StepTo("confirm")
    /\ \/ ExecutorIdle /\ UNCHANGED <<installVars, mishaps>>
       \/ KillExecutor /\ UNCHANGED mishaps
       \/ ~ExecutorIdle /\ Mishap /\ UNCHANGED installVars
    /\ UNCHANGED <<live, leftovers, evidence, unit, public>>

AfterStop == IF owner.failing /\ ~owner.changed THEN "report"
             ELSE IF owner.failing \/ Recovers THEN "restore_absent"
             ELSE "absent"

\* Mutant: the exit status of the stop commands is believed.
BelieveStopped == Require("confirm", TRUE, AfterStop)

\* require_stopped: the actual state of the three units decides.
ConfirmStopped == Require("confirm", Stopped, AfterStop)

\* no_application after the stop closes the race with a running broker.
RequireNoApplication ==
    /\ Runs("absent")
    /\ owner' = IF NoApplication THEN [owner EXCEPT !.pc = "preimage", !.changed = TRUE]
                ELSE Raised(FALSE)
    /\ OnlyOwner

\* publish_identity_files checks the whole preimage before any publication.
CheckPreimage ==
    Require("preimage", \A i \in Entries(owner.op) : IsBefore(owner.op, i), "publish")

Occupied(suffix) == [path |-> Path(owner.op, owner.next), suffix |-> suffix] \in leftovers

\* One atomic_file of a list of publications; the temporary is exclusive, and an
\* error after the rename leaves the new bytes.
PublishFile(pc, suffix, isDone, result, next) ==
    /\ Runs(pc)
    /\ \/ owner.next > Last(owner.op) /\ StepTo(next) /\ UNCHANGED <<live, mishaps>>
       \/ /\ owner.next <= Last(owner.op)
          /\ isDone
          /\ owner' = [owner EXCEPT !.next = @ + 1]
          /\ UNCHANGED <<live, mishaps>>
       \/ /\ owner.next <= Last(owner.op)
          /\ ~isDone
          /\ \/ Occupied(suffix) /\ owner' = Raised(FALSE) /\ UNCHANGED <<live, mishaps>>
             \/ /\ ~Occupied(suffix)
                /\ live' = result
                /\ \/ owner' = [owner EXCEPT !.next = @ + 1] /\ UNCHANGED mishaps
                   \/ Mishap /\ owner' = Raised(FALSE)
    /\ UNCHANGED <<installVars, leftovers, evidence, unit, public>>

PublishEntry ==
    PublishFile("publish", "normal", FALSE, Published(owner.op, owner.sha, owner.next), "reload")

\* reload_and_verify, then clear_failed_counters.
ReloadAndVerify == Require("reload", Stopped, "clear")
ClearFailedCounters == Require("clear", TRUE, "listen")

StartUnit(pc, u, next) ==
    /\ Runs(pc)
    /\ unit' = [unit EXCEPT ![u] = TRUE]
    /\ \/ StepTo(next) /\ UNCHANGED mishaps
       \/ Mishap /\ owner' = Raised(FALSE)
    /\ UNCHANGED <<installVars, live, leftovers, evidence, public>>

StartListener == StartUnit("listen", "listener", "probe")

\* The probes end at the credential, before replay and operation.
NativeProbe == Require("probe", TRUE, "absent_again")
RequireNoApplicationAgain == Require("absent_again", NoApplication, "serve")
StartBroker == StartUnit("serve", "broker", "stable")
RequireStableBroker == Require("stable", unit.broker, "complete")

\* verify of a repair reads its generation back; a resume reads the broker's
\* configuration alone.
Verified(op, w) == (op # "resume" => Whole(To(op))) /\ live.config = w

\* complete publishes the result inside the protection of resume_analytics.
Complete ==
    /\ Runs("complete")
    /\ IF Verified(owner.op, owner.sha)
       THEN /\ public' = [public EXCEPT ![owner.op] = "ready"]
            /\ \/ owner' = NoOwner /\ UNCHANGED mishaps
               \/ Mishap /\ owner' = Raised(FALSE)
       ELSE owner' = Raised(FALSE) /\ UNCHANGED <<public, mishaps>>
    /\ UNCHANGED <<installVars, live, leftovers, evidence, unit>>

\* Mutant: the failed operation restores without looking for an application.
RestoreUnconditionally ==
    Require("restore_absent", TRUE,
            IF ~Recovers THEN "restore_known" ELSE IF owner.op = "resume" THEN "reinspect" ELSE "preserve")

RestoreNeedsNoApplication ==
    Require("restore_absent", NoApplication,
            IF ~Recovers THEN "restore_known" ELSE IF owner.op = "resume" THEN "reinspect" ELSE "preserve")

\* preserve_identity_source_temporary moves interrupted source writes away.
PreserveTemporaries ==
    /\ Runs("preserve")
    /\ leftovers' = leftovers \ SourceLeftovers
    /\ StepTo("restore_known")
    /\ UNCHANGED <<installVars, live, evidence, unit, public, mishaps>>

RestoreOnlyKnown ==
    Require("restore_known",
            \A i \in Entries(owner.op) : Known(owner.op, owner.sha, i), "restore")

RestoreEntry ==
    PublishFile("restore", "recovery", IsBefore(owner.op, owner.next),
                Restored(owner.op, owner.next),
                IF Recovers /\ owner.op # "resume" THEN "reinspect" ELSE "restore_reload")

\* A resume is inspected before its configuration is restored, a repair after.
Reinspect ==
    Require("reinspect", Reinspected(owner.op, owner.sha),
            IF owner.op = "resume" THEN "restore_known" ELSE "restore_reload")

RestoreReload == Require("restore_reload", Stopped, "report")

OldGeneration(op) == Whole(From(op)) /\ live.config = From(op)

\* Mutant: recovery errors do not reach the outcome.
OutcomeWithoutErrors ==
    IF owner.op # "resume" /\ ~OldGeneration(owner.op)
    THEN "manual_recovery_required" ELSE "stopped_recovered"

\* The outcome; a repair that cannot read its old generation back reports that
\* manual recovery is required.
Outcome ==
    IF owner.errors \/ (owner.op # "resume" /\ ~OldGeneration(owner.op))
    THEN "manual_recovery_required" ELSE "stopped_recovered"

\* An interrupt is raised again without any result; so is a failed publication.
Report ==
    /\ Runs("report")
    /\ owner' = NoOwner
    /\ \/ ~owner.control /\ public' = [public EXCEPT ![owner.op] = Outcome] /\ UNCHANGED mishaps
       \/ owner.control /\ UNCHANGED <<public, mishaps>>
       \/ ~owner.control /\ Mishap /\ UNCHANGED public
    /\ UNCHANGED <<installVars, live, leftovers, evidence, unit>>

-----------------------------------------------------------------------------
\* Any step raises before its effect, or is interrupted.
OwnerFails ==
    /\ owner # NoOwner /\ owner.pc \notin Stopping \cup {"report"}
    /\ Mishap
    /\ \E control \in BOOLEAN : owner' = Raised(control)
    /\ UNCHANGED <<installVars, live, leftovers, evidence, unit, public>>

\* Temporaries that a kill may leave where it strikes.
Interruptible ==
    IF owner.next > Last(owner.op) THEN {}
    ELSE IF Runs("publish") THEN {[path |-> Path(owner.op, owner.next), suffix |-> "normal"]}
    ELSE IF Runs("restore") THEN {[path |-> Path(owner.op, owner.next), suffix |-> "recovery"]}
    ELSE {}

\* A recovery's audit is written from its first audited command on.
Audited == {"restore", "restore_reload", "report",
            IF owner.op = "resume" THEN "restore_known" ELSE "reinspect"}

AuditTemporary ==
    IF Recovers /\ owner.pc \in Audited
    THEN {[path |-> Records(owner.op), suffix |-> "recovery"]}
    ELSE {}

KillOwner ==
    /\ owner # NoOwner
    /\ Mishap
    /\ owner' = NoOwner
    /\ \E left \in {{}, Interruptible, AuditTemporary} : leftovers' = leftovers \cup left
    /\ UNCHANGED <<installVars, live, evidence, unit, public>>

\* The broker process ends by itself; its unit has Restart=no.
BrokerEnds ==
    /\ unit.broker /\ Mishap
    /\ unit' = [unit EXCEPT !.broker = FALSE]
    /\ UNCHANGED <<installVars, live, leftovers, evidence, public, owner>>

\* The running plane serves signed requests.
Serve ==
    /\ \/ unit.broker /\ unit.listener /\ \E r \in Requests : ForwardRequest(r)
       \/ ExecutorStep
       \/ KillExecutor /\ Mishap
    /\ UNCHANGED resumeVars

OwnerStep ==
    \/ InspectGeneration \/ MakePrivateDirectory \/ RetainEvidence \/ QualifyRecovery
    \/ StopBroker \/ StopListener \/ StopExecutor \/ ConfirmStopped
    \/ RequireNoApplication \/ CheckPreimage \/ PublishEntry \/ ReloadAndVerify
    \/ ClearFailedCounters \/ StartListener \/ NativeProbe \/ RequireNoApplicationAgain
    \/ StartBroker \/ RequireStableBroker \/ Complete
    \/ RestoreNeedsNoApplication \/ PreserveTemporaries \/ RestoreOnlyKnown \/ RestoreEntry
    \/ Reinspect \/ RestoreReload \/ Report

AnalyticsNext ==
    \/ \E op \in OwnerOperations, mode \in Modes, w \in Workflows : Start(op, mode, w)
    \/ OwnerStep \/ OwnerFails \/ KillOwner \/ BrokerEnds \/ Serve

analyticsVars == <<installVars, resumeVars, mishaps>>

AnalyticsSpec == AnalyticsInit /\ [][AnalyticsNext]_analyticsVars

-----------------------------------------------------------------------------
\* The files of one generation with the configuration that was installed with
\* them, or that the operation which led to them has pinned in its evidence.
Coherent ==
    \/ Whole(0) /\ live.config = 0
    \/ \E op \in OwnerOperations :
          /\ Whole(To(op))
          /\ evidence[op].at = "complete" /\ live.config = evidence[op].sha

\* no_application: while an application is installed, no file of the generation
\* it was installed from changes, in either direction.
ApplicationKeepsGeneration == [][slot # "none" => live' = live]_<<live, slot>>

\* A restoration that was itself interrupted.
ManualReview == \E l \in leftovers : l.suffix = "recovery"

\* resume_analytics and --recover: files of two generations, or a generation's
\* files with the workflow SHA of another, are never served, and whatever a kill
\* or a failure leaves between two generations, a recovery is admitted, unless a
\* restoration was interrupted too.
MixtureIsRecoverable ==
    ~Coherent =>
        /\ Stopped
        /\ owner = NoOwner =>
              ManualReview \/ \E op \in OwnerOperations, w \in Workflows : RecoverAdmitted(op, w)

TrueResult(op) ==
    CASE public'[op] = "ready" ->
            Whole(To(op)) /\ live.config = owner.sha /\ evidence[op].sha = owner.sha
      [] public'[op] = "stopped_recovered" -> Stopped /\ OldGeneration(op)
      [] OTHER -> TRUE

\* complete: a result file says "ready" only of the whole new generation with the
\* SHA that the evidence pins, of which a resume reads one file, and
\* "stopped_recovered" only of a stopped plane with the old one.
ResultIsTrue == [][\A op \in OwnerOperations : public'[op] # public[op] => TrueResult(op)]_public
=============================================================================
