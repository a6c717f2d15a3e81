------------------------- MODULE DeploymentOperation -------------------------
(***************************************************************************)
(* DevDeploymentOperation.deploy (deployment/deployment_operation.py) over *)
(* its four collaborators: the durable state store, the audit sink, the    *)
(* Docker runtime and the Nginx route (deployment/docker_runtime.py).      *)
(*                                                                         *)
(* One deploy call is a sequence of calls to these collaborators.  Each    *)
(* call is one action and may succeed, fail without effect, or fail after  *)
(* its effect is durable.  A failure enters recover().  The process may be *)
(* interrupted or killed between any two calls.                            *)
(***************************************************************************)
EXTENDS DeploymentState

CONSTANTS
    FaultKinds,  \* which kinds of fault the environment may inject
    MaxFaults,   \* bound on the injected faults
    MaxDeploys   \* bound on the requests handed to deploy

AllFaultKinds == {"runtime", "save", "load", "append", "interrupt", "crash"}

ASSUME FaultAssumption == FaultKinds \subseteq AllFaultKinds /\ {MaxFaults, MaxDeploys} \subseteq Nat

VARIABLES
    store,      \* content of state.json
    residue,    \* .state.json.tmp is left behind: every load and save fails closed
    log,        \* audit events, oldest first
    torn,       \* the active audit file ends in a partial line: every append fails
    running,    \* release of the container in each slot, Nil if none was started
    conf,       \* slot named by active.conf, Nil if the file is absent
    loaded,     \* slot the running Nginx routes to, Nil for the maintenance route
    pc,         \* next call of the operation, "idle" outside deploy
    req,        \* the request being deployed
    orig,       \* original_state, Nil until the fresh snapshot is taken
    written,    \* candidate_written
    switched,   \* switch_attempted
    failure,    \* failure_event
    restoring,  \* _replace_traffic runs for recover(), not for the switch
    oldConf,    \* active.conf as _replace_traffic read it
    outcome,    \* how the last deploy call ended
    done,       \* requests handed to deploy so far
    lapses,     \* what cut recovery short so far, and for which requests the last event
                \* could not be appended (history variable)
    faults      \* faults injected so far

disk == <<store, residue, log, torn>>
host == <<running, conf, loaded>>
locals == <<req, orig, written, switched, failure, restoring, oldConf>>
vars == <<disk, host, pc, locals, outcome, done, lapses, faults>>

RoutePcs == {"route_write", "route_reload", "route_undo", "route_undo_reload"}
BodyPcs == {"append_started", "save_prepared", "pull", "verify_digest",
            "start_candidate", "append_migration_started", "save_running",
            "migrate", "save_succeeded", "append_migration_succeeded",
            "liveness", "append_liveness", "readiness", "append_readiness",
            "validate_application", "validate_nginx", "append_switch_started",
            "append_switch_succeeded", "save_completed", "append_succeeded"}
LoadPcs == {"load", "save_cleared", "reload"}
RecoverPcs == {"restore_state", "append_failure", "append_failed"}
AppendPcs == {"append_started", "append_migration_started", "append_migration_succeeded",
              "append_liveness", "append_readiness", "append_switch_started",
              "append_switch_succeeded", "append_succeeded", "append_failure",
              "append_failed"}
SavePcs == {"save_cleared", "save_prepared", "save_running", "save_succeeded",
            "save_completed", "restore_state"}

\* The states the operation derives from its original state, step by step.
rel == ReleaseOf[req]
Event(step) == EventId(req, step)
prepared == Linked(prepare_candidate(orig, rel), Event("promotion-started"))
runningState == Migrated(prepared, "running", Event("migration-started"))
succeededState == Migrated(runningState, "succeeded", Event("migration-succeeded"))
completedState == complete_promotion(succeededState, Event("promotion-succeeded"))
candidateSlot == candidate_slot(orig.active)

Init ==
    /\ store = NoActiveState
    /\ residue = FALSE
    /\ log = << >>
    /\ torn = FALSE
    /\ running = [s \in Slots |-> Nil]
    /\ conf = Nil
    /\ loaded = Nil
    /\ pc = "idle"
    /\ req = Nil
    /\ orig = Nil
    /\ written = FALSE
    /\ switched = FALSE
    /\ failure = Nil
    /\ restoring = FALSE
    /\ oldConf = Nil
    /\ outcome = Nil
    /\ done = {}
    /\ lapses = {}
    /\ faults = 0

-----------------------------------------------------------------------------
(* Faults and the exits of a call.                                         *)

Fault(kind) ==
    /\ kind \in FaultKinds
    /\ faults < MaxFaults
    /\ faults' = faults + 1

\* An exception before promotion-started is attempted: nothing to recover.
Reject ==
    /\ pc' = "returned"
    /\ outcome' = "failed"
    /\ UNCHANGED <<req, orig, written, switched, failure, restoring, oldConf, lapses>>

\* Mutant: the route is left on the candidate when the promotion fails.
recoverPcKeepsRoute == IF ~written THEN "append_failure" ELSE "restore_state"

\* Mutant: recover() as it was before, restoring only after a switch attempt.
recoverPcSwitchOnly == IF switched THEN "route_write" ELSE "append_failure"

\* Where recover() begins: route and state are restored only if the
\* candidate checkpoint was confirmed, the route only after a switch attempt.
recoverPc == IF ~written THEN "append_failure"
             ELSE IF switched THEN "route_write"
             ELSE "restore_state"

\* An exception after promotion-started is attempted.
Raise(event) ==
    /\ pc' = recoverPc
    /\ failure' = event
    /\ restoring' = (written /\ switched)
    /\ UNCHANGED <<req, orig, written, switched, oldConf, outcome, lapses>>

\* Normal continuation.
Goto(next) ==
    /\ pc' = next
    /\ UNCHANGED <<locals, outcome, lapses>>

-----------------------------------------------------------------------------
(* The state store: FilesystemDeploymentStateStore.save and load.          *)

SaveOk(value) ==
    /\ ~residue
    /\ store' = value
    /\ UNCHANGED <<residue, faults>>

\* A save that raises: refused because of residue, without effect, after the
\* replacement became visible, or leaving its temporary file behind.
SaveRaises(value) ==
    \/ residue /\ UNCHANGED <<store, residue, faults>>
    \/ /\ ~residue
       /\ Fault("save")
       /\ \/ UNCHANGED <<store, residue>>
          \/ store' = value /\ UNCHANGED residue
          \/ residue' = TRUE /\ UNCHANGED store

(* The audit sink: FilesystemAuditSink.append.                             *)

Appendable(event) ==
    /\ ~torn
    /\ \A i \in 1..Len(log) : log[i] # event

AppendOk(event) ==
    /\ Appendable(event)
    /\ log' = Append(log, event)
    /\ UNCHANGED <<torn, faults>>

\* An append that raises: refused by history validation, without effect,
\* after the line is durable, or leaving a partial line.
AppendRaises(event) ==
    \/ ~Appendable(event) /\ UNCHANGED <<log, torn, faults>>
    \/ /\ Appendable(event)
       /\ Fault("append")
       /\ \/ UNCHANGED <<log, torn>>
          \/ log' = Append(log, event) /\ UNCHANGED torn
          \/ torn' = TRUE /\ UNCHANGED log

SaveStep(at, value, next) ==
    /\ pc = at
    /\ \/ SaveOk(value) /\ Goto(next)
       \/ SaveRaises(value) /\ Raise(failure)
    /\ UNCHANGED <<log, torn, host, done>>

AppendStep(at, step, next) ==
    /\ pc = at
    /\ \/ AppendOk(Event(step)) /\ Goto(next)
       \/ AppendRaises(Event(step)) /\ Raise(failure)
    /\ UNCHANGED <<store, residue, host, done>>

\* A bounded command that cannot be started, runs out of time, prints too much
\* or exits with another status than 0: what it had to do may be done or not.
CommandRaises == Fault("runtime")

\* A probe inside a slot's container is answered by the release that runs
\* there, by nobody if none was started.
Probe(slot) == running[slot]

\* A runtime call that changes nothing the operation depends on; a failure
\* is recorded as the given failure event.
CheckStep(at, next, event) ==
    /\ pc = at
    /\ \/ Goto(next) /\ UNCHANGED faults
       \/ CommandRaises /\ Raise(event)
    /\ UNCHANGED <<disk, host, done>>

\* _response: the candidate must give one of the answers, or the check fails.
ProbeStep(at, answers, next, event) ==
    /\ pc = at
    /\ \/ Probe(candidateSlot) \in answers /\ Goto(next) /\ UNCHANGED faults
       \/ CommandRaises /\ Raise(event)
    /\ UNCHANGED <<disk, host, done>>

-----------------------------------------------------------------------------
(* Entering the operation.                                                 *)

\* The executor hands each request to deploy at most once (ReplayGuard).  The
\* gate refuses a second call while one is in progress.
Deploy(r) ==
    /\ pc = "idle"
    /\ r \notin done
    /\ Cardinality(done) < MaxDeploys
    /\ done' = done \cup {r}
    /\ req' = r
    /\ pc' = "load"
    /\ outcome' = Nil
    /\ UNCHANGED <<disk, host, orig, written, switched, failure, restoring,
                   oldConf, lapses, faults>>

\* load() and the freshness rules: clear an abandoned candidate, reject, or
\* take the original state and go on to the plan and the prepared state.
Accept ==
    IF Fresh(store) /\ ~ActiveConflict(store, rel)
    THEN /\ orig' = store
         /\ pc' = "append_started"
         /\ UNCHANGED <<req, written, switched, failure, restoring, oldConf,
                        outcome, lapses>>
    ELSE Reject

Load ==
    /\ pc = "load"
    /\ \/ /\ ~residue
          /\ IF Abandoned(store, rel) THEN Goto("save_cleared") ELSE Accept
          /\ UNCHANGED faults
       \/ residue /\ Reject /\ UNCHANGED faults
       \/ ~residue /\ Fault("load") /\ Reject
    /\ UNCHANGED <<disk, host, done>>

SaveCleared ==
    /\ pc = "save_cleared"
    /\ \/ SaveOk(ClearAbandoned(store)) /\ Goto("reload")
       \/ SaveRaises(ClearAbandoned(store)) /\ Reject
    /\ UNCHANGED <<log, torn, host, done>>

Reload ==
    /\ pc = "reload"
    /\ \/ Accept /\ UNCHANGED faults
       \/ Fault("load") /\ Reject
    /\ UNCHANGED <<disk, host, done>>

-----------------------------------------------------------------------------
(* The audited sequence.                                                   *)

AppendStarted == AppendStep("append_started", "promotion-started", "save_prepared")

\* candidate_written is set only after save returns.
SavePrepared ==
    /\ pc = "save_prepared"
    /\ \/ /\ SaveOk(prepared)
          /\ pc' = "pull"
          /\ written' = TRUE
          /\ UNCHANGED <<req, orig, switched, failure, restoring, oldConf, outcome, lapses>>
       \/ SaveRaises(prepared) /\ Raise(failure)
    /\ UNCHANGED <<log, torn, host, done>>

PullExactImage == CheckStep("pull", "verify_digest", failure)
VerifyLocalRepoDigest == CheckStep("verify_digest", "start_candidate", failure)

\* Mutant: compose up without the candidate's service name recreates both slots.
StartBothSlots ==
    /\ pc = "start_candidate"
    /\ running' = [s \in Slots |-> rel]
    /\ Goto("append_migration_started")
    /\ UNCHANGED <<disk, conf, loaded, done, faults>>

\* compose up --force-recreate of the candidate slot; a command that times
\* out may still have replaced the container.
StartCandidate ==
    /\ pc = "start_candidate"
    /\ \/ /\ running' = [running EXCEPT ![candidateSlot] = rel]
          /\ \/ Goto("append_migration_started") /\ UNCHANGED faults
             \/ CommandRaises /\ Raise(failure)
       \/ CommandRaises /\ Raise(failure) /\ UNCHANGED running
    /\ UNCHANGED <<disk, conf, loaded, done>>

AppendMigrationStarted ==
    AppendStep("append_migration_started", "migration-started", "save_running")
SaveRunning == SaveStep("save_running", runningState, "migrate")
ExecuteMigration == CheckStep("migrate", "save_succeeded", "migration-failed")

\* Here the checkpoint is saved before its event is appended.
SaveSucceeded == SaveStep("save_succeeded", succeededState, "append_migration_succeeded")
AppendMigrationSucceeded ==
    AppendStep("append_migration_succeeded", "migration-succeeded", "liveness")

CheckLiveness == ProbeStep("liveness", Releases, "append_liveness", "liveness-failed")
AppendLiveness == AppendStep("append_liveness", "liveness-passed", "readiness")
\* Mutant: readiness is checked but its event is not emitted.
CheckReadinessSilently ==
    ProbeStep("readiness", Releases, "validate_application", "readiness-failed")
CheckReadiness == ProbeStep("readiness", Releases, "append_readiness", "readiness-failed")

AppendReadiness == AppendStep("append_readiness", "readiness-passed", "validate_application")

\* The candidate must report the plan's release and source.
ValidateApplication ==
    ProbeStep("validate_application", {rel}, "validate_nginx", failure)

ValidateNginx == CheckStep("validate_nginx", "append_switch_started", failure)

\* authorize_switch, then the event, then switch_attempted and the switch.
AppendSwitchStarted ==
    /\ pc = "append_switch_started"
    /\ \/ /\ authorize_traffic_switch(succeededState)
          /\ AppendOk(Event("traffic-switch-started"))
          /\ pc' = "route_write"
          /\ failure' = "traffic-switch-failed"
          /\ switched' = TRUE
          /\ UNCHANGED <<req, orig, written, restoring, oldConf, outcome, lapses>>
       \/ AppendRaises(Event("traffic-switch-started")) /\ Raise(failure)
    /\ UNCHANGED <<store, residue, host, done>>

AppendSwitchSucceeded ==
    AppendStep("append_switch_succeeded", "traffic-switch-succeeded", "save_completed")
SaveCompleted == SaveStep("save_completed", completedState, "append_succeeded")

\* Mutant: an exception of the last append is reported without recovery.
AppendSucceededNoRecovery ==
    /\ pc = "append_succeeded"
    /\ pc' = "returned"
    /\ \/ AppendOk(Event("promotion-succeeded")) /\ outcome' = "succeeded"
       \/ AppendRaises(Event("promotion-succeeded")) /\ outcome' = "failed"
    /\ UNCHANGED <<store, residue, host, locals, done, lapses>>

\* The last append: deploy returns None.
AppendSucceeded ==
    /\ pc = "append_succeeded"
    /\ \/ /\ AppendOk(Event("promotion-succeeded"))
          /\ pc' = "returned"
          /\ outcome' = "succeeded"
          /\ UNCHANGED <<locals, lapses>>
       \/ AppendRaises(Event("promotion-succeeded")) /\ Raise(failure)
    /\ UNCHANGED <<store, residue, host, done>>

-----------------------------------------------------------------------------
(* DockerRuntimeAdapter._replace_traffic, for the switch and for recover().*)

target == IF restoring THEN SlotOf(orig.active) ELSE candidateSlot

\* A route replacement that raises: the switch enters recover(), while
\* recover() swallows the exception and skips the state restoration.
RouteRaises ==
    IF restoring
    THEN /\ pc' = "append_failure"
         /\ lapses' = lapses \cup {"unrestored"}
         /\ UNCHANGED <<locals, outcome>>
    ELSE Raise(failure)

\* Mutant: failure_event is not reset once the switch is confirmed.
RouteDoneKeepsFailure ==
    /\ pc' = IF restoring THEN "restore_state" ELSE "append_switch_succeeded"
    /\ UNCHANGED <<locals, outcome, lapses>>

RouteDone ==
    /\ pc' = IF restoring THEN "restore_state" ELSE "append_switch_succeeded"
    /\ failure' = IF restoring THEN failure ELSE Nil
    /\ UNCHANGED <<req, orig, written, switched, restoring, oldConf, outcome, lapses>>

RouteFails(next) == pc' = next /\ UNCHANGED <<locals, outcome, lapses>>

\* Read the old fragment, then replace active.conf atomically.
RouteWrite ==
    /\ pc = "route_write"
    /\ oldConf' = conf
    /\ UNCHANGED <<req, orig, written, switched, failure, restoring, outcome, lapses>>
    /\ \/ pc' = "route_reload" /\ conf' = target /\ UNCHANGED faults
       \/ /\ CommandRaises
          /\ pc' = "route_undo"
          /\ conf' \in {conf, target}
    /\ UNCHANGED <<disk, running, loaded, done>>

\* Mutant: the exit status of the reload is ignored.
RouteReloadUnchecked ==
    /\ pc = "route_reload"
    /\ \/ loaded' = conf /\ UNCHANGED faults
       \/ CommandRaises /\ UNCHANGED loaded
    /\ RouteDone
    /\ UNCHANGED <<disk, running, conf, done>>

\* nginx -t and nginx -s reload; a reload that times out may have happened.
RouteReload ==
    /\ pc = "route_reload"
    /\ \/ loaded' = conf /\ RouteDone /\ UNCHANGED faults
       \/ CommandRaises /\ loaded' \in {loaded, conf} /\ RouteFails("route_undo")
    /\ UNCHANGED <<disk, running, conf, done>>

\* The old fragment is written back; a failure here propagates at once.
RouteUndo ==
    /\ pc = "route_undo"
    /\ \/ conf' = oldConf /\ RouteFails("route_undo_reload") /\ UNCHANGED faults
       \/ CommandRaises /\ conf' \in {conf, oldConf} /\ RouteRaises
    /\ UNCHANGED <<disk, running, loaded, done>>

\* Confirmed or not, the replacement raises.
RouteUndoReload ==
    /\ pc = "route_undo_reload"
    /\ \/ loaded' = conf /\ UNCHANGED faults
       \/ CommandRaises /\ loaded' \in {loaded, conf}
    /\ RouteRaises
    /\ UNCHANGED <<disk, running, conf, done>>

-----------------------------------------------------------------------------
(* The rest of recover().                                                  *)

RestoreState ==
    /\ pc = "restore_state"
    /\ pc' = "append_failure"
    /\ \/ SaveOk(orig) /\ UNCHANGED lapses
       \/ SaveRaises(orig) /\ lapses' = lapses \cup {"unrestored"}
    /\ UNCHANGED <<log, torn, host, locals, outcome, done>>

\* Mutant: after the specific failure event promotion-failed is not emitted.
AppendFailureOnly ==
    /\ pc = "append_failure"
    /\ pc' = "returned"
    /\ outcome' = "failed"
    /\ \/ failure = Nil /\ UNCHANGED <<log, torn, faults>>
       \/ failure # Nil /\ (AppendOk(Event(failure)) \/ AppendRaises(Event(failure)))
    /\ UNCHANGED <<store, residue, host, locals, done, lapses>>

AppendFailure ==
    /\ pc = "append_failure"
    /\ pc' = "append_failed"
    /\ \/ failure = Nil /\ UNCHANGED <<log, torn, faults>>
       \/ failure # Nil /\ (AppendOk(Event(failure)) \/ AppendRaises(Event(failure)))
    /\ UNCHANGED <<store, residue, host, locals, outcome, done, lapses>>

AppendFailed ==
    /\ pc = "append_failed"
    /\ pc' = "returned"
    /\ outcome' = "failed"
    /\ \/ AppendOk(Event("promotion-failed")) /\ UNCHANGED lapses
       \/ AppendRaises(Event("promotion-failed")) /\ lapses' = lapses \cup {req}
    /\ UNCHANGED <<store, residue, host, locals, done>>

\* The gate is left; the call's locals are gone.
ClearLocals ==
    /\ req' = Nil
    /\ orig' = Nil
    /\ written' = FALSE
    /\ switched' = FALSE
    /\ failure' = Nil
    /\ restoring' = FALSE
    /\ oldConf' = Nil

Leave ==
    /\ pc = "returned"
    /\ pc' = "idle"
    /\ ClearLocals
    /\ UNCHANGED <<disk, host, outcome, done, lapses, faults>>

-----------------------------------------------------------------------------
(* What happens around the operation.                                      *)

\* KeyboardInterrupt or SystemExit between two calls of the body: recover()
\* runs with the failure event set so far.
Interrupt ==
    /\ Fault("interrupt")
    /\ \/ pc \in LoadPcs /\ Reject
       \/ pc \in BodyPcs /\ Raise(failure)
    /\ UNCHANGED <<disk, host, done>>

\* The executor process is killed: no recovery runs, and a kill inside a save
\* or an append may leave a temporary file or a partial line.
Crash ==
    /\ pc # "idle"
    /\ Fault("crash")
    /\ pc' = "idle"
    /\ ClearLocals
    /\ outcome' = "crashed"
    /\ lapses' = lapses \cup {req, "crash"} \cup
         IF pc = "restore_state" \/ (pc \in RoutePcs /\ restoring)
         THEN {"unrestored"} ELSE {}
    /\ residue' \in IF pc \in SavePcs THEN {residue, TRUE} ELSE {residue}
    /\ torn' \in IF pc \in AppendPcs THEN {torn, TRUE} ELSE {torn}
    /\ UNCHANGED <<store, log, host, done>>

\* restart: unless-stopped brings the proxy back with the fragment on disk.
ProxyRestart ==
    /\ loaded # conf
    /\ loaded' = conf
    /\ UNCHANGED <<disk, running, conf, pc, locals, outcome, done, lapses, faults>>

Body ==
    \/ Load \/ SaveCleared \/ Reload
    \/ AppendStarted \/ SavePrepared \/ PullExactImage \/ VerifyLocalRepoDigest
    \/ StartCandidate \/ AppendMigrationStarted \/ SaveRunning \/ ExecuteMigration
    \/ SaveSucceeded \/ AppendMigrationSucceeded \/ CheckLiveness \/ AppendLiveness
    \/ CheckReadiness \/ AppendReadiness \/ ValidateApplication \/ ValidateNginx
    \/ AppendSwitchStarted \/ AppendSwitchSucceeded \/ SaveCompleted \/ AppendSucceeded
    \/ RouteWrite \/ RouteReload \/ RouteUndo \/ RouteUndoReload
    \/ RestoreState \/ AppendFailure \/ AppendFailed \/ Leave

Next ==
    \/ \E r \in Requests : Deploy(r)
    \/ Body
    \/ Interrupt
    \/ Crash
    \/ ProxyRestart

Spec == Init /\ [][Next]_vars

\* Every collaborator call is bounded by a timeout, so a started call ends.
FairSpec == Spec /\ WF_vars(Body)

-----------------------------------------------------------------------------
(* Properties.                                                             *)

Logged(event) == \E i \in 1..Len(log) : log[i] = event
Restored == "unrestored" \notin lapses

\* Between calls, unless a restoration was cut short, a state without a
\* candidate names exactly what serves: Nginx routes, in memory and on disk, to
\* the active slot, whose container runs the active release; or to
\* maintenance if nothing is active.  This relates three stores that deploy,
\* _replace_traffic and recover() update one after the other.
RouteMatchesState ==
    (pc = "idle" /\ store.candidate = Nil /\ Restored) =>
        /\ loaded = SlotOf(store.active)
        /\ conf = loaded
        /\ store.active # Nil => running[loaded] = store.active.release

\* Traffic only ever reaches a release whose migration, liveness and readiness
\* gates are in the audit history and whose switch was announced there, even
\* while later promotions start containers, fail and are recovered.
TrafficGated ==
    (loaded # Nil /\ Restored) =>
        \E r \in Requests :
            /\ ReleaseOf[r] = running[loaded]
            /\ \A step \in {"promotion-started", "migration-succeeded", "liveness-passed",
                            "readiness-passed", "traffic-switch-started"} :
                   Logged(EventId(r, step))

\* deploy returns None only when all four stores agree on the requested
\* release: durable state, route, container and promotion-succeeded event.
SuccessIsDurable ==
    (pc = "returned" /\ outcome = "succeeded") =>
        /\ store = completedState
        /\ loaded = store.active.slot
        /\ conf = loaded
        /\ running[loaded] = rel
        /\ Logged(Event("promotion-succeeded"))

\* A promotion that fails leaves the durable state it found, or exactly the
\* prepared candidate checkpoint, never a half-advanced state, provided the
\* single restoration attempt of recover() was not cut short.
FailureLeavesOriginalOrPrepared ==
    (pc = "returned" /\ outcome = "failed" /\ orig # Nil /\ Restored) =>
        store \in {orig, prepared}

\* Between calls the durable state's event link names an event of the audit
\* history; only a kill or a cut-short restoration can leave it dangling.
EventLinkAudited ==
    (pc = "idle" /\ lapses \cap {"unrestored", "crash"} = {} /\ store.event # Nil) => Logged(store.event)

\* What must precede each audited step of the same request.
Precedes(step) ==
    CASE step \in {"promotion-started", "promotion-failed"} -> {}
      [] step = "migration-started" -> {"promotion-started"}
      [] step \in {"migration-succeeded", "migration-failed"} -> {"migration-started"}
      [] step \in {"liveness-passed", "liveness-failed"} -> {"migration-succeeded"}
      [] step \in {"readiness-passed", "readiness-failed"} -> {"liveness-passed"}
      [] step = "traffic-switch-started" -> {"readiness-passed"}
      [] step \in {"traffic-switch-succeeded", "traffic-switch-failed"} -> {"traffic-switch-started"}
      [] step = "promotion-succeeded" -> {"traffic-switch-succeeded"}

\* The failure event of a gate that the given step says was passed.
Contradicts(step) ==
    CASE step = "migration-succeeded" -> {"migration-failed"}
      [] step = "liveness-passed" -> {"liveness-failed"}
      [] step = "readiness-passed" -> {"readiness-failed"}
      [] step = "traffic-switch-succeeded" -> {"traffic-switch-failed"}
      [] OTHER -> {}

\* The audit history of a request is a prefix of the closed sequence followed
\* by failure events: each event comes after the one that justifies it, no
\* event id repeats, nothing follows promotion-failed, and no gate is recorded
\* both as passed and as failed although failure_event outlives the call that
\* set it.
AuditOrder ==
    \A i \in 1..Len(log) :
        /\ \A step \in Precedes(log[i].step) :
               \E j \in 1..(i - 1) : log[j] = EventId(log[i].req, step)
        /\ \A j \in 1..(i - 1) :
               /\ log[j] # log[i]
               /\ log[j] # EventId(log[i].req, "promotion-failed")
               /\ \A step \in Contradicts(log[j].step) : log[i] # EventId(log[j].req, step)

\* A container is only ever replaced in the slot that Nginx does not route to,
\* unless a restoration was cut short before.
LiveSlotUntouched ==
    [][\A s \in Slots : (running'[s] # running[s] /\ Restored) => s # loaded]_vars

\* The comment in recover(): "A failed pre-traffic promotion must also clear the
\* persisted candidate."  States the claim for a promotion that failed before
\* any switch was attempted and whose recovery was not itself cut short.
FailedPromotionClearsCandidate ==
    (pc = "returned" /\ outcome = "failed" /\ orig # Nil /\ ~switched /\ Restored) =>
        store.candidate = Nil

\* README, "Blue/green and health model": "The active slot remains in service
\* while the exact candidate digest starts in the inactive slot."  No step
\* replaces the container of the slot that receives the traffic.
ActiveSlotRemainsInService ==
    [][\A s \in Slots : running'[s] # running[s] => s # loaded]_vars

\* Every deploy call ends, through recover() if need be, and every started
\* promotion ends with a terminal event, unless the process was killed during
\* that call or the sink refused the very last append.
StartedTerminates ==
    \A r \in Requests :
        Logged(EventId(r, "promotion-started")) ~>
            /\ pc = "idle"
            /\ \/ Logged(EventId(r, "promotion-succeeded"))
               \/ Logged(EventId(r, "promotion-failed"))
               \/ r \in lapses
=============================================================================
