--------------------- MODULE DeploymentOperation_proofs ---------------------
(***************************************************************************)
(* Proofs about DeploymentOperation for any requests, releases and number  *)
(* of faults: how state store, audit history, route and containers stay    *)
(* together over promotions that succeed, fail, are interrupted or killed. *)
(***************************************************************************)
EXTENDS DeploymentOperation, SequenceTheorems, TLAPS

-----------------------------------------------------------------------------
(* The inductive invariant.                                                *)

Failures == {"migration-failed", "liveness-failed", "readiness-failed", "traffic-switch-failed"}
GateSteps == {"promotion-started", "migration-succeeded", "liveness-passed",
              "readiness-passed", "traffic-switch-started"}

\* The calls of deploy by what the durable state is while they are made.
Before == {"idle"} \cup LoadPcs
Preparing == {"append_started", "save_prepared"}
Pending == {"pull", "verify_digest", "start_candidate", "append_migration_started",
            "save_running"}
Migrating == {"migrate", "save_succeeded"}
Checking == {"append_migration_succeeded", "liveness", "append_liveness", "readiness",
             "append_readiness", "validate_application", "validate_nginx",
             "append_switch_started"}
Switched == {"append_switch_succeeded", "save_completed"}
Ending == {"append_failure", "append_failed"}
Succeeded == pc = "returned" /\ outcome = "succeeded"
Failed == pc = "returned" /\ outcome = "failed" /\ orig # Nil
Rejected == pc = "returned" /\ orig = Nil
Switching == pc \in RoutePcs /\ ~restoring

Typed ==
    /\ store \in DeploymentStates
    /\ log \in Seq(EventIds)
    /\ running \in [Slots -> Releases \cup {Nil}]
    /\ {conf, loaded, oldConf} \subseteq Slots \cup {Nil}
    /\ pc \in {"idle", "returned"} \cup LoadPcs \cup BodyPcs \cup RoutePcs \cup RecoverPcs
    /\ pc # "idle" => req \in Requests
    /\ orig \in DeploymentStates \cup {Nil}
    /\ {written, switched, restoring} \subseteq BOOLEAN
    /\ failure \in Failures \cup {Nil}

\* What the locals of the call are at each of its steps.
ControlSound ==
    /\ pc \in Before => orig = Nil
    /\ pc \in BodyPcs \cup RoutePcs \cup RecoverPcs => orig # Nil
    /\ orig # Nil => orig.candidate = Nil
    /\ pc \in Before \cup Preparing \/ Rejected => ~written /\ ~switched
    /\ pc \in Pending \cup Migrating \cup Checking => written /\ ~switched
    /\ pc \in Switched \cup RoutePcs \cup {"append_succeeded"} => written /\ switched
    /\ pc = "restore_state" => written
    /\ pc \in Before \cup BodyPcs => failure = Nil /\ ~restoring
    /\ Switching => failure = "traffic-switch-failed"
    /\ pc = "returned" => outcome \in {"succeeded", "failed"}
    /\ Succeeded => orig # Nil /\ switched

\* Which of the derived states is durable at each step.
StoreSound ==
    /\ pc = "save_cleared" => store.migration = "pending"
    /\ pc = "reload" => store.candidate = Nil
    /\ pc \in Preparing => store = orig
    /\ pc \in Pending => store = prepared
    /\ pc \in Migrating => store = runningState
    /\ pc \in Checking \cup Switched \/ Switching => store = succeededState
    /\ pc = "append_succeeded" \/ Succeeded => store = completedState
    /\ (pc \in Ending \/ Failed) /\ Restored => store \in {orig, prepared}

Settled(s) ==
    /\ loaded = SlotOf(s.active)
    /\ conf = SlotOf(s.active)
    /\ s.active # Nil => running[s.active.slot] = s.active.release

\* A kill left the switch undecided; no promotion begins from such a state.
Stuck(s) == s.candidate # Nil /\ s.migration = "succeeded"

\* Where Nginx routes, in memory and on disk, and what runs there.
RouteSound ==
    /\ Restored =>
        /\ pc \in Before \/ Rejected => Settled(store) \/ Stuck(store)
        /\ pc \in Preparing \cup Pending \cup Migrating \cup Checking \cup Ending
                  \cup {"restore_state"} \/ Failed => Settled(orig)
        /\ pc \in RoutePcs => {loaded, conf} \subseteq {SlotOf(orig.active), candidateSlot}
        /\ pc \in RoutePcs \ {"route_write"} => oldConf \in {SlotOf(orig.active), candidateSlot}
        /\ (orig # Nil /\ orig.active # Nil) =>
               running[orig.active.slot] = orig.active.release
    /\ pc = "route_reload" => conf = target
    /\ pc \in Switched \cup {"append_succeeded"} \/ Succeeded =>
           loaded = candidateSlot /\ conf = candidateSlot
    /\ (switched \/ pc \in {"append_migration_started", "save_running"} \cup Migrating \cup Checking)
           => running[candidateSlot] = rel

Gated(x) ==
    \E r \in Requests :
        ReleaseOf[r] = x /\ \A step \in GateSteps : Logged(EventId(r, step))

\* Whatever is routed to, or would be again, has passed its gates.
TrafficSound ==
    Restored =>
        /\ loaded # Nil => Gated(running[loaded])
        /\ conf # Nil => Gated(running[conf])
        /\ (orig # Nil /\ orig.active # Nil) => Gated(orig.active.release)

\* The steps of the call that are in the audit history.
LoggedSteps == {step \in Steps : Logged(Event(step))}

\* The steps that are audited when the body reaches a call.
Behind(p) ==
    IF p \in LoadPcs \cup {"append_started"} THEN {}
    ELSE {"promotion-started"} \cup
    IF p \in {"save_prepared", "append_migration_started"} \cup (Pending \ {"save_running"}) THEN {}
    ELSE {"migration-started"} \cup
    IF p \in {"save_running", "append_migration_succeeded"} \cup Migrating THEN {}
    ELSE {"migration-succeeded"} \cup
    IF p \in {"liveness", "append_liveness"} THEN {}
    ELSE {"liveness-passed"} \cup
    IF p \in {"readiness", "append_readiness"} THEN {}
    ELSE {"readiness-passed"} \cup
    IF p \in Checking THEN {}
    ELSE {"traffic-switch-started"} \cup
    IF p \in RoutePcs \cup {"append_switch_succeeded"} THEN {}
    ELSE {"traffic-switch-succeeded"}

\* The audit history is in order, and the call will keep it so.
AuditSound ==
    /\ AuditOrder
    /\ \A i \in 1..Len(log) : log[i].req \in done
    /\ pc # "idle" => req \in done
    /\ pc \in LoadPcs \cup BodyPcs \/ Switching => LoggedSteps = Behind(pc)
    /\ pc \notin {"idle", "returned"} => "promotion-failed" \notin LoggedSteps
    /\ (failure # Nil /\ pc \in RoutePcs \cup {"restore_state", "append_failure"}) =>
           /\ Precedes(failure) \subseteq LoggedSteps
           /\ \A step \in LoggedSteps : failure \notin Contradicts(step)
    /\ switched => GateSteps \subseteq LoggedSteps
    /\ Succeeded => "promotion-succeeded" \in LoggedSteps

EventAudited(s) == s.event # Nil => Logged(s.event)

\* The event link of the durable state, and of the one to be restored.
LinkSound ==
    lapses \cap {"unrestored", "crash"} = {} =>
        /\ pc \in Before \cup Ending \cup {"returned"} => EventAudited(store)
        /\ orig # Nil => EventAudited(orig)

OperationInvariant ==
    /\ Typed /\ ControlSound /\ StoreSound /\ RouteSound /\ TrafficSound
    /\ AuditSound /\ LinkSound

-----------------------------------------------------------------------------
(* The states the operation derives, and the audit history.                *)

\* Every derived state is a state; the candidate is placed in the slot that is
\* not active, and the active identity changes only on completion.
LEMMA DerivedStates ==
    ASSUME orig \in DeploymentStates, req \in Requests
    PROVE  /\ {prepared, runningState, succeededState, completedState} \subseteq DeploymentStates
           /\ candidateSlot \in Slots
           /\ orig.active # Nil => orig.active.slot # candidateSlot
           /\ SlotOf(orig.active) # candidateSlot
           /\ SlotOf(orig.active) \in Slots \cup {Nil}
           /\ \A s \in {prepared, runningState, succeededState} :
                s.active = orig.active /\ s.candidate # Nil
           /\ succeededState.migration = "succeeded"
           /\ prepared.migration = "pending"
           /\ completedState.candidate = Nil
           /\ completedState.active = [release |-> rel, slot |-> candidateSlot]
           /\ completedState.active # Nil
           /\ prepared.event = Event("promotion-started")
           /\ completedState.event = Event("promotion-succeeded")
           /\ rel \in Releases
<1>1. rel \in Releases /\ candidateSlot \in Slots
  BY ReleaseOfAssumption DEF rel, candidateSlot, candidate_slot, Slots
<1>2. \A step \in Steps : Event(step) \in EventIds
  BY DEF Event, EventId, EventIds
<1>3. [release |-> rel, slot |-> candidateSlot] \in Placed
  BY <1>1 DEF Placed
<1>4. [release |-> rel, slot |-> candidateSlot] # Nil
  BY <1>3, NilAssumption
<1>5. /\ prepared = [orig EXCEPT !.candidate = [release |-> rel, slot |-> candidateSlot],
                                 !.migration = "pending",
                                 !.event = Event("promotion-started")]
      /\ prepared \in DeploymentStates
  BY <1>2, <1>3 DEF prepared, Linked, prepare_candidate, candidateSlot, DeploymentStates,
                    MIGRATION_STATUSES, Steps
<1>6. /\ runningState = [prepared EXCEPT !.migration = "running",
                                         !.event = Event("migration-started")]
      /\ runningState \in DeploymentStates
  BY <1>2, <1>5 DEF runningState, Migrated, DeploymentStates, MIGRATION_STATUSES, Steps
<1>7. /\ succeededState = [runningState EXCEPT !.migration = "succeeded",
                                               !.event = Event("migration-succeeded")]
      /\ succeededState \in DeploymentStates
  BY <1>2, <1>6 DEF succeededState, Migrated, DeploymentStates, MIGRATION_STATUSES, Steps
<1>8. /\ completedState = [succeededState EXCEPT !.active = succeededState.candidate,
                                                 !.previous = succeededState.active,
                                                 !.candidate = Nil,
                                                 !.event = Event("promotion-succeeded")]
      /\ completedState \in DeploymentStates
  BY <1>2, <1>7 DEF completedState, complete_promotion, DeploymentStates, Steps
<1>9. /\ orig.active # Nil => orig.active.slot # candidateSlot
      /\ SlotOf(orig.active) # candidateSlot
      /\ SlotOf(orig.active) \in Slots \cup {Nil}
  BY NilAssumption, <1>1
     DEF DeploymentStates, Placed, Slots, SlotOf, candidateSlot, candidate_slot
<1>10. /\ prepared.active = orig.active /\ runningState.active = orig.active
       /\ succeededState.active = orig.active
       /\ prepared.candidate = [release |-> rel, slot |-> candidateSlot]
       /\ runningState.candidate = [release |-> rel, slot |-> candidateSlot]
       /\ succeededState.candidate = [release |-> rel, slot |-> candidateSlot]
  BY <1>5, <1>6, <1>7 DEF DeploymentStates
<1>11. /\ succeededState.migration = "succeeded" /\ prepared.migration = "pending"
       /\ prepared.event = Event("promotion-started")
  BY <1>5, <1>6, <1>7 DEF DeploymentStates
<1>12. /\ completedState.candidate = Nil
       /\ completedState.active = [release |-> rel, slot |-> candidateSlot]
       /\ completedState.event = Event("promotion-succeeded")
  BY <1>7, <1>8, <1>10 DEF DeploymentStates
<1> QED BY <1>1, <1>4, <1>5, <1>6, <1>7, <1>8, <1>9, <1>10, <1>11, <1>12

\* Derived states depend on the request and the original state alone.
LEMMA SameDerived ==
    ASSUME UNCHANGED <<req, orig>>
    PROVE  /\ UNCHANGED <<rel, prepared, runningState, succeededState, completedState,
                          candidateSlot>>
           /\ \A step : Event(step)' = Event(step)
BY DEF rel, prepared, runningState, succeededState, completedState, candidateSlot, Event

\* An appended event joins those in the history.
LEMMA LogGrows ==
    ASSUME log \in Seq(EventIds), NEW e \in EventIds, log' = Append(log, e)
    PROVE  /\ log' \in Seq(EventIds)
           /\ Len(log) \in Nat /\ Len(log') = Len(log) + 1
           /\ \A i \in 1..Len(log) : log'[i] = log[i]
           /\ log'[Len(log) + 1] = e
           /\ \A x : Logged(x)' <=> (Logged(x) \/ x = e)
<1>1. /\ log' \in Seq(EventIds)
      /\ Len(log) \in Nat /\ Len(log') = Len(log) + 1
      /\ \A i \in 1..Len(log) : log'[i] = log[i]
      /\ log'[Len(log) + 1] = e
  BY AppendProperties, LenProperties
<1>2. \A i \in 1..Len(log') : i \in 1..Len(log) \/ i = Len(log) + 1
  BY <1>1
<1>3. \A i \in 1..Len(log) : i \in 1..Len(log')
  BY <1>1
<1>4. Len(log) + 1 \in 1..Len(log')
  BY <1>1
<1>5. \A x : Logged(x)' <=> (Logged(x) \/ x = e)
  BY <1>1, <1>2, <1>3, <1>4 DEF Logged
<1> QED BY <1>1, <1>5

\* The order of the history survives an append that respects it.
LEMMA OrderGrows ==
    ASSUME log \in Seq(EventIds), AuditOrder, NEW e \in EventIds,
           Appendable(e), log' = Append(log, e),
           \A step \in Precedes(e.step) : Logged(EventId(e.req, step)),
           ~Logged(EventId(e.req, "promotion-failed")),
           \A i \in 1..Len(log) : \A step \in Contradicts(log[i].step) :
               e # EventId(log[i].req, step)
    PROVE  AuditOrder'
<1> DEFINE n == Len(log)
<1>1. /\ n \in Nat /\ Len(log') = n + 1
      /\ \A i \in 1..n : log'[i] = log[i]
      /\ log'[n + 1] = e
  BY LogGrows
<1> SUFFICES ASSUME NEW i \in 1..Len(log')
             PROVE  /\ \A step \in Precedes(log'[i].step) :
                           \E j \in 1..(i - 1) : log'[j] = EventId(log'[i].req, step)
                    /\ \A j \in 1..(i - 1) :
                           /\ log'[j] # log'[i]
                           /\ log'[j] # EventId(log'[i].req, "promotion-failed")
                           /\ \A step \in Contradicts(log'[j].step) :
                                  log'[i] # EventId(log'[j].req, step)
  BY DEF AuditOrder
<1>2. CASE i \in 1..n
  <2>1. \A j \in 1..(i - 1) : j \in 1..n /\ log'[j] = log[j]
    BY <1>1, <1>2
  <2>2. log'[i] = log[i]
    BY <1>1, <1>2
  <2>3. /\ \A step \in Precedes(log[i].step) :
               \E j \in 1..(i - 1) : log[j] = EventId(log[i].req, step)
        /\ \A j \in 1..(i - 1) :
               /\ log[j] # log[i]
               /\ log[j] # EventId(log[i].req, "promotion-failed")
               /\ \A step \in Contradicts(log[j].step) :
                      log[i] # EventId(log[j].req, step)
    BY <1>2 DEF AuditOrder
  <2> HIDE DEF n
  <2> QED BY <2>1, <2>2, <2>3
<1>3. CASE i = n + 1
  <2>1. 1..(i - 1) = 1..n /\ log'[i] = e
    BY <1>1, <1>3
  <2>2. \A step \in Precedes(e.step) : \E j \in 1..n : log[j] = EventId(e.req, step)
    BY DEF Logged
  <2>3. \A j \in 1..n : log[j] # e /\ log[j] # EventId(e.req, "promotion-failed")
    BY DEF Appendable, Logged
  <2> HIDE DEF n
  <2>4. \A j \in 1..n : \A step \in Contradicts(log[j].step) : e # EventId(log[j].req, step)
    BY DEF n
  <2> QED BY ZenonT(40), <1>1, <2>1, <2>2, <2>3, <2>4
<1>4. i \in 1..n \/ i = n + 1
  BY <1>1
<1> QED BY <1>2, <1>3, <1>4

\* No append.
LEMMA OrderKept ==
    ASSUME AuditOrder, UNCHANGED log
    PROVE  AuditOrder'
<1> SUFFICES ASSUME NEW i \in 1..Len(log')
             PROVE  /\ \A step \in Precedes(log'[i].step) :
                           \E j \in 1..(i - 1) : log'[j] = EventId(log'[i].req, step)
                    /\ \A j \in 1..(i - 1) :
                           /\ log'[j] # log'[i]
                           /\ log'[j] # EventId(log'[i].req, "promotion-failed")
                           /\ \A step \in Contradicts(log'[j].step) :
                                  log'[i] # EventId(log'[j].req, step)
  BY DEF AuditOrder
<1> QED BY ZenonT(40) DEF AuditOrder

LEMMA AuditQuiet ==
    ASSUME OperationInvariant, UNCHANGED <<log, req, orig, done>>
    PROVE  /\ log' \in Seq(EventIds)
           /\ AuditOrder'
           /\ \A i \in 1..Len(log') : log'[i].req \in done'
           /\ \A x : Logged(x)' <=> Logged(x)
           /\ LoggedSteps' = LoggedSteps
<1>1. \A x : Logged(x)' <=> Logged(x)
  BY DEF Logged
<1>2. LoggedSteps' = LoggedSteps
  BY <1>1 DEF LoggedSteps, Event
<1> QED BY <1>1, <1>2, OrderKept DEF OperationInvariant, Typed, AuditSound

\* What an append for the current request, successful or not, does to the
\* history, if the step is due.
LEMMA AuditAppend ==
    ASSUME OperationInvariant, pc # "idle", NEW step \in Steps, UNCHANGED <<req, orig, done>>,
           \/ log' = log
           \/ Appendable(Event(step)) /\ log' = Append(log, Event(step)),
           Precedes(step) \subseteq LoggedSteps,
           "promotion-failed" \notin LoggedSteps,
           \A s \in LoggedSteps : step \notin Contradicts(s)
    PROVE  /\ log' \in Seq(EventIds)
           /\ AuditOrder'
           /\ \A i \in 1..Len(log') : log'[i].req \in done'
           /\ \A x : Logged(x) => Logged(x)'
           /\ LoggedSteps' \in {LoggedSteps, LoggedSteps \cup {step}}
           /\ log' = Append(log, Event(step)) => LoggedSteps' = LoggedSteps \cup {step}
<1>0. /\ log \in Seq(EventIds) /\ req \in Requests /\ AuditOrder
      /\ \A i \in 1..Len(log) : log[i].req \in done
      /\ req \in done
  BY DEF OperationInvariant, Typed, AuditSound
<1>1. CASE log' = log
  <2>1. /\ AuditOrder'
        /\ \A x : Logged(x)' <=> Logged(x)
        /\ LoggedSteps' = LoggedSteps
    BY <1>1, AuditQuiet
  <2>4. log' # Append(log, Event(step))
    <3>1. Event(step) \in EventIds
      BY <1>0 DEF Event, EventId, EventIds
    <3>2. Len(log) \in Nat /\ Len(Append(log, Event(step))) = Len(log) + 1
      BY <1>0, <3>1, LenProperties, AppendProperties
    <3> QED BY <1>1, <3>2
  <2> QED BY <1>0, <1>1, <2>1, <2>4
<1>2. CASE Appendable(Event(step)) /\ log' = Append(log, Event(step))
  <2> DEFINE e == Event(step)
  <2>1. e \in EventIds /\ e.req = req /\ e.step = step
    BY <1>0 DEF Event, EventId, EventIds
  <2>2. /\ log' \in Seq(EventIds)
        /\ Len(log) \in Nat /\ Len(log') = Len(log) + 1
        /\ \A i \in 1..Len(log) : log'[i] = log[i]
        /\ log'[Len(log) + 1] = e
        /\ \A x : Logged(x)' <=> (Logged(x) \/ x = e)
    BY <1>0, <1>2, <2>1, LogGrows
  <2>3. \A i \in 1..Len(log) : log[i] \in EventIds
    BY <1>0, ElementOfSeq
  <2>4. \A i \in 1..Len(log) : \A s \in Contradicts(log[i].step) : e # EventId(log[i].req, s)
    <3> SUFFICES ASSUME NEW i \in 1..Len(log), NEW s \in Contradicts(log[i].step),
                        e = EventId(log[i].req, s)
                 PROVE  FALSE
      OBVIOUS
    <3>1. s = step /\ log[i].req = req
      BY <2>1 DEF EventId
    <3>2. log[i] = EventId(req, log[i].step) /\ log[i].step \in Steps
      BY <2>3, <3>1 DEF EventIds, EventId
    <3>3. log[i].step \in LoggedSteps
      BY <3>2 DEF LoggedSteps, Logged, Event
    <3> QED BY <3>1, <3>3
  <2>5. /\ \A s \in Precedes(e.step) : Logged(EventId(e.req, s))
        /\ ~Logged(EventId(e.req, "promotion-failed"))
    BY <2>1 DEF LoggedSteps, Event, Steps
  <2>6. AuditOrder'
    BY <1>0, <1>2, <2>1, <2>4, <2>5, OrderGrows
  <2>7. \A i \in 1..Len(log') : log'[i].req \in done'
    BY <1>0, <2>1, <2>2
  <2>8. \A s \in Steps : Event(s)' = Event(s) /\ (Event(s) = e <=> s = step)
    BY DEF Event, EventId
  <2> HIDE DEF e
  <2>9. LoggedSteps' = LoggedSteps \cup {step}
    BY <2>2, <2>8 DEF LoggedSteps
  <2> QED BY <2>2, <2>6, <2>7, <2>9
<1> QED BY <1>1, <1>2

\* The request of a call that attempted the switch has passed its gates.
LEMMA SwitchedIsGated ==
    ASSUME OperationInvariant, switched
    PROVE  req \in Requests /\ Gated(rel)
<1>1. pc # "idle" /\ req \in Requests
  BY DEF OperationInvariant, ControlSound, Typed, Before
<1>2. \A step \in GateSteps : Logged(EventId(req, step))
  BY DEF OperationInvariant, AuditSound, LoggedSteps, Event
<1> QED BY <1>1, <1>2 DEF Gated, rel

-----------------------------------------------------------------------------
(* Leaving the body through recover().                                     *)

\* An exception of a call, or an interrupt before it, enters recover(): the
\* state to restore and the slot it names are as they were, whatever the call
\* that failed has or has not done.
LEMMA RaiseInvariant ==
    ASSUME OperationInvariant,
           pc \in BodyPcs \/ Switching,
           NEW event \in Failures \cup {Nil}, Raise(event),
           UNCHANGED done,
           store' \in DeploymentStates,
           pc \in Preparing => store' = store \/ (pc = "save_prepared" /\ store' = prepared),
           log' \in Seq(EventIds),
           AuditOrder',
           \A i \in 1..Len(log') : log'[i].req \in done',
           \A x : Logged(x) => Logged(x)',
           "promotion-failed" \notin LoggedSteps',
           event # Nil => /\ Precedes(event) \subseteq LoggedSteps'
                          /\ \A step \in LoggedSteps' : event \notin Contradicts(step),
           \/ running' = running
           \/ pc = "start_candidate" /\ running' = [running EXCEPT ![candidateSlot] = rel],
           {conf', loaded'} \subseteq Slots \cup {Nil},
           pc \in BodyPcs => conf' = conf /\ loaded' = loaded,
           Restored => {conf', loaded'} \subseteq {conf, loaded, oldConf} /\ 
                       (pc = "route_write" => {conf', loaded'} \subseteq {conf, loaded})
    PROVE  OperationInvariant'
<1>0. Typed /\ ControlSound /\ StoreSound /\ RouteSound /\ TrafficSound /\ AuditSound /\ LinkSound
  BY DEF OperationInvariant
<1>1. /\ orig # Nil /\ orig \in DeploymentStates /\ req \in Requests /\ orig.candidate = Nil
      /\ pc # "idle"
  BY <1>0 DEF ControlSound, Typed, Switching, BodyPcs, RoutePcs
<1>2. /\ pc' = recoverPc /\ failure' = event /\ restoring' = (written /\ switched)
      /\ UNCHANGED <<req, orig, written, switched, oldConf, outcome, lapses>>
      /\ UNCHANGED <<rel, prepared, runningState, succeededState, completedState, candidateSlot>>
      /\ \A step : Event(step)' = Event(step)
  BY SameDerived DEF Raise
<1>3. /\ pc' = "append_failure" <=> ~written
      /\ pc' = "route_write" <=> (written /\ switched)
      /\ pc' = "restore_state" <=> (written /\ ~switched)
      /\ pc' \in {"append_failure", "route_write", "restore_state"}
  BY <1>0, <1>2 DEF recoverPc, Typed
<1>4. /\ candidateSlot \in Slots
      /\ SlotOf(orig.active) \in Slots \cup {Nil}
      /\ orig.active # Nil => orig.active.slot # candidateSlot
      /\ rel \in Releases
      /\ orig.active # Nil => orig.active \in Placed
  BY <1>1, DerivedStates DEF DeploymentStates
<1>5. /\ running' \in [Slots -> Releases \cup {Nil}]
      /\ \A s \in Slots : s # candidateSlot => running'[s] = running[s]
      /\ pc # "start_candidate" => running' = running
  BY <1>0, <1>4 DEF Typed
<1>6. /\ ~written <=> pc \in Preparing
      /\ switched <=> (pc \in Switched \cup {"append_succeeded"} \/ Switching)
  BY <1>0 DEF ControlSound, Switching, BodyPcs, Preparing, Pending, Migrating, Checking, Switched, Typed
<1>7. Typed'
  BY <1>0, <1>1, <1>2, <1>3, <1>5 DEF Typed, RecoverPcs, RoutePcs, Failures
<1>8. ControlSound'
  BY <1>0, <1>1, <1>2, <1>3
     DEF ControlSound, Rejected, Succeeded, Switching, RoutePcs, RecoverPcs, BodyPcs, LoadPcs,
         Before, Preparing, Pending, Migrating, Checking, Switched, Typed
<1>9. StoreSound'
  BY <1>0, <1>1, <1>2, <1>3, <1>6
     DEF StoreSound, Rejected, Succeeded, Failed, Switching, RoutePcs, Restored, LoadPcs,
         Preparing, Pending, Migrating, Checking, Switched, Ending
<1> DEFINE Two == {SlotOf(orig.active), candidateSlot}
<1>10. RouteSound'
  <2>1. ASSUME Restored, ~switched
        PROVE  Settled(orig)'
    <3>1. Settled(orig) /\ pc \in BodyPcs
      BY <1>0, <1>6, <2>1
         DEF RouteSound, BodyPcs, Preparing, Pending, Migrating, Checking, Switched, Switching
    <3> QED BY <1>2, <1>4, <1>5, <3>1 DEF Settled, Placed, Slots
  <2>2. ASSUME Restored, switched
        PROVE  {conf', loaded'} \subseteq Two
    <3>1. CASE pc \in BodyPcs
      BY <1>0, <1>6, <2>2, <3>1
         DEF RouteSound, BodyPcs, RoutePcs, Switching, Switched
    <3>2. CASE Switching
      BY <1>0, <2>2, <3>2 DEF RouteSound, Switching
    <3> QED BY <3>1, <3>2
  <2>3. ASSUME Restored, orig.active # Nil
        PROVE  running'[orig.active.slot] = orig.active.release
    BY <1>0, <1>1, <1>4, <1>5, <2>3 DEF RouteSound, Placed
  <2>4. switched => running'[candidateSlot] = rel
    BY <1>0, <1>5, <1>6 DEF RouteSound, Switched, Switching, RoutePcs
  <2>5. /\ Restored' <=> Restored
        /\ ~Rejected' /\ ~Succeeded' /\ ~Failed'
        /\ pc' \notin Before \cup Switched \cup {"append_succeeded", "route_reload"}
        /\ pc' \notin {"append_migration_started", "save_running"}
        /\ pc' \notin Preparing \cup Pending \cup Migrating \cup Checking
        /\ pc' \in RoutePcs => pc' = "route_write" /\ switched
        /\ pc' \in Ending \cup {"restore_state"} => ~switched
    BY <1>1, <1>2, <1>3, <1>6
       DEF Restored, Rejected, Succeeded, Failed, RoutePcs, LoadPcs, Before,
           Preparing, Pending, Migrating, Checking, Switched, Ending, Switching
  <2> QED BY <1>2, <2>1, <2>2, <2>3, <2>4, <2>5 DEF RouteSound
<1>11. TrafficSound'
  <2> SUFFICES ASSUME Restored PROVE TrafficSound'
    BY <1>2 DEF TrafficSound, Restored
  <2>1. orig.active # Nil => Gated(orig.active.release)
    BY <1>0, <1>1 DEF TrafficSound
  <2>2. switched => Gated(rel)
    BY SwitchedIsGated
  <2>3. ASSUME NEW s \in {conf', loaded'}, s # Nil
        PROVE  Gated(running'[s])
    <3>1. CASE ~switched
      <4>1. s \in {conf, loaded} /\ Settled(orig)
        BY <1>0, <1>6, <2>3, <3>1
           DEF RouteSound, BodyPcs, Preparing, Pending, Migrating, Checking, Switched, Switching
      <4>2. s = orig.active.slot /\ orig.active # Nil /\ running[s] = orig.active.release
        BY <2>3, <4>1 DEF Settled, SlotOf
      <4>3. running'[s] = orig.active.release
        BY <1>4, <1>5, <4>2 DEF Placed
      <4> QED BY <2>1, <4>2, <4>3
    <3>2. CASE switched
      <4>1. s \in Two /\ running' = running /\ running[candidateSlot] = rel
        BY <1>0, <1>5, <1>6, <2>3, <3>2
           DEF RouteSound, BodyPcs, RoutePcs, Switching, Switched
      <4>2. CASE s = candidateSlot
        BY <2>2, <3>2, <4>1, <4>2
      <4>3. CASE s = SlotOf(orig.active)
        BY <1>0, <1>1, <2>1, <2>3, <4>1, <4>3 DEF RouteSound, SlotOf
      <4> QED BY <4>1, <4>2, <4>3
    <3> QED BY <1>0, <3>1, <3>2 DEF Typed
  <2> QED BY <1>2, <2>1, <2>3 DEF TrafficSound, Gated
<1>12. AuditSound'
  BY <1>0, <1>1, <1>2, <1>3
     DEF AuditSound, Switching, Succeeded, RoutePcs, RecoverPcs, LoadPcs, BodyPcs, LoggedSteps
<1>13. LinkSound'
  <2>1. pc = "save_prepared" => Logged(Event("promotion-started"))
    BY <1>0 DEF AuditSound, Behind, LoggedSteps, Pending, Migrating, Checking, LoadPcs, BodyPcs
  <2> QED BY <1>0, <1>1, <1>2, <1>3, <1>6, <2>1, DerivedStates
      DEF LinkSound, EventAudited, StoreSound, Preparing, Before, LoadPcs, Ending
<1> QED BY <1>7, <1>8, <1>9, <1>10, <1>11, <1>12, <1>13 DEF OperationInvariant

-----------------------------------------------------------------------------
(* Going on in the body.                                                   *)

Started == {"append_migration_started", "save_running"} \cup Migrating \cup Checking

\* Two calls of the body between which only the audit history moves.
SameStage(p, q) ==
    /\ p \in BodyPcs /\ q \in BodyPcs
    /\ \A stage \in {Preparing, Pending, Migrating, Checking, Switched, {"append_succeeded"}} :
           p \in stage <=> q \in stage

\* No failure is recorded while the body goes on.
LEMMA BehindSuccess == \A p : Failures \cup {"promotion-failed"} \subseteq Steps \ Behind(p)
BY DEF Behind, Failures, Steps

\* A call returns: only durable state and history have moved, as they should.
LEMMA AdvanceInvariant ==
    ASSUME OperationInvariant, pc \in BodyPcs, pc' \in BodyPcs,
           UNCHANGED <<locals, outcome, lapses, done, host>>,
           pc \in Preparing <=> pc' \in Preparing,
           pc \in Switched \cup {"append_succeeded"} <=> pc' \in Switched \cup {"append_succeeded"},
           pc' \in Started => pc \in Started,
           store' \in DeploymentStates, StoreSound',
           log' \in Seq(EventIds),
           AuditOrder',
           \A i \in 1..Len(log') : log'[i].req \in done',
           \A x : Logged(x) => Logged(x)',
           LoggedSteps' = Behind(pc')
    PROVE  OperationInvariant'
<1>0. Typed /\ ControlSound /\ StoreSound /\ RouteSound /\ TrafficSound /\ AuditSound /\ LinkSound
  BY DEF OperationInvariant
<1>1. /\ orig # Nil /\ orig \in DeploymentStates /\ req \in Requests /\ pc # "idle"
      /\ failure = Nil
  BY <1>0 DEF ControlSound, Typed, BodyPcs
<1>2. /\ UNCHANGED <<req, orig, written, switched, failure, restoring, oldConf, outcome, lapses, done>>
      /\ UNCHANGED <<running, conf, loaded>>
      /\ UNCHANGED <<rel, prepared, runningState, succeededState, completedState, candidateSlot>>
  BY SameDerived DEF locals, host
<1>3. /\ pc' \notin Before \cup RoutePcs \cup RecoverPcs \cup {"returned"} \cup Ending \cup LoadPcs
      /\ pc \notin Before \cup RoutePcs \cup RecoverPcs \cup {"returned"} \cup Ending \cup LoadPcs
      /\ ~Switching' /\ ~Rejected' /\ ~Succeeded' /\ ~Failed'
      /\ \A p \in BodyPcs : p \in Preparing \cup Pending \cup Migrating \cup Checking
                              <=> p \notin Switched \cup {"append_succeeded"}
      /\ \A p \in Preparing : p \notin Pending \cup Migrating \cup Checking
      /\ pc' # "restore_state"
  BY DEF Before, RoutePcs, RecoverPcs, LoadPcs, BodyPcs, Switching, Rejected, Succeeded, Failed,
         Ending, Preparing, Pending, Migrating, Checking, Switched
<1>4. Typed'
  BY <1>0, <1>1, <1>2 DEF Typed
<1>5. ControlSound'
  BY <1>0, <1>1, <1>2, <1>3 DEF ControlSound
<1>6. RouteSound'
  <2>1. Restored' <=> Restored
    BY <1>2 DEF Restored
  <2>2. Settled(orig)' <=> Settled(orig)
    BY <1>2 DEF Settled
  <2>3. pc' # "route_reload" /\ pc' # "restore_state"
    BY DEF BodyPcs
  <2> QED BY <1>0, <1>1, <1>2, <1>3, <2>1, <2>2, <2>3 DEF RouteSound, Started
<1>7. TrafficSound'
  BY <1>0, <1>2 DEF TrafficSound, Gated, Restored
<1>8. AuditSound'
  <2>1. switched' => GateSteps \subseteq LoggedSteps'
    <3>1. LoggedSteps \subseteq LoggedSteps'
      BY <1>2 DEF LoggedSteps, Event
    <3> QED BY <1>0, <1>2, <3>1 DEF AuditSound
  <2> QED BY <1>0, <1>1, <1>2, <1>3, <2>1, BehindSuccess DEF AuditSound
<1>9. LinkSound'
  BY <1>0, <1>2, <1>3 DEF LinkSound, EventAudited
<1> QED BY <1>4, <1>5, <1>6, <1>7, <1>8, <1>9 DEF OperationInvariant

\* The durable state stays where it is within a stage.
LEMMA StageKeepsStore ==
    ASSUME OperationInvariant, SameStage(pc, pc'),
           UNCHANGED <<locals, outcome, lapses, store>>
    PROVE  store' \in DeploymentStates /\ StoreSound'
<1>1. /\ UNCHANGED <<req, orig, restoring, outcome, lapses>>
      /\ UNCHANGED <<rel, prepared, runningState, succeededState, completedState>>
  BY SameDerived DEF locals
<1>2. /\ pc' \notin {"save_cleared", "reload", "returned"} \cup RoutePcs \cup Ending
      /\ pc \notin {"save_cleared", "reload", "returned"} \cup RoutePcs \cup Ending
  BY DEF SameStage, BodyPcs, RoutePcs, Ending
<1>3. /\ pc \in Preparing <=> pc' \in Preparing
      /\ pc \in Pending <=> pc' \in Pending
      /\ pc \in Migrating <=> pc' \in Migrating
      /\ pc \in Checking <=> pc' \in Checking
      /\ pc \in Switched <=> pc' \in Switched
      /\ pc = "append_succeeded" <=> pc' = "append_succeeded"
  BY DEF SameStage
<1>4. StoreSound /\ store \in DeploymentStates
  BY DEF OperationInvariant, Typed
<1> QED BY <1>1, <1>2, <1>3, <1>4 DEF StoreSound, Switching, Succeeded, Failed

\* The body at a call: which steps are audited, and that nothing failed yet.
LEMMA InBody ==
    ASSUME OperationInvariant, pc \in BodyPcs
    PROVE  /\ pc # "idle" /\ req \in Requests /\ orig \in DeploymentStates
           /\ failure = Nil /\ orig # Nil
           /\ LoggedSteps = Behind(pc)
           /\ store \in DeploymentStates
           /\ {conf, loaded} \subseteq Slots \cup {Nil}
           /\ "promotion-failed" \notin LoggedSteps
BY BehindSuccess DEF OperationInvariant, Typed, ControlSound, AuditSound, BodyPcs

\* An exception that leaves disk and host alone.
LEMMA RaiseQuietly ==
    ASSUME OperationInvariant, pc \in BodyPcs,
           NEW event \in Failures \cup {Nil}, Raise(event),
           event # Nil => /\ Precedes(event) \subseteq Behind(pc)
                          /\ \A step \in Behind(pc) : event \notin Contradicts(step),
           UNCHANGED <<store, log, host, done>>
    PROVE  OperationInvariant'
<1>1. UNCHANGED <<req, orig>> /\ UNCHANGED <<running, conf, loaded>>
  BY DEF Raise, host
<1>2. /\ log' \in Seq(EventIds)
      /\ AuditOrder'
      /\ \A i \in 1..Len(log') : log'[i].req \in done'
      /\ \A x : Logged(x) => Logged(x)'
      /\ LoggedSteps' = LoggedSteps
  BY <1>1, AuditQuiet
<1> QED BY <1>1, <1>2, InBody, RaiseInvariant

\* failure_event is not set in the body.
LEMMA RaiseNothing ==
    ASSUME OperationInvariant, pc \in BodyPcs, Raise(failure)
    PROVE  Raise(Nil)
BY InBody DEF Raise

\* An append of the body.
LEMMA AppendStepInvariant ==
    ASSUME OperationInvariant, NEW at, NEW step \in Steps, NEW next,
           AppendStep(at, step, next), SameStage(at, next),
           next \in Started => at \in Started,
           Behind(next) = Behind(at) \cup {step},
           Precedes(step) \subseteq Behind(at),
           \A s \in Behind(at) : step \notin Contradicts(s)
    PROVE  OperationInvariant'
<1>1. /\ pc = at /\ pc \in BodyPcs /\ next \in BodyPcs
      /\ UNCHANGED <<store, residue, host, done>>
  BY DEF AppendStep, SameStage
<1>2. /\ UNCHANGED <<req, orig>>
      /\ \/ log' = log
         \/ Appendable(Event(step)) /\ log' = Append(log, Event(step))
  BY DEF AppendStep, AppendOk, AppendRaises, Goto, Raise, locals
<1>3. /\ log' \in Seq(EventIds)
      /\ AuditOrder'
      /\ \A i \in 1..Len(log') : log'[i].req \in done'
      /\ \A x : Logged(x) => Logged(x)'
      /\ LoggedSteps' \in {LoggedSteps, LoggedSteps \cup {step}}
      /\ log' = Append(log, Event(step)) => LoggedSteps' = LoggedSteps \cup {step}
  BY <1>1, <1>2, InBody, AuditAppend
<1>4. CASE AppendOk(Event(step)) /\ Goto(next)
  <2>1. pc' = next /\ UNCHANGED <<locals, outcome, lapses>>
    BY <1>4 DEF Goto
  <2>2. LoggedSteps' = Behind(pc')
    BY <1>1, <1>3, <1>4, <2>1, InBody DEF AppendOk
  <2>3. store' \in DeploymentStates /\ StoreSound'
    BY <1>1, <2>1, StageKeepsStore
  <2>4. /\ pc \in Preparing <=> pc' \in Preparing
        /\ pc \in Switched \cup {"append_succeeded"} <=> pc' \in Switched \cup {"append_succeeded"}
    BY <1>1, <2>1 DEF SameStage
  <2> QED BY <1>1, <1>3, <2>1, <2>2, <2>3, <2>4, AdvanceInvariant
<1>5. CASE AppendRaises(Event(step)) /\ Raise(failure)
  <2>1. Raise(Nil)
    BY <1>1, <1>5, RaiseNothing
  <2>2. "promotion-failed" \notin LoggedSteps'
    BY <1>1, <1>3, InBody, BehindSuccess
  <2>3. UNCHANGED <<running, conf, loaded>>
    BY <1>1 DEF host
  <2> QED BY <1>1, <1>3, <2>1, <2>2, <2>3, InBody, RaiseInvariant
<1> QED BY <1>4, <1>5 DEF AppendStep

\* The appends whose success leads to the next call of the body.
LEMMA BodyAppends ==
    ASSUME OperationInvariant,
           \/ AppendStarted \/ AppendMigrationStarted \/ AppendMigrationSucceeded
           \/ AppendLiveness \/ AppendReadiness \/ AppendSwitchSucceeded
    PROVE  OperationInvariant'
<1> USE DEF SameStage, BodyPcs, Preparing, Pending, Migrating, Checking, Switched, Started,
            Behind, LoadPcs, RoutePcs, Precedes, Contradicts, Steps
<1>1. CASE AppendStarted
  BY <1>1, AppendStepInvariant DEF AppendStarted
<1>2. CASE AppendMigrationStarted
  BY <1>2, AppendStepInvariant DEF AppendMigrationStarted
<1>3. CASE AppendMigrationSucceeded
  BY <1>3, AppendStepInvariant DEF AppendMigrationSucceeded
<1>4. CASE AppendLiveness
  BY <1>4, AppendStepInvariant DEF AppendLiveness
<1>5. CASE AppendReadiness
  BY <1>5, AppendStepInvariant DEF AppendReadiness
<1>6. CASE AppendSwitchSucceeded
  BY <1>6, AppendStepInvariant DEF AppendSwitchSucceeded
<1> QED BY <1>1, <1>2, <1>3, <1>4, <1>5, <1>6

\* A checkpoint of the body, except the first.
LEMMA CheckpointInvariant ==
    ASSUME OperationInvariant,
           NEW at \in {"save_running", "save_succeeded", "save_completed"},
           NEW value \in DeploymentStates, NEW next \in BodyPcs,
           SaveStep(at, value, next),
           Behind(next) = Behind(at),
           at \in Preparing <=> next \in Preparing,
           at \in Switched \cup {"append_succeeded"} <=> next \in Switched \cup {"append_succeeded"},
           next \in Started => at \in Started,
           (UNCHANGED <<locals, outcome, lapses>> /\ pc' = next /\ store' = value) => StoreSound'
    PROVE  OperationInvariant'
<1>1. /\ pc = at /\ pc \in BodyPcs
      /\ UNCHANGED <<log, host, done>> /\ UNCHANGED <<running, conf, loaded>>
      /\ UNCHANGED <<req, orig>>
      /\ store' \in {store, value}
  BY DEF SaveStep, BodyPcs, SaveOk, SaveRaises, host, Goto, Raise, locals
<1>2. /\ log' \in Seq(EventIds)
      /\ AuditOrder'
      /\ \A i \in 1..Len(log') : log'[i].req \in done'
      /\ \A x : Logged(x) => Logged(x)'
      /\ LoggedSteps' = LoggedSteps
  BY <1>1, AuditQuiet
<1>3. CASE SaveOk(value) /\ Goto(next)
  <2>1. pc' = next /\ UNCHANGED <<locals, outcome, lapses>> /\ store' = value
    BY <1>3 DEF Goto, SaveOk
  <2>2. LoggedSteps' = Behind(pc')
    BY <1>1, <1>2, <2>1, InBody
  <2>3. StoreSound'
    BY <2>1
  <2> QED BY <1>1, <1>2, <2>1, <2>2, <2>3, AdvanceInvariant
<1>4. CASE SaveRaises(value) /\ Raise(failure)
  <2>1. Raise(Nil)
    BY <1>1, <1>4, RaiseNothing
  <2>2. pc \notin Preparing
    BY <1>1 DEF Preparing
  <2>3. store' \in DeploymentStates
    BY <1>1, InBody
  <2> QED BY <1>1, <1>2, <2>1, <2>2, <2>3, InBody, RaiseInvariant
<1> QED BY <1>3, <1>4 DEF SaveStep

LEMMA BodySaves ==
    ASSUME OperationInvariant, SaveRunning \/ SaveSucceeded \/ SaveCompleted
    PROVE  OperationInvariant'
<1>0. pc \in BodyPcs
  BY DEF SaveRunning, SaveSucceeded, SaveCompleted, SaveStep, BodyPcs
<1>1. /\ {runningState, succeededState, completedState} \subseteq DeploymentStates
      /\ orig # Nil
  BY <1>0, InBody, DerivedStates
<1>2. UNCHANGED <<locals, outcome, lapses>> =>
        /\ UNCHANGED <<prepared, runningState, succeededState, completedState>>
        /\ UNCHANGED <<orig, restoring, outcome, lapses>>
  BY SameDerived DEF locals
<1> USE DEF BodyPcs, Preparing, Pending, Migrating, Checking, Switched, Started, Behind, LoadPcs,
            RoutePcs, Ending, StoreSound, Switching, Succeeded, Failed
<1>3. CASE SaveRunning
  <2>1. PICK v \in DeploymentStates : v = runningState
    BY <1>1
  <2>2. SaveStep("save_running", v, "migrate")
    BY <1>3, <2>1 DEF SaveRunning, SaveStep, SaveOk, SaveRaises
  <2>3. (UNCHANGED <<locals, outcome, lapses>> /\ pc' = "migrate" /\ store' = v) => StoreSound'
    BY <1>2, <2>1
  <2> QED BY <2>2, <2>3, CheckpointInvariant
<1>4. CASE SaveSucceeded
  <2>1. PICK v \in DeploymentStates : v = succeededState
    BY <1>1
  <2>2. SaveStep("save_succeeded", v, "append_migration_succeeded")
    BY <1>4, <2>1 DEF SaveSucceeded, SaveStep, SaveOk, SaveRaises
  <2>3. (UNCHANGED <<locals, outcome, lapses>> /\ pc' = "append_migration_succeeded" /\ store' = v)
          => StoreSound'
    BY <1>2, <2>1
  <2> QED BY <2>2, <2>3, CheckpointInvariant
<1>5. CASE SaveCompleted
  <2>1. PICK v \in DeploymentStates : v = completedState
    BY <1>1
  <2>2. SaveStep("save_completed", v, "append_succeeded")
    BY <1>5, <2>1 DEF SaveCompleted, SaveStep, SaveOk, SaveRaises
  <2>3. (UNCHANGED <<locals, outcome, lapses>> /\ pc' = "append_succeeded" /\ store' = v)
          => StoreSound'
    BY <1>2, <2>1
  <2> QED BY <2>2, <2>3, CheckpointInvariant
<1> QED BY <1>3, <1>4, <1>5

\* Commands and probes: they succeed, or raise with the failure event of the
\* gate, whose opposite is not in the history.
LEMMA QuietStepInvariant ==
    ASSUME OperationInvariant, NEW next, NEW event \in Failures \cup {Nil},
           UNCHANGED <<store, log, host, done>>,
           Goto(next) \/ Raise(event) \/ Raise(failure),
           SameStage(pc, next),
           next \in Started => pc \in Started,
           Behind(next) = Behind(pc),
           event # Nil => /\ Precedes(event) \subseteq Behind(pc)
                          /\ \A step \in Behind(pc) : event \notin Contradicts(step)
    PROVE  OperationInvariant'
<1>1. pc \in BodyPcs /\ next \in BodyPcs
  BY DEF SameStage
<1>2. CASE Goto(next)
  <2>1. pc' = next /\ UNCHANGED <<locals, outcome, lapses>> /\ UNCHANGED <<req, orig>>
    BY <1>2 DEF Goto, locals
  <2>2. /\ log' \in Seq(EventIds)
        /\ AuditOrder'
        /\ \A i \in 1..Len(log') : log'[i].req \in done'
        /\ \A x : Logged(x) => Logged(x)'
        /\ LoggedSteps' = LoggedSteps
    BY <2>1, AuditQuiet
  <2>3. LoggedSteps' = Behind(pc')
    BY <1>1, <2>1, <2>2, InBody
  <2>4. store' \in DeploymentStates /\ StoreSound'
    BY <2>1, StageKeepsStore
  <2>5. /\ pc \in Preparing <=> pc' \in Preparing
        /\ pc \in Switched \cup {"append_succeeded"} <=> pc' \in Switched \cup {"append_succeeded"}
    BY <2>1 DEF SameStage
  <2> QED BY <1>1, <2>1, <2>2, <2>3, <2>4, <2>5, AdvanceInvariant
<1>3. CASE Raise(event)
  BY <1>1, <1>3, RaiseQuietly
<1>4. CASE Raise(failure)
  BY <1>1, <1>4, RaiseNothing, RaiseQuietly
<1> QED BY <1>2, <1>3, <1>4

LEMMA BodyChecks ==
    ASSUME OperationInvariant,
           \/ PullExactImage \/ VerifyLocalRepoDigest \/ ExecuteMigration \/ CheckLiveness
           \/ CheckReadiness \/ ValidateApplication \/ ValidateNginx
    PROVE  OperationInvariant'
<1>0. UNCHANGED <<store, log, host, done>>
  BY DEF PullExactImage, VerifyLocalRepoDigest, ExecuteMigration, CheckLiveness,
         CheckReadiness, ValidateApplication, ValidateNginx, CheckStep, ProbeStep, disk
<1> USE DEF SameStage, BodyPcs, Preparing, Pending, Migrating, Checking, Switched, Started,
            Behind, LoadPcs, RoutePcs, Precedes, Contradicts, Failures, CheckStep, ProbeStep
<1>1. CASE PullExactImage
  BY <1>0, <1>1, QuietStepInvariant DEF PullExactImage
<1>2. CASE VerifyLocalRepoDigest
  BY <1>0, <1>2, QuietStepInvariant DEF VerifyLocalRepoDigest
<1>3. CASE ExecuteMigration
  BY <1>0, <1>3, QuietStepInvariant DEF ExecuteMigration
<1>4. CASE CheckLiveness
  BY <1>0, <1>4, QuietStepInvariant DEF CheckLiveness
<1>5. CASE CheckReadiness
  BY <1>0, <1>5, QuietStepInvariant DEF CheckReadiness
<1>6. CASE ValidateApplication
  BY <1>0, <1>6, QuietStepInvariant DEF ValidateApplication
<1>7. CASE ValidateNginx
  BY <1>0, <1>7, QuietStepInvariant DEF ValidateNginx
<1> QED BY <1>1, <1>2, <1>3, <1>4, <1>5, <1>6, <1>7

\* The candidate checkpoint: candidate_written is set once save returns.
LEMMA SavePreparedInvariant ==
    ASSUME OperationInvariant, SavePrepared
    PROVE  OperationInvariant'
<1>0. Typed /\ ControlSound /\ StoreSound /\ RouteSound /\ TrafficSound /\ AuditSound /\ LinkSound
  BY DEF OperationInvariant
<1>1. /\ pc = "save_prepared" /\ pc \in BodyPcs
      /\ UNCHANGED <<log, host, done, running, conf, loaded, req, orig>>
      /\ store' \in {store, prepared}
  BY DEF SavePrepared, BodyPcs, SaveOk, SaveRaises, host, Raise
<1>2. /\ log' \in Seq(EventIds)
      /\ AuditOrder'
      /\ \A i \in 1..Len(log') : log'[i].req \in done'
      /\ \A x : Logged(x)' <=> Logged(x)
      /\ LoggedSteps' = LoggedSteps
  BY <1>1, AuditQuiet
<1>3. prepared \in DeploymentStates /\ orig # Nil
  BY <1>1, InBody, DerivedStates
<1>4. CASE SaveRaises(prepared) /\ Raise(failure)
  <2>1. Raise(Nil)
    BY <1>1, <1>4, RaiseNothing
  <2>2. store' \in DeploymentStates /\ (store' = store \/ store' = prepared)
    BY <1>1, <1>3, InBody
  <2> QED BY <1>1, <1>2, <2>1, <2>2, InBody, RaiseInvariant
<1>5. CASE /\ pc' = "pull" /\ written' = TRUE /\ store' = prepared
           /\ UNCHANGED <<req, orig, switched, failure, restoring, oldConf, outcome, lapses>>
  <2>1. UNCHANGED <<rel, prepared, runningState, succeededState, completedState, candidateSlot>>
    BY <1>1, SameDerived
  <2> USE DEF LoadPcs, BodyPcs, RoutePcs, RecoverPcs, Before, Preparing, Pending, Migrating,
              Checking, Switched, Ending, Rejected, Succeeded, Failed, Switching
  <2>2. Typed'
    BY <1>0, <1>1, <1>2, <1>3, <1>5 DEF Typed
  <2>3. ControlSound'
    BY <1>0, <1>1, <1>5 DEF ControlSound
  <2>4. StoreSound'
    BY <1>5, <2>1 DEF StoreSound
  <2>5. RouteSound'
    BY <1>0, <1>1, <1>5, <2>1 DEF RouteSound, Settled, Restored, ControlSound
  <2>6. TrafficSound'
    BY <1>0, <1>1, <1>2, <1>5 DEF TrafficSound, Gated, Restored
  <2>7. AuditSound'
    BY <1>0, <1>1, <1>2, <1>5 DEF AuditSound, Behind, ControlSound
  <2>8. LinkSound'
    BY <1>0, <1>1, <1>2, <1>5 DEF LinkSound, EventAudited
  <2> QED BY <2>2, <2>3, <2>4, <2>5, <2>6, <2>7, <2>8 DEF OperationInvariant
<1> QED BY <1>4, <1>5 DEF SavePrepared, SaveOk

\* The candidate starts in the slot that is not active; the active slot is left
\* alone even if the command fails.
LEMMA StartCandidateInvariant ==
    ASSUME OperationInvariant, StartCandidate
    PROVE  OperationInvariant'
<1>0. Typed /\ ControlSound /\ StoreSound /\ RouteSound /\ TrafficSound /\ AuditSound /\ LinkSound
  BY DEF OperationInvariant
<1>1. /\ pc = "start_candidate" /\ pc \in BodyPcs
      /\ UNCHANGED <<store, log, conf, loaded, done, req, orig>>
      /\ running' \in {running, [running EXCEPT ![candidateSlot] = rel]}
  BY DEF StartCandidate, BodyPcs, disk, Goto, Raise, locals
<1>2. /\ log' \in Seq(EventIds)
      /\ AuditOrder'
      /\ \A i \in 1..Len(log') : log'[i].req \in done'
      /\ \A x : Logged(x)' <=> Logged(x)
      /\ LoggedSteps' = LoggedSteps
  BY <1>1, AuditQuiet
<1>3. CASE Raise(failure)
  <2>1. Raise(Nil)
    BY <1>1, <1>3, RaiseNothing
  <2>2. pc \notin Preparing
    BY <1>1 DEF Preparing
  <2> QED BY <1>1, <1>2, <2>1, <2>2, InBody, RaiseInvariant
<1>4. CASE /\ running' = [running EXCEPT ![candidateSlot] = rel]
           /\ Goto("append_migration_started")
  <2>0. /\ pc' = "append_migration_started"
        /\ UNCHANGED <<req, orig, written, switched, failure, restoring, oldConf, outcome, lapses>>
    BY <1>4 DEF Goto, locals
  <2>1. UNCHANGED <<rel, prepared, runningState, succeededState, completedState, candidateSlot>>
    BY <1>1, SameDerived
  <2>2. /\ orig # Nil /\ orig \in DeploymentStates /\ req \in Requests /\ rel \in Releases
        /\ candidateSlot \in Slots
        /\ orig.active # Nil => orig.active \in Placed /\ orig.active.slot # candidateSlot
    BY <1>1, InBody, DerivedStates DEF DeploymentStates
  <2>3. /\ running' \in [Slots -> Releases \cup {Nil}]
        /\ running'[candidateSlot] = rel
        /\ \A s \in Slots : s # candidateSlot => running'[s] = running[s]
    BY <1>0, <1>4, <2>2 DEF Typed
  <2> USE DEF LoadPcs, BodyPcs, RoutePcs, RecoverPcs, Before, Preparing, Pending, Migrating,
              Checking, Switched, Ending, Rejected, Succeeded, Failed, Switching
  <2>4. Typed'
    BY <1>0, <1>1, <1>2, <2>0, <2>3 DEF Typed
  <2>5. ControlSound'
    BY <1>0, <1>1, <2>0 DEF ControlSound
  <2>6. StoreSound'
    BY <1>0, <1>1, <2>0, <2>1 DEF StoreSound
  <2>7. orig.active # Nil => running'[orig.active.slot] = running[orig.active.slot]
    BY <2>2, <2>3 DEF Placed
  <2>8. RouteSound'
    BY <1>0, <1>1, <2>0, <2>1, <2>2, <2>3, <2>7 DEF RouteSound, Settled, Restored, ControlSound
  <2>9. TrafficSound'
    <3>1. Restored => Settled(orig) /\ loaded' = loaded /\ conf' = conf
      BY <1>0, <1>1 DEF RouteSound
    <3>2. Restored => (orig.active # Nil => Gated(orig.active.release))
      BY <1>0, <2>2 DEF TrafficSound
    <3> QED BY <1>1, <1>2, <2>0, <2>2, <2>7, <3>1, <3>2
            DEF TrafficSound, Gated, Restored, Settled, SlotOf
  <2>10. AuditSound'
    BY <1>0, <1>1, <1>2, <2>0 DEF AuditSound, Behind, ControlSound
  <2>11. LinkSound'
    BY <1>0, <1>1, <1>2, <2>0 DEF LinkSound, EventAudited
  <2> QED BY <2>4, <2>5, <2>6, <2>8, <2>9, <2>10, <2>11 DEF OperationInvariant
<1> QED BY <1>3, <1>4 DEF StartCandidate

\* The switch is announced before it is attempted.
LEMMA AppendSwitchStartedInvariant ==
    ASSUME OperationInvariant, AppendSwitchStarted
    PROVE  OperationInvariant'
<1>0. Typed /\ ControlSound /\ StoreSound /\ RouteSound /\ TrafficSound /\ AuditSound /\ LinkSound
  BY DEF OperationInvariant
<1>1. /\ pc = "append_switch_started" /\ pc \in BodyPcs
      /\ UNCHANGED <<store, host, done, running, conf, loaded, req, orig>>
      /\ \/ log' = log
         \/ /\ Appendable(Event("traffic-switch-started"))
            /\ log' = Append(log, Event("traffic-switch-started"))
  BY DEF AppendSwitchStarted, BodyPcs, host, AppendOk, AppendRaises, Raise
<1>2. LoggedSteps = {"promotion-started", "migration-started", "migration-succeeded",
                     "liveness-passed", "readiness-passed"}
  BY <1>1, InBody DEF Behind, LoadPcs, Pending, Migrating, Checking
<1>3. /\ log' \in Seq(EventIds)
      /\ AuditOrder'
      /\ \A i \in 1..Len(log') : log'[i].req \in done'
      /\ \A x : Logged(x) => Logged(x)'
      /\ LoggedSteps' \in {LoggedSteps, LoggedSteps \cup {"traffic-switch-started"}}
      /\ log' = Append(log, Event("traffic-switch-started")) =>
            LoggedSteps' = LoggedSteps \cup {"traffic-switch-started"}
  <2>1. /\ "traffic-switch-started" \in Steps
        /\ Precedes("traffic-switch-started") \subseteq LoggedSteps
        /\ "promotion-failed" \notin LoggedSteps
        /\ \A s \in LoggedSteps : "traffic-switch-started" \notin Contradicts(s)
    BY <1>2 DEF Precedes, Contradicts, Steps
  <2>2. pc # "idle" /\ UNCHANGED <<req, orig, done>>
    BY <1>1
  <2> QED BY <1>1, <2>1, <2>2, AuditAppend
<1>4. CASE AppendRaises(Event("traffic-switch-started")) /\ Raise(failure)
  <2>1. Raise(Nil)
    BY <1>1, <1>4, RaiseNothing
  <2>2. pc \notin Preparing /\ "promotion-failed" \notin LoggedSteps'
    BY <1>1, <1>2, <1>3 DEF Preparing
  <2> QED BY <1>1, <1>3, <2>1, <2>2, InBody, RaiseInvariant
<1>5. CASE /\ AppendOk(Event("traffic-switch-started"))
           /\ pc' = "route_write" /\ failure' = "traffic-switch-failed" /\ switched' = TRUE
           /\ UNCHANGED <<req, orig, written, restoring, oldConf, outcome, lapses>>
  <2>1. UNCHANGED <<rel, prepared, runningState, succeededState, completedState, candidateSlot>>
    BY <1>1, SameDerived
  <2>2. LoggedSteps' = {"promotion-started", "migration-started", "migration-succeeded",
                        "liveness-passed", "readiness-passed", "traffic-switch-started"}
    BY <1>2, <1>3, <1>5 DEF AppendOk
  <2>3. orig # Nil /\ ~restoring /\ written
    BY <1>0, <1>1 DEF ControlSound, BodyPcs, Checking
  <2> USE DEF LoadPcs, BodyPcs, RoutePcs, RecoverPcs, Before, Preparing, Pending, Migrating,
              Checking, Switched, Ending, Rejected, Succeeded, Failed, Switching
  <2>4. Typed'
    BY <1>0, <1>1, <1>3, <1>5 DEF Typed, Failures
  <2>5. ControlSound'
    BY <1>0, <1>1, <1>5, <2>3 DEF ControlSound
  <2>6. StoreSound'
    BY <1>0, <1>1, <1>5, <2>1 DEF StoreSound
  <2>7. RouteSound'
    BY <1>0, <1>1, <1>5, <2>1, <2>3 DEF RouteSound, Settled, Restored
  <2>8. TrafficSound'
    BY <1>0, <1>1, <1>3, <1>5 DEF TrafficSound, Gated, Restored
  <2>9. AuditSound'
    BY <1>0, <1>1, <1>3, <1>5, <2>2
       DEF AuditSound, Behind, Precedes, Contradicts, GateSteps
  <2>10. LinkSound'
    BY <1>0, <1>1, <1>3, <1>5 DEF LinkSound, EventAudited
  <2> QED BY <2>4, <2>5, <2>6, <2>7, <2>8, <2>9, <2>10 DEF OperationInvariant
<1> QED BY <1>4, <1>5 DEF AppendSwitchStarted

\* The last append: deploy returns only after it.
LEMMA AppendSucceededInvariant ==
    ASSUME OperationInvariant, AppendSucceeded
    PROVE  OperationInvariant'
<1>0. Typed /\ ControlSound /\ StoreSound /\ RouteSound /\ TrafficSound /\ AuditSound /\ LinkSound
  BY DEF OperationInvariant
<1>1. /\ pc = "append_succeeded" /\ pc \in BodyPcs
      /\ UNCHANGED <<store, host, done, running, conf, loaded, req, orig>>
      /\ \/ log' = log
         \/ /\ Appendable(Event("promotion-succeeded"))
            /\ log' = Append(log, Event("promotion-succeeded"))
  BY DEF AppendSucceeded, BodyPcs, host, AppendOk, AppendRaises, Raise, locals
<1>2. LoggedSteps = {"promotion-started", "migration-started", "migration-succeeded",
                     "liveness-passed", "readiness-passed", "traffic-switch-started",
                     "traffic-switch-succeeded"}
  BY <1>1, InBody DEF Behind, LoadPcs, Pending, Migrating, Checking, RoutePcs
<1>3. /\ log' \in Seq(EventIds)
      /\ AuditOrder'
      /\ \A i \in 1..Len(log') : log'[i].req \in done'
      /\ \A x : Logged(x) => Logged(x)'
      /\ LoggedSteps' \in {LoggedSteps, LoggedSteps \cup {"promotion-succeeded"}}
      /\ log' = Append(log, Event("promotion-succeeded")) =>
            LoggedSteps' = LoggedSteps \cup {"promotion-succeeded"}
  <2>1. /\ "promotion-succeeded" \in Steps
        /\ Precedes("promotion-succeeded") \subseteq LoggedSteps
        /\ "promotion-failed" \notin LoggedSteps
        /\ \A s \in LoggedSteps : "promotion-succeeded" \notin Contradicts(s)
    BY <1>2 DEF Precedes, Contradicts, Steps
  <2>2. pc # "idle" /\ UNCHANGED <<req, orig, done>>
    BY <1>1
  <2> QED BY <1>1, <2>1, <2>2, AuditAppend
<1>4. CASE AppendRaises(Event("promotion-succeeded")) /\ Raise(failure)
  <2>1. Raise(Nil)
    BY <1>1, <1>4, RaiseNothing
  <2>2. pc \notin Preparing /\ "promotion-failed" \notin LoggedSteps'
    BY <1>1, <1>2, <1>3 DEF Preparing
  <2> QED BY <1>1, <1>3, <2>1, <2>2, InBody, RaiseInvariant
<1>5. CASE /\ AppendOk(Event("promotion-succeeded"))
           /\ pc' = "returned" /\ outcome' = "succeeded" /\ UNCHANGED <<locals, lapses>>
  <2>0. UNCHANGED <<req, orig, written, switched, failure, restoring, oldConf, lapses>>
    BY <1>5 DEF locals
  <2>1. UNCHANGED <<rel, prepared, runningState, succeededState, completedState, candidateSlot>>
    BY <1>1, SameDerived
  <2>2. LoggedSteps' = LoggedSteps \cup {"promotion-succeeded"}
    BY <1>3, <1>5 DEF AppendOk
  <2>3. /\ orig # Nil /\ orig \in DeploymentStates /\ req \in Requests
        /\ ~restoring /\ written /\ switched /\ failure = Nil
    BY <1>0, <1>1, InBody DEF ControlSound, BodyPcs
  <2> USE DEF LoadPcs, BodyPcs, RoutePcs, RecoverPcs, Before, Preparing, Pending, Migrating,
              Checking, Switched, Ending, Rejected, Succeeded, Failed, Switching
  <2>4. Typed'
    BY <1>0, <1>1, <1>3, <1>5, <2>0 DEF Typed
  <2>5. ControlSound'
    BY <1>0, <1>1, <1>5, <2>0, <2>3 DEF ControlSound
  <2>6. StoreSound'
    BY <1>0, <1>1, <1>5, <2>0, <2>1 DEF StoreSound
  <2>7. RouteSound'
    BY <1>0, <1>1, <1>5, <2>0, <2>1, <2>3 DEF RouteSound, Restored
  <2>8. TrafficSound'
    BY <1>0, <1>1, <1>3, <1>5, <2>0 DEF TrafficSound, Gated, Restored
  <2>9. AuditSound'
    BY <1>0, <1>1, <1>3, <1>5, <2>0, <2>2, <2>3 DEF AuditSound
  <2>10. LinkSound'
    <3>1. Logged(Event("promotion-succeeded"))' /\ Event("promotion-succeeded")' = Event("promotion-succeeded")
      BY <2>0, <2>2 DEF LoggedSteps, Event
    <3>2. store'.event = Event("promotion-succeeded")
      BY <1>0, <1>1, <2>3, DerivedStates DEF StoreSound
    <3> QED BY <1>0, <1>3, <1>5, <2>0, <2>3, <3>1, <3>2 DEF LinkSound, EventAudited, Event
  <2> QED BY <2>4, <2>5, <2>6, <2>7, <2>8, <2>9, <2>10 DEF OperationInvariant
<1> QED BY <1>4, <1>5 DEF AppendSucceeded

-----------------------------------------------------------------------------
(* The route replacement, for the switch and for recover().                *)

\* Both slots the route may name during a replacement serve a gated release.
LEMMA BothSlotsGated ==
    ASSUME OperationInvariant, pc \in RoutePcs, Restored,
           NEW s \in {SlotOf(orig.active), candidateSlot}, s # Nil
    PROVE  Gated(running[s])
<1>0. ControlSound /\ RouteSound /\ TrafficSound
  BY DEF OperationInvariant
<1>1. orig # Nil /\ switched
  BY <1>0 DEF ControlSound
<1>2. CASE s = candidateSlot
  BY <1>0, <1>1, <1>2, SwitchedIsGated DEF RouteSound
<1>3. CASE s = SlotOf(orig.active)
  BY <1>0, <1>1, <1>3 DEF RouteSound, TrafficSound, SlotOf
<1> QED BY <1>2, <1>3

\* A step of the replacement after which the replacement goes on.
LEMMA RouteContinues ==
    ASSUME OperationInvariant, pc \in RoutePcs, pc' \in RoutePcs,
           UNCHANGED <<store, log, running, done, outcome, lapses>>,
           UNCHANGED <<req, orig, written, switched, failure, restoring>>,
           {conf', loaded', oldConf'} \subseteq Slots \cup {Nil},
           Restored => /\ {conf', loaded'} \subseteq {SlotOf(orig.active), candidateSlot}
                       /\ pc' # "route_write" => oldConf' \in {SlotOf(orig.active), candidateSlot},
           pc' = "route_reload" => conf' = target
    PROVE  OperationInvariant'
<1>0. Typed /\ ControlSound /\ StoreSound /\ RouteSound /\ TrafficSound /\ AuditSound /\ LinkSound
  BY DEF OperationInvariant
<1>1. /\ log' \in Seq(EventIds)
      /\ AuditOrder'
      /\ \A i \in 1..Len(log') : log'[i].req \in done'
      /\ \A x : Logged(x)' <=> Logged(x)
      /\ LoggedSteps' = LoggedSteps
  BY AuditQuiet
<1>2. UNCHANGED <<rel, prepared, runningState, succeededState, completedState, candidateSlot>>
  BY SameDerived
<1>3. UNCHANGED target
  BY <1>2 DEF target
<1>4. Restored => \A s \in {conf', loaded'} : s # Nil => Gated(running[s])
  BY BothSlotsGated
<1> USE DEF LoadPcs, BodyPcs, RoutePcs, RecoverPcs, Before, Preparing, Pending, Migrating,
            Checking, Switched, Ending, Rejected, Succeeded, Failed, Switching
<1>5. Typed'
  BY <1>0, <1>1 DEF Typed
<1>6. ControlSound'
  BY <1>0 DEF ControlSound
<1>7. StoreSound'
  BY <1>0, <1>2 DEF StoreSound
<1>8. RouteSound'
  BY <1>0, <1>2, <1>3 DEF RouteSound, Restored
<1>9. TrafficSound'
  BY <1>0, <1>1, <1>4 DEF TrafficSound, Gated, Restored
<1>10. AuditSound'
  BY <1>0, <1>1 DEF AuditSound, Behind
<1>11. LinkSound'
  BY <1>0, <1>1 DEF LinkSound, EventAudited
<1> QED BY <1>5, <1>6, <1>7, <1>8, <1>9, <1>10, <1>11 DEF OperationInvariant

\* The replacement failed: the switch enters recover(), recover() gives up.
LEMMA RouteRaisesInvariant ==
    ASSUME OperationInvariant, pc \in RoutePcs \ {"route_write"}, RouteRaises,
           UNCHANGED <<store, log, running, done>>,
           {conf', loaded'} \subseteq {conf, loaded, oldConf}
    PROVE  OperationInvariant'
<1>0. Typed /\ ControlSound /\ StoreSound /\ RouteSound /\ TrafficSound /\ AuditSound /\ LinkSound
  BY DEF OperationInvariant
<1>1. UNCHANGED <<req, orig>>
  BY DEF RouteRaises, Raise, locals
<1>2. /\ log' \in Seq(EventIds)
      /\ AuditOrder'
      /\ \A i \in 1..Len(log') : log'[i].req \in done'
      /\ \A x : Logged(x)' <=> Logged(x)
      /\ LoggedSteps' = LoggedSteps
  BY <1>1, AuditQuiet
<1>3. {conf', loaded'} \subseteq Slots \cup {Nil}
  BY <1>0 DEF Typed
<1>4. CASE ~restoring
  <2>1. Switching /\ failure = "traffic-switch-failed" /\ Raise(failure)
    BY <1>0, <1>4 DEF Switching, ControlSound, RouteRaises
  <2>2. Raise("traffic-switch-failed") /\ "traffic-switch-failed" \in Failures
    BY <2>1 DEF Failures
  <2>3. /\ "promotion-failed" \notin LoggedSteps
        /\ Precedes("traffic-switch-failed") \subseteq LoggedSteps
        /\ \A step \in LoggedSteps : "traffic-switch-failed" \notin Contradicts(step)
    BY <1>0, <2>1, NilAssumption DEF AuditSound, RoutePcs, Steps
  <2>4. pc \notin BodyPcs /\ pc \notin Preparing /\ pc # "route_write" /\ store' \in DeploymentStates
    BY <1>0 DEF RoutePcs, BodyPcs, Preparing, Typed
  <2> QED BY <1>2, <1>3, <2>1, <2>2, <2>3, <2>4, RaiseInvariant
<1>5. CASE restoring
  <2>1. /\ pc' = "append_failure" /\ lapses' = lapses \cup {"unrestored"}
        /\ UNCHANGED <<req, orig, written, switched, failure, restoring, oldConf, outcome>>
    BY <1>5 DEF RouteRaises, locals
  <2>2. ~Restored' /\ orig # Nil
    BY <1>0, <2>1 DEF Restored, ControlSound
  <2>3. UNCHANGED <<rel, candidateSlot>>
    BY <2>1, SameDerived
  <2> USE DEF LoadPcs, BodyPcs, RoutePcs, RecoverPcs, Before, Preparing, Pending, Migrating,
              Checking, Switched, Ending, Rejected, Succeeded, Failed, Switching
  <2>4. Typed'
    BY <1>0, <1>2, <1>3, <2>1 DEF Typed
  <2>5. ControlSound'
    BY <1>0, <2>1 DEF ControlSound
  <2>6. StoreSound'
    BY <2>1, <2>2 DEF StoreSound
  <2>7. RouteSound'
    BY <1>0, <2>1, <2>2, <2>3 DEF RouteSound
  <2>8. TrafficSound'
    BY <2>2 DEF TrafficSound
  <2>9. AuditSound'
    BY <1>0, <1>2, <2>1 DEF AuditSound
  <2>10. LinkSound'
    BY <2>1 DEF LinkSound
  <2> QED BY <2>4, <2>5, <2>6, <2>7, <2>8, <2>9, <2>10 DEF OperationInvariant
<1> QED BY <1>4, <1>5

\* The reload is confirmed: the switch goes on to its event, recover() to the
\* state, each with the route it wanted.
LEMMA RouteDoneInvariant ==
    ASSUME OperationInvariant, pc = "route_reload", RouteDone, loaded' = conf, conf' = conf,
           UNCHANGED <<store, log, running, done>>
    PROVE  OperationInvariant'
<1>0. Typed /\ ControlSound /\ StoreSound /\ RouteSound /\ TrafficSound /\ AuditSound /\ LinkSound
  BY DEF OperationInvariant
<1>1. UNCHANGED <<req, orig, written, switched, restoring, oldConf, outcome, lapses>>
  BY DEF RouteDone
<1>2. /\ log' \in Seq(EventIds)
      /\ AuditOrder'
      /\ \A i \in 1..Len(log') : log'[i].req \in done'
      /\ \A x : Logged(x)' <=> Logged(x)
      /\ LoggedSteps' = LoggedSteps
  BY <1>1, AuditQuiet
<1>3. UNCHANGED <<rel, prepared, runningState, succeededState, completedState, candidateSlot>>
  BY <1>1, SameDerived
<1> USE DEF LoadPcs, BodyPcs, RoutePcs, RecoverPcs, Before, Preparing, Pending, Migrating,
            Checking, Switched, Ending, Rejected, Succeeded, Failed, Switching
<1>4. orig # Nil /\ written /\ switched /\ conf = target
  BY <1>0 DEF ControlSound, RouteSound
<1>5. /\ restoring => pc' = "restore_state" /\ failure' = failure /\ conf = SlotOf(orig.active)
      /\ ~restoring => pc' = "append_switch_succeeded" /\ failure' = Nil /\ conf = candidateSlot
  BY <1>4 DEF RouteDone, target
<1>6. Typed'
  BY <1>0, <1>1, <1>2, <1>5 DEF Typed
<1>7. ControlSound'
  BY <1>0, <1>1, <1>5 DEF ControlSound, Typed
<1>8. StoreSound'
  BY <1>0, <1>1, <1>3, <1>5 DEF StoreSound, Typed
<1>9. RouteSound'
  BY <1>0, <1>1, <1>3, <1>4, <1>5 DEF RouteSound, Settled, Restored, Typed
<1>10. TrafficSound'
  BY <1>0, <1>1, <1>2 DEF TrafficSound, Gated, Restored
<1>11. AuditSound'
  BY <1>0, <1>1, <1>2, <1>5 DEF AuditSound, Behind, Typed
<1>12. LinkSound'
  BY <1>0, <1>1, <1>2, <1>5 DEF LinkSound, EventAudited, Typed
<1> QED BY <1>6, <1>7, <1>8, <1>9, <1>10, <1>11, <1>12 DEF OperationInvariant

LEMMA RouteSteps ==
    ASSUME OperationInvariant, RouteWrite \/ RouteReload \/ RouteUndo \/ RouteUndoReload
    PROVE  OperationInvariant'
<1>0. Typed /\ ControlSound /\ RouteSound
  BY DEF OperationInvariant
<1>1. CASE RouteWrite
  <2>1. /\ pc = "route_write" /\ pc' \in {"route_reload", "route_undo"} /\ oldConf' = conf
        /\ UNCHANGED <<store, log, running, loaded, done, outcome, lapses>>
        /\ UNCHANGED <<req, orig, written, switched, failure, restoring>>
        /\ conf' \in {conf, target} /\ (pc' = "route_reload" => conf' = target)
    BY <1>1 DEF RouteWrite, disk
  <2>2. pc \in RoutePcs /\ pc' \in RoutePcs
    BY <2>1 DEF RoutePcs
  <2>3. orig \in DeploymentStates /\ req \in Requests
    BY <1>0, <2>1, <2>2 DEF Typed, ControlSound
  <2>4. target \in {SlotOf(orig.active), candidateSlot} /\ target \in Slots \cup {Nil}
    BY <2>3, DerivedStates DEF target
  <2>5. {conf', loaded', oldConf'} \subseteq Slots \cup {Nil}
    BY <1>0, <2>1, <2>4 DEF Typed
  <2>6. Restored => {conf', loaded', oldConf'} \subseteq {SlotOf(orig.active), candidateSlot}
    BY <1>0, <2>1, <2>2, <2>4 DEF RouteSound
  <2> QED BY <2>1, <2>2, <2>5, <2>6, RouteContinues
<1>2. CASE RouteReload
  <2>1. /\ pc = "route_reload" /\ pc \in RoutePcs
        /\ UNCHANGED <<store, log, running, conf, done>>
    BY <1>2 DEF RouteReload, disk, RoutePcs
  <2>2. CASE loaded' = conf /\ RouteDone
    BY <2>1, <2>2, RouteDoneInvariant
  <2>3. CASE loaded' \in {loaded, conf} /\ RouteFails("route_undo")
    <3>1. /\ pc' = "route_undo" /\ pc' \in RoutePcs /\ UNCHANGED <<outcome, lapses>>
          /\ UNCHANGED <<req, orig, written, switched, failure, restoring, oldConf>>
      BY <2>3 DEF RouteFails, locals, RoutePcs
    <3>2. {conf', loaded', oldConf'} \subseteq Slots \cup {Nil}
      BY <1>0, <2>1, <2>3, <3>1 DEF Typed
    <3>3. Restored => {conf', loaded', oldConf'} \subseteq {SlotOf(orig.active), candidateSlot}
      BY <1>0, <2>1, <2>3, <3>1 DEF RouteSound
    <3> QED BY <2>1, <3>1, <3>2, <3>3, RouteContinues
  <2> QED BY <1>2, <2>2, <2>3 DEF RouteReload
<1>3. CASE RouteUndo
  <2>1. /\ pc = "route_undo" /\ pc \in RoutePcs \ {"route_write"}
        /\ UNCHANGED <<store, log, running, loaded, done>>
    BY <1>3 DEF RouteUndo, disk, RoutePcs
  <2>2. CASE conf' = oldConf /\ RouteFails("route_undo_reload")
    <3>1. /\ pc' = "route_undo_reload" /\ pc' \in RoutePcs /\ UNCHANGED <<outcome, lapses>>
          /\ UNCHANGED <<req, orig, written, switched, failure, restoring, oldConf>>
      BY <2>2 DEF RouteFails, locals, RoutePcs
    <3>2. {conf', loaded', oldConf'} \subseteq Slots \cup {Nil}
      BY <1>0, <2>1, <2>2, <3>1 DEF Typed
    <3>3. Restored => {conf', loaded', oldConf'} \subseteq {SlotOf(orig.active), candidateSlot}
      BY <1>0, <2>1, <2>2, <3>1 DEF RouteSound
    <3> QED BY <2>1, <3>1, <3>2, <3>3, RouteContinues
  <2>3. CASE conf' \in {conf, oldConf} /\ RouteRaises
    BY <2>1, <2>3, RouteRaisesInvariant
  <2> QED BY <1>3, <2>2, <2>3 DEF RouteUndo
<1>4. CASE RouteUndoReload
  <2>1. /\ pc \in RoutePcs \ {"route_write"} /\ RouteRaises
        /\ UNCHANGED <<store, log, running, conf, done>> /\ loaded' \in {loaded, conf}
    BY <1>4 DEF RouteUndoReload, disk, RoutePcs
  <2> QED BY <2>1, RouteRaisesInvariant
<1> QED BY <1>1, <1>2, <1>3, <1>4

-----------------------------------------------------------------------------
(* The rest of recover().                                                  *)

\* The durable state is put back, or the restoration counts as cut short.
LEMMA RestoreStateInvariant ==
    ASSUME OperationInvariant, RestoreState
    PROVE  OperationInvariant'
<1>0. Typed /\ ControlSound /\ StoreSound /\ RouteSound /\ TrafficSound /\ AuditSound /\ LinkSound
  BY DEF OperationInvariant
<1>1. /\ pc = "restore_state" /\ pc' = "append_failure"
      /\ UNCHANGED <<log, done, outcome, running, conf, loaded>>
      /\ UNCHANGED <<req, orig, written, switched, failure, restoring, oldConf>>
      /\ store' \in {store, orig}
      /\ \/ store' = orig /\ lapses' = lapses
         \/ lapses' = lapses \cup {"unrestored"}
  BY DEF RestoreState, SaveOk, SaveRaises, host, locals
<1>2. /\ log' \in Seq(EventIds)
      /\ AuditOrder'
      /\ \A i \in 1..Len(log') : log'[i].req \in done'
      /\ \A x : Logged(x)' <=> Logged(x)
      /\ LoggedSteps' = LoggedSteps
  BY <1>1, AuditQuiet
<1>3. UNCHANGED <<rel, prepared, runningState, succeededState, completedState, candidateSlot>>
  BY <1>1, SameDerived
<1>4. /\ orig # Nil /\ orig \in DeploymentStates
      /\ Restored' => Restored /\ store' = orig
  BY <1>0, <1>1 DEF ControlSound, RecoverPcs, Typed, Restored
<1> USE DEF LoadPcs, BodyPcs, RoutePcs, RecoverPcs, Before, Preparing, Pending, Migrating,
            Checking, Switched, Ending, Rejected, Succeeded, Failed, Switching
<1>5. Typed'
  BY <1>0, <1>1, <1>2, <1>4 DEF Typed
<1>6. ControlSound'
  BY <1>0, <1>1 DEF ControlSound
<1>7. StoreSound'
  BY <1>1, <1>4 DEF StoreSound
<1>8. RouteSound'
  BY <1>0, <1>1, <1>3, <1>4 DEF RouteSound, Settled
<1>9. TrafficSound'
  BY <1>0, <1>1, <1>2, <1>4 DEF TrafficSound, Gated
<1>10. AuditSound'
  BY <1>0, <1>1, <1>2 DEF AuditSound
<1>11. LinkSound'
  BY <1>0, <1>1, <1>2, <1>4 DEF LinkSound, EventAudited
<1> QED BY <1>5, <1>6, <1>7, <1>8, <1>9, <1>10, <1>11 DEF OperationInvariant

\* The two last events of a failed promotion.
LEMMA AppendFailureInvariant ==
    ASSUME OperationInvariant, AppendFailure
    PROVE  OperationInvariant'
<1>0. Typed /\ ControlSound /\ StoreSound /\ RouteSound /\ TrafficSound /\ AuditSound /\ LinkSound
  BY DEF OperationInvariant
<1>1. /\ pc = "append_failure" /\ pc' = "append_failed"
      /\ UNCHANGED <<store, done, outcome, lapses, running, conf, loaded>>
      /\ UNCHANGED <<req, orig, written, switched, failure, restoring, oldConf>>
  BY DEF AppendFailure, host, locals
<1>2. /\ log' \in Seq(EventIds)
      /\ AuditOrder'
      /\ \A i \in 1..Len(log') : log'[i].req \in done'
      /\ \A x : Logged(x) => Logged(x)'
      /\ LoggedSteps \subseteq LoggedSteps' /\ "promotion-failed" \notin LoggedSteps'
  <2>0. "promotion-failed" \notin LoggedSteps
    BY <1>0, <1>1 DEF AuditSound
  <2>1. CASE failure = Nil
    <3>1. log' = log
      BY <2>1 DEF AppendFailure
    <3> QED BY <1>1, <2>0, <3>1, AuditQuiet
  <2>2. CASE failure # Nil
    <3>1. PICK f \in Failures : failure = f
      BY <1>0, <2>2 DEF Typed
    <3>2. f \in Steps /\ f # "promotion-failed"
      BY DEF Failures, Steps
    <3>3. \/ log' = log
          \/ Appendable(Event(f)) /\ log' = Append(log, Event(f))
      BY <2>2, <3>1 DEF AppendFailure, AppendOk, AppendRaises
    <3>4. /\ Precedes(f) \subseteq LoggedSteps
          /\ \A step \in LoggedSteps : f \notin Contradicts(step)
      BY <1>0, <1>1, <2>2, <3>1 DEF AuditSound
    <3>5. pc # "idle" /\ UNCHANGED <<req, orig, done>>
      BY <1>1
    <3>6. /\ log' \in Seq(EventIds)
          /\ AuditOrder'
          /\ \A i \in 1..Len(log') : log'[i].req \in done'
          /\ \A x : Logged(x) => Logged(x)'
          /\ LoggedSteps' \in {LoggedSteps, LoggedSteps \cup {f}}
      BY <2>0, <3>2, <3>3, <3>4, <3>5, AuditAppend
    <3> QED BY <2>0, <3>2, <3>6
  <2> QED BY <2>1, <2>2
<1>3. UNCHANGED <<rel, prepared, runningState, succeededState, completedState, candidateSlot>>
  BY <1>1, SameDerived
<1> USE DEF LoadPcs, BodyPcs, RoutePcs, RecoverPcs, Before, Preparing, Pending, Migrating,
            Checking, Switched, Ending, Rejected, Succeeded, Failed, Switching
<1>5. Typed'
  BY <1>0, <1>1, <1>2 DEF Typed
<1>6. ControlSound'
  BY <1>0, <1>1 DEF ControlSound
<1>7. StoreSound'
  BY <1>0, <1>1, <1>3 DEF StoreSound, Restored
<1>8. RouteSound'
  BY <1>0, <1>1, <1>3 DEF RouteSound, Settled, Restored
<1>9. TrafficSound'
  BY <1>0, <1>1, <1>2 DEF TrafficSound, Gated, Restored
<1>10. AuditSound'
  BY <1>0, <1>1, <1>2 DEF AuditSound
<1>11. LinkSound'
  BY <1>0, <1>1, <1>2 DEF LinkSound, EventAudited
<1> QED BY <1>5, <1>6, <1>7, <1>8, <1>9, <1>10, <1>11 DEF OperationInvariant

LEMMA AppendFailedInvariant ==
    ASSUME OperationInvariant, AppendFailed
    PROVE  OperationInvariant'
<1>0. Typed /\ ControlSound /\ StoreSound /\ RouteSound /\ TrafficSound /\ AuditSound /\ LinkSound
  BY DEF OperationInvariant
<1>1. /\ pc = "append_failed" /\ pc' = "returned" /\ outcome' = "failed"
      /\ UNCHANGED <<store, done, running, conf, loaded>>
      /\ UNCHANGED <<req, orig, written, switched, failure, restoring, oldConf>>
      /\ lapses \subseteq lapses'
      /\ \/ log' = log
         \/ /\ Appendable(Event("promotion-failed"))
            /\ log' = Append(log, Event("promotion-failed"))
  BY DEF AppendFailed, AppendOk, AppendRaises, host, locals
<1>2. /\ log' \in Seq(EventIds)
      /\ AuditOrder'
      /\ \A i \in 1..Len(log') : log'[i].req \in done'
      /\ \A x : Logged(x) => Logged(x)'
      /\ LoggedSteps' \in {LoggedSteps, LoggedSteps \cup {"promotion-failed"}}
  <2>1. "promotion-failed" \notin LoggedSteps
    BY <1>0, <1>1 DEF AuditSound
  <2>2. /\ "promotion-failed" \in Steps /\ Precedes("promotion-failed") \subseteq LoggedSteps
        /\ \A s \in LoggedSteps : "promotion-failed" \notin Contradicts(s)
    BY DEF Precedes, Contradicts, Steps
  <2>3. pc # "idle" /\ UNCHANGED <<req, orig, done>>
    BY <1>1
  <2> QED BY <1>1, <2>1, <2>2, <2>3, AuditAppend
<1>3. UNCHANGED <<rel, prepared, runningState, succeededState, completedState, candidateSlot>>
  BY <1>1, SameDerived
<1>4. /\ orig # Nil
      /\ Restored' => Restored
      /\ lapses' \cap {"unrestored", "crash"} = {} => lapses \cap {"unrestored", "crash"} = {}
  BY <1>0, <1>1 DEF ControlSound, RecoverPcs, Restored
<1> USE DEF LoadPcs, BodyPcs, RoutePcs, RecoverPcs, Before, Preparing, Pending, Migrating,
            Checking, Switched, Ending, Rejected, Succeeded, Failed, Switching
<1>5. Typed'
  BY <1>0, <1>1, <1>2 DEF Typed
<1>6. ControlSound'
  BY <1>0, <1>1, <1>4 DEF ControlSound
<1>7. StoreSound'
  BY <1>0, <1>1, <1>3, <1>4 DEF StoreSound
<1>8. RouteSound'
  BY <1>0, <1>1, <1>3, <1>4 DEF RouteSound, Settled
<1>9. TrafficSound'
  BY <1>0, <1>1, <1>2, <1>4 DEF TrafficSound, Gated
<1>10. AuditSound'
  BY <1>0, <1>1, <1>2 DEF AuditSound
<1>11. LinkSound'
  BY <1>0, <1>1, <1>2, <1>4 DEF LinkSound, EventAudited
<1> QED BY <1>5, <1>6, <1>7, <1>8, <1>9, <1>10, <1>11 DEF OperationInvariant

-----------------------------------------------------------------------------
(* Between calls, and the beginning of a call.                             *)

\* Whenever no restoration is under way, the durable state names what serves,
\* or it is stuck at a switch that nobody decided.
LEMMA StateNamesRoute ==
    ASSUME OperationInvariant, Restored, pc # "restore_state", ~(pc \in RoutePcs /\ restoring)
    PROVE  Settled(store) \/ Stuck(store)
<1>0. Typed /\ ControlSound /\ StoreSound /\ RouteSound
  BY DEF OperationInvariant
<1>1. CASE pc \in Before \/ Rejected
  BY <1>0, <1>1 DEF RouteSound
<1>2. CASE ~(pc \in Before \/ Rejected)
  <2>1. orig # Nil /\ orig \in DeploymentStates /\ req \in Requests
    BY <1>0, <1>2 DEF Typed, ControlSound, Before, Rejected
  <2>2. \A s \in {orig, prepared, runningState, succeededState} : Settled(orig) => Settled(s)
    BY <2>1, DerivedStates DEF Settled
  <2>3. Stuck(succeededState)
    BY <2>1, DerivedStates DEF Stuck
  <2>4. ASSUME loaded = candidateSlot, conf = candidateSlot, running[candidateSlot] = rel
        PROVE  Settled(completedState)
    BY <2>1, <2>4, DerivedStates DEF Settled, SlotOf
  <2>5. CASE pc \in Preparing \cup Pending \cup Migrating \cup Checking
    BY <1>0, <2>2, <2>5 DEF StoreSound, RouteSound
  <2>6. CASE pc \in Switched \/ Switching
    BY <1>0, <2>3, <2>6 DEF StoreSound
  <2>7. CASE pc = "append_succeeded" \/ Succeeded
    BY <1>0, <2>4, <2>7 DEF StoreSound, RouteSound, ControlSound
  <2>8. CASE pc \in Ending \/ Failed
    BY <1>0, <2>2, <2>8 DEF StoreSound, RouteSound
  <2>9. \/ pc \in Preparing \cup Pending \cup Migrating \cup Checking \cup Switched \cup Ending
        \/ Switching \/ pc = "append_succeeded" \/ Succeeded \/ Failed
    BY <1>0, <1>2, <2>1
       DEF Typed, ControlSound, Before, LoadPcs, BodyPcs, RoutePcs, RecoverPcs, Preparing, Pending,
           Migrating, Checking, Switched, Ending, Switching, Succeeded, Failed, Rejected
  <2> QED BY <2>5, <2>6, <2>7, <2>8, <2>9
<1> QED BY <1>1, <1>2

\* The call is over, by its return or because the process was killed.
LEMMA CallEnds ==
    ASSUME OperationInvariant, ClearLocals, pc' = "idle",
           UNCHANGED <<store, log, host, done>>,
           lapses \subseteq lapses',
           Restored' => Settled(store) \/ Stuck(store),
           lapses' \cap {"unrestored", "crash"} = {} => EventAudited(store)
    PROVE  OperationInvariant'
<1>0. Typed /\ ControlSound /\ StoreSound /\ RouteSound /\ TrafficSound /\ AuditSound /\ LinkSound
  BY DEF OperationInvariant
<1>1. /\ req' = Nil /\ orig' = Nil /\ written' = FALSE /\ switched' = FALSE /\ failure' = Nil
      /\ restoring' = FALSE /\ oldConf' = Nil
      /\ UNCHANGED <<running, conf, loaded>>
  BY DEF ClearLocals, host
<1>2. /\ AuditOrder'
      /\ \A x : Logged(x)' <=> Logged(x)
  BY <1>0, OrderKept DEF AuditSound, Logged
<1>3. Restored' => Restored
  BY DEF Restored
<1> USE DEF LoadPcs, BodyPcs, RoutePcs, RecoverPcs, Before, Preparing, Pending, Migrating,
            Checking, Switched, Ending, Rejected, Succeeded, Failed, Switching
<1>5. Typed'
  BY <1>0, <1>1 DEF Typed
<1>6. ControlSound'
  BY <1>1 DEF ControlSound
<1>7. StoreSound'
  BY DEF StoreSound
<1>8. RouteSound'
  BY <1>1 DEF RouteSound, Settled, Stuck
<1>9. TrafficSound'
  BY <1>0, <1>1, <1>2, <1>3 DEF TrafficSound, Gated
<1>10. AuditSound'
  BY <1>0, <1>1, <1>2 DEF AuditSound
<1>11. LinkSound'
  BY <1>1, <1>2 DEF LinkSound, EventAudited
<1> QED BY <1>5, <1>6, <1>7, <1>8, <1>9, <1>10, <1>11 DEF OperationInvariant

LEMMA LeaveInvariant ==
    ASSUME OperationInvariant, Leave
    PROVE  OperationInvariant'
<1>1. /\ pc = "returned" /\ pc' = "idle" /\ ClearLocals
      /\ UNCHANGED <<store, log, host, done, lapses>>
  BY DEF Leave, disk
<1>2. Restored' => Settled(store) \/ Stuck(store)
  BY <1>1, StateNamesRoute DEF Restored, RoutePcs
<1>3. lapses' \cap {"unrestored", "crash"} = {} => EventAudited(store)
  BY <1>1 DEF OperationInvariant, LinkSound
<1> QED BY <1>1, <1>2, <1>3, CallEnds

LEMMA CrashInvariant ==
    ASSUME OperationInvariant, Crash
    PROVE  OperationInvariant'
<1>1. /\ pc' = "idle" /\ ClearLocals /\ UNCHANGED <<store, log, host, done>>
      /\ lapses \subseteq lapses' /\ "crash" \in lapses'
      /\ Restored' => Restored /\ pc # "restore_state" /\ ~(pc \in RoutePcs /\ restoring)
  BY DEF Crash, Restored
<1>2. Restored' => Settled(store) \/ Stuck(store)
  BY <1>1, StateNamesRoute
<1> QED BY <1>1, <1>2, CallEnds

\* restart: unless-stopped loads the fragment on disk, which names a slot as
\* good as the one the running proxy routes to.
LEMMA ProxyRestartInvariant ==
    ASSUME OperationInvariant, ProxyRestart
    PROVE  OperationInvariant'
<1>0. Typed /\ ControlSound /\ StoreSound /\ RouteSound /\ TrafficSound /\ AuditSound /\ LinkSound
  BY DEF OperationInvariant
<1>1. /\ loaded' = conf
      /\ UNCHANGED <<store, log, running, conf, pc, done, outcome, lapses>>
      /\ UNCHANGED <<req, orig, written, switched, failure, restoring, oldConf>>
  BY DEF ProxyRestart, disk, locals
<1>2. /\ log' \in Seq(EventIds)
      /\ AuditOrder'
      /\ \A i \in 1..Len(log') : log'[i].req \in done'
      /\ \A x : Logged(x)' <=> Logged(x)
      /\ LoggedSteps' = LoggedSteps
  BY <1>1, AuditQuiet
<1>3. /\ UNCHANGED <<rel, prepared, runningState, succeededState, completedState, candidateSlot>>
      /\ UNCHANGED target
  BY <1>1, SameDerived DEF target
<1>4. /\ Rejected' <=> Rejected
      /\ Succeeded' <=> Succeeded
      /\ Failed' <=> Failed
      /\ Switching' <=> Switching
      /\ Restored' <=> Restored
  BY <1>1 DEF Rejected, Succeeded, Failed, Switching, Restored
<1>5. Typed'
  BY <1>0, <1>1, <1>2 DEF Typed
<1>6. ControlSound'
  BY <1>0, <1>1, <1>4 DEF ControlSound
<1>7. StoreSound'
  BY <1>0, <1>1, <1>3, <1>4 DEF StoreSound
<1>8. RouteSound'
  BY <1>0, <1>1, <1>3, <1>4 DEF RouteSound, Settled, Stuck
<1>9. TrafficSound'
  BY <1>0, <1>1, <1>2, <1>4 DEF TrafficSound, Gated
<1>10. AuditSound'
  BY <1>0, <1>1, <1>2, <1>4 DEF AuditSound
<1>11. LinkSound'
  BY <1>0, <1>1, <1>2 DEF LinkSound, EventAudited
<1> QED BY <1>5, <1>6, <1>7, <1>8, <1>9, <1>10, <1>11 DEF OperationInvariant

\* The executor hands a request to deploy for the first time, so the history
\* holds no event of it.
LEMMA DeployInvariant ==
    ASSUME OperationInvariant, NEW r \in Requests, Deploy(r)
    PROVE  OperationInvariant'
<1>0. Typed /\ ControlSound /\ StoreSound /\ RouteSound /\ TrafficSound /\ AuditSound /\ LinkSound
  BY DEF OperationInvariant
<1>1. /\ pc = "idle" /\ pc' = "load" /\ r \notin done /\ done' = done \cup {r} /\ req' = r
      /\ UNCHANGED <<store, log, running, conf, loaded, lapses>>
      /\ UNCHANGED <<orig, written, switched, failure, restoring, oldConf>>
  BY DEF Deploy, disk, host
<1>2. /\ AuditOrder'
      /\ \A x : Logged(x)' <=> Logged(x)
      /\ \A i \in 1..Len(log') : log'[i].req \in done'
  <2>1. AuditOrder /\ \A i \in 1..Len(log) : log[i].req \in done
    BY <1>0 DEF AuditSound
  <2> QED BY <1>1, <2>1, OrderKept DEF Logged
<1>3. LoggedSteps' = {}
  <2>1. \A i \in 1..Len(log) : log[i].req # r
    BY <1>0, <1>1 DEF AuditSound
  <2>2. \A step : EventId(r, step).req = r
    BY DEF EventId
  <2>3. \A step \in Steps : ~Logged(EventId(r, step))
    BY <2>1, <2>2 DEF Logged
  <2> QED BY <1>1, <1>2, <2>3 DEF LoggedSteps, Event
<1>4. orig = Nil /\ ~written /\ ~switched /\ failure = Nil /\ ~restoring
  BY <1>0, <1>1 DEF ControlSound, Before
<1> USE DEF LoadPcs, BodyPcs, RoutePcs, RecoverPcs, Before, Preparing, Pending, Migrating,
            Checking, Switched, Ending, Rejected, Succeeded, Failed, Switching
<1>5. Typed'
  BY <1>0, <1>1 DEF Typed
<1>6. ControlSound'
  BY <1>1, <1>4 DEF ControlSound
<1>7. StoreSound'
  BY <1>1 DEF StoreSound
<1>8. RouteSound'
  BY <1>0, <1>1, <1>4 DEF RouteSound, Settled, Stuck, Restored
<1>9. TrafficSound'
  BY <1>0, <1>1, <1>2, <1>4 DEF TrafficSound, Gated, Restored
<1>10. AuditSound'
  BY <1>0, <1>1, <1>2, <1>3, <1>4 DEF AuditSound, Behind
<1>11. LinkSound'
  BY <1>0, <1>1, <1>2, <1>4 DEF LinkSound, EventAudited
<1> QED BY <1>5, <1>6, <1>7, <1>8, <1>9, <1>10, <1>11 DEF OperationInvariant

\* A step before the original state is taken; at most an abandoned candidate,
\* whose migration never began, is cleared.
LEMMA LoadContinues ==
    ASSUME OperationInvariant, pc \in LoadPcs, pc' \in LoadPcs \cup {"returned"},
           UNCHANGED <<log, running, conf, loaded, done, lapses>>,
           UNCHANGED <<req, orig, written, switched, failure, restoring, oldConf>>,
           store' = store \/ (pc = "save_cleared" /\ store' = ClearAbandoned(store)),
           pc' = "returned" => outcome' = "failed",
           pc' = "save_cleared" => store'.migration = "pending",
           pc' = "reload" => store'.candidate = Nil
    PROVE  OperationInvariant'
<1>0. Typed /\ ControlSound /\ StoreSound /\ RouteSound /\ TrafficSound /\ AuditSound /\ LinkSound
  BY DEF OperationInvariant
<1>1. /\ log' \in Seq(EventIds)
      /\ AuditOrder'
      /\ \A i \in 1..Len(log') : log'[i].req \in done'
      /\ \A x : Logged(x)' <=> Logged(x)
      /\ LoggedSteps' = LoggedSteps
  BY AuditQuiet
<1>2. orig = Nil /\ ~written /\ ~switched /\ failure = Nil /\ ~restoring
  BY <1>0 DEF ControlSound, Before
<1>3. /\ store' \in DeploymentStates
      /\ store'.event = store.event /\ store'.active = store.active
  BY <1>0 DEF Typed, ClearAbandoned, DeploymentStates, MIGRATION_STATUSES
<1>4. Restored => (Settled(store) \/ Stuck(store))'
  <2>1. CASE store' = store
    BY <1>0, <2>1 DEF RouteSound, Settled, Stuck, Before
  <2>2. CASE pc = "save_cleared"
    <3>1. ~Stuck(store)
      BY <1>0, <2>2 DEF StoreSound, Stuck
    <3> QED BY <1>0, <1>3, <2>2, <3>1 DEF RouteSound, Settled, Before, LoadPcs
  <2> QED BY <2>1, <2>2
<1> USE DEF LoadPcs, BodyPcs, RoutePcs, RecoverPcs, Before, Preparing, Pending, Migrating,
            Checking, Switched, Ending, Rejected, Succeeded, Failed, Switching
<1>5. Typed'
  BY <1>0, <1>1, <1>3 DEF Typed
<1>6. ControlSound'
  BY <1>2 DEF ControlSound
<1>7. StoreSound'
  BY <1>2 DEF StoreSound
<1>8. RouteSound'
  BY <1>2, <1>4 DEF RouteSound, Restored
<1>9. TrafficSound'
  BY <1>0, <1>1, <1>2 DEF TrafficSound, Gated, Restored
<1>10. AuditSound'
  BY <1>0, <1>1, <1>2 DEF AuditSound, Behind
<1>11. LinkSound'
  BY <1>0, <1>1, <1>2, <1>3 DEF LinkSound, EventAudited
<1> QED BY <1>5, <1>6, <1>7, <1>8, <1>9, <1>10, <1>11 DEF OperationInvariant

\* The original state is taken: a fresh state is never stuck, so it names what
\* serves.
LEMMA AcceptInvariant ==
    ASSUME OperationInvariant, pc \in LoadPcs, Accept, UNCHANGED <<store, log, host, done>>
    PROVE  OperationInvariant'
<1>0. Typed /\ ControlSound /\ StoreSound /\ RouteSound /\ TrafficSound /\ AuditSound /\ LinkSound
  BY DEF OperationInvariant
<1>1. UNCHANGED <<running, conf, loaded>>
  BY DEF host
<1>2. CASE Reject
  <2>1. /\ pc' = "returned" /\ outcome' = "failed" /\ UNCHANGED lapses
        /\ UNCHANGED <<req, orig, written, switched, failure, restoring, oldConf>>
    BY <1>2 DEF Reject
  <2> QED BY <1>1, <2>1, LoadContinues
<1>3. CASE ~Reject
  <2>1. /\ Fresh(store) /\ orig' = store /\ pc' = "append_started"
        /\ UNCHANGED <<req, written, switched, failure, restoring, oldConf, outcome, lapses>>
    BY <1>3 DEF Accept
  <2>2. /\ store \in DeploymentStates /\ store # Nil /\ store.candidate = Nil /\ ~Stuck(store)
        /\ pc # "idle" /\ req \in Requests
    BY <1>0, <2>1, NilAssumption DEF Typed, Fresh, Stuck, LoadPcs
  <2>3. orig = Nil /\ ~written /\ ~switched /\ failure = Nil /\ ~restoring
    BY <1>0 DEF ControlSound, Before
  <2>4. Restored => Settled(store)
    BY <1>0, <2>2 DEF RouteSound, Before
  <2>5. ASSUME Restored, store.active # Nil
        PROVE  /\ Gated(store.active.release)
               /\ running[store.active.slot] = store.active.release
    <3>1. store.active \in Placed
      BY <2>2, <2>5 DEF DeploymentStates
    <3>2. store.active.slot # Nil
      BY <3>1, NilAssumption DEF Placed
    <3> QED BY <1>0, <2>4, <2>5, <3>2 DEF TrafficSound, Settled, SlotOf
  <2>6. /\ log' \in Seq(EventIds)
        /\ AuditOrder'
        /\ \A i \in 1..Len(log') : log'[i].req \in done'
        /\ \A x : Logged(x)' <=> Logged(x)
    BY <1>0, OrderKept DEF Typed, AuditSound, Logged
  <2>7. LoggedSteps' = {}
    BY <1>0, <2>1, <2>6 DEF AuditSound, LoggedSteps, Event, Behind
  <2> USE DEF LoadPcs, BodyPcs, RoutePcs, RecoverPcs, Before, Preparing, Pending, Migrating,
              Checking, Switched, Ending, Rejected, Succeeded, Failed, Switching
  <2>8. Typed'
    BY <1>0, <1>1, <2>1, <2>2, <2>6 DEF Typed
  <2>9. ControlSound'
    BY <2>1, <2>2, <2>3 DEF ControlSound
  <2>10. StoreSound'
    BY <2>1 DEF StoreSound
  <2>11. RouteSound'
    BY <1>1, <2>1, <2>3, <2>4, <2>5 DEF RouteSound, Settled, Restored
  <2>12. TrafficSound'
    BY <1>0, <1>1, <2>1, <2>5, <2>6 DEF TrafficSound, Gated, Restored
  <2>13. AuditSound'
    BY <1>0, <2>1, <2>3, <2>6, <2>7 DEF AuditSound, Behind
  <2>14. LinkSound'
    BY <1>0, <2>1, <2>6 DEF LinkSound, EventAudited
  <2> QED BY <2>8, <2>9, <2>10, <2>11, <2>12, <2>13, <2>14 DEF OperationInvariant
<1> QED BY <1>2, <1>3

LEMMA LoadSteps ==
    ASSUME OperationInvariant, Load \/ SaveCleared \/ Reload
    PROVE  OperationInvariant'
<1>0. UNCHANGED <<log, host, done>> /\ UNCHANGED <<running, conf, loaded>> /\ pc \in LoadPcs
  BY DEF Load, SaveCleared, Reload, disk, host, LoadPcs
<1>1. ASSUME Reject,
             store' = store \/ (pc = "save_cleared" /\ store' = ClearAbandoned(store))
      PROVE  OperationInvariant'
  <2>1. /\ pc' = "returned" /\ outcome' = "failed" /\ UNCHANGED lapses
        /\ UNCHANGED <<req, orig, written, switched, failure, restoring, oldConf>>
    BY <1>1 DEF Reject
  <2> QED BY <1>0, <1>1, <2>1, LoadContinues
<1>2. CASE Load
  <2>1. store' = store
    BY <1>2 DEF Load, disk
  <2>2. CASE Abandoned(store, rel) /\ Goto("save_cleared")
    <3>1. /\ pc' = "save_cleared" /\ store'.migration = "pending" /\ UNCHANGED lapses
          /\ UNCHANGED <<req, orig, written, switched, failure, restoring, oldConf>>
      BY <2>1, <2>2 DEF Goto, locals, Abandoned
    <3> QED BY <1>0, <2>1, <3>1, LoadContinues DEF LoadPcs
  <2>3. CASE Accept
    BY <1>0, <2>1, <2>3, AcceptInvariant
  <2> QED BY <1>1, <1>2, <2>1, <2>2, <2>3 DEF Load
<1>3. CASE SaveCleared
  <2>1. pc = "save_cleared" /\ store' \in {store, ClearAbandoned(store)}
    BY <1>3 DEF SaveCleared, SaveOk, SaveRaises
  <2>2. CASE SaveOk(ClearAbandoned(store)) /\ Goto("reload")
    <3>1. /\ pc' = "reload" /\ store' = ClearAbandoned(store) /\ UNCHANGED lapses
          /\ UNCHANGED <<req, orig, written, switched, failure, restoring, oldConf>>
      BY <2>2 DEF Goto, locals, SaveOk
    <3>2. store \in DeploymentStates
      BY DEF OperationInvariant, Typed
    <3>3. store'.candidate = Nil
      BY <3>1, <3>2 DEF ClearAbandoned, DeploymentStates
    <3> QED BY <1>0, <2>1, <3>1, <3>3, LoadContinues DEF LoadPcs
  <2>3. CASE Reject
    BY <1>1, <2>1, <2>3
  <2> QED BY <1>3, <2>2, <2>3 DEF SaveCleared
<1>4. CASE Reload
  <2>1. store' = store
    BY <1>4 DEF Reload, disk
  <2> QED BY <1>0, <1>1, <1>4, <2>1, AcceptInvariant DEF Reload
<1> QED BY <1>2, <1>3, <1>4

\* An interrupt between two calls: nothing to recover yet, or recover() runs
\* with no failure event set.
LEMMA InterruptInvariant ==
    ASSUME OperationInvariant, Interrupt
    PROVE  OperationInvariant'
<1>1. UNCHANGED <<store, log, host, done>> /\ UNCHANGED <<running, conf, loaded>>
  BY DEF Interrupt, disk, host
<1>2. CASE pc \in LoadPcs /\ Reject
  <2>1. /\ pc' = "returned" /\ outcome' = "failed" /\ UNCHANGED lapses
        /\ UNCHANGED <<req, orig, written, switched, failure, restoring, oldConf>>
    BY <1>2 DEF Reject
  <2> QED BY <1>1, <1>2, <2>1, LoadContinues
<1>3. CASE pc \in BodyPcs /\ Raise(failure)
  BY <1>1, <1>3, RaiseNothing, RaiseQuietly
<1> QED BY <1>2, <1>3 DEF Interrupt

-----------------------------------------------------------------------------
(* The invariant, and what follows from it.                                *)

LEMMA InitInvariant == Init => OperationInvariant
<1> SUFFICES ASSUME Init PROVE OperationInvariant
  OBVIOUS
<1> USE DEF Init, LoadPcs, BodyPcs, RoutePcs, RecoverPcs, Before, Preparing, Pending, Migrating,
            Checking, Switched, Ending, Rejected, Succeeded, Failed, Switching
<1>1. log \in Seq(EventIds) /\ Len(log) = 0
  BY EmptySeq
<1>2. Typed
  BY <1>1, InitialAssumption DEF Typed
<1>3. ControlSound
  BY DEF ControlSound
<1>4. StoreSound
  BY DEF StoreSound
<1>5. RouteSound
  BY DEF RouteSound, Settled, NoActiveState, SlotOf
<1>6. TrafficSound
  BY DEF TrafficSound
<1>7. AuditSound
  <2>1. \A i \in 1..Len(log) : FALSE
    BY <1>1
  <2> QED BY <2>1 DEF AuditSound, AuditOrder
<1>8. LinkSound
  BY DEF LinkSound, EventAudited, NoActiveState
<1> QED BY <1>2, <1>3, <1>4, <1>5, <1>6, <1>7, <1>8 DEF OperationInvariant

LEMMA NextInvariant ==
    ASSUME OperationInvariant, [Next]_vars
    PROVE  OperationInvariant'
<1>1. ASSUME NEW r \in Requests, Deploy(r) PROVE OperationInvariant'
  BY <1>1, DeployInvariant
<1>2. CASE Body
  <2>1. CASE Load \/ SaveCleared \/ Reload
    BY <2>1, LoadSteps
  <2>2. CASE \/ AppendStarted \/ AppendMigrationStarted \/ AppendMigrationSucceeded
             \/ AppendLiveness \/ AppendReadiness \/ AppendSwitchSucceeded
    BY <2>2, BodyAppends
  <2>3. CASE SaveRunning \/ SaveSucceeded \/ SaveCompleted
    BY <2>3, BodySaves
  <2>4. CASE \/ PullExactImage \/ VerifyLocalRepoDigest \/ ExecuteMigration \/ CheckLiveness
             \/ CheckReadiness \/ ValidateApplication \/ ValidateNginx
    BY <2>4, BodyChecks
  <2>5. CASE SavePrepared
    BY <2>5, SavePreparedInvariant
  <2>6. CASE StartCandidate
    BY <2>6, StartCandidateInvariant
  <2>7. CASE AppendSwitchStarted
    BY <2>7, AppendSwitchStartedInvariant
  <2>8. CASE AppendSucceeded
    BY <2>8, AppendSucceededInvariant
  <2>9. CASE RouteWrite \/ RouteReload \/ RouteUndo \/ RouteUndoReload
    BY <2>9, RouteSteps
  <2>10. CASE RestoreState
    BY <2>10, RestoreStateInvariant
  <2>11. CASE AppendFailure
    BY <2>11, AppendFailureInvariant
  <2>12. CASE AppendFailed
    BY <2>12, AppendFailedInvariant
  <2>13. CASE Leave
    BY <2>13, LeaveInvariant
  <2> QED BY <1>2, <2>1, <2>2, <2>3, <2>4, <2>5, <2>6, <2>7, <2>8, <2>9, <2>10, <2>11, <2>12,
             <2>13 DEF Body
<1>3. CASE Interrupt
  BY <1>3, InterruptInvariant
<1>4. CASE Crash
  BY <1>4, CrashInvariant
<1>5. CASE ProxyRestart
  BY <1>5, ProxyRestartInvariant
<1>6. CASE UNCHANGED vars
  <2>1. /\ UNCHANGED <<store, log, running, conf, loaded, pc, done, outcome, lapses>>
        /\ UNCHANGED <<req, orig, written, switched, failure, restoring, oldConf>>
    BY <1>6 DEF vars, disk, host, locals
  <2>2. /\ UNCHANGED <<rel, prepared, runningState, succeededState, completedState, candidateSlot,
                       target>>
        /\ \A x : Logged(x)' <=> Logged(x)
        /\ UNCHANGED LoggedSteps
    BY <2>1, SameDerived, AuditQuiet DEF target
  <2>3. /\ Rejected' <=> Rejected
        /\ Succeeded' <=> Succeeded
        /\ Failed' <=> Failed
        /\ Switching' <=> Switching
        /\ Restored' <=> Restored
    BY <2>1 DEF Rejected, Succeeded, Failed, Switching, Restored
  <2> QED BY <2>1, <2>2, <2>3
          DEF OperationInvariant, Typed, ControlSound, StoreSound, RouteSound, TrafficSound,
              AuditSound, LinkSound, Settled, Stuck, Gated, EventAudited, AuditOrder
<1> QED BY <1>1, <1>2, <1>3, <1>4, <1>5, <1>6 DEF Next

\* Every reachable state of the deployment operation satisfies the invariant:
\* what state store, history, route and containers are at each call of deploy.
THEOREM OperationIsInductive == Spec => []OperationInvariant
BY InitInvariant, NextInvariant, PTL DEF Spec

\* Between calls a state without a candidate names exactly what serves: a
\* promotion that returned, failed or was killed leaves route, container and
\* state.json together, for any number of promotions and faults.
THEOREM StateNamesWhatServes == Spec => []RouteMatchesState
<1>1. OperationInvariant => RouteMatchesState
  <2> SUFFICES ASSUME OperationInvariant, pc = "idle", store.candidate = Nil, Restored
               PROVE  /\ loaded = SlotOf(store.active)
                      /\ conf = loaded
                      /\ store.active # Nil => running[loaded] = store.active.release
    BY DEF RouteMatchesState
  <2>1. Settled(store)
    BY StateNamesRoute DEF Stuck, RoutePcs
  <2> QED BY <2>1 DEF Settled, SlotOf
<1> QED BY <1>1, OperationIsInductive, PTL

\* Nginx routes only to a release whose gates are all in the audit history.
THEOREM OnlyGatedReleasesServe == Spec => []TrafficGated
<1>1. OperationInvariant => TrafficGated
  BY DEF OperationInvariant, TrafficSound, TrafficGated, Gated, GateSteps
<1> QED BY <1>1, OperationIsInductive, PTL

\* deploy returns None only when state, route, container and history agree.
THEOREM ReturnedNoneIsDurable == Spec => []SuccessIsDurable
<1>1. OperationInvariant => SuccessIsDurable
  <2> SUFFICES ASSUME OperationInvariant, Succeeded
               PROVE  /\ store = completedState
                      /\ loaded = store.active.slot
                      /\ conf = loaded
                      /\ running[loaded] = rel
                      /\ Logged(Event("promotion-succeeded"))
    BY DEF SuccessIsDurable, Succeeded
  <2>1. orig \in DeploymentStates /\ req \in Requests /\ switched
    BY DEF OperationInvariant, Typed, ControlSound, Succeeded
  <2>2. store = completedState /\ loaded = candidateSlot /\ conf = candidateSlot
    BY DEF OperationInvariant, StoreSound, RouteSound
  <2>3. running[candidateSlot] = rel
    BY <2>1 DEF OperationInvariant, RouteSound
  <2>4. completedState.active.slot = candidateSlot
    BY <2>1, DerivedStates
  <2>5. Logged(Event("promotion-succeeded"))
    BY DEF OperationInvariant, AuditSound, LoggedSteps
  <2> QED BY <2>2, <2>3, <2>4, <2>5
<1> QED BY <1>1, OperationIsInductive, PTL

\* A failed promotion leaves the state it found or the prepared checkpoint.
THEOREM FailureNeverHalfAdvances == Spec => []FailureLeavesOriginalOrPrepared
<1>1. OperationInvariant => FailureLeavesOriginalOrPrepared
  BY DEF OperationInvariant, StoreSound, Failed, FailureLeavesOriginalOrPrepared
<1> QED BY <1>1, OperationIsInductive, PTL

\* Between calls the event link of state.json names an audited event.
THEOREM LinkIsAudited == Spec => []EventLinkAudited
<1>1. OperationInvariant => EventLinkAudited
  BY DEF OperationInvariant, LinkSound, EventAudited, EventLinkAudited, Before
<1> QED BY <1>1, OperationIsInductive, PTL

\* The audit history of every request is a prefix of the closed sequence
\* followed by failure events, without repetition or contradiction.
THEOREM HistoryIsOrdered == Spec => []AuditOrder
<1>1. OperationInvariant => AuditOrder
  BY DEF OperationInvariant, AuditSound
<1> QED BY <1>1, OperationIsInductive, PTL

\* A container is only replaced in the slot Nginx does not route to: the one
\* call that starts a container runs while the route names the active slot.
THEOREM LiveSlotIsUntouched == Spec => LiveSlotUntouched
<1>1. ASSUME OperationInvariant, [Next]_vars
      PROVE  [\A s \in Slots : (running'[s] # running[s] /\ Restored) => s # loaded]_vars
  <2> SUFFICES ASSUME NEW s \in Slots, running'[s] # running[s], Restored
               PROVE  s # loaded
    OBVIOUS
  <2>1. running' # running
    OBVIOUS
  <2>2. StartCandidate
    BY <1>1, <2>1
       DEF Next, Body, vars, host, Deploy, Load, SaveCleared, Reload, AppendStarted, SavePrepared,
           PullExactImage, VerifyLocalRepoDigest, AppendMigrationStarted, SaveRunning,
           ExecuteMigration, SaveSucceeded, AppendMigrationSucceeded, CheckLiveness,
           AppendLiveness, CheckReadiness, AppendReadiness, ValidateApplication, ValidateNginx,
           AppendSwitchStarted, AppendSwitchSucceeded, SaveCompleted, AppendSucceeded, RouteWrite,
           RouteReload, RouteUndo, RouteUndoReload, RestoreState, AppendFailure, AppendFailed,
           Leave, Interrupt, Crash, ProxyRestart, AppendStep, SaveStep, CheckStep, ProbeStep
  <2>3. /\ pc = "start_candidate" /\ orig \in DeploymentStates /\ req \in Requests
        /\ running \in [Slots -> Releases \cup {Nil}]
    BY <1>1, <2>2, InBody DEF StartCandidate, BodyPcs, OperationInvariant, Typed
  <2>4. s = candidateSlot
    BY <2>2, <2>3 DEF StartCandidate
  <2>5. loaded = SlotOf(orig.active)
    BY <1>1, <2>3 DEF OperationInvariant, RouteSound, Settled, Pending
  <2> QED BY <2>3, <2>4, <2>5, DerivedStates
<1> QED BY <1>1, OperationIsInductive, PTL DEF Spec, LiveSlotUntouched
=============================================================================
