--------------------------- MODULE DeploymentState ---------------------------
(***************************************************************************)
(* The durable DEV deployment state and the controller's transitions on it *)
(* (deployment/state.py, deployment/controller.py).                        *)
(*                                                                         *)
(* A release stands for the triple (release_version, source_sha, digest)   *)
(* of a promotion request; Version and Digest are the two parts the        *)
(* promotion rules compare.  A slot identity of the state is complete or   *)
(* empty (DeploymentState._identity), so it is one value: a release placed *)
(* in a slot, or Nil.  Timestamps, stage and schema fields are constant in *)
(* DEV and are left out.                                                   *)
(***************************************************************************)
EXTENDS Integers, Sequences, FiniteSets

CONSTANTS
    Requests,   \* executor requests, each with its own canonical hash
    Releases,   \* (version, source, digest) identities
    ReleaseOf,  \* the release a request promotes
    Version,    \* the release_version of a release
    Digest,     \* the manifest digest of a release
    Nil         \* JSON null

Slots == {"blue", "green"}
Placed == [release : Releases, slot : Slots]

\* Steps of one promotion that are audited; an event id is c8:<hash>:<step>.
Steps == {"promotion-started", "migration-started", "migration-succeeded",
          "liveness-passed", "readiness-passed", "traffic-switch-started",
          "traffic-switch-succeeded", "promotion-succeeded",
          "migration-failed", "liveness-failed", "readiness-failed",
          "traffic-switch-failed", "promotion-failed"}
EventIds == [req : Requests, step : Steps]
EventId(r, step) == [req |-> r, step |-> step]

ASSUME ReleaseOfAssumption == ReleaseOf \in [Requests -> Releases]

MIGRATION_STATUSES == {"none", "pending", "running", "succeeded", "failed"}

DeploymentStates ==
    [active    : Placed \cup {Nil},
     previous  : Placed \cup {Nil},
     candidate : Placed \cup {Nil},
     migration : MIGRATION_STATUSES,
     event     : EventIds \cup {Nil}]

ASSUME NilAssumption ==
    Nil \notin Placed \cup EventIds \cup Slots \cup Releases \cup Steps \cup DeploymentStates

SlotOf(placed) == IF placed = Nil THEN Nil ELSE placed.slot

\* The rules DeploymentState.from_dict enforces on every parsed state.
from_dict(s) ==
    s.active # Nil =>
        /\ SlotOf(s.candidate) # s.active.slot
        /\ SlotOf(s.previous) # s.active.slot

\* The canonical no-active state that provisioning installs.
NoActiveState ==
    [active |-> Nil, previous |-> Nil, candidate |-> Nil,
     migration |-> "none", event |-> Nil]

ASSUME InitialAssumption == NoActiveState \in DeploymentStates

\* _snapshot_state(state, fresh=True): a promotion may begin from this state.
Fresh(s) ==
    /\ from_dict(s)
    /\ s.candidate = Nil
    /\ s.migration \in {"none", "succeeded"}
    /\ s.active = Nil => s.previous = Nil

\* The requested identity is already active, or reuses its version.
ActiveConflict(s, rel) ==
    /\ s.active # Nil
    /\ \/ Digest[s.active.release] = Digest[rel]
       \/ Version[s.active.release] = Version[rel]

candidate_slot(active) == IF SlotOf(active) = "blue" THEN "green" ELSE "blue"

prepare_candidate(s, rel) ==
    [s EXCEPT !.candidate = [release |-> rel, slot |-> candidate_slot(s.active)],
              !.migration = "pending"]

\* _updated_state with and without a new migration status.
Linked(s, event) == [s EXCEPT !.event = event]
Migrated(s, status, event) == [s EXCEPT !.migration = status, !.event = event]

\* authorize_traffic_switch with the operation's constant passing gates.
authorize_traffic_switch(s) == s.candidate # Nil /\ s.migration = "succeeded"

complete_promotion(s, event) ==
    [s EXCEPT !.active = s.candidate, !.previous = s.active,
              !.candidate = Nil, !.event = event]

\* The candidate a failed cold pull left behind: same release, first slot,
\* nothing ever active, migration not begun, linked to promotion-started.
Abandoned(s, rel) ==
    /\ s.active = Nil
    /\ s.previous = Nil
    /\ s.candidate = [release |-> rel, slot |-> "blue"]
    /\ s.migration = "pending"
    /\ s.event # Nil
    /\ s.event.step = "promotion-started"

ClearAbandoned(s) == [s EXCEPT !.candidate = Nil, !.migration = "none"]

=============================================================================
