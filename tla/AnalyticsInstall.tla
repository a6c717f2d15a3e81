-------------------------- MODULE AnalyticsInstall --------------------------
(***************************************************************************)
(* The signed first installation of Analytics: one request that the        *)
(* Analytics broker forwards (deployment/analytics_promotion_broker.py),   *)
(* the socket-activated executor that serves it (analytics_executor.py)    *)
(* and the installation of the blue slot with its stop-only rollback       *)
(* (analytics_first_install.py).                                           *)
(*                                                                         *)
(* The container of the slot is absent, running or stopped; nothing ever   *)
(* removes it.  A step may raise, with or without its effect, and the      *)
(* executor may be killed.                                                 *)
(***************************************************************************)
EXTENDS Naturals

CONSTANTS
    Requests,   \* signed requests, each with a token of its own
    MaxMishaps  \* bound on failures and kills

VARIABLES
    slot,       \* the container of analytics-blue
    row,        \* each token's row in the replay database
    serving,    \* the call of execute_private
    answered,   \* what the executor answered
    lapses,     \* why a slot may run without having been accepted (history)
    mishaps

installVars == <<slot, row, serving, answered, lapses>>

Resting == [pc |-> "idle"]

InstallInit ==
    /\ slot = "none"
    /\ row = [r \in Requests |-> "absent"]
    /\ serving = Resting
    /\ answered = [r \in Requests |-> "none"]
    /\ lapses = {}

Mishap == mishaps < MaxMishaps /\ mishaps' = mishaps + 1

At(pc) == serving.pc = pc
GoTo(pc) == serving' = [serving EXCEPT !.pc = pc]

Answer(a) ==
    /\ serving' = Resting
    /\ answered' = [answered EXCEPT ![serving.request] = a]

\* authorize_and_forward: the token is consumed, then the request is sent.
ForwardRequest(r) ==
    /\ serving = Resting
    /\ row[r] = "absent"
    /\ row' = [row EXCEPT ![r] = "consumed"]
    /\ serving' = [pc |-> "preflight", request |-> r]
    /\ UNCHANGED <<slot, answered, lapses, mishaps>>

\* A step that changes nothing but may raise; nothing is cleaned up.
Check(pc, next, passes) ==
    /\ At(pc)
    /\ \/ passes /\ GoTo(next) /\ UNCHANGED <<answered, mishaps>>
       \/ ~passes /\ Answer("unavailable") /\ UNCHANGED mishaps
       \/ Mishap /\ Answer("unavailable")
    /\ UNCHANGED <<slot, row, lapses>>

\* The request, the sealed credential, the registry and the credential again.
ExecutorPreflight == Check("preflight", "begin", TRUE)

BeginExecution ==
    /\ At("begin")
    /\ \/ /\ row' = [row EXCEPT ![serving.request] = "executing"]
          /\ GoTo("host")
          /\ UNCHANGED <<answered, mishaps>>
       \/ /\ Mishap
          /\ \E s \in {"consumed", "executing"} : row' = [row EXCEPT ![serving.request] = s]
          /\ Answer("unavailable")
    /\ UNCHANGED <<slot, lapses>>

\* _preflight: the reviewed host, and no container of the slot, running or not.
HostPreflight == Check("host", "pull", slot = "none")

Pull == Check("pull", "digest", TRUE)

VerifyLocalDigest == Check("digest", "up", TRUE)

\* Mutant: the duty to stop begins only when compose has returned.
UpThenDuty ==
    /\ At("up")
    /\ \/ slot' = "running" /\ GoTo("verify") /\ UNCHANGED <<answered, mishaps>>
       \/ Mishap /\ slot' \in {"none", "stopped", "running"} /\ Answer("unavailable")
    /\ UNCHANGED <<row, lapses>>

\* candidate_may_exist is set before compose is called.
Up ==
    /\ At("up")
    /\ \/ slot' = "running" /\ GoTo("verify") /\ UNCHANGED mishaps
       \/ Mishap /\ slot' \in {"none", "stopped", "running"} /\ GoTo("stop")
    /\ UNCHANGED <<row, answered, lapses>>

\* A check of the new container; if it does not pass the slot is stopped.
InspectContainer(pc, next) ==
    /\ At(pc)
    /\ \/ slot = "running" /\ GoTo(next) /\ UNCHANGED mishaps
       \/ Mishap /\ GoTo("stop")
    /\ UNCHANGED <<slot, row, answered, lapses>>

VerifyPrivateContainer == InspectContainer("verify", "ready")

PrivateReady == InspectContainer("ready", "finish")

\* finish_execution may commit and raise; the healthy slot is stopped then.
FinishExecution ==
    /\ At("finish")
    /\ \/ /\ row' = [row EXCEPT ![serving.request] = "finished"]
          /\ Answer("accepted")
          /\ UNCHANGED mishaps
       \/ /\ Mishap
          /\ \E s \in {"executing", "finished"} : row' = [row EXCEPT ![serving.request] = s]
          /\ GoTo("stop")
          /\ UNCHANGED answered
    /\ UNCHANGED <<slot, lapses>>

Halted(s) == IF s = "running" THEN "stopped" ELSE s

\* _stop_first_slot, for deploy_analytics and for rollback_first_analytics: an
\* unconfirmed stop is only reported.
StopFirstSlot ==
    /\ At("stop")
    /\ Answer("unavailable")
    /\ \/ slot' = Halted(slot) /\ UNCHANGED <<lapses, mishaps>>
       \/ Mishap /\ slot' \in {slot, Halted(slot)} /\ lapses' = lapses \cup {"unconfirmed"}
    /\ UNCHANGED row

\* SIGTERM or SIGKILL: no handler runs.
KillExecutor ==
    /\ serving # Resting
    /\ serving' = Resting
    /\ lapses' = lapses \cup {"killed"}
    /\ UNCHANGED <<slot, row, answered>>

ExecutorStep ==
    \/ ExecutorPreflight \/ BeginExecution \/ HostPreflight \/ Pull \/ VerifyLocalDigest
    \/ Up \/ VerifyPrivateContainer \/ PrivateReady \/ FinishExecution \/ StopFirstSlot

-----------------------------------------------------------------------------
\* deploy_analytics and execute_private: a slot that runs while no request is
\* served belongs to an accepted request, unless the executor was killed or
\* the stop could not be confirmed.
UnacceptedIsStopped ==
    serving = Resting /\ slot = "running" =>
        lapses # {} \/ \E r \in Requests : answered[r] = "accepted" /\ row[r] = "finished"
=============================================================================
