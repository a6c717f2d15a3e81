---------------------------- MODULE PromotionOnce ----------------------------
(***************************************************************************)
(* What the restricted deployment authority promises, seen from outside: a *)
(* signed token authorizes at most one deployment, deployments never       *)
(* overlap, and acceptance (HTTP 202) is reported only for a deployment    *)
(* that is complete.  Nothing is promised about "unavailable": it may be   *)
(* reported before, during or after a deployment.                          *)
(***************************************************************************)
CONSTANT Tokens

Phases == {"unused", "authorized", "running", "complete", "failed"}
Reports == {"accepted", "rejected", "unavailable", "lost"}

VARIABLES
    phase,     \* what each token's authority has been used for
    reported   \* what its callers have been told

Init ==
    /\ phase = [t \in Tokens |-> "unused"]
    /\ reported = [t \in Tokens |-> {}]

Move(t, from, to) ==
    /\ phase[t] = from
    /\ phase' = [phase EXCEPT ![t] = to]
    /\ UNCHANGED reported

Authorize(t) == Move(t, "unused", "authorized")
Start(t) ==
    /\ \A u \in Tokens : phase[u] # "running"
    /\ Move(t, "authorized", "running")
End(t) == Move(t, "running", "complete") \/ Move(t, "running", "failed")
Report(t, r) ==
    /\ r = "accepted" => phase[t] = "complete"
    /\ reported' = [reported EXCEPT ![t] = @ \cup {r}]
    /\ UNCHANGED phase

Next ==
    \E t \in Tokens :
        \/ Authorize(t) \/ Start(t) \/ End(t)
        \/ \E r \in Reports : Report(t, r)

Spec == Init /\ [][Next]_<<phase, reported>>
=============================================================================
