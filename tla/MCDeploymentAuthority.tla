------------------------ MODULE MCDeploymentAuthority ------------------------
(* Two tokens of one run attempt, the first expiring early: duplicates, the  *)
(* run-attempt conflict, cleanup and late execution all occur.  The request  *)
(* hashes are interchangeable, so the first request carries "h1": the        *)
(* symmetry that the liveness properties do not let TLC use itself.          *)
EXTENDS DeploymentAuthority, TLC

MCTokens == {"t1", "t2"}
MCExpiryOf == [t \in MCTokens |-> IF t = "t1" THEN 0 ELSE 2]
MCRunOf == [t \in MCTokens |-> <<1, 1>>]

MCNext == Next /\ (sub' # << >> => sub'[1].hash = "h1")
MCSpec ==
    /\ Init /\ [][MCNext]_vars
    /\ WF_vars(BrokerStep) /\ WF_vars(AcceptTimeout) /\ WF_vars(ExecutorStep)
=============================================================================
