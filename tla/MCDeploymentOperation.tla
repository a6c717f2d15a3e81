----------------------- MODULE MCDeploymentOperation -----------------------
(* Small instances of DeploymentOperation.  Two requests promote one release,*)
(* one promotes an upgrade, one reuses the first version under another       *)
(* digest: a first installation, an upgrade, a return to an older release,   *)
(* the retry of an abandoned candidate and both conflicts occur.             *)
EXTENDS DeploymentOperation, TLC

CONSTANTS first, again, upgrade, reuse  \* the requests

MCRequests == {first, again, upgrade, reuse}
MCReleases == {"relA", "relB", "relC"}
MCReleaseOf == [r \in MCRequests |-> CASE r = upgrade -> "relB"
                                       [] r = reuse -> "relC"
                                       [] OTHER -> "relA"]
MCVersion == [x \in MCReleases |-> IF x = "relB" THEN 2 ELSE 1]
MCDigest == [x \in MCReleases |-> x]
=============================================================================
