------------------------- MODULE MCHostProvisioning -------------------------
(***************************************************************************)
(* Provisioning with two accounts, two directories and three files, from   *)
(* every predecessor state a recovery is pinned to.                        *)
(***************************************************************************)
EXTENDS HostProvisioning
=============================================================================
