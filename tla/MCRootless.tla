----------------------------- MODULE MCRootless -----------------------------
(***************************************************************************)
(* The rootless Docker chain with two packages, two rootful units and      *)
(* two static resources.                                                   *)
(***************************************************************************)
EXTENDS RootlessDaemon
=============================================================================
