-------------------------- MODULE MCHostOperations --------------------------
(* The owner's operations on a provisioned host: the DEV generations and the *)
(* Analytics control plane.  They share the lock, so that only one of them   *)
(* runs, and no file: the initial state chooses the one that is used.        *)
(*  - generations: all four with a two-file final update, one runtime        *)
(*    directory and two workflow commits, the first of them C33AE's.         *)
(*  - analytics: a resume and the three repairs, one authority asset, two    *)
(*    stream sources, and one signed request that may meet any of them.      *)
EXTENDS HostGenerations, AnalyticsResume

VARIABLE subject

MCInit ==
    /\ subject \in {"generations", "analytics"}
    /\ GenerationsInit /\ AnalyticsInit

MCNext ==
    /\ UNCHANGED subject
    /\ \/ subject = "generations" /\ GenerationsNext /\ UNCHANGED analyticsVars
       \/ subject = "analytics" /\ AnalyticsNext /\ UNCHANGED genVars

MCSpec == MCInit /\ [][MCNext]_<<subject, genVars, analyticsVars>>
=============================================================================
