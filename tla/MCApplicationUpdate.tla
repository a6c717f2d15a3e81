------------------------- MODULE MCApplicationUpdate -------------------------
(***************************************************************************)
(* Two updaters, three application files and the configuration.            *)
(***************************************************************************)
EXTENDS ApplicationUpdate
=============================================================================
