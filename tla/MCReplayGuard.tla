---------------------------- MODULE MCReplayGuard ----------------------------
(* Four tokens: two of one run attempt with different expiries, and two of   *)
(* other run attempts that outlive them; the capacity is below the number of *)
(* run attempts, so that cleanup is what makes room.                         *)
EXTENDS ReplayGuard

MCTokens == {"t1", "t2", "t3", "t4"}
MCExpiryOf == [t \in MCTokens |-> CASE t = "t1" -> 1 [] t = "t2" -> 3 [] OTHER -> 4]
MCRunOf == [t \in MCTokens |-> CASE t = "t3" -> <<2, 1>> [] t = "t4" -> <<1, 2>> [] OTHER -> <<1, 1>>]
=============================================================================
