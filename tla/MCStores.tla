------------------------------ MODULE MCStores ------------------------------
(* The three structures that calls share, one after the other: the state     *)
(* directory under two processes, the audit directory, and the key cache     *)
(* under two threads.  The initial state chooses which one is used; the      *)
(* other two stay as they are.                                               *)
(*  - state: two processes and two states, so that saves overlap, a load     *)
(*    meets a save, and residue and disturbed surroundings meet later calls. *)
(*  - audit: two days of two timestamps each, files of two lines, two        *)
(*    rotations kept: rotation by size and by day, compression, retention,   *)
(*    a clock that is set back and rotations with equal timestamps occur.    *)
(*  - keys: one rotation of two keys, four refreshes and enough time for a   *)
(*    set to be reused, to expire and to be used too late.                   *)
EXTENDS KeyCache, StateStore, AuditSink

VARIABLE subject

MCDayOf == [t \in Times |-> t \div 2]
MCHashRank == [n \in Serials |-> MaxRecords - n]

ASSUME StoreAssumption /\ RegisterAssumption /\ AuditAssumption /\ CacheAssumption

MCInit ==
    /\ subject \in {"state", "audit", "keys"}
    /\ CacheInit /\ StoreInit /\ AuditInit
    /\ subject # "state" => state = CHOOSE v \in Values : TRUE
    /\ subject # "keys" => published = Kids

\* Event ids are interchangeable: a new one is the least that is not in use.
LeastNewId ==
    at = "idle" => event'.id <= Cardinality({written[i].id : i \in DOMAIN written}) + 1

MCNext ==
    /\ UNCHANGED subject
    /\ \/ subject = "state" /\ StoreNext /\ UNCHANGED <<auditVars, cacheVars>>
       \/ subject = "audit" /\ AuditNext /\ LeastNewId /\ UNCHANGED <<storeVars, cacheVars>>
       \/ subject = "keys" /\ CacheNext /\ UNCHANGED <<storeVars, auditVars>>

MCSpec == MCInit /\ [][MCNext]_<<subject, storeVars, auditVars, cacheVars>>

Symmetry == Permutations(Threads) \cup Permutations(Kids)
=============================================================================
