---------------------------- MODULE StateRegister ----------------------------
(***************************************************************************)
(* What the DEV deployment state store promises its callers: one register. *)
(* A save that returns has installed its value for good.  A save that      *)
(* fails or is killed has installed it or not, and until a later save      *)
(* returns a loss of power may still take that value back.  A load that    *)
(* returns has read the register.  Nothing else changes it.                *)
(***************************************************************************)
CONSTANTS Procs, Values, None

Results == Values \cup {"saved", "failed", None}
Calls == [op : {"load"}] \cup [op : {"save"}, value : Values, installed : BOOLEAN]

VARIABLES
    reg,    \* the deployment state that callers see
    safe,   \* the deployment state that survives a loss of power
    call,   \* the call each process has in progress, None if none
    result  \* what its last call returned

Init ==
    /\ reg \in Values
    /\ safe = reg
    /\ call = [p \in Procs |-> None]
    /\ result = [p \in Procs |-> None]

Invoke(p, c) ==
    /\ call[p] = None
    /\ c.op = "save" => ~c.installed
    /\ call' = [call EXCEPT ![p] = c]
    /\ result' = [result EXCEPT ![p] = None]
    /\ UNCHANGED <<reg, safe>>

Saving(p) == call[p] # None /\ call[p].op = "save"

\* The value of a save becomes the register's value, once, and then safe.
Install(p) ==
    /\ Saving(p) /\ ~call[p].installed
    /\ reg' = call[p].value
    /\ call' = [call EXCEPT ![p] = [op |-> "save", value |-> reg', installed |-> TRUE]]
    /\ UNCHANGED <<safe, result>>

Confirm(p) ==
    /\ Saving(p)
    /\ safe' = reg
    /\ UNCHANGED <<reg, call, result>>

Return(p, r) ==
    /\ call[p] # None
    /\ r = "saved" => Saving(p) /\ call[p].installed /\ safe = reg
    /\ r \in Values => call[p].op = "load" /\ r = reg
    /\ call' = [call EXCEPT ![p] = None]
    /\ result' = [result EXCEPT ![p] = r]
    /\ UNCHANGED <<reg, safe>>

Kill(p) ==
    /\ call' = [call EXCEPT ![p] = None]
    /\ result' = [result EXCEPT ![p] = None]
    /\ UNCHANGED <<reg, safe>>

PowerLoss ==
    /\ reg' \in {reg, safe}
    /\ safe' = reg'
    /\ call' = [p \in Procs |-> None]
    /\ result' = [p \in Procs |-> None]

Next ==
    \/ \E p \in Procs : \/ \E c \in Calls : Invoke(p, c)
                        \/ Install(p) \/ Confirm(p) \/ Kill(p)
                        \/ \E r \in Results \ {None} : Return(p, r)
    \/ PowerLoss

Spec == Init /\ [][Next]_<<reg, safe, call, result>>
=============================================================================
