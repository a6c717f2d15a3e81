----------------------------- MODULE ReplayGuard -----------------------------
(***************************************************************************)
(* SQLiteReplayGuard (deployment/replay_sqlite.py): the durable table that *)
(* lets one OIDC token start at most one privileged deployment.            *)
(*                                                                         *)
(* Every operation is one BEGIN IMMEDIATE ... COMMIT transaction, shared   *)
(* by the broker process (consume) and the executor process                *)
(* (begin_execution, finish_execution).  An operation that raises before   *)
(* COMMIT rolls back and changes nothing, so it is no step here; one that  *)
(* raises after COMMIT has taken its step.  The wall clock is sampled      *)
(* before the transaction begins, may be stale by then, and may be set     *)
(* back: the sample is any time.                                           *)
(***************************************************************************)
EXTENDS Integers, FiniteSets

CONSTANTS
    Tokens,     \* verified OIDC tokens, one per jti
    Hashes,     \* executor_request_sha256 values
    ExpiryOf,   \* the signed expiry of a token
    RunOf,      \* the (github_run_id, github_run_attempt) of a token
    Skew,       \* MAX_CLOCK_SKEW_SECONDS
    MaxEntries, \* maximum_entries
    MaxTime,    \* bound on sampled times
    NoRow       \* no row for this jti

Statuses == {"consumed", "executing", "finished"}
Rows == [hash : Hashes, status : Statuses]
Times == 0..MaxTime

ASSUME TokensAssumption == IsFiniteSet(Tokens)
ASSUME ExpiryAssumption == ExpiryOf \in [Tokens -> Nat]
ASSUME RunAssumption == DOMAIN RunOf = Tokens
ASSUME BoundsAssumption == Skew \in Nat /\ MaxEntries \in Nat \ {0} /\ MaxTime \in Nat
ASSUME NoRowAssumption == NoRow \notin Rows

VARIABLES
    rows,      \* the consumptions table, by jti
    lastSeen,  \* metadata.last_seen_epoch
    begun,     \* how often each token has entered executing (history)
    removed    \* tokens whose row was cleaned up (history)

vars == <<rows, lastSeen, begun, removed>>

RetainUntil(t) == ExpiryOf[t] + Skew
Live(table) == {t \in Tokens : table[t] # NoRow}

Init ==
    /\ rows = [t \in Tokens |-> NoRow]
    /\ lastSeen \in Times
    /\ begun = [t \in Tokens |-> 0]
    /\ removed = {}

\* _advance_clock: a rollback beyond the skew is refused, a smaller one uses
\* the watermark.
ClockAccepted(now) == lastSeen - now =< Skew
EffectiveTime(now) == IF now > lastSeen THEN now ELSE lastSeen

\* Mutant: cleanup deletes executing rows too.
ExpiredAnyStatus(t, time) == rows[t] # NoRow /\ RetainUntil(t) < time

\* The cleanup at the head of consume; an executing row is never deleted.
Expired(t, time) ==
    /\ rows[t] # NoRow
    /\ RetainUntil(t) < time
    /\ rows[t].status \in {"consumed", "finished"}
Cleaned(time) == [t \in Tokens |-> IF Expired(t, time) THEN NoRow ELSE rows[t]]

HasCapacity(table) == Cardinality(Live(table)) < MaxEntries
Unconflicted(table, t) == \A u \in Live(table) : u # t /\ RunOf[u] # RunOf[t]

\* Mutant: the expiry of the token is not checked again after the cleanup.
consumeExpired(t, h, now) ==
    LET time == EffectiveTime(now)
        table == Cleaned(time)
    IN  /\ ClockAccepted(now)
        /\ HasCapacity(table)
        /\ Unconflicted(table, t)
        /\ rows' = [table EXCEPT ![t] = [hash |-> h, status |-> "consumed"]]
        /\ lastSeen' = time
        /\ removed' = removed \cup {u \in Tokens : Expired(u, time)}
        /\ UNCHANGED begun

consume(t, h, now) ==
    LET time == EffectiveTime(now)
        table == Cleaned(time)
    IN  /\ ClockAccepted(now)
        /\ HasCapacity(table)
        /\ RetainUntil(t) >= time
        /\ Unconflicted(table, t)
        /\ rows' = [table EXCEPT ![t] = [hash |-> h, status |-> "consumed"]]
        /\ lastSeen' = time
        /\ removed' = removed \cup {u \in Tokens : Expired(u, time)}
        /\ UNCHANGED begun

\* Mutant: the UPDATE does not select on the expected status.
TransitionAnyStatus(t, h, before, after, now) ==
    /\ ClockAccepted(now)
    /\ rows[t] # NoRow /\ rows[t].hash = h
    /\ rows' = [rows EXCEPT ![t] = [hash |-> h, status |-> after]]
    /\ lastSeen' = EffectiveTime(now)
    /\ UNCHANGED removed

\* _transition: the complete binding must match the row.
Transition(t, h, before, after, now) ==
    /\ ClockAccepted(now)
    /\ rows[t] = [hash |-> h, status |-> before]
    /\ rows' = [rows EXCEPT ![t] = [hash |-> h, status |-> after]]
    /\ lastSeen' = EffectiveTime(now)
    /\ UNCHANGED removed

begin_execution(t, h, now) ==
    /\ RetainUntil(t) >= EffectiveTime(now)
    /\ Transition(t, h, "consumed", "executing", now)
    /\ begun' = [begun EXCEPT ![t] = @ + 1]

finish_execution(t, h, now) ==
    /\ Transition(t, h, "executing", "finished", now)
    /\ UNCHANGED begun

Next ==
    \E t \in Tokens, h \in Hashes, now \in Times :
        \/ consume(t, h, now)
        \/ begin_execution(t, h, now)
        \/ finish_execution(t, h, now)

Spec == Init /\ [][Next]_vars

-----------------------------------------------------------------------------
TypeOK ==
    /\ rows \in [Tokens -> Rows \cup {NoRow}]
    /\ lastSeen \in Times
    /\ begun \in [Tokens -> Nat]
    /\ removed \subseteq Tokens

\* A token enters executing at most once in the life of the store, however its
\* row is consumed, finished, cleaned up and whatever the clock does: the
\* executor's deploy runs at most once per signed token.
AtMostOneBegin == \A t \in Tokens : begun[t] =< 1

\* A jti whose expired row was cleaned up never has a row again, although the
\* wall clock may be set back afterwards (the README's promise that a small
\* rollback does not resurrect a removed identity).
RemovedStaysOut == \A t \in removed : rows[t] = NoRow

\* Two rows never share a GitHub run id and attempt (the table's UNIQUE
\* constraint as consume uses it, before and after cleanup).
RunAttemptUnique ==
    \A t, u \in Live(rows) : RunOf[t] = RunOf[u] => t = u

\* consume never exceeds maximum_entries, rows stuck in executing included.
CapacityBound == Cardinality(Live(rows)) =< MaxEntries

ForwardStep ==
    /\ lastSeen' >= lastSeen
    /\ \A t \in Tokens :
        rows'[t] # rows[t] =>
          \/ rows[t] = NoRow /\ rows'[t].status = "consumed"
          \/ /\ rows[t] # NoRow /\ rows'[t] = NoRow
             /\ rows[t].status # "executing"
             /\ RetainUntil(t) < lastSeen'
          \/ /\ rows[t] # NoRow /\ rows'[t] # NoRow
             /\ rows'[t].hash = rows[t].hash
             /\ <<rows[t].status, rows'[t].status>> \in
                  {<<"consumed", "executing">>, <<"executing", "finished">>}

\* A row only moves consumed, executing, finished, keeps the request hash it
\* was consumed with, and is deleted only when consumed or finished and
\* expired by the new watermark: an execution is never forgotten.
ForwardOnly == [][ForwardStep]_vars

\* README, "Durable SQLite replay boundary": "Duplicate JTIs and duplicate
\* run-ID/attempt pairs are definite replay rejections".  States it over the
\* life of the store: one GitHub run attempt starts at most one execution.
RunAttemptBeginsOnce ==
    \A t, u \in Tokens :
        (begun[t] > 0 /\ begun[u] > 0 /\ RunOf[t] = RunOf[u]) => t = u

-----------------------------------------------------------------------------
\* The strengthening that makes AtMostOneBegin inductive: a consumed row has
\* not begun, a live row was never removed, and a token that began or was
\* removed and has no row is past its retention by the watermark.
IInv ==
    /\ TypeOK
    /\ AtMostOneBegin
    /\ RunAttemptUnique
    /\ \A t \in Tokens :
        /\ (rows[t] # NoRow /\ rows[t].status = "consumed") => begun[t] = 0
        /\ t \in removed => rows[t] = NoRow
        /\ (rows[t] = NoRow /\ (begun[t] > 0 \/ t \in removed)) => RetainUntil(t) < lastSeen
=============================================================================
