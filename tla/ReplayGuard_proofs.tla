------------------------- MODULE ReplayGuard_proofs -------------------------
(***************************************************************************)
(* Proofs about ReplayGuard for every set of tokens, expiry and clock.     *)
(***************************************************************************)
EXTENDS ReplayGuard, FiniteSetTheorems, TLAPS

\* The watermark rule of _advance_clock: the effective time is a legal time
\* and never lies before the watermark.
LEMMA EffectiveTimeBounds ==
    ASSUME lastSeen \in Times, NEW now \in Times
    PROVE  EffectiveTime(now) \in Times /\ EffectiveTime(now) >= lastSeen
BY BoundsAssumption DEF EffectiveTime, Times

\* Retention is a natural number.
LEMMA RetainUntilType ==
    ASSUME NEW t \in Tokens
    PROVE  RetainUntil(t) \in Nat
BY ExpiryAssumption, BoundsAssumption DEF RetainUntil

\* Cleanup at the head of consume keeps or drops each row and drops only
\* expired ones.
LEMMA CleanedRows ==
    ASSUME TypeOK, NEW time \in Times
    PROVE  /\ Cleaned(time) \in [Tokens -> Rows \cup {NoRow}]
           /\ \A t \in Tokens : Expired(t, time) => Cleaned(time)[t] = NoRow
           /\ \A t \in Tokens : ~Expired(t, time) => Cleaned(time)[t] = rows[t]
           /\ Live(Cleaned(time)) \subseteq Live(rows)
BY NoRowAssumption DEF TypeOK, Cleaned, Live, Expired

\* The initial, empty table satisfies the inductive invariant.
LEMMA InitIInv == Init => IInv
BY BoundsAssumption, NoRowAssumption
   DEF Init, IInv, TypeOK, AtMostOneBegin, RunAttemptUnique, Live, Times

\* consume preserves the inductive invariant.  The critical case is a token
\* without a row: were it begun or removed before, its retention would lie
\* before the watermark, and consume refuses it.
LEMMA ConsumeIInv ==
    ASSUME IInv, NEW t \in Tokens, NEW h \in Hashes, NEW now \in Times,
           consume(t, h, now)
    PROVE  IInv'
<1> DEFINE time == EffectiveTime(now)
           table == Cleaned(time)
           row == [hash |-> h, status |-> "consumed"]
<1>1. /\ lastSeen \in Times
      /\ TypeOK
  BY DEF IInv, TypeOK
<1>2. time \in Times /\ time >= lastSeen
  BY <1>1, EffectiveTimeBounds
<1>3. /\ table \in [Tokens -> Rows \cup {NoRow}]
      /\ \A u \in Tokens : Expired(u, time) => table[u] = NoRow
      /\ \A u \in Tokens : ~Expired(u, time) => table[u] = rows[u]
      /\ Live(table) \subseteq Live(rows)
  BY <1>1, <1>2, CleanedRows
<1>4. /\ RetainUntil(t) >= time
      /\ Unconflicted(table, t)
      /\ rows' = [table EXCEPT ![t] = row]
      /\ lastSeen' = time
      /\ removed' = removed \cup {u \in Tokens : Expired(u, time)}
      /\ begun' = begun
  BY DEF consume
<1>5. row \in Rows /\ row # NoRow
  BY NoRowAssumption DEF Rows, Statuses
<1>6. table[t] = NoRow
  BY <1>4 DEF Unconflicted, Live
<1>7. ~Expired(t, time)
  BY <1>2, <1>4, RetainUntilType DEF Expired, Times
<1>8. rows[t] = NoRow
  BY <1>3, <1>6, <1>7
<1>9. begun[t] = 0 /\ t \notin removed
  <2>1. ~(RetainUntil(t) < lastSeen)
    BY <1>1, <1>2, <1>4, RetainUntilType DEF Times
  <2>2. ~(begun[t] > 0) /\ t \notin removed
    BY <1>8, <2>1 DEF IInv
  <2>3. begun[t] \in Nat
    BY <1>1 DEF TypeOK
  <2> QED BY <2>2, <2>3
<1>10. rows'[t] = row /\ \A u \in Tokens \ {t} : rows'[u] = table[u]
  BY <1>3, <1>4
<1>11. TypeOK'
  BY <1>1, <1>2, <1>3, <1>4, <1>5 DEF TypeOK
<1>12. AtMostOneBegin'
  BY <1>4 DEF IInv, AtMostOneBegin
<1>13. RunAttemptUnique'
  <2>1. \A u \in Live(rows)' : u = t \/ u \in Live(table)
    BY <1>10 DEF Live
  <2>2. \A u \in Live(table) : RunOf[u] # RunOf[t]
    BY <1>4 DEF Unconflicted
  <2>3. \A u, v \in Live(table) : RunOf[u] = RunOf[v] => u = v
    BY <1>3 DEF IInv, RunAttemptUnique
  <2> QED
    BY <2>1, <2>2, <2>3 DEF RunAttemptUnique
<1>14. ASSUME NEW u \in Tokens
       PROVE  /\ (rows'[u] # NoRow /\ rows'[u].status = "consumed") => begun'[u] = 0
              /\ u \in removed' => rows'[u] = NoRow
              /\ (rows'[u] = NoRow /\ (begun'[u] > 0 \/ u \in removed'))
                   => RetainUntil(u) < lastSeen'
  <2>1. CASE u = t
    BY <1>4, <1>5, <1>7, <1>9, <1>10, <2>1
  <2>2. CASE u # t /\ Expired(u, time)
    <3>1. rows'[u] = NoRow
      BY <1>3, <1>10, <2>2
    <3>2. RetainUntil(u) < lastSeen'
      BY <1>4, <2>2 DEF Expired
    <3> QED BY <3>1, <3>2
  <2>3. CASE u # t /\ ~Expired(u, time)
    <3>1. rows'[u] = rows[u]
      BY <1>3, <1>10, <2>3
    <3>2. u \in removed' <=> u \in removed
      BY <1>4, <2>3
    <3>3. RetainUntil(u) < lastSeen => RetainUntil(u) < lastSeen'
      BY <1>1, <1>2, <1>4, RetainUntilType DEF Times
    <3> QED BY <1>4, <3>1, <3>2, <3>3 DEF IInv
  <2> QED BY <2>1, <2>2, <2>3
<1> QED
  BY <1>11, <1>12, <1>13, <1>14 DEF IInv, RetainUntil

\* What both lifecycle transitions do: one live row keeps its hash and changes
\* its status, and the watermark does not move back.
LEMMA TransitionEffect ==
    ASSUME IInv, NEW t \in Tokens, NEW h \in Hashes, NEW now \in Times,
           NEW before \in Statuses, NEW after \in Statuses,
           Transition(t, h, before, after, now)
    PROVE  /\ rows[t] = [hash |-> h, status |-> before]
           /\ rows[t] # NoRow
           /\ rows'[t] = [hash |-> h, status |-> after]
           /\ rows'[t] # NoRow
           /\ \A u \in Tokens \ {t} : rows'[u] = rows[u]
           /\ rows' \in [Tokens -> Rows \cup {NoRow}]
           /\ lastSeen' \in Times
           /\ lastSeen' >= lastSeen
           /\ removed' = removed
           /\ Live(rows)' = Live(rows)
<1>1. TypeOK
  BY DEF IInv
<1>2. lastSeen' \in Times /\ lastSeen' >= lastSeen
  BY <1>1, EffectiveTimeBounds DEF Transition, TypeOK
<1>3. [hash |-> h, status |-> before] \in Rows /\ [hash |-> h, status |-> after] \in Rows
  BY DEF Rows
<1>4. /\ rows[t] = [hash |-> h, status |-> before]
      /\ rows' = [rows EXCEPT ![t] = [hash |-> h, status |-> after]]
      /\ removed' = removed
  BY DEF Transition
<1>5. /\ rows[t] # NoRow
      /\ rows'[t] = [hash |-> h, status |-> after]
      /\ rows'[t] # NoRow
      /\ \A u \in Tokens \ {t} : rows'[u] = rows[u]
      /\ rows' \in [Tokens -> Rows \cup {NoRow}]
  BY <1>1, <1>3, <1>4, NoRowAssumption DEF TypeOK
<1>6. Live(rows)' = Live(rows)
  BY <1>5 DEF Live
<1> QED
  BY <1>2, <1>4, <1>5, <1>6

\* begin_execution preserves the inductive invariant: the row it leaves was
\* consumed, so its token had not begun.
LEMMA BeginIInv ==
    ASSUME IInv, NEW t \in Tokens, NEW h \in Hashes, NEW now \in Times,
           begin_execution(t, h, now)
    PROVE  IInv'
<1>1. /\ rows[t] = [hash |-> h, status |-> "consumed"]
      /\ rows[t] # NoRow
      /\ rows'[t] = [hash |-> h, status |-> "executing"]
      /\ rows'[t] # NoRow
      /\ \A u \in Tokens \ {t} : rows'[u] = rows[u]
      /\ rows' \in [Tokens -> Rows \cup {NoRow}]
      /\ lastSeen' \in Times
      /\ lastSeen' >= lastSeen
      /\ removed' = removed
      /\ Live(rows)' = Live(rows)
  BY TransitionEffect DEF begin_execution, Statuses
<1>2. begun' = [begun EXCEPT ![t] = begun[t] + 1]
  BY DEF begin_execution
<1>3. begun[t] = 0
  BY <1>1 DEF IInv
<1>4. TypeOK /\ lastSeen \in Times
  BY DEF IInv, TypeOK
<1>5. TypeOK'
  BY <1>1, <1>2, <1>3, <1>4 DEF TypeOK
<1>6. begun'[t] = 1 /\ \A u \in Tokens \ {t} : begun'[u] = begun[u]
  BY <1>2, <1>3, <1>4 DEF TypeOK
<1>7. AtMostOneBegin'
  BY <1>6 DEF IInv, AtMostOneBegin
<1>8. RunAttemptUnique'
  BY <1>1 DEF IInv, RunAttemptUnique
<1>9. ASSUME NEW u \in Tokens
      PROVE  /\ (rows'[u] # NoRow /\ rows'[u].status = "consumed") => begun'[u] = 0
             /\ u \in removed' => rows'[u] = NoRow
             /\ (rows'[u] = NoRow /\ (begun'[u] > 0 \/ u \in removed'))
                  => RetainUntil(u) < lastSeen'
  <2>1. CASE u = t
    BY <1>1, <2>1 DEF IInv
  <2>2. CASE u # t
    <3>1. RetainUntil(u) < lastSeen => RetainUntil(u) < lastSeen'
      BY <1>1, <1>4, RetainUntilType DEF Times
    <3> QED BY <1>1, <1>6, <2>2, <3>1 DEF IInv
  <2> QED BY <2>1, <2>2
<1> QED
  BY <1>5, <1>7, <1>8, <1>9 DEF IInv, RetainUntil

\* finish_execution preserves the inductive invariant.
LEMMA FinishIInv ==
    ASSUME IInv, NEW t \in Tokens, NEW h \in Hashes, NEW now \in Times,
           finish_execution(t, h, now)
    PROVE  IInv'
<1>1. /\ rows[t] = [hash |-> h, status |-> "executing"]
      /\ rows[t] # NoRow
      /\ rows'[t] = [hash |-> h, status |-> "finished"]
      /\ rows'[t] # NoRow
      /\ \A u \in Tokens \ {t} : rows'[u] = rows[u]
      /\ rows' \in [Tokens -> Rows \cup {NoRow}]
      /\ lastSeen' \in Times
      /\ lastSeen' >= lastSeen
      /\ removed' = removed
      /\ Live(rows)' = Live(rows)
  BY TransitionEffect DEF finish_execution, Statuses
<1>2. begun' = begun
  BY DEF finish_execution
<1>3. TypeOK /\ lastSeen \in Times
  BY DEF IInv, TypeOK
<1>4. TypeOK'
  BY <1>1, <1>2, <1>3 DEF TypeOK
<1>5. AtMostOneBegin' /\ RunAttemptUnique'
  BY <1>1, <1>2 DEF IInv, AtMostOneBegin, RunAttemptUnique
<1>6. ASSUME NEW u \in Tokens
      PROVE  /\ (rows'[u] # NoRow /\ rows'[u].status = "consumed") => begun'[u] = 0
             /\ u \in removed' => rows'[u] = NoRow
             /\ (rows'[u] = NoRow /\ (begun'[u] > 0 \/ u \in removed'))
                  => RetainUntil(u) < lastSeen'
  <2>1. RetainUntil(u) < lastSeen => RetainUntil(u) < lastSeen'
    BY <1>1, <1>3, RetainUntilType DEF Times
  <2>2. CASE u = t
    BY <1>1, <2>2 DEF IInv
  <2>3. CASE u # t
    BY <1>1, <1>2, <2>1, <2>3 DEF IInv
  <2> QED BY <2>2, <2>3
<1> QED
  BY <1>4, <1>5, <1>6 DEF IInv, RetainUntil

\* Every step of the store preserves the inductive invariant.
LEMMA NextIInv == IInv /\ [Next]_vars => IInv'
<1> SUFFICES ASSUME IInv, [Next]_vars
             PROVE  IInv'
  OBVIOUS
<1>1. CASE Next
  BY <1>1, ConsumeIInv, BeginIInv, FinishIInv DEF Next
<1>2. CASE UNCHANGED vars
  BY <1>2 DEF vars, IInv, TypeOK, AtMostOneBegin, RunAttemptUnique, Live, RetainUntil
<1> QED BY <1>1, <1>2

\* The inductive invariant holds in every reachable state.
THEOREM InductiveInvariant == Spec => []IInv
BY InitIInv, NextIInv, PTL DEF Spec

\* Type correctness of the replay store.
THEOREM TypeCorrect == Spec => []TypeOK
<1>1. IInv => TypeOK
  BY DEF IInv
<1> QED BY <1>1, InductiveInvariant, PTL

\* One signed token starts at most one privileged deployment, for every set
\* of tokens, every capacity and every behaviour of the wall clock.
THEOREM TokenBeginsOnce == Spec => []AtMostOneBegin
<1>1. IInv => AtMostOneBegin
  BY DEF IInv
<1> QED BY <1>1, InductiveInvariant, PTL

\* A cleaned-up jti is never accepted again.
THEOREM RemovedNeverReturns == Spec => []RemovedStaysOut
<1>1. IInv => RemovedStaysOut
  BY DEF IInv, TypeOK, RemovedStaysOut
<1> QED BY <1>1, InductiveInvariant, PTL

\* Live rows are unique per run id and attempt.
THEOREM LiveRunAttemptUnique == Spec => []RunAttemptUnique
<1>1. IInv => RunAttemptUnique
  BY DEF IInv
<1> QED BY <1>1, InductiveInvariant, PTL

\* The tokens with a row form a finite set whose size is a natural number.
LEMMA LiveFinite ==
    ASSUME NEW table
    PROVE  IsFiniteSet(Live(table)) /\ Cardinality(Live(table)) \in Nat
<1>1. Live(table) \subseteq Tokens
  BY DEF Live
<1> QED BY <1>1, TokensAssumption, FS_Subset, FS_CardinalityType

\* The initial table is within capacity.
LEMMA InitCapacity == Init => CapacityBound
<1> SUFFICES ASSUME Init PROVE CapacityBound
  OBVIOUS
<1>1. Live(rows) = {}
  BY DEF Init, Live
<1>2. Cardinality({}) = 0
  BY FS_EmptySet
<1> QED BY <1>1, <1>2, BoundsAssumption DEF CapacityBound

\* A step keeps the number of rows within capacity: consume adds one row to a
\* cleaned table that has room, and a transition adds none.
LEMMA NextCapacity == IInv /\ CapacityBound /\ [Next]_vars => CapacityBound'
<1> SUFFICES ASSUME IInv, CapacityBound, [Next]_vars
             PROVE  CapacityBound'
  OBVIOUS
<1>1. ASSUME NEW t \in Tokens, NEW h \in Hashes, NEW now \in Times, consume(t, h, now)
      PROVE  CapacityBound'
  <2> DEFINE time == EffectiveTime(now)
             table == Cleaned(time)
  <2>1. TypeOK /\ time \in Times
    BY EffectiveTimeBounds DEF IInv, TypeOK
  <2>2. table \in [Tokens -> Rows \cup {NoRow}]
    BY <2>1, CleanedRows
  <2>3. /\ rows' = [table EXCEPT ![t] = [hash |-> h, status |-> "consumed"]]
        /\ Cardinality(Live(table)) < MaxEntries
    BY <1>1 DEF consume, HasCapacity
  <2>4. Live(rows)' \subseteq Live(table) \cup {t}
    BY <2>2, <2>3 DEF Live
  <2>5. IsFiniteSet(Live(table)) /\ Cardinality(Live(table)) \in Nat
    BY LiveFinite
  <2>6. /\ IsFiniteSet(Live(table) \cup {t})
        /\ Cardinality(Live(table) \cup {t}) =< Cardinality(Live(table)) + 1
    BY <2>5, FS_AddElement
  <2>7. /\ Cardinality(Live(rows)') =< Cardinality(Live(table) \cup {t})
        /\ Cardinality(Live(table) \cup {t}) \in Nat
        /\ Cardinality(Live(rows)') \in Nat
    BY <2>4, <2>6, FS_Subset, FS_CardinalityType
  <2> QED
    BY <2>3, <2>5, <2>6, <2>7, BoundsAssumption DEF CapacityBound
<1>2. ASSUME NEW t \in Tokens, NEW h \in Hashes, NEW now \in Times,
             begin_execution(t, h, now) \/ finish_execution(t, h, now)
      PROVE  CapacityBound'
  <2>1. Live(rows)' = Live(rows)
    BY <1>2, TransitionEffect DEF begin_execution, finish_execution, Statuses
  <2> QED BY <2>1 DEF CapacityBound
<1>3. CASE UNCHANGED vars
  BY <1>3 DEF vars, CapacityBound, Live
<1> QED BY <1>1, <1>2, <1>3 DEF Next

\* The table never holds more than maximum_entries rows.
THEOREM CapacityNeverExceeded == Spec => []CapacityBound
BY InitCapacity, NextCapacity, InductiveInvariant, PTL DEF Spec

\* Every step of the store is a forward step.
LEMMA NextForward == IInv /\ [Next]_vars => [ForwardStep]_vars
<1> SUFFICES ASSUME IInv, Next PROVE ForwardStep
  OBVIOUS
<1>1. ASSUME NEW t \in Tokens, NEW h \in Hashes, NEW now \in Times, consume(t, h, now)
      PROVE  ForwardStep
  <2> DEFINE time == EffectiveTime(now)
             table == Cleaned(time)
  <2>1. TypeOK /\ time \in Times /\ time >= lastSeen
    BY EffectiveTimeBounds DEF IInv, TypeOK
  <2>2. /\ table \in [Tokens -> Rows \cup {NoRow}]
        /\ \A u \in Tokens : Expired(u, time) => table[u] = NoRow
        /\ \A u \in Tokens : ~Expired(u, time) => table[u] = rows[u]
    BY <2>1, CleanedRows
  <2>3. /\ rows' = [table EXCEPT ![t] = [hash |-> h, status |-> "consumed"]]
        /\ RetainUntil(t) >= time
        /\ table[t] = NoRow
        /\ lastSeen' = time
    BY <1>1 DEF consume, Unconflicted, Live
  <2>4. rows[t] = NoRow
    BY <2>1, <2>2, <2>3, RetainUntilType DEF Expired, Times
  <2>5. ASSUME NEW u \in Tokens, u # t, rows'[u] # rows[u]
        PROVE  /\ rows[u] # NoRow /\ rows'[u] = NoRow
               /\ rows[u].status # "executing"
               /\ RetainUntil(u) < lastSeen'
    BY <2>2, <2>3, <2>5 DEF Expired
  <2>6. rows'[t].status = "consumed"
    BY <2>2, <2>3
  <2> QED BY <2>1, <2>3, <2>4, <2>5, <2>6 DEF ForwardStep
<1>2. ASSUME NEW t \in Tokens, NEW h \in Hashes, NEW now \in Times,
             begin_execution(t, h, now)
      PROVE  ForwardStep
  <2>1. /\ rows[t] = [hash |-> h, status |-> "consumed"] /\ rows[t] # NoRow
        /\ rows'[t] = [hash |-> h, status |-> "executing"] /\ rows'[t] # NoRow
        /\ \A u \in Tokens \ {t} : rows'[u] = rows[u]
        /\ lastSeen' >= lastSeen
    BY <1>2, TransitionEffect DEF begin_execution, Statuses
  <2> QED BY <2>1 DEF ForwardStep
<1>3. ASSUME NEW t \in Tokens, NEW h \in Hashes, NEW now \in Times,
             finish_execution(t, h, now)
      PROVE  ForwardStep
  <2>1. /\ rows[t] = [hash |-> h, status |-> "executing"] /\ rows[t] # NoRow
        /\ rows'[t] = [hash |-> h, status |-> "finished"] /\ rows'[t] # NoRow
        /\ \A u \in Tokens \ {t} : rows'[u] = rows[u]
        /\ lastSeen' >= lastSeen
    BY <1>3, TransitionEffect DEF finish_execution, Statuses
  <2> QED BY <2>1 DEF ForwardStep
<1> QED BY <1>1, <1>2, <1>3 DEF Next

\* Rows only move forward and an execution is never forgotten.
THEOREM LifecycleForward == Spec => ForwardOnly
BY NextForward, InductiveInvariant, PTL DEF Spec, ForwardOnly
=============================================================================
