--------------------- MODULE DeploymentAuthority_proofs ---------------------
(***************************************************************************)
(* Proofs about DeploymentAuthority for any tokens, requests, faults and   *)
(* clock: what a 403 and the replay table tell, and that the whole path    *)
(* implements PromotionOnce.                                               *)
(***************************************************************************)
EXTENDS DeploymentAuthority, SequenceTheorems, TLAPS

-----------------------------------------------------------------------------
(* The inductive invariant.                                                *)

Request == [token : Tokens, hash : Hashes]
Busy == {"verify", "seal", "consume", "send", "wait", "reply"}
Unsent == {"verify", "seal", "consume", "send"}
Owning == {"deploy", "deploying", "finish"}
Responses == {"accepted", "rejected", "unavailable"}

Typed ==
    /\ sub \in Seq(Request)
    /\ Len(sub) =< MaxAttempts
    /\ answer \in [Attempts -> Responses \cup {"lost", "none"}]
    /\ bpc \in Busy \cup {"off", "poll", "accept"}
    /\ reply \in Responses \cup {"none"}
    /\ backlog \in Seq(Nat)
    /\ conn \in [Attempts -> {"none", "open", "answered", "closed"}]
    /\ epc \in Owning \cup {"idle", "preflight", "begin", "respond"}
    /\ serving \in Nat
    /\ deployed \in [Attempts -> {"none", "running", "complete", "failed"}]

\* What the table knows of each token: a row still consumed has not begun, a
\* removed one is gone, and a token that had a row and has none is past its
\* retention by the watermark.
TableSound ==
    /\ rows \in [Tokens -> Guard!Rows \cup {NoRow}]
    /\ lastSeen \in Times
    /\ begun \in [Tokens -> Nat]
    /\ removed \subseteq Tokens
    /\ \A t \in Tokens :
        /\ (rows[t] # NoRow /\ rows[t].status = "consumed") => begun[t] = 0
        /\ t \in removed => rows[t] = NoRow
        /\ (rows[t] = NoRow /\ (begun[t] > 0 \/ t \in removed)) =>
               Guard!RetainUntil(t) < lastSeen

\* The request in hand is unanswered, and what callers are told is true.
BrokerSound ==
    /\ bpc \in Busy => Len(sub) > 0 /\ answer[Len(sub)] = "none"
    /\ bpc \in Unsent => conn[Len(sub)] = "none"
    /\ reply # "none" <=> bpc = "reply"
    /\ reply = "accepted" => deployed[Len(sub)] = "complete"
    /\ reply = "rejected" => conn[Len(sub)] = "none"
    /\ \A a \in Attempts :
        /\ answer[a] = "accepted" => deployed[a] = "complete"
        /\ answer[a] = "rejected" => conn[a] = "none"
        /\ a > Len(sub) => answer[a] = "none" /\ conn[a] = "none"

\* Each open connection is queued once or served, and has not run if queued.
WireSound ==
    /\ \A i \in 1..Len(backlog) :
        /\ backlog[i] \in 1..Len(sub)
        /\ conn[backlog[i]] = "open"
        /\ deployed[backlog[i]] = "none"
        /\ backlog[i] # serving
    /\ \A i, j \in 1..Len(backlog) : backlog[i] = backlog[j] => i = j
    /\ epc = "idle" <=> serving = 0
    /\ epc # "idle" => serving \in 1..Len(sub) /\ conn[serving] = "open"
    /\ \A a \in Attempts :
        /\ conn[a] = "none" => deployed[a] = "none"
        /\ conn[a] = "answered" => deployed[a] = "complete"

\* What the running executor has done so far.
ExecutorSound ==
    /\ epc \in {"preflight", "begin", "deploy"} => deployed[serving] = "none"
    /\ epc \in {"finish", "respond"} => deployed[serving] = "complete"
    /\ \A a \in Attempts : deployed[a] = "running" <=> (epc = "deploying" /\ a = serving)
    /\ epc \in Owning =>
        /\ rows[sub[serving].token] = [hash |-> sub[serving].hash, status |-> "executing"]
        /\ begun[sub[serving].token] > 0
    /\ epc = "deploy" =>
        \A a \in 1..Len(sub) : sub[a].token = sub[serving].token => deployed[a] = "none"

\* At most one attempt of a token ever ran, and the row tells of it.
RunsSound ==
    /\ \A a, b \in 1..Len(sub) :
        (sub[a].token = sub[b].token /\ deployed[a] # "none" /\ deployed[b] # "none") => a = b
    /\ \A a \in 1..Len(sub) :
        deployed[a] # "none" =>
            /\ begun[sub[a].token] > 0
            /\ rows[sub[a].token] # NoRow => rows[sub[a].token].hash = sub[a].hash
    /\ \A t \in Tokens :
        (rows[t] # NoRow /\ rows[t].status = "finished") =>
            \E a \in 1..Len(sub) : /\ sub[a].token = t
                                   /\ sub[a].hash = rows[t].hash
                                   /\ deployed[a] = "complete"

AuthorityInvariant ==
    Typed /\ TableSound /\ BrokerSound /\ WireSound /\ ExecutorSound /\ RunsSound

-----------------------------------------------------------------------------
(* The three transactions of the replay table.                             *)

\* consume takes a token that had no row, was not removed and has not begun;
\* it forgets other rows only if they are not executing.
LEMMA ConsumeEffect ==
    ASSUME TableSound, NEW t \in Tokens, NEW h \in Hashes, NEW now \in Times,
           Guard!consume(t, h, now)
    PROVE  /\ TableSound'
           /\ rows[t] = NoRow /\ begun[t] = 0 /\ t \notin removed
           /\ rows'[t] = [hash |-> h, status |-> "consumed"]
           /\ begun' = begun
           /\ \A u \in Tokens \ {t} :
                \/ rows'[u] = rows[u] /\ (u \in removed' <=> u \in removed)
                \/ /\ rows[u] # NoRow /\ rows[u].status # "executing"
                   /\ rows'[u] = NoRow /\ u \in removed'
<1> DEFINE time == Guard!EffectiveTime(now)
           table == Guard!Cleaned(time)
<1>1. /\ time \in Times /\ time >= lastSeen
      /\ \A u \in Tokens : Guard!RetainUntil(u) \in Nat
  BY TableAssumption DEF TableSound, Guard!EffectiveTime, Guard!RetainUntil, Times
<1>2. \A u \in Tokens :
        table[u] = IF Guard!Expired(u, time) THEN NoRow ELSE rows[u]
  BY DEF Guard!Cleaned
<1>3. /\ Guard!RetainUntil(t) >= time
      /\ Guard!Unconflicted(table, t)
      /\ rows' = [table EXCEPT ![t] = [hash |-> h, status |-> "consumed"]]
      /\ lastSeen' = time
      /\ removed' = removed \cup {u \in Tokens : Guard!Expired(u, time)}
      /\ begun' = begun
  BY DEF Guard!consume
<1>4. table[t] = NoRow
  BY <1>3 DEF Guard!Unconflicted, Guard!Live
<1>5. ~Guard!Expired(t, time)
  BY <1>1, <1>3 DEF Guard!Expired, Times
<1>6. rows[t] = NoRow /\ begun[t] = 0 /\ t \notin removed
  BY <1>1, <1>2, <1>3, <1>4, <1>5 DEF TableSound, Times
<1>7. \A u \in Tokens \ {t} :
        \/ /\ ~Guard!Expired(u, time)
           /\ rows'[u] = rows[u] /\ (u \in removed' <=> u \in removed)
        \/ /\ Guard!Expired(u, time)
           /\ rows[u] # NoRow /\ rows[u].status # "executing"
           /\ rows'[u] = NoRow /\ u \in removed'
  BY <1>2, <1>3 DEF Guard!Expired, Guard!Cleaned
<1>8. rows'[t] = [hash |-> h, status |-> "consumed"] /\ t \notin removed'
  BY <1>3, <1>5, <1>6 DEF Guard!Cleaned
<1>9. TableSound'
  <2>1. rows' \in [Tokens -> Guard!Rows \cup {NoRow}]
    BY <1>3 DEF TableSound, Guard!Cleaned, Guard!Rows, Guard!Statuses
  <2>2. lastSeen' \in Times /\ begun' \in [Tokens -> Nat] /\ removed' \subseteq Tokens
    BY <1>1, <1>3 DEF TableSound
  <2>3. ASSUME NEW u \in Tokens
        PROVE  /\ (rows'[u] # NoRow /\ rows'[u].status = "consumed") => begun'[u] = 0
               /\ u \in removed' => rows'[u] = NoRow
               /\ (rows'[u] = NoRow /\ (begun'[u] > 0 \/ u \in removed')) =>
                      Guard!RetainUntil(u) < lastSeen'
    <3>1. CASE u = t
      BY <1>3, <1>6, <1>8, <3>1, TableAssumption DEF Guard!Rows, Guard!Statuses
    <3>2. CASE u # t /\ ~Guard!Expired(u, time)
      BY <1>1, <1>3, <1>7, <3>2 DEF TableSound, Times
    <3>3. CASE u # t /\ Guard!Expired(u, time)
      BY <1>1, <1>3, <1>7, <3>3 DEF TableSound, Guard!Expired, Times
    <3> QED BY <3>1, <3>2, <3>3
  <2> QED BY <2>1, <2>2, <2>3 DEF TableSound, Guard!RetainUntil
<1> QED BY <1>3, <1>6, <1>7, <1>8, <1>9

\* begin_execution moves a consumed row, and counts.
LEMMA BeginEffect ==
    ASSUME TableSound, NEW t \in Tokens, NEW h \in Hashes, NEW now \in Times,
           Guard!begin_execution(t, h, now)
    PROVE  /\ TableSound'
           /\ rows[t] = [hash |-> h, status |-> "consumed"] /\ begun[t] = 0
           /\ rows' = [rows EXCEPT ![t] = [hash |-> h, status |-> "executing"]]
           /\ begun' = [begun EXCEPT ![t] = @ + 1]
           /\ removed' = removed
<1>1. lastSeen' \in Times /\ lastSeen' >= lastSeen
  BY TableAssumption
     DEF TableSound, Guard!begin_execution, Guard!Transition, Guard!EffectiveTime, Times
<1>2. /\ rows[t] = [hash |-> h, status |-> "consumed"]
      /\ rows' = [rows EXCEPT ![t] = [hash |-> h, status |-> "executing"]]
      /\ begun' = [begun EXCEPT ![t] = @ + 1]
      /\ removed' = removed
  BY DEF Guard!begin_execution, Guard!Transition
<1>3. rows[t] # NoRow /\ rows'[t] # NoRow
  BY <1>2, TableAssumption DEF TableSound, Guard!Rows, Guard!Statuses
<1>4. rows' \in [Tokens -> Guard!Rows \cup {NoRow}]
  BY <1>2 DEF TableSound, Guard!Rows, Guard!Statuses
<1>5. \A u \in Tokens : Guard!RetainUntil(u) \in Nat
  BY TableAssumption DEF Guard!RetainUntil
<1> QED BY <1>1, <1>2, <1>3, <1>4, <1>5 DEF TableSound, Times, Guard!RetainUntil

\* finish_execution moves an executing row.
LEMMA FinishEffect ==
    ASSUME TableSound, NEW t \in Tokens, NEW h \in Hashes, NEW now \in Times,
           Guard!finish_execution(t, h, now)
    PROVE  /\ TableSound'
           /\ rows[t] = [hash |-> h, status |-> "executing"]
           /\ rows' = [rows EXCEPT ![t] = [hash |-> h, status |-> "finished"]]
           /\ begun' = begun
           /\ removed' = removed
<1>1. lastSeen' \in Times /\ lastSeen' >= lastSeen
  BY TableAssumption
     DEF TableSound, Guard!finish_execution, Guard!Transition, Guard!EffectiveTime, Times
<1>2. /\ rows[t] = [hash |-> h, status |-> "executing"]
      /\ rows' = [rows EXCEPT ![t] = [hash |-> h, status |-> "finished"]]
      /\ begun' = begun
      /\ removed' = removed
  BY DEF Guard!finish_execution, Guard!Transition
<1>3. rows[t] # NoRow /\ rows'[t] # NoRow
  BY <1>2, TableAssumption DEF TableSound, Guard!Rows, Guard!Statuses
<1>4. rows' \in [Tokens -> Guard!Rows \cup {NoRow}]
  BY <1>2 DEF TableSound, Guard!Rows, Guard!Statuses
<1>5. \A u \in Tokens : Guard!RetainUntil(u) \in Nat
  BY TableAssumption DEF Guard!RetainUntil
<1> QED BY <1>1, <1>2, <1>3, <1>4, <1>5 DEF TableSound, Times, Guard!RetainUntil

-----------------------------------------------------------------------------
(* The steps of the broker.                                                *)

\* The attempts that have been accepted are requests.
LEMMA AttemptTypes ==
    ASSUME Typed
    PROVE  /\ Len(sub) \in Nat
           /\ \A a \in 1..Len(sub) :
                a \in Attempts /\ sub[a].token \in Tokens /\ sub[a].hash \in Hashes
<1>1. Len(sub) \in Nat /\ Len(sub) =< MaxAttempts
  BY LenProperties DEF Typed
<1>2. \A a \in 1..Len(sub) : sub[a] \in Request
  BY ElementOfSeq DEF Typed
<1> QED BY <1>1, <1>2, AuthorityAssumption DEF Request, Attempts

\* A step that changes only where the broker is and what it is about to say
\* keeps the invariant, if it says it truthfully.
LEMMA BrokerOnly ==
    ASSUME AuthorityInvariant,
           UNCHANGED <<replay, wire, executor, sub, answer>>,
           bpc' \in Busy \cup {"off", "poll", "accept"},
           reply' \in Responses \cup {"none"},
           bpc' \in Busy => bpc \in Busy,
           bpc' \in Unsent => bpc \in Unsent,
           reply' # "none" <=> bpc' = "reply",
           reply' = "accepted" => deployed[Len(sub)] = "complete",
           reply' = "rejected" => conn[Len(sub)] = "none"
    PROVE  AuthorityInvariant'
<1> USE DEF AuthorityInvariant, replay, wire, executor
<1>1. Typed'
  BY DEF Typed
<1>2. TableSound'
  BY DEF TableSound, Guard!RetainUntil
<1>3. BrokerSound'
  BY DEF BrokerSound
<1>4. WireSound' /\ ExecutorSound' /\ RunsSound'
  BY DEF WireSound, ExecutorSound, RunsSound
<1> QED BY <1>1, <1>2, <1>3, <1>4

\* Poll, AcceptTimeout, RequestStop, BrokerStart, Seal, Verify, Receive.
LEMMA BrokerQuietSteps ==
    ASSUME AuthorityInvariant,
           \/ Poll \/ AcceptTimeout \/ RequestStop \/ BrokerStart \/ Seal \/ Receive
           \/ \E now \in Times : Verify(now)
    PROVE  AuthorityInvariant'
<1> USE DEF BrokerGoto, Respond, Busy, Unsent, Responses
<1>0. BrokerSound /\ Typed /\ WireSound
  BY DEF AuthorityInvariant
<1>1. CASE Poll \/ AcceptTimeout \/ RequestStop \/ BrokerStart
  BY <1>0, <1>1, BrokerOnly DEF Poll, AcceptTimeout, RequestStop, BrokerStart, BrokerSound, Typed
<1>2. CASE Seal
  BY <1>0, <1>2, BrokerOnly DEF Seal, BrokerSound, Typed
<1>3. CASE Receive
  <2>1. Len(sub) \in Attempts
    BY <1>0, <1>3, AttemptTypes DEF Receive, BrokerSound
  <2> QED
    BY <1>0, <1>3, <2>1, BrokerOnly DEF Receive, BrokerSound, WireSound, Typed, current
<1>4. CASE \E now \in Times : Verify(now)
  BY <1>0, <1>4, BrokerOnly DEF Verify, BrokerSound, Typed
<1> QED BY <1>1, <1>2, <1>3, <1>4

\* A new request is unanswered, unsent and has not run.
LEMMA AcceptInvariant ==
    ASSUME AuthorityInvariant, NEW t \in Tokens, NEW h \in Hashes, Accept(t, h)
    PROVE  AuthorityInvariant'
<1> DEFINE n == Len(sub)
<1>0. Typed /\ TableSound /\ BrokerSound /\ WireSound /\ ExecutorSound /\ RunsSound
  BY DEF AuthorityInvariant
<1>1. /\ n \in Nat /\ n < MaxAttempts
      /\ sub' = Append(sub, [token |-> t, hash |-> h])
      /\ bpc = "accept" /\ bpc' = "verify"
      /\ UNCHANGED <<answer, reply, stopping, replay, wire, executor, faults>>
  BY <1>0, AttemptTypes DEF Accept, current
<1>2. /\ sub' \in Seq(Request)
      /\ Len(sub') = n + 1
      /\ \A a \in 1..n : sub'[a] = sub[a]
  BY <1>0, <1>1, AppendProperties DEF Typed, Request
<1>3. /\ n + 1 \in Attempts /\ answer[n + 1] = "none" /\ conn[n + 1] = "none"
      /\ deployed[n + 1] = "none"
  BY <1>0, <1>1, AuthorityAssumption DEF BrokerSound, WireSound, Attempts
<1>4. Typed'
  BY <1>0, <1>1, <1>2, AuthorityAssumption DEF Typed, Busy, wire, executor
<1>5. TableSound'
  BY <1>0, <1>1 DEF TableSound, replay, Guard!RetainUntil
<1>6. BrokerSound'
  BY SMTT(30), <1>0, <1>1, <1>2, <1>3, AuthorityAssumption
     DEF BrokerSound, wire, executor, Busy, Unsent, Attempts
<1>7. WireSound'
  BY <1>0, <1>1, <1>2 DEF WireSound, wire, executor
<1>8. ExecutorSound'
  BY <1>0, <1>1, <1>2, <1>3 DEF ExecutorSound, WireSound, executor, replay, Owning
<1>9. RunsSound'
  <2>1. \A a \in 1..Len(sub') : deployed'[a] # "none" => a \in 1..n /\ sub'[a] = sub[a]
    BY <1>1, <1>2, <1>3 DEF executor
  <2>2. \A a \in 1..n : a \in 1..Len(sub') /\ sub'[a] = sub[a] /\ deployed'[a] = deployed[a]
    BY <1>1, <1>2 DEF executor
  <2>3. rows' = rows /\ begun' = begun /\ deployed' = deployed
    BY <1>1 DEF replay, executor
  <2> HIDE DEF n
  <2> QED BY <1>0, <2>1, <2>2, <2>3 DEF RunsSound, n
<1> QED BY <1>4, <1>5, <1>6, <1>7, <1>8, <1>9 DEF AuthorityInvariant

\* The response becomes what the caller was told; a lost one tells nothing.
LEMMA AnswerInvariant ==
    ASSUME AuthorityInvariant, WriteResponse \/ BrokerCrash
    PROVE  AuthorityInvariant'
<1> DEFINE n == Len(sub)
<1>0. Typed /\ TableSound /\ BrokerSound /\ WireSound /\ ExecutorSound /\ RunsSound
  BY DEF AuthorityInvariant
<1>1. UNCHANGED <<sub, stopping, replay, wire, executor>>
  BY DEF WriteResponse, BrokerCrash
<1>2. bpc' \in {"poll", "off"} /\ reply' = "none"
  BY DEF WriteResponse, BrokerCrash
<1>3. \/ answer' = answer
      \/ bpc \in Busy /\ answer' = [answer EXCEPT ![n] = "lost"]
      \/ bpc = "reply" /\ answer' = [answer EXCEPT ![n] = reply]
  BY <1>0 DEF WriteResponse, BrokerCrash, Busy, Typed, current
<1>4. bpc \in Busy => n \in Attempts
  BY <1>0, AttemptTypes DEF BrokerSound
<1>5. Typed'
  BY <1>0, <1>1, <1>2, <1>3, <1>4 DEF Typed, Busy, Responses, wire, executor
<1>6. TableSound'
  BY <1>0, <1>1 DEF TableSound, replay, Guard!RetainUntil
<1>7. BrokerSound'
  BY <1>0, <1>1, <1>2, <1>3, <1>4 DEF BrokerSound, Busy, Unsent, wire, executor, Typed, Responses
<1>8. WireSound' /\ ExecutorSound' /\ RunsSound'
  BY <1>0, <1>1 DEF WireSound, ExecutorSound, RunsSound, wire, executor, replay
<1> QED BY <1>5, <1>6, <1>7, <1>8 DEF AuthorityInvariant

\* The row of the current request is new, so nothing that ran is bound to it.
LEMMA ConsumeInvariant ==
    ASSUME AuthorityInvariant, NEW now \in Times, Consume(now)
    PROVE  AuthorityInvariant'
<1> DEFINE n == Len(sub)
<1>0. Typed /\ TableSound /\ BrokerSound /\ WireSound /\ ExecutorSound /\ RunsSound
  BY DEF AuthorityInvariant
<1>1. /\ bpc = "consume" /\ n \in 1..Len(sub) /\ conn[n] = "none"
      /\ token \in Tokens /\ hash \in Hashes
      /\ UNCHANGED <<wire, executor, sub, answer>>
  BY <1>0, AttemptTypes
     DEF Consume, BrokerSound, Busy, Unsent, BrokerGoto, Respond, token, hash, current
<1>2. \/ bpc' = "send" /\ reply' = reply
      \/ bpc' = "reply" /\ reply' \in {"rejected", "unavailable"}
  BY DEF Consume, BrokerGoto, Respond
<1>3. CASE UNCHANGED replay
  BY <1>0, <1>1, <1>2, <1>3, BrokerOnly DEF Busy, Unsent, Responses, BrokerSound, Typed
<1>4. CASE Guard!consume(token, hash, now)
  <2>a. PICK t \in Tokens, h \in Hashes : t = token /\ h = hash
    BY <1>1
  <2>b. Guard!consume(t, h, now)
    BY <1>4, <2>a DEF Guard!consume, Guard!Unconflicted, Guard!RetainUntil
  <2>1. /\ TableSound'
        /\ rows[token] = NoRow /\ begun[token] = 0
        /\ rows'[token].status = "consumed"
        /\ begun' = begun
        /\ \A u \in Tokens \ {token} :
             \/ rows'[u] = rows[u]
             \/ /\ rows[u] # NoRow /\ rows[u].status # "executing"
                /\ rows'[u] = NoRow
    <3>1. TableSound /\ Guard!consume(t, h, now)
      BY <1>0, <2>b
    <3>2. /\ TableSound'
          /\ rows[t] = NoRow /\ begun[t] = 0
          /\ rows'[t] = [hash |-> h, status |-> "consumed"]
          /\ begun' = begun
          /\ \A u \in Tokens \ {t} :
               \/ rows'[u] = rows[u]
               \/ /\ rows[u] # NoRow /\ rows[u].status # "executing"
                  /\ rows'[u] = NoRow
      BY <3>1, ConsumeEffect
    <3> QED BY <2>a, <3>2
  <2>2. Typed'
    BY <1>0, <1>1, <1>2 DEF Typed, Busy, Responses, wire, executor
  <2>3. BrokerSound' /\ WireSound'
    BY <1>0, <1>1, <1>2 DEF BrokerSound, WireSound, Busy, Unsent, wire, executor
  <2>4. \A a \in 1..n : deployed[a] # "none" => sub[a].token # token
    BY <1>0, <2>1, AttemptTypes DEF RunsSound
  <2>5. ExecutorSound'
    <3>1. epc \in Owning =>
            rows'[sub[serving].token] = rows[sub[serving].token]
      <4> SUFFICES ASSUME epc \in Owning
                   PROVE  rows'[sub[serving].token] = rows[sub[serving].token]
        OBVIOUS
      <4>1. /\ sub[serving].token \in Tokens
            /\ rows[sub[serving].token] # NoRow
            /\ rows[sub[serving].token].status = "executing"
        BY <1>0, AttemptTypes, TableAssumption
           DEF ExecutorSound, WireSound, Owning, Guard!Rows, Guard!Statuses
      <4> QED BY <2>1, <4>1
    <3> QED BY <1>0, <1>1, <2>1, <3>1 DEF ExecutorSound, executor
  <2>6. RunsSound'
    <3>1. \A a \in 1..n : deployed[a] # "none" =>
            rows'[sub[a].token] = NoRow \/ rows'[sub[a].token] = rows[sub[a].token]
      BY <1>0, <2>1, <2>4, AttemptTypes
    <3>2. \A u \in Tokens : (rows'[u] # NoRow /\ rows'[u].status = "finished") => rows'[u] = rows[u]
      BY <2>1
    <3> QED BY <1>0, <1>1, <2>1, <3>1, <3>2 DEF RunsSound, executor
  <2> QED BY <2>1, <2>2, <2>3, <2>5, <2>6 DEF AuthorityInvariant
<1> QED BY <1>3, <1>4 DEF Consume

\* The request is queued behind the others, once.
LEMMA SendInvariant ==
    ASSUME AuthorityInvariant, Send
    PROVE  AuthorityInvariant'
<1> DEFINE n == Len(sub)
<1>0. Typed /\ TableSound /\ BrokerSound /\ WireSound /\ ExecutorSound /\ RunsSound
  BY DEF AuthorityInvariant
<1>1. /\ bpc = "send" /\ n \in 1..Len(sub) /\ n \in Attempts
      /\ conn[n] = "none" /\ deployed[n] = "none" /\ answer[n] = "none"
      /\ UNCHANGED <<replay, executor, sub, answer>>
  BY <1>0, AttemptTypes DEF Send, BrokerSound, WireSound, Busy, Unsent, BrokerGoto, Respond
<1>2. \/ bpc' = "wait" /\ reply' = reply
      \/ bpc' = "reply" /\ reply' = "unavailable"
  BY DEF Send, BrokerGoto, Respond
<1>3. CASE UNCHANGED wire
  BY <1>0, <1>1, <1>2, <1>3, BrokerOnly DEF Busy, Unsent, Responses, BrokerSound, Typed
<1>4. CASE /\ backlog' = Append(backlog, n)
           /\ conn' = [conn EXCEPT ![n] = "open"]
  <2>1. /\ backlog' \in Seq(Nat)
        /\ Len(backlog) \in Nat /\ Len(backlog') = Len(backlog) + 1
        /\ \A i \in 1..Len(backlog) : backlog'[i] = backlog[i]
        /\ backlog'[Len(backlog) + 1] = n
    BY <1>0, <1>1, <1>4, AppendProperties, LenProperties DEF Typed
  <2>2. /\ n # serving
        /\ \A i \in 1..Len(backlog) : backlog[i] # n
    BY <1>0, <1>1, AttemptTypes DEF WireSound
  <2>3. \A i \in 1..Len(backlog') : (i \in 1..Len(backlog) /\ backlog'[i] = backlog[i])
                                     \/ (i = Len(backlog) + 1 /\ backlog'[i] = n)
    BY <2>1
  <2>4. Typed'
    BY <1>0, <1>1, <1>2, <1>4, <2>1 DEF Typed, Busy, Responses, executor
  <2>5. TableSound'
    BY <1>0, <1>1 DEF TableSound, replay, Guard!RetainUntil
  <2>6. BrokerSound'
    BY <1>0, <1>1, <1>2, <1>4, AttemptTypes DEF BrokerSound, Busy, Unsent, executor, Typed
  <2>7. WireSound'
    <3>1. /\ Len(sub') = n /\ serving' = serving /\ deployed' = deployed /\ epc' = epc
          /\ \A a \in Attempts : a # n => conn'[a] = conn[a]
          /\ conn'[n] = "open"
      BY <1>0, <1>1, <1>4 DEF Typed, executor
    <3>2. \A i \in 1..Len(backlog) : backlog[i] \in Attempts
      BY <1>0, AttemptTypes DEF WireSound
    <3>3. \A i \in 1..Len(backlog') :
            /\ backlog'[i] \in 1..n
            /\ conn'[backlog'[i]] = "open"
            /\ deployed[backlog'[i]] = "none"
            /\ backlog'[i] # serving
      BY <1>0, <1>1, <2>2, <2>3, <3>1, <3>2 DEF WireSound
    <3>4. \A i, j \in 1..Len(backlog') : backlog'[i] = backlog'[j] => i = j
      BY <1>0, <2>2, <2>3 DEF WireSound
    <3>5. epc # "idle" => serving \in Attempts
      BY <1>0, AttemptTypes DEF WireSound
    <3> QED BY <1>0, <1>1, <2>2, <3>1, <3>3, <3>4, <3>5 DEF WireSound
  <2>8. ExecutorSound' /\ RunsSound'
    BY <1>0, <1>1 DEF ExecutorSound, RunsSound, executor, replay
  <2> QED BY <2>4, <2>5, <2>6, <2>7, <2>8 DEF AuthorityInvariant
<1> QED BY <1>3, <1>4 DEF Send, wire, current

-----------------------------------------------------------------------------
(* The steps of the executor.                                              *)

\* The connection in service is open, is not queued, and has a request.
LEMMA Serving ==
    ASSUME AuthorityInvariant, epc # "idle"
    PROVE  /\ serving \in 1..Len(sub) /\ serving \in Attempts
           /\ conn[serving] = "open"
           /\ sub[serving].token \in Tokens /\ sub[serving].hash \in Hashes
           /\ \A i \in 1..Len(backlog) :
                backlog[i] \in Attempts /\ backlog[i] # serving
BY AttemptTypes DEF AuthorityInvariant, WireSound

\* A process that ends, with or without a response, keeps the invariant as far
\* as table and results do.
LEMMA ProcessEnds ==
    ASSUME AuthorityInvariant, epc # "idle", UNCHANGED <<broker, backlog>>,
           epc' = "idle", serving' = 0,
           NEW final \in {"answered", "closed"},
           conn' = [conn EXCEPT ![serving] = final],
           deployed' \in [Attempts -> {"none", "running", "complete", "failed"}],
           \A a \in Attempts : a # serving => deployed'[a] = deployed[a],
           deployed'[serving] # "running",
           final = "answered" => deployed'[serving] = "complete",
           deployed[serving] = "complete" => deployed'[serving] = "complete",
           TableSound', RunsSound'
    PROVE  AuthorityInvariant'
<1>0. Typed /\ BrokerSound /\ WireSound /\ ExecutorSound
  BY DEF AuthorityInvariant
<1>1. /\ serving \in 1..Len(sub) /\ serving \in Attempts /\ conn[serving] = "open"
      /\ \A i \in 1..Len(backlog) : backlog[i] \in Attempts /\ backlog[i] # serving
  BY Serving
<1>2. /\ conn'[serving] = final
      /\ \A a \in Attempts : a # serving => conn'[a] = conn[a]
  BY <1>0, <1>1 DEF Typed
<1>3. Typed'
  BY <1>0 DEF Typed, broker, Owning
<1>4. BrokerSound'
  BY <1>0, <1>1, <1>2, AttemptTypes DEF BrokerSound, broker, Busy, Unsent
<1>5. WireSound'
  BY <1>0, <1>1, <1>2 DEF WireSound, broker, Attempts
<1>6. ExecutorSound'
  BY <1>0, <1>1 DEF ExecutorSound, Owning
<1> QED BY <1>3, <1>4, <1>5, <1>6 DEF AuthorityInvariant

\* Table and results untouched.
LEMMA SameRuns ==
    ASSUME AuthorityInvariant, UNCHANGED <<replay, sub, deployed>>
    PROVE  TableSound' /\ RunsSound'
BY DEF AuthorityInvariant, TableSound, RunsSound, replay, Guard!RetainUntil

\* Nothing that is bound to a row that begins has run.
LEMMA BeginRuns ==
    ASSUME AuthorityInvariant, epc = "begin", NEW now \in Times,
           Guard!begin_execution(sub[serving].token, sub[serving].hash, now),
           UNCHANGED <<sub, deployed>>
    PROVE  /\ TableSound' /\ RunsSound'
           /\ rows'[sub[serving].token] = [hash |-> sub[serving].hash, status |-> "executing"]
           /\ begun'[sub[serving].token] > 0
           /\ \A a \in 1..Len(sub) : sub[a].token = sub[serving].token => deployed[a] = "none"
<1>0. Typed /\ TableSound /\ RunsSound
  BY DEF AuthorityInvariant
<1>1. PICK t \in Tokens, h \in Hashes : t = sub[serving].token /\ h = sub[serving].hash
  BY Serving
<1>2. Guard!begin_execution(t, h, now)
  BY <1>1 DEF Guard!begin_execution, Guard!Transition, Guard!RetainUntil
<1>3. /\ TableSound'
      /\ rows[t] = [hash |-> h, status |-> "consumed"] /\ begun[t] = 0
      /\ rows' = [rows EXCEPT ![t] = [hash |-> h, status |-> "executing"]]
      /\ begun' = [begun EXCEPT ![t] = @ + 1]
  BY <1>0, <1>2, BeginEffect
<1>4. \A a \in 1..Len(sub) : sub[a].token = t => deployed[a] = "none"
  BY <1>0, <1>3, AttemptTypes DEF RunsSound
<1>5. /\ rows'[t] = [hash |-> h, status |-> "executing"] /\ begun'[t] > 0
      /\ \A u \in Tokens : u # t => rows'[u] = rows[u] /\ begun'[u] = begun[u]
  BY <1>0, <1>3 DEF TableSound
<1>6. RunsSound'
  BY <1>0, <1>4, <1>5, AttemptTypes DEF RunsSound
<1> QED BY <1>1, <1>3, <1>4, <1>5, <1>6

\* The attempt that owns a row that finishes is complete.
LEMMA FinishRuns ==
    ASSUME AuthorityInvariant, epc = "finish", NEW now \in Times,
           Guard!finish_execution(sub[serving].token, sub[serving].hash, now),
           UNCHANGED <<sub, deployed>>
    PROVE  TableSound' /\ RunsSound'
<1>0. Typed /\ TableSound /\ ExecutorSound /\ RunsSound
  BY DEF AuthorityInvariant
<1>1. PICK t \in Tokens, h \in Hashes : t = sub[serving].token /\ h = sub[serving].hash
  BY Serving
<1>2. Guard!finish_execution(t, h, now)
  BY <1>1 DEF Guard!finish_execution, Guard!Transition
<1>3. /\ TableSound'
      /\ rows[t] = [hash |-> h, status |-> "executing"]
      /\ rows' = [rows EXCEPT ![t] = [hash |-> h, status |-> "finished"]]
      /\ begun' = begun
  BY <1>0, <1>2, FinishEffect
<1>4. /\ serving \in 1..Len(sub) /\ deployed[serving] = "complete"
      /\ sub[serving].token = t /\ sub[serving].hash = h
  BY <1>0, <1>1, Serving DEF ExecutorSound
<1>5. /\ rows'[t] = [hash |-> h, status |-> "finished"]
      /\ \A u \in Tokens : u # t => rows'[u] = rows[u]
  BY <1>0, <1>3 DEF TableSound
<1>6. rows[t] # NoRow
  BY <1>3, TableAssumption DEF Guard!Rows, Guard!Statuses
<1>7. \A a \in 1..Len(sub) : deployed[a] # "none" =>
        /\ begun'[sub[a].token] > 0
        /\ rows'[sub[a].token] # NoRow => rows'[sub[a].token].hash = sub[a].hash
  BY <1>0, <1>3, <1>5, <1>6, AttemptTypes DEF RunsSound
<1>8. \A u \in Tokens :
        (rows'[u] # NoRow /\ rows'[u].status = "finished") =>
            \E a \in 1..Len(sub) : /\ sub[a].token = u
                                   /\ sub[a].hash = rows'[u].hash
                                   /\ deployed[a] = "complete"
  <2> SUFFICES ASSUME NEW u \in Tokens, rows'[u] # NoRow, rows'[u].status = "finished"
               PROVE  \E a \in 1..Len(sub) : /\ sub[a].token = u
                                             /\ sub[a].hash = rows'[u].hash
                                             /\ deployed[a] = "complete"
    OBVIOUS
  <2>1. CASE u = t
    BY <1>4, <1>5, <2>1
  <2>2. CASE u # t
    BY <1>0, <1>5, <2>2 DEF RunsSound
  <2> QED BY <2>1, <2>2
<1> QED BY <1>0, <1>3, <1>7, <1>8 DEF RunsSound

\* A process that goes on with its connection keeps the invariant as far as
\* what it has done and the table do.
LEMMA ProcessContinues ==
    ASSUME AuthorityInvariant, epc # "idle", UNCHANGED <<broker, wire, serving>>,
           epc' \in Owning \cup {"preflight", "begin", "respond"},
           deployed' \in [Attempts -> {"none", "running", "complete", "failed"}],
           \A a \in Attempts : a # serving => deployed'[a] = deployed[a],
           deployed[serving] = "complete" => deployed'[serving] = "complete",
           TableSound', ExecutorSound', RunsSound'
    PROVE  AuthorityInvariant'
<1>0. Typed /\ BrokerSound /\ WireSound
  BY DEF AuthorityInvariant
<1>1. /\ serving \in 1..Len(sub) /\ serving \in Attempts /\ conn[serving] = "open"
      /\ \A i \in 1..Len(backlog) : backlog[i] \in Attempts /\ backlog[i] # serving
  BY Serving
<1>2. Typed'
  BY <1>0 DEF Typed, broker, wire
<1>3. BrokerSound'
  BY <1>0, <1>1, AttemptTypes DEF BrokerSound, broker, wire, Busy, Unsent
<1>4. WireSound'
  BY <1>0, <1>1 DEF WireSound, broker, wire, Owning
<1> QED BY <1>2, <1>3, <1>4 DEF AuthorityInvariant

\* The oldest queued connection is served; it has not run.
LEMMA ServeInvariant ==
    ASSUME AuthorityInvariant, Serve
    PROVE  AuthorityInvariant'
<1>0. Typed /\ TableSound /\ BrokerSound /\ WireSound /\ ExecutorSound /\ RunsSound
  BY DEF AuthorityInvariant
<1>1. /\ epc = "idle" /\ epc' = "preflight" /\ backlog # << >>
      /\ serving' = Head(backlog) /\ backlog' = Tail(backlog)
      /\ UNCHANGED <<conn, deployed, replay, broker>>
  BY DEF Serve
<1>2. /\ Len(backlog) \in Nat \ {0} /\ Head(backlog) = backlog[1]
      /\ backlog' \in Seq(Nat) /\ Len(backlog') = Len(backlog) - 1
      /\ \A i \in 1..Len(backlog') : backlog'[i] = backlog[i + 1]
  BY <1>0, <1>1, HeadTailProperties, EmptySeq DEF Typed
<1>3. /\ serving' \in 1..Len(sub) /\ serving' # 0 /\ serving' \in Nat
      /\ conn[serving'] = "open" /\ deployed[serving'] = "none"
  BY <1>0, <1>1, <1>2, AttemptTypes DEF WireSound
<1>4. Typed'
  BY <1>0, <1>1, <1>2, <1>3 DEF Typed, broker
<1>5. BrokerSound'
  BY <1>0, <1>1 DEF BrokerSound, broker
<1>6. WireSound'
  <2>1. \A i \in 1..Len(backlog') : i + 1 \in 1..Len(backlog) /\ i + 1 # 1
    BY <1>2
  <2> QED BY <1>0, <1>1, <1>2, <1>3, <2>1 DEF WireSound, broker
<1>7. ExecutorSound'
  BY <1>0, <1>1, <1>3 DEF ExecutorSound, broker, replay, Owning
<1>8. TableSound' /\ RunsSound'
  BY <1>1, SameRuns DEF broker
<1> QED BY <1>4, <1>5, <1>6, <1>7, <1>8 DEF AuthorityInvariant

\* The process gives up outside a deployment.
LEMMA AbortInvariant ==
    ASSUME AuthorityInvariant, epc \notin {"idle", "deploying"}, UNCHANGED broker,
           Abort(deployed), TableSound', RunsSound'
    PROVE  AuthorityInvariant'
<1>1. /\ UNCHANGED backlog /\ epc' = "idle" /\ serving' = 0 /\ deployed' = deployed
      /\ conn' = [conn EXCEPT ![serving] = "closed"]
  BY DEF Abort
<1>2. deployed[serving] # "running"
  BY Serving DEF AuthorityInvariant, ExecutorSound
<1>3. deployed \in [Attempts -> {"none", "running", "complete", "failed"}]
  BY DEF AuthorityInvariant, Typed
<1> QED BY <1>1, <1>2, <1>3, ProcessEnds

\* The deployment in progress fails: its row stays executing.
LEMMA DeployFails ==
    ASSUME AuthorityInvariant, epc = "deploying", UNCHANGED <<broker, replay>>,
           Abort([deployed EXCEPT ![serving] = "failed"])
    PROVE  AuthorityInvariant'
<1>0. Typed /\ TableSound /\ ExecutorSound /\ RunsSound
  BY DEF AuthorityInvariant
<1>1. /\ UNCHANGED backlog /\ epc' = "idle" /\ serving' = 0
      /\ deployed' = [deployed EXCEPT ![serving] = "failed"]
      /\ conn' = [conn EXCEPT ![serving] = "closed"]
  BY DEF Abort
<1>2. serving \in 1..Len(sub) /\ serving \in Attempts /\ deployed[serving] = "running"
  BY <1>0, Serving DEF ExecutorSound
<1>3. /\ deployed' \in [Attempts -> {"none", "running", "complete", "failed"}]
      /\ deployed'[serving] = "failed"
      /\ \A a \in Attempts : a # serving => deployed'[a] = deployed[a]
  BY <1>0, <1>1, <1>2 DEF Typed
<1>4. TableSound'
  BY <1>0 DEF TableSound, replay, Guard!RetainUntil
<1>5. RunsSound'
  BY <1>0, <1>2, <1>3, AttemptTypes DEF RunsSound, replay, broker
<1> QED BY <1>1, <1>2, <1>3, <1>4, <1>5, ProcessEnds

\* Preflight and the response: the table does not move.
LEMMA PreflightInvariant ==
    ASSUME AuthorityInvariant, Preflight
    PROVE  AuthorityInvariant'
<1>1. epc = "preflight" /\ UNCHANGED <<replay, broker>>
  BY DEF Preflight
<1>2. CASE ExecutorGoto("begin")
  <2>1. epc' = "begin" /\ UNCHANGED <<serving, deployed, wire, sub>>
    BY <1>1, <1>2 DEF ExecutorGoto, broker
  <2>2. TableSound' /\ RunsSound'
    BY <1>1, <2>1, SameRuns
  <2>3. ExecutorSound'
    BY <1>1, <2>1 DEF AuthorityInvariant, ExecutorSound, replay, Owning
  <2>4. deployed' \in [Attempts -> {"none", "running", "complete", "failed"}]
    BY <2>1 DEF AuthorityInvariant, Typed
  <2> QED BY <1>1, <2>1, <2>2, <2>3, <2>4, ProcessContinues
<1>3. CASE Abort(deployed)
  <2>1. TableSound' /\ RunsSound'
    BY <1>1, <1>3, SameRuns DEF Abort, broker
  <2> QED BY <1>1, <1>3, <2>1, AbortInvariant
<1> QED BY <1>2, <1>3 DEF Preflight

LEMMA SendResponseInvariant ==
    ASSUME AuthorityInvariant, SendResponse
    PROVE  AuthorityInvariant'
<1>1. epc = "respond" /\ UNCHANGED <<replay, broker>>
  BY DEF SendResponse
<1>2. deployed[serving] = "complete"
  BY <1>1 DEF AuthorityInvariant, ExecutorSound
<1>3. deployed \in [Attempts -> {"none", "running", "complete", "failed"}]
  BY DEF AuthorityInvariant, Typed
<1>4. CASE /\ epc' = "idle" /\ serving' = 0
           /\ conn' = [conn EXCEPT ![serving] = "answered"]
           /\ UNCHANGED <<backlog, deployed>>
  <2>1. TableSound' /\ RunsSound'
    BY <1>1, <1>4, SameRuns DEF broker
  <2> QED BY <1>1, <1>2, <1>3, <1>4, <2>1, ProcessEnds
<1>5. CASE Abort(deployed)
  <2>1. TableSound' /\ RunsSound'
    BY <1>1, <1>5, SameRuns DEF Abort, broker
  <2> QED BY <1>1, <1>5, <2>1, AbortInvariant
<1> QED BY <1>4, <1>5 DEF SendResponse

\* The row begins: from here on the process owns it.
LEMMA BeginInvariant ==
    ASSUME AuthorityInvariant, NEW now \in Times, Begin(now)
    PROVE  AuthorityInvariant'
<1>1. epc = "begin" /\ UNCHANGED <<broker, sub>>
  BY DEF Begin, broker
<1>2. \/ ExecutorGoto("deploy")
         /\ Guard!begin_execution(sub[serving].token, sub[serving].hash, now)
      \/ Abort(deployed)
         /\ Guard!begin_execution(sub[serving].token, sub[serving].hash, now)
      \/ Abort(deployed) /\ UNCHANGED replay
  BY DEF Begin
<1>3. CASE /\ ExecutorGoto("deploy")
           /\ Guard!begin_execution(sub[serving].token, sub[serving].hash, now)
  <2>1. epc' = "deploy" /\ UNCHANGED <<serving, deployed, wire>>
    BY <1>3 DEF ExecutorGoto
  <2>2. /\ TableSound' /\ RunsSound'
        /\ rows'[sub[serving].token] = [hash |-> sub[serving].hash, status |-> "executing"]
        /\ begun'[sub[serving].token] > 0
        /\ \A a \in 1..Len(sub) : sub[a].token = sub[serving].token => deployed[a] = "none"
    BY <1>1, <1>3, <2>1, BeginRuns
  <2>3. ExecutorSound'
    BY <1>1, <2>1, <2>2 DEF AuthorityInvariant, ExecutorSound, Owning
  <2>4. deployed' \in [Attempts -> {"none", "running", "complete", "failed"}]
    BY <2>1 DEF AuthorityInvariant, Typed
  <2>5. epc' \in Owning
    BY <2>1 DEF Owning
  <2> QED BY <1>1, <2>1, <2>2, <2>3, <2>4, <2>5, ProcessContinues
<1>4. CASE /\ Abort(deployed)
           /\ Guard!begin_execution(sub[serving].token, sub[serving].hash, now)
  <2>1. TableSound' /\ RunsSound'
    BY <1>1, <1>4, BeginRuns DEF Abort
  <2> QED BY <1>1, <1>4, <2>1, AbortInvariant
<1>5. CASE Abort(deployed) /\ UNCHANGED replay
  <2>1. TableSound' /\ RunsSound'
    BY <1>1, <1>5, SameRuns DEF Abort
  <2> QED BY <1>1, <1>5, <2>1, AbortInvariant
<1> QED BY <1>2, <1>3, <1>4, <1>5

\* deploy() starts for the only attempt of its token that ever ran.
LEMMA StartDeployInvariant ==
    ASSUME AuthorityInvariant, StartDeploy
    PROVE  AuthorityInvariant'
<1>0. Typed /\ TableSound /\ ExecutorSound /\ RunsSound
  BY DEF AuthorityInvariant
<1>1. /\ epc = "deploy" /\ epc' = "deploying"
      /\ deployed' = [deployed EXCEPT ![serving] = "running"]
      /\ UNCHANGED <<serving, wire, replay, broker, sub>>
  BY DEF StartDeploy, broker
<1>2. serving \in 1..Len(sub) /\ serving \in Attempts /\ deployed[serving] = "none"
  BY <1>0, <1>1, Serving DEF ExecutorSound
<1>3. /\ deployed' \in [Attempts -> {"none", "running", "complete", "failed"}]
      /\ deployed'[serving] = "running"
      /\ \A a \in Attempts : a # serving => deployed'[a] = deployed[a]
  BY <1>0, <1>1, <1>2 DEF Typed
<1>4. TableSound'
  BY <1>0, <1>1 DEF TableSound, replay, Guard!RetainUntil
<1>5. ExecutorSound'
  BY <1>0, <1>1, <1>2, <1>3 DEF ExecutorSound, replay, Owning
<1>6. RunsSound'
  <2>1. /\ rows[sub[serving].token].hash = sub[serving].hash
        /\ begun[sub[serving].token] > 0
        /\ \A a \in 1..Len(sub) : sub[a].token = sub[serving].token => deployed[a] = "none"
    BY <1>0, <1>1 DEF ExecutorSound, Owning
  <2>2. \A a \in 1..Len(sub) : deployed'[a] # "none" => a = serving \/ deployed[a] # "none"
    BY <1>0, <1>3, AttemptTypes
  <2>3. \A a \in 1..Len(sub) : deployed[a] = "complete" => deployed'[a] = "complete"
    BY <1>0, <1>2, <1>3, AttemptTypes
  <2> QED BY <1>0, <1>1, <2>1, <2>2, <2>3 DEF RunsSound, replay
<1>7. epc' \in Owning
  BY <1>1 DEF Owning
<1> QED BY <1>1, <1>2, <1>3, <1>4, <1>5, <1>6, <1>7, ProcessContinues

LEMMA EndDeployInvariant ==
    ASSUME AuthorityInvariant, EndDeploy
    PROVE  AuthorityInvariant'
<1>0. Typed /\ TableSound /\ ExecutorSound /\ RunsSound
  BY DEF AuthorityInvariant
<1>1. epc = "deploying" /\ UNCHANGED <<replay, broker, sub>>
  BY DEF EndDeploy, broker
<1>2. CASE /\ epc' = "finish"
           /\ deployed' = [deployed EXCEPT ![serving] = "complete"]
           /\ UNCHANGED <<serving, wire>>
  <2>1. serving \in 1..Len(sub) /\ serving \in Attempts /\ deployed[serving] = "running"
    BY <1>0, <1>1, Serving DEF ExecutorSound
  <2>2. /\ deployed' \in [Attempts -> {"none", "running", "complete", "failed"}]
        /\ deployed'[serving] = "complete"
        /\ \A a \in Attempts : a # serving => deployed'[a] = deployed[a]
    BY <1>0, <1>2, <2>1 DEF Typed
  <2>3. TableSound'
    BY <1>0, <1>1 DEF TableSound, replay, Guard!RetainUntil
  <2>4. ExecutorSound'
    BY <1>0, <1>1, <1>2, <2>2 DEF ExecutorSound, replay, Owning
  <2>5. RunsSound'
    BY <1>0, <1>1, <2>1, <2>2, AttemptTypes DEF RunsSound, replay
  <2>6. epc' \in Owning
    BY <1>2 DEF Owning
  <2> QED BY <1>1, <1>2, <2>1, <2>2, <2>3, <2>4, <2>5, <2>6, ProcessContinues
<1>3. CASE Abort([deployed EXCEPT ![serving] = "failed"])
  BY <1>1, <1>3, DeployFails
<1> QED BY <1>2, <1>3 DEF EndDeploy

LEMMA FinishInvariant ==
    ASSUME AuthorityInvariant, NEW now \in Times, Finish(now)
    PROVE  AuthorityInvariant'
<1>1. epc = "finish" /\ UNCHANGED <<broker, sub>>
  BY DEF Finish, broker
<1>2. \/ ExecutorGoto("respond")
         /\ Guard!finish_execution(sub[serving].token, sub[serving].hash, now)
      \/ Abort(deployed)
         /\ Guard!finish_execution(sub[serving].token, sub[serving].hash, now)
      \/ Abort(deployed) /\ UNCHANGED replay
  BY DEF Finish
<1>3. CASE /\ ExecutorGoto("respond")
           /\ Guard!finish_execution(sub[serving].token, sub[serving].hash, now)
  <2>1. epc' = "respond" /\ UNCHANGED <<serving, deployed, wire>>
    BY <1>3 DEF ExecutorGoto
  <2>2. TableSound' /\ RunsSound'
    BY <1>1, <1>3, <2>1, FinishRuns
  <2>3. ExecutorSound'
    BY <1>1, <2>1 DEF AuthorityInvariant, ExecutorSound, Owning
  <2>4. deployed' \in [Attempts -> {"none", "running", "complete", "failed"}]
    BY <2>1 DEF AuthorityInvariant, Typed
  <2> QED BY <1>1, <2>1, <2>2, <2>3, <2>4, ProcessContinues
<1>4. CASE /\ Abort(deployed)
           /\ Guard!finish_execution(sub[serving].token, sub[serving].hash, now)
  <2>1. TableSound' /\ RunsSound'
    BY <1>1, <1>4, FinishRuns DEF Abort
  <2> QED BY <1>1, <1>4, <2>1, AbortInvariant
<1>5. CASE Abort(deployed) /\ UNCHANGED replay
  <2>1. TableSound' /\ RunsSound'
    BY <1>1, <1>5, SameRuns DEF Abort
  <2> QED BY <1>1, <1>5, <2>1, AbortInvariant
<1> QED BY <1>2, <1>3, <1>4, <1>5

LEMMA ExecutorCrashInvariant ==
    ASSUME AuthorityInvariant, ExecutorCrash
    PROVE  AuthorityInvariant'
<1>1. epc # "idle" /\ UNCHANGED <<replay, broker, sub>>
  BY DEF ExecutorCrash, broker
<1>2. CASE epc = "deploying"
  BY <1>1, <1>2, DeployFails DEF ExecutorCrash
<1>3. CASE epc # "deploying"
  <2>1. Abort(deployed)
    BY <1>3 DEF ExecutorCrash
  <2>2. TableSound' /\ RunsSound'
    BY <1>1, <2>1, SameRuns DEF Abort
  <2> QED BY <1>1, <1>3, <2>1, <2>2, AbortInvariant
<1> QED BY <1>2, <1>3

-----------------------------------------------------------------------------
(* The invariant holds in every state.                                     *)

LEMMA InitInvariant == Init => AuthorityInvariant
<1> SUFFICES ASSUME Init PROVE AuthorityInvariant
  OBVIOUS
<1> USE DEF Init
<1>0. sub \in Seq(Request) /\ Len(sub) = 0 /\ backlog \in Seq(Nat) /\ Len(backlog) = 0
  BY EmptySeq
<1>1. Typed
  BY <1>0, AuthorityAssumption DEF Typed, Busy, Owning, Responses
<1>2. TableSound
  BY TableAssumption DEF TableSound, Guard!Init, Guard!Times, Times
<1>3. BrokerSound /\ WireSound /\ ExecutorSound
  BY <1>0 DEF BrokerSound, WireSound, ExecutorSound, Busy, Unsent, Owning
<1>4. RunsSound
  BY <1>0, TableAssumption DEF RunsSound, Guard!Init
<1> QED BY <1>1, <1>2, <1>3, <1>4 DEF AuthorityInvariant

LEMMA NextInvariant == AuthorityInvariant /\ [Next]_vars => AuthorityInvariant'
<1> SUFFICES ASSUME AuthorityInvariant, [Next]_vars
             PROVE  AuthorityInvariant'
  OBVIOUS
<1>1. CASE BrokerStep
  BY <1>1, BrokerQuietSteps, AnswerInvariant, SendInvariant, ConsumeInvariant DEF BrokerStep
<1>2. CASE AcceptTimeout \/ RequestStop \/ BrokerStart
  BY <1>2, BrokerQuietSteps
<1>3. CASE \E t \in Tokens, h \in Hashes : Accept(t, h)
  BY <1>3, AcceptInvariant
<1>4. CASE BrokerCrash
  BY <1>4, AnswerInvariant
<1>5. CASE ExecutorStep
  BY <1>5, ServeInvariant, PreflightInvariant, StartDeployInvariant, EndDeployInvariant,
     SendResponseInvariant, BeginInvariant, FinishInvariant DEF ExecutorStep
<1>6. CASE ExecutorCrash
  BY <1>6, ExecutorCrashInvariant
<1>7. CASE UNCHANGED vars
  BY <1>7 DEF vars, AuthorityInvariant, replay, broker, wire, executor, Typed, TableSound,
              BrokerSound, WireSound, ExecutorSound, RunsSound, Guard!RetainUntil
<1> QED BY <1>1, <1>2, <1>3, <1>4, <1>5, <1>6, <1>7 DEF Next

\* The inductive invariant of the promotion path holds in every state.
THEOREM AuthorityIsInductive == Spec => []AuthorityInvariant
BY InitInvariant, NextInvariant, PTL DEF Spec

\* A 403 is definite: a request that was or is about to be rejected never
\* reaches the executor, whatever fails or is killed.
THEOREM RejectionIsDefinite == Spec => []RejectedNeverReachesExecutor
<1>1. AuthorityInvariant => RejectedNeverReachesExecutor
  BY AttemptTypes
     DEF AuthorityInvariant, RejectedNeverReachesExecutor, BrokerSound, WireSound, current
<1> QED BY <1>1, AuthorityIsInductive, PTL

\* The replay table tells what ran: a finished row stands for a completed
\* deployment of the bound request, a consumed one for none.
THEOREM TableTellsOutcome == Spec => []RowTellsOutcome
<1>1. AuthorityInvariant => RowTellsOutcome
  <2> SUFFICES ASSUME AuthorityInvariant, NEW t \in Tokens, rows[t] # NoRow
               PROVE  LET ran == {a \in AttemptsOf(t) : deployed[a] # "none"}
                      IN  CASE rows[t].status = "finished" ->
                                 \E a \in ran : deployed[a] = "complete" /\ sub[a].hash = rows[t].hash
                            [] rows[t].status = "consumed" -> ran = {}
                            [] OTHER -> \A a \in ran : sub[a].hash = rows[t].hash
    BY DEF RowTellsOutcome
  <2> DEFINE ran == {a \in AttemptsOf(t) : deployed[a] # "none"}
  <2>1. \A a : a \in ran <=> a \in 1..Len(sub) /\ sub[a].token = t /\ deployed[a] # "none"
    BY DEF AttemptsOf, current
  <2>2. \A a \in ran : sub[a].hash = rows[t].hash /\ begun[t] > 0
    BY <2>1 DEF AuthorityInvariant, RunsSound
  <2>3. rows[t].status = "finished" =>
          \E a \in ran : deployed[a] = "complete" /\ sub[a].hash = rows[t].hash
    BY <2>1 DEF AuthorityInvariant, RunsSound
  <2>4. rows[t].status = "consumed" => ran = {}
    BY <2>2 DEF AuthorityInvariant, TableSound
  <2> HIDE DEF ran
  <2>5. CASE rows[t].status = "finished"
    BY <2>3, <2>5 DEF ran
  <2>6. CASE rows[t].status = "consumed"
    BY <2>4, <2>6 DEF ran
  <2>7. CASE rows[t].status # "finished" /\ rows[t].status # "consumed"
    BY <2>2, <2>7 DEF ran
  <2> QED BY <2>5, <2>6, <2>7
<1> QED BY <1>1, AuthorityIsInductive, PTL

-----------------------------------------------------------------------------
(* The path implements PromotionOnce.                                      *)

\* An attempt that has not run does not show in the phase of its token.
LEMMA PhaseSame ==
    ASSUME NEW S, NEW T, NEW held \in BOOLEAN, S \ {"none"} = T \ {"none"}
    PROVE  PhaseIn(S, held) = PhaseIn(T, held)
<1>1. /\ "running" \in S <=> "running" \in T
      /\ "complete" \in S <=> "complete" \in T
      /\ "failed" \in S <=> "failed" \in T
  OBVIOUS
<1> QED BY <1>1 DEF PhaseIn

\* The phase of a token before, during and after its deployment.
LEMMA PhaseWhen ==
    ASSUME NEW S, NEW held \in BOOLEAN
    PROVE  /\ S \subseteq {"none"} =>
                PhaseIn(S, held) = IF held THEN "authorized" ELSE "unused"
           /\ \A r \in {"running", "complete", "failed"} :
                S \ {"none"} = {r} => PhaseIn(S, held) = r
           /\ "running" \notin S => PhaseIn(S, held) # "running"
<1>1. CASE S \subseteq {"none"}
  <2>1. "running" \notin S /\ "complete" \notin S /\ "failed" \notin S
    BY <1>1
  <2> QED BY <1>1, <2>1 DEF PhaseIn
<1>2. ASSUME NEW r \in {"running", "complete", "failed"}, S \ {"none"} = {r}
      PROVE  PhaseIn(S, held) = r
  <2>1. \A q \in {"running", "complete", "failed"} : q \in S <=> q = r
    BY <1>2
  <2> QED BY <2>1 DEF PhaseIn
<1>3. "running" \notin S => PhaseIn(S, held) # "running"
  BY DEF PhaseIn
<1>4. S \subseteq {"none"} => PhaseIn(S, held) = IF held THEN "authorized" ELSE "unused"
  BY <1>1
<1> QED BY <1>2, <1>3, <1>4

\* The results of the attempt that ran are all the results of its token.
LEMMA ResultsOfRun ==
    ASSUME AuthorityInvariant, NEW a \in 1..Len(sub), deployed[a] # "none"
    PROVE  Results(sub[a].token) \ {"none"} = {deployed[a]}
<1>1. \A b \in 1..Len(sub) :
        (sub[b].token = sub[a].token /\ deployed[b] # "none") => b = a
  BY DEF AuthorityInvariant, RunsSound
<1> QED BY <1>1 DEF Results, AttemptsOf, current

\* A step that moves neither results nor answers, and keeps what the table
\* has held, is invisible.
LEMMA InvisibleStep ==
    ASSUME UNCHANGED <<sub, deployed, answer>>,
           \A t \in Tokens : Held(t)' <=> Held(t)
    PROVE  UNCHANGED <<phases, reports>>
<1>1. \A t : AttemptsOf(t)' = AttemptsOf(t)
  BY DEF AttemptsOf, current
<1>2. \A t : Results(t)' = Results(t)
  BY <1>1 DEF Results
<1>3. \A t \in Tokens : Held(t)' = Held(t)
  BY DEF Held
<1> QED BY <1>1, <1>2, <1>3 DEF phases, reports

\* The table and the results as they were.
LEMMA StutterStep ==
    ASSUME UNCHANGED <<replay, sub, deployed, answer>>
    PROVE  UNCHANGED <<phases, reports>>
<1>1. \A t \in Tokens : Held(t)' <=> Held(t)
  BY DEF Held, replay
<1> QED BY <1>1, InvisibleStep

\* The process in service moves the result of its attempt: the phase of its
\* token moves with it.
LEMMA PhaseMoves ==
    ASSUME AuthorityInvariant, AuthorityInvariant', epc # "idle",
           UNCHANGED <<replay, sub, answer>>,
           NEW to \in {"running", "complete", "failed"},
           deployed' = [deployed EXCEPT ![serving] = to],
           NEW t \in Tokens, t = sub[serving].token
    PROVE  /\ phases' = [phases EXCEPT ![t] = to]
           /\ reports' = reports
<1>1. serving \in 1..Len(sub) /\ serving \in Attempts
  BY Serving
<1>2. /\ deployed'[serving] = to
      /\ \A a \in Attempts : a # serving => deployed'[a] = deployed[a]
  BY <1>1 DEF AuthorityInvariant, Typed
<1>3. \A u : AttemptsOf(u)' = AttemptsOf(u)
  BY DEF AttemptsOf, current
<1>4. \A u \in Tokens : Held(u)' = Held(u) /\ Held(u) \in BOOLEAN
  BY DEF Held, replay
<1>5. \A b \in 1..Len(sub) : (sub[b].token = t /\ deployed'[b] # "none") => b = serving
  BY <1>1, <1>2 DEF AuthorityInvariant, RunsSound
<1>6. Results(t)' \ {"none"} = {to}
  BY <1>1, <1>2, <1>3, <1>5 DEF Results, AttemptsOf, current
<1>7. phases'[t] = to
  <2>0. PICK S : S = Results(t)'
    OBVIOUS
  <2>1. PICK held \in BOOLEAN : held = Held(t)'
    BY <1>4
  <2>2. S \ {"none"} = {to}
    BY <1>6, <2>0
  <2>3. PhaseIn(S, held) = to
    BY <2>2, PhaseWhen
  <2> QED BY <2>0, <2>1, <2>3 DEF phases
<1>8. ASSUME NEW u \in Tokens, u # t
      PROVE  phases'[u] = phases[u]
  <2>1. \A a \in AttemptsOf(u) : a \in Attempts /\ a # serving
    BY <1>8, AttemptTypes DEF AttemptsOf, current, AuthorityInvariant
  <2>2. Results(u)' = Results(u)
    BY <1>2, <1>3, <2>1 DEF Results
  <2> QED BY <1>4, <2>2 DEF phases
<1>9. reports' = reports
  BY <1>3 DEF reports
<1> QED BY <1>7, <1>8, <1>9 DEF phases

\* The phase of a token whose attempt has run, or whose attempts have not.
LEMMA PhaseOfToken ==
    ASSUME AuthorityInvariant, NEW t \in Tokens
    PROVE  /\ \A a \in 1..Len(sub) :
                (sub[a].token = t /\ deployed[a] # "none") => phases[t] = deployed[a]
           /\ (\A a \in 1..Len(sub) : sub[a].token = t => deployed[a] = "none") =>
                phases[t] = IF Held(t) THEN "authorized" ELSE "unused"
<1>a. PICK S : S = Results(t)
  OBVIOUS
<1>0. PICK held \in BOOLEAN : held = Held(t)
  BY DEF Held
<1>1. phases[t] = PhaseIn(S, held)
  BY <1>a, <1>0 DEF phases
<1>2. ASSUME NEW a \in 1..Len(sub), sub[a].token = t, deployed[a] # "none"
      PROVE  phases[t] = deployed[a]
  <2>1. S \ {"none"} = {deployed[a]}
    BY <1>a, <1>2, ResultsOfRun
  <2>2. deployed[a] \in {"running", "complete", "failed"}
    BY <1>2, AttemptTypes DEF AuthorityInvariant, Typed
  <2>3. PhaseIn(S, held) = deployed[a]
    BY <2>1, <2>2, PhaseWhen
  <2> QED BY <1>1, <2>3
<1>3. ASSUME \A a \in 1..Len(sub) : sub[a].token = t => deployed[a] = "none"
      PROVE  phases[t] = IF Held(t) THEN "authorized" ELSE "unused"
  <2>1. S \subseteq {"none"}
    BY <1>a, <1>3 DEF Results, AttemptsOf, current
  <2> QED BY <1>0, <1>1, <2>1, PhaseWhen
<1> QED BY <1>2, <1>3

Visible == <<phases, reports>>

\* The phases and reports are functions of the tokens.
LEMMA VisibleFunctions ==
    /\ phases = [t \in Tokens |-> phases[t]]
    /\ reports = [t \in Tokens |-> reports[t]]
BY DEF phases, reports

\* A new attempt has no result and no answer yet.
LEMMA AcceptStutters ==
    ASSUME AuthorityInvariant, NEW t \in Tokens, NEW h \in Hashes, Accept(t, h)
    PROVE  UNCHANGED Visible
<1>1. /\ Len(sub) \in Nat /\ Len(sub) < MaxAttempts
      /\ sub' = Append(sub, [token |-> t, hash |-> h])
      /\ UNCHANGED <<replay, answer, deployed>>
  BY AttemptTypes DEF AuthorityInvariant, Accept, current, executor
<1>2. /\ Len(sub') = Len(sub) + 1
      /\ \A a \in 1..Len(sub) : sub'[a] = sub[a]
  BY <1>1, AppendProperties DEF AuthorityInvariant, Typed, Request
<1>3. answer[Len(sub) + 1] = "none" /\ deployed[Len(sub) + 1] = "none"
  BY <1>1, AuthorityAssumption DEF AuthorityInvariant, BrokerSound, WireSound, Attempts
<1>4. ASSUME NEW u \in Tokens
      PROVE  phases'[u] = phases[u] /\ reports'[u] = reports[u]
  <2>1. \A a : \/ a \in AttemptsOf(u)' <=> a \in AttemptsOf(u)
               \/ a = Len(sub) + 1
    BY <1>1, <1>2 DEF AttemptsOf, current
  <2>2. \A a \in AttemptsOf(u) : a \in AttemptsOf(u)'
    BY <1>1, <1>2 DEF AttemptsOf, current
  <2>3. Results(u)' \ {"none"} = Results(u) \ {"none"}
    BY <1>1, <1>3, <2>1, <2>2 DEF Results
  <2>4. Held(u)' = Held(u) /\ Held(u) \in BOOLEAN
    BY <1>1 DEF Held, replay
  <2>5. PhaseIn(Results(u)', Held(u)) = PhaseIn(Results(u), Held(u))
    <3>1. PICK S : S = Results(u)'
      OBVIOUS
    <3>2. PICK T : T = Results(u)
      OBVIOUS
    <3>3. PICK held \in BOOLEAN : held = Held(u)
      BY <2>4
    <3>4. S \ {"none"} = T \ {"none"}
      BY <2>3, <3>1, <3>2
    <3>5. PhaseIn(S, held) = PhaseIn(T, held)
      BY <3>4, PhaseSame
    <3> QED BY <3>1, <3>2, <3>3, <3>5
  <2>6. reports'[u] = reports[u]
    BY <1>1, <1>3, <2>1, <2>2 DEF reports
  <2> QED BY <2>4, <2>5, <2>6 DEF phases
<1> QED BY <1>4 DEF Visible, phases, reports

\* The caller is told what the invariant allows, or nothing more.
LEMMA AnswerReports ==
    ASSUME AuthorityInvariant, WriteResponse \/ BrokerCrash
    PROVE  [Once!Next]_Visible
<1> DEFINE n == Len(sub)
<1>0. Typed /\ BrokerSound /\ TableSound
  BY DEF AuthorityInvariant
<1>1. UNCHANGED <<sub, replay, deployed>>
  BY DEF WriteResponse, BrokerCrash, executor
<1>2. \/ answer' = answer
      \/ \E r \in Responses \cup {"lost"} :
            /\ answer' = [answer EXCEPT ![n] = r]
            /\ bpc \in Busy
            /\ r = "accepted" => deployed[n] = "complete"
  BY <1>0 DEF WriteResponse, BrokerCrash, Busy, Typed, BrokerSound, current, Responses
<1>3. CASE answer' = answer
  BY <1>1, <1>3, StutterStep DEF Visible
<1>4. ASSUME NEW r \in Responses \cup {"lost"},
             answer' = [answer EXCEPT ![n] = r],
             bpc \in Busy,
             r = "accepted" => deployed[n] = "complete"
      PROVE  Once!Next
  <2>1. n \in 1..Len(sub) /\ n \in Attempts /\ answer[n] = "none" /\ sub[n].token \in Tokens
    BY <1>0, <1>4, AttemptTypes DEF BrokerSound
  <2>2. PICK t \in Tokens : t = sub[n].token
    BY <2>1
  <2>3. \A u \in Tokens : AttemptsOf(u)' = AttemptsOf(u)
    BY <1>1 DEF AttemptsOf, current
  <2>4. phases' = phases
    <3>1. \A u \in Tokens : Results(u)' = Results(u)
      BY <1>1, <2>3 DEF Results
    <3>2. \A u \in Tokens : Held(u)' = Held(u)
      BY <1>1 DEF Held, replay
    <3> QED BY <3>1, <3>2 DEF phases
  <2>5. /\ answer'[n] = r
        /\ \A a \in Attempts : a # n => answer'[a] = answer[a]
    BY <1>0, <1>4, <2>1 DEF Typed
  <2>6. \A u \in Tokens : \A a \in AttemptsOf(u) : a \in Attempts
    BY <1>0, AttemptTypes DEF AttemptsOf, current
  <2>7. reports'[t] = reports[t] \cup {r}
    <3>1. n \in AttemptsOf(t) /\ r # "none"
      BY <2>1, <2>2 DEF AttemptsOf, current, Responses
    <3>2. reports'[t] = {answer'[a] : a \in AttemptsOf(t)} \ {"none"}
      BY <2>3 DEF reports
    <3>3. reports[t] = {answer[a] : a \in AttemptsOf(t)} \ {"none"}
      BY DEF reports
    <3> HIDE DEF n
    <3> QED BY <2>1, <2>5, <2>6, <3>1, <3>2, <3>3
  <2>8. ASSUME NEW u \in Tokens, u # t
        PROVE  reports'[u] = reports[u]
    <3>1. \A a \in AttemptsOf(u) : answer'[a] = answer[a]
      BY <2>2, <2>5, <2>6, <2>8 DEF AttemptsOf
    <3> QED BY <2>3, <3>1 DEF reports
  <2>9. r = "accepted" => phases[t] = "complete"
    BY <1>4, <2>1, <2>2, PhaseOfToken
  <2>10. reports' = [reports EXCEPT ![t] = @ \cup {r}]
    BY <2>7, <2>8 DEF reports
  <2> QED BY <2>4, <2>9, <2>10 DEF Once!Next, Once!Report, Once!Reports, Responses
<1> QED BY <1>2, <1>3, <1>4

\* A committed consume authorizes the token of the current request; the rows it
\* cleans up have been held.
LEMMA ConsumeAuthorizes ==
    ASSUME AuthorityInvariant, NEW now \in Times, Consume(now)
    PROVE  [Once!Next]_Visible
<1>0. Typed /\ TableSound /\ RunsSound /\ BrokerSound
  BY DEF AuthorityInvariant
<1>1. UNCHANGED <<sub, answer, deployed>>
  BY DEF Consume, BrokerGoto, Respond, executor
<1>2. bpc = "consume" /\ Len(sub) \in 1..Len(sub) /\ token \in Tokens /\ hash \in Hashes
  BY <1>0, AttemptTypes DEF Consume, BrokerSound, Busy, token, hash, current
<1>3. CASE UNCHANGED replay
  BY <1>1, <1>3, StutterStep DEF Visible
<1>4. CASE Guard!consume(token, hash, now)
  <2>1. PICK t \in Tokens, h \in Hashes : t = token /\ h = hash
    BY <1>2
  <2>2. Guard!consume(t, h, now)
    BY <1>4, <2>1 DEF Guard!consume, Guard!Unconflicted, Guard!RetainUntil
  <2>3. /\ rows[t] = NoRow /\ begun[t] = 0 /\ t \notin removed
        /\ rows'[t] = [hash |-> h, status |-> "consumed"]
        /\ \A u \in Tokens \ {t} :
             \/ rows'[u] = rows[u] /\ (u \in removed' <=> u \in removed)
             \/ /\ rows[u] # NoRow /\ rows[u].status # "executing"
                /\ rows'[u] = NoRow /\ u \in removed'
    BY <1>0, <2>2, ConsumeEffect
  <2>4. rows'[t] # NoRow
    BY <2>3, TableAssumption DEF Guard!Rows, Guard!Statuses
  <2>5. ~Held(t) /\ Held(t)' /\ \A u \in Tokens \ {t} : Held(u)' = Held(u)
    BY <2>3, <2>4 DEF Held
  <2>6. \A u \in Tokens : AttemptsOf(u)' = AttemptsOf(u)
    BY <1>1 DEF AttemptsOf, current
  <2>7. \A u \in Tokens : Results(u)' = Results(u)
    BY <1>1, <2>6 DEF Results
  <2>8. \A a \in 1..Len(sub) : sub[a].token = t => deployed[a] = "none"
    BY <1>0, <2>3 DEF RunsSound
  <2>9. phases[t] = "unused"
    BY <2>5, <2>8, PhaseOfToken
  <2>10. phases'[t] = "authorized"
    <3>1. PICK S : S = Results(t)
      OBVIOUS
    <3>2. S \subseteq {"none"}
      BY <2>8, <3>1 DEF Results, AttemptsOf, current
    <3>3. PhaseIn(S, TRUE) = "authorized"
      BY <3>2, PhaseWhen
    <3>4. phases'[t] = PhaseIn(S, Held(t)')
      BY <2>7, <3>1 DEF phases
    <3>5. Held(t)' = TRUE
      BY <2>5 DEF Held
    <3> QED BY <3>3, <3>4, <3>5
  <2>11. phases' = [phases EXCEPT ![t] = "authorized"]
    <3>1. \A u \in Tokens : u # t => phases'[u] = phases[u]
      BY <2>5, <2>7 DEF phases
    <3> QED BY <2>10, <3>1 DEF phases
  <2>12. reports' = reports
    BY <1>1, <2>6 DEF reports
  <2> QED BY <2>9, <2>11, <2>12 DEF Once!Next, Once!Authorize, Once!Move
<1> QED BY <1>3, <1>4 DEF Consume

\* deploy() starts while no deployment runs, for a token that is authorized.
LEMMA StartDeployStarts ==
    ASSUME AuthorityInvariant, StartDeploy
    PROVE  Once!Next
<1>0. Typed /\ TableSound /\ ExecutorSound /\ WireSound
  BY DEF AuthorityInvariant
<1>1. AuthorityInvariant'
  BY StartDeployInvariant
<1>2. /\ epc = "deploy" /\ deployed' = [deployed EXCEPT ![serving] = "running"]
      /\ UNCHANGED <<replay, sub, answer>>
  BY DEF StartDeploy, broker
<1>3. PICK t \in Tokens : t = sub[serving].token
  BY <1>2, Serving
<1>4. phases' = [phases EXCEPT ![t] = "running"] /\ reports' = reports
  BY <1>1, <1>2, <1>3, PhaseMoves
<1>5. phases[t] = "authorized"
  <2>1. Held(t)
    BY <1>0, <1>2, <1>3, Serving, TableAssumption
       DEF ExecutorSound, Owning, Held, Guard!Rows, Guard!Statuses, TableSound
  <2>2. \A a \in 1..Len(sub) : sub[a].token = t => deployed[a] = "none"
    BY <1>0, <1>2, <1>3 DEF ExecutorSound
  <2> QED BY <2>1, <2>2, PhaseOfToken
<1>6. \A u \in Tokens : phases[u] # "running"
  <2> SUFFICES ASSUME NEW u \in Tokens PROVE phases[u] # "running"
    OBVIOUS
  <2>1. PICK S : S = Results(u)
    OBVIOUS
  <2>2. PICK held \in BOOLEAN : held = Held(u)
    BY DEF Held
  <2>3. "running" \notin S
    BY <1>0, <1>2, <2>1, AttemptTypes DEF Results, AttemptsOf, current, ExecutorSound
  <2>4. PhaseIn(S, held) # "running"
    BY <2>3, PhaseWhen
  <2> QED BY <2>1, <2>2, <2>4 DEF phases
<1> QED BY <1>4, <1>5, <1>6 DEF Once!Next, Once!Start, Once!Move

\* A deployment in progress ends, complete or failed.
LEMMA DeploymentEnds ==
    ASSUME AuthorityInvariant, AuthorityInvariant', epc = "deploying",
           UNCHANGED <<replay, sub, answer>>,
           NEW to \in {"complete", "failed"},
           deployed' = [deployed EXCEPT ![serving] = to]
    PROVE  Once!Next
<1>1. PICK t \in Tokens : t = sub[serving].token
  BY Serving
<1>2. phases' = [phases EXCEPT ![t] = to] /\ reports' = reports
  BY <1>1, PhaseMoves
<1>3. serving \in 1..Len(sub) /\ deployed[serving] = "running"
  BY Serving DEF AuthorityInvariant, ExecutorSound
<1>4. phases[t] = "running"
  BY <1>1, <1>3, PhaseOfToken
<1> QED BY <1>2, <1>4 DEF Once!Next, Once!End, Once!Move

\* The replay transactions of the executor move a row that stays held.
LEMMA TransitionStutters ==
    ASSUME AuthorityInvariant, epc # "idle", NEW now \in Times,
           \/ Guard!begin_execution(sub[serving].token, sub[serving].hash, now)
           \/ Guard!finish_execution(sub[serving].token, sub[serving].hash, now),
           UNCHANGED <<sub, answer, deployed>>
    PROVE  UNCHANGED Visible
<1>0. TableSound
  BY DEF AuthorityInvariant
<1>1. PICK t \in Tokens, h \in Hashes : t = sub[serving].token /\ h = sub[serving].hash
  BY Serving
<1>2. Guard!begin_execution(t, h, now) \/ Guard!finish_execution(t, h, now)
  BY <1>1 DEF Guard!begin_execution, Guard!finish_execution, Guard!Transition, Guard!RetainUntil
<1>3. /\ removed' = removed
      /\ \E from, to \in Guard!Statuses :
            /\ rows[t] = [hash |-> h, status |-> from]
            /\ rows' = [rows EXCEPT ![t] = [hash |-> h, status |-> to]]
  <2>1. CASE Guard!begin_execution(t, h, now)
    BY <1>0, <2>1, BeginEffect DEF Guard!Statuses
  <2>2. CASE Guard!finish_execution(t, h, now)
    BY <1>0, <2>2, FinishEffect DEF Guard!Statuses
  <2> QED BY <1>2, <2>1, <2>2
<1>4. \A u \in Tokens : Held(u)' <=> Held(u)
  BY <1>0, <1>3, TableAssumption DEF Held, TableSound, Guard!Rows
<1> QED BY <1>4, InvisibleStep DEF Visible

\* Every step of the path is a step of PromotionOnce or invisible.
LEMMA StepImplements ==
    ASSUME AuthorityInvariant, [Next]_vars
    PROVE  [Once!Next]_Visible
<1>0. AuthorityInvariant'
  BY NextInvariant
<1>1. CASE \/ Poll \/ AcceptTimeout \/ RequestStop \/ BrokerStart \/ Seal \/ Receive \/ Send
           \/ \E now \in Times : Verify(now)
  <2>1. UNCHANGED <<replay, sub, deployed, answer>>
    BY <1>1 DEF Poll, AcceptTimeout, RequestStop, BrokerStart, Seal, Receive, Send, Verify,
                BrokerGoto, Respond, executor
  <2> QED BY <2>1, StutterStep DEF Visible
<1>2. CASE \/ Serve \/ Preflight \/ SendResponse
  <2>1. UNCHANGED <<replay, sub, deployed, answer>>
    BY <1>2 DEF Serve, Preflight, SendResponse, ExecutorGoto, Abort, broker
  <2> QED BY <2>1, StutterStep DEF Visible
<1>3. CASE WriteResponse \/ BrokerCrash
  BY <1>3, AnswerReports
<1>4. CASE \E t \in Tokens, h \in Hashes : Accept(t, h)
  BY <1>4, AcceptStutters
<1>5. CASE \E now \in Times : Consume(now)
  BY <1>5, ConsumeAuthorizes
<1>6. ASSUME NEW now \in Times, Begin(now) \/ Finish(now)
      PROVE  UNCHANGED Visible
  <2>1. epc # "idle" /\ UNCHANGED <<sub, answer, deployed>>
    BY <1>6 DEF Begin, Finish, ExecutorGoto, Abort, broker
  <2>2. \/ Guard!begin_execution(sub[serving].token, sub[serving].hash, now)
        \/ Guard!finish_execution(sub[serving].token, sub[serving].hash, now)
        \/ UNCHANGED replay
    BY <1>6 DEF Begin, Finish
  <2>3. CASE UNCHANGED replay
    BY <2>1, <2>3, StutterStep DEF Visible
  <2> QED BY <2>1, <2>2, <2>3, TransitionStutters
<1>7. CASE StartDeploy
  BY <1>7, StartDeployStarts
<1>8. CASE EndDeploy
  <2>1. epc = "deploying" /\ UNCHANGED <<replay, sub, answer>>
    BY <1>8 DEF EndDeploy, broker
  <2>2. \/ deployed' = [deployed EXCEPT ![serving] = "complete"]
        \/ deployed' = [deployed EXCEPT ![serving] = "failed"]
    BY <1>8 DEF EndDeploy, Abort
  <2> QED BY <1>0, <2>1, <2>2, DeploymentEnds
<1>9. CASE ExecutorCrash
  <2>1. UNCHANGED <<replay, sub, answer>>
    BY <1>9 DEF ExecutorCrash, broker
  <2>2. CASE epc = "deploying"
    <3>1. deployed' = [deployed EXCEPT ![serving] = "failed"]
      BY <1>9, <2>2 DEF ExecutorCrash, Abort
    <3> QED BY <1>0, <2>1, <2>2, <3>1, DeploymentEnds
  <2>3. CASE epc # "deploying"
    <3>1. deployed' = deployed
      BY <1>9, <2>3 DEF ExecutorCrash, Abort
    <3> QED BY <2>1, <3>1, StutterStep DEF Visible
  <2> QED BY <2>2, <2>3
<1>10. CASE UNCHANGED vars
  <2>1. UNCHANGED <<replay, sub, deployed, answer>>
    BY <1>10 DEF vars, broker, executor
  <2> QED BY <2>1, StutterStep DEF Visible
<1> QED BY <1>1, <1>2, <1>3, <1>4, <1>5, <1>6, <1>7, <1>8, <1>9, <1>10
        DEF Next, BrokerStep, ExecutorStep

\* No token has been used and nobody told anything.
LEMMA InitImplements == Init => Once!Init
<1> SUFFICES ASSUME Init PROVE Once!Init
  OBVIOUS
<1>1. \A t : AttemptsOf(t) = {}
  BY EmptySeq DEF Init, AttemptsOf, current
<1>2. ASSUME NEW t \in Tokens PROVE phases[t] = "unused" /\ reports[t] = {}
  <2>1. Results(t) = {} /\ Held(t) = FALSE
    BY <1>1 DEF Results, Held, Init, Guard!Init
  <2> QED BY <1>1, <2>1 DEF phases, reports, PhaseIn
<1> QED BY <1>2, VisibleFunctions DEF Once!Init, phases, reports

\* The listener, the broker, the wire, the executor and the replay table
\* together implement PromotionOnce: a token authorizes at most one
\* deployment, deployments never overlap and a 202 is only ever told of one
\* that completed, for any tokens, requests, clock readings and faults.
THEOREM PathImplementsOnce == Spec => ImplementsOnce
<1>1. AuthorityInvariant /\ [Next]_vars => [Once!Next]_<<phases, reports>>
  BY StepImplements DEF Visible
<1> QED BY <1>1, InitImplements, AuthorityIsInductive, PTL DEF Spec, ImplementsOnce, Once!Spec
=============================================================================
