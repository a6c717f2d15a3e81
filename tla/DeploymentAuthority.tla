------------------------- MODULE DeploymentAuthority -------------------------
(***************************************************************************)
(* The path of one promotion from the broker's loopback listener to the    *)
(* privileged executor and back (broker_loopback_listener.py, broker.py,   *)
(* unix_transport.py, executor_listener.py, executor_server.py,            *)
(* executor.py), over the shared replay table of ReplayGuard.              *)
(*                                                                         *)
(* The broker serves one HTTP request at a time; an attempt is the index   *)
(* of the request.  The executor is socket-activated, one process per      *)
(* connection.  A connection whose broker gave up stays in the socket's    *)
(* backlog and is still served.  The deployment itself is abstracted to    *)
(* its result (DeploymentOperation models it).                             *)
(***************************************************************************)
EXTENDS Integers, Sequences, FiniteSets

CONSTANTS
    Tokens, Hashes, ExpiryOf, RunOf, Skew, MaxEntries, MaxTime, NoRow,  \* as in ReplayGuard
    MaxAttempts,  \* bound on the HTTP requests served
    FaultKinds,   \* which kinds of fault the environment may inject
    MaxFaults     \* bound on the injected faults

ASSUME AuthorityAssumption ==
    /\ MaxAttempts \in Nat
    /\ MaxFaults \in Nat
    /\ FaultKinds \subseteq {"broker", "replay", "transport", "write", "executor", "kill"}

VARIABLES
    rows, lastSeen, begun, removed,  \* the replay table, see ReplayGuard
    sub,        \* requests accepted by the listener: token and request hash
    answer,     \* what the caller of each attempt was told
    bpc,        \* step of the broker, "off" when the process does not run
    reply,      \* response the broker is about to write
    stopping,   \* the stop controller is set
    backlog,    \* connections waiting on the executor socket
    conn,       \* the Unix connection of each attempt
    epc,        \* step of the executor, "idle" when no process runs
    serving,    \* attempt the executor serves
    deployed,   \* result of the deploy call made for each attempt
    faults

Guard == INSTANCE ReplayGuard

\* What ReplayGuard assumes of its constants.
ASSUME TableAssumption ==
    /\ ExpiryOf \in [Tokens -> Nat]
    /\ Skew \in Nat /\ MaxTime \in Nat
    /\ NoRow \notin Guard!Rows

replay == <<rows, lastSeen, begun, removed>>
broker == <<sub, answer, bpc, reply, stopping>>
executor == <<epc, serving, deployed>>
wire == <<backlog, conn>>
vars == <<replay, broker, wire, executor, faults>>

Times == 0..MaxTime
Attempts == 1..MaxAttempts
current == Len(sub)
token == sub[current].token
hash == sub[current].hash

Init ==
    /\ Guard!Init
    /\ sub = << >>
    /\ answer = [a \in Attempts |-> "none"]
    /\ bpc = "poll"
    /\ reply = "none"
    /\ stopping = FALSE
    /\ backlog = << >>
    /\ conn = [a \in Attempts |-> "none"]
    /\ epc = "idle"
    /\ serving = 0
    /\ deployed = [a \in Attempts |-> "none"]
    /\ faults = 0

Fault(kind) ==
    /\ kind \in FaultKinds
    /\ faults < MaxFaults
    /\ faults' = faults + 1

-----------------------------------------------------------------------------
(* The listener: _serve_persistent_locked and _handle_connection.          *)

BrokerGoto(next) ==
    /\ bpc' = next
    /\ UNCHANGED <<sub, answer, reply, stopping>>

\* Answer the current attempt with a fixed response, still to be written.
Respond(r) ==
    /\ bpc' = "reply"
    /\ reply' = r
    /\ UNCHANGED <<sub, answer, stopping>>

\* Mutant: the stop event is read only once, before the first accept.
PollWithoutStop ==
    /\ bpc = "poll"
    /\ BrokerGoto("accept")
    /\ UNCHANGED <<replay, wire, executor, faults>>

\* The stop event is read before every accept.
Poll ==
    /\ bpc = "poll"
    /\ BrokerGoto(IF stopping THEN "off" ELSE "accept")
    /\ UNCHANGED <<replay, wire, executor, faults>>

AcceptTimeout ==
    /\ bpc = "accept"
    /\ BrokerGoto("poll")
    /\ UNCHANGED <<replay, wire, executor, faults>>

Accept(t, h) ==
    /\ bpc = "accept"
    /\ current < MaxAttempts
    /\ sub' = Append(sub, [token |-> t, hash |-> h])
    /\ bpc' = "verify"
    /\ UNCHANGED <<answer, reply, stopping, replay, wire, executor, faults>>

\* A response that cannot be written ends the listener: the exception leaves
\* the accept loop and the process exits.
WriteResponse ==
    /\ bpc = "reply"
    /\ reply' = "none"
    /\ \/ /\ answer' = [answer EXCEPT ![current] = reply]
          /\ bpc' = "poll"
          /\ UNCHANGED faults
       \/ /\ Fault("write")
          /\ answer' = [answer EXCEPT ![current] = "lost"]
          /\ bpc' = "off"
    /\ UNCHANGED <<sub, stopping, replay, wire, executor>>

RequestStop ==
    /\ bpc # "off"
    /\ ~stopping
    /\ stopping' = TRUE
    /\ UNCHANGED <<sub, answer, bpc, reply, replay, wire, executor, faults>>

\* The process is killed; its caller sees the connection close.
BrokerCrash ==
    /\ bpc # "off"
    /\ Fault("kill")
    /\ bpc' = "off"
    /\ reply' = "none"
    /\ answer' = IF bpc \in {"poll", "accept"} THEN answer
                 ELSE [answer EXCEPT ![current] = "lost"]
    /\ UNCHANGED <<sub, stopping, replay, wire, executor>>

\* Started again by the operator.
BrokerStart ==
    /\ bpc = "off"
    /\ bpc' = "poll"
    /\ stopping' = FALSE
    /\ UNCHANGED <<sub, answer, reply, replay, wire, executor, faults>>

-----------------------------------------------------------------------------
(* RestrictedDeploymentBroker._authorize.                                  *)

\* OIDC verification and identity, registry context, request construction and
\* binding: all before any durable effect.
Verify(now) ==
    /\ bpc = "verify"
    /\ \/ now =< Guard!RetainUntil(token) /\ BrokerGoto("seal") /\ UNCHANGED faults
       \/ now > Guard!RetainUntil(token) /\ Respond("rejected") /\ UNCHANGED faults
       \/ Fault("broker") /\ \E r \in {"rejected", "unavailable"} : Respond(r)
    /\ UNCHANGED <<replay, wire, executor>>

\* The registry credential is sealed before the replay row is written.
Seal ==
    /\ bpc = "seal"
    /\ \/ BrokerGoto("consume") /\ UNCHANGED faults
       \/ Fault("broker") /\ Respond("unavailable")
    /\ UNCHANGED <<replay, wire, executor>>

\* A definite replay rejection; every other failure is "unavailable".
ReplayRejects(now) ==
    LET time == Guard!EffectiveTime(now)
        table == Guard!Cleaned(time)
    IN  /\ Guard!ClockAccepted(now)
        /\ Guard!HasCapacity(table)
        /\ \/ Guard!RetainUntil(token) < time
           \/ ~Guard!Unconflicted(table, token)

Consume(now) ==
    /\ bpc = "consume"
    /\ \/ /\ Guard!consume(token, hash, now)
          /\ \/ BrokerGoto("send") /\ UNCHANGED faults
             \/ Fault("replay") /\ Respond("unavailable")   \* raised after COMMIT
       \/ /\ ReplayRejects(now)
          /\ Respond("rejected")
          /\ UNCHANGED <<replay, faults>>
       \/ /\ ~Guard!ClockAccepted(now) \/ ~Guard!HasCapacity(Guard!Cleaned(Guard!EffectiveTime(now)))
          /\ Respond("unavailable")
          /\ UNCHANGED <<replay, faults>>
       \/ Fault("replay") /\ Respond("unavailable") /\ UNCHANGED replay
    /\ UNCHANGED <<wire, executor>>

\* Mutant: a transport error is reported as a definite rejection.
SendRejecting ==
    /\ bpc = "send"
    /\ \/ /\ backlog' = Append(backlog, current)
          /\ conn' = [conn EXCEPT ![current] = "open"]
          /\ \/ BrokerGoto("wait") /\ UNCHANGED faults
             \/ Fault("transport") /\ Respond("rejected")
       \/ Fault("transport") /\ Respond("rejected") /\ UNCHANGED wire
    /\ UNCHANGED <<replay, executor>>

\* UnixExecutorTransport._send up to SHUT_WR.  An error after the last byte
\* leaves a complete request with the executor.
Send ==
    /\ bpc = "send"
    /\ \/ /\ backlog' = Append(backlog, current)
          /\ conn' = [conn EXCEPT ![current] = "open"]
          /\ \/ BrokerGoto("wait") /\ UNCHANGED faults
             \/ Fault("transport") /\ Respond("unavailable")
       \/ Fault("transport") /\ Respond("unavailable") /\ UNCHANGED wire
    /\ UNCHANGED <<replay, executor>>

\* The response arrives, the executor closes without one, or the response
\* deadline passes while the executor goes on.
Receive ==
    /\ bpc = "wait"
    /\ \/ conn[current] = "answered" /\ Respond("accepted") /\ UNCHANGED faults
       \/ conn[current] = "closed" /\ Respond("unavailable") /\ UNCHANGED faults
       \/ Fault("transport") /\ Respond("unavailable")
    /\ UNCHANGED <<replay, wire, executor>>

-----------------------------------------------------------------------------
(* The executor: UnixExecutorListener.serve_once, the connection handler   *)
(* and RestrictedPrivilegedExecutor.execute_private.                       *)

ExecutorGoto(next) ==
    /\ epc' = next
    /\ UNCHANGED <<serving, deployed, wire>>

\* Mutant: the handler does not close the connection on failure.
AbortWithoutClose(result) ==
    /\ epc' = "idle"
    /\ serving' = 0
    /\ deployed' = result
    /\ UNCHANGED wire

\* Every failure of the handler closes the connection without a response, and
\* the process ends.
Abort(result) ==
    /\ epc' = "idle"
    /\ serving' = 0
    /\ conn' = [conn EXCEPT ![serving] = "closed"]
    /\ deployed' = result
    /\ UNCHANGED backlog

\* Socket activation starts a process, which accepts one connection.
Serve ==
    /\ epc = "idle"
    /\ backlog # << >>
    /\ serving' = Head(backlog)
    /\ backlog' = Tail(backlog)
    /\ epc' = "preflight"
    /\ UNCHANGED <<conn, deployed, replay, broker, faults>>

\* Framing, peer, credential and manifest checks, before the replay row moves.
Preflight ==
    /\ epc = "preflight"
    /\ \/ ExecutorGoto("begin") /\ UNCHANGED faults
       \/ Fault("executor") /\ Abort(deployed)
    /\ UNCHANGED <<replay, broker>>

Begin(now) ==
    LET t == sub[serving].token
        h == sub[serving].hash
    IN  /\ epc = "begin"
        /\ \/ /\ Guard!begin_execution(t, h, now)
              /\ \/ ExecutorGoto("deploy") /\ UNCHANGED faults
                 \/ Fault("replay") /\ Abort(deployed)      \* raised after COMMIT
           \/ /\ \/ ~Guard!ClockAccepted(now)
                 \/ rows[t] # [hash |-> h, status |-> "consumed"]
                 \/ Guard!RetainUntil(t) < Guard!EffectiveTime(now)
              /\ Abort(deployed)
              /\ UNCHANGED <<replay, faults>>
           \/ Fault("replay") /\ Abort(deployed) /\ UNCHANGED replay
        /\ UNCHANGED broker

\* deploy() starts, and ends with None or an exception.
StartDeploy ==
    /\ epc = "deploy"
    /\ epc' = "deploying"
    /\ deployed' = [deployed EXCEPT ![serving] = "running"]
    /\ UNCHANGED <<serving, wire, replay, broker, faults>>

\* Mutants: finish_execution runs in a finally block; a failed deploy is tried
\* again under the same row.
EndDeployFinally ==
    /\ epc = "deploying"
    /\ epc' = "finish"
    /\ \/ deployed' = [deployed EXCEPT ![serving] = "complete"] /\ UNCHANGED faults
       \/ deployed' = [deployed EXCEPT ![serving] = "failed"] /\ Fault("executor")
    /\ UNCHANGED <<serving, wire, replay, broker>>
EndDeployRetry ==
    /\ epc = "deploying"
    /\ \/ /\ epc' = "finish"
          /\ deployed' = [deployed EXCEPT ![serving] = "complete"]
          /\ UNCHANGED faults
       \/ /\ Fault("executor")
          /\ epc' = "deploy"
          /\ deployed' = [deployed EXCEPT ![serving] = "failed"]
    /\ UNCHANGED <<serving, wire, replay, broker>>

EndDeploy ==
    /\ epc = "deploying"
    /\ \/ /\ epc' = "finish"
          /\ deployed' = [deployed EXCEPT ![serving] = "complete"]
          /\ UNCHANGED <<serving, wire, faults>>
       \/ Fault("executor") /\ Abort([deployed EXCEPT ![serving] = "failed"])
    /\ UNCHANGED <<replay, broker>>

\* A finish that is refused (the clock was set back) leaves the row executing.
Finish(now) ==
    LET t == sub[serving].token
        h == sub[serving].hash
    IN  /\ epc = "finish"
        /\ \/ /\ Guard!finish_execution(t, h, now)
              /\ \/ ExecutorGoto("respond") /\ UNCHANGED faults
                 \/ Fault("replay") /\ Abort(deployed)
           \/ /\ ~Guard!ClockAccepted(now)
              /\ Abort(deployed)
              /\ UNCHANGED <<replay, faults>>
           \/ Fault("replay") /\ Abort(deployed) /\ UNCHANGED replay
        /\ UNCHANGED broker

SendResponse ==
    /\ epc = "respond"
    /\ \/ /\ epc' = "idle"
          /\ serving' = 0
          /\ conn' = [conn EXCEPT ![serving] = "answered"]
          /\ UNCHANGED <<backlog, deployed, faults>>
       \/ Fault("transport") /\ Abort(deployed)
    /\ UNCHANGED <<replay, broker>>

\* A kill closes the connection; a deployment in progress counts as failed.
ExecutorCrash ==
    /\ epc # "idle"
    /\ Fault("kill")
    /\ Abort(IF epc = "deploying" THEN [deployed EXCEPT ![serving] = "failed"] ELSE deployed)
    /\ UNCHANGED <<replay, broker>>

-----------------------------------------------------------------------------
BrokerStep ==
    \/ Poll \/ WriteResponse \/ Seal \/ Send \/ Receive
    \/ \E now \in Times : Verify(now) \/ Consume(now)

ExecutorStep ==
    \/ Serve \/ Preflight \/ StartDeploy \/ EndDeploy \/ SendResponse
    \/ \E now \in Times : Begin(now) \/ Finish(now)

Next ==
    \/ BrokerStep
    \/ AcceptTimeout
    \/ \E t \in Tokens, h \in Hashes : Accept(t, h)
    \/ RequestStop \/ BrokerCrash \/ BrokerStart
    \/ ExecutorStep
    \/ ExecutorCrash

Spec == Init /\ [][Next]_vars

\* Every wait of the broker and of the executor has a deadline, accept is
\* polled, and systemd activates the executor while connections wait.
FairSpec ==
    /\ Spec
    /\ WF_vars(BrokerStep)
    /\ WF_vars(AcceptTimeout)
    /\ WF_vars(ExecutorStep)

-----------------------------------------------------------------------------
AttemptsOf(t) == {a \in 1..current : sub[a].token = t}

\* A 403 is definite: that request has not reached the executor and never
\* will.  Only a 503 leaves the caller in doubt.
RejectedNeverReachesExecutor ==
    \A a \in 1..current :
        (answer[a] = "rejected" \/ (a = current /\ reply = "rejected")) =>
            conn[a] = "none" /\ deployed[a] = "none"

\* The table tells the truth about what ran: a finished row stands for a
\* completed deployment of the bound request, and a row still consumed for
\* one that has not started.
RowTellsOutcome ==
    \A t \in Tokens :
        rows[t] # NoRow =>
            LET ran == {a \in AttemptsOf(t) : deployed[a] # "none"}
            IN  CASE rows[t].status = "finished" ->
                       \E a \in ran : deployed[a] = "complete" /\ sub[a].hash = rows[t].hash
                  [] rows[t].status = "consumed" -> ran = {}
                  [] OTHER -> \A a \in ran : sub[a].hash = rows[t].hash

\* What a token was used for, from the results of its attempts and whether the
\* table holds it or has held it.
PhaseIn(results, held) ==
    IF "running" \in results THEN "running"
    ELSE IF "complete" \in results THEN "complete"
    ELSE IF "failed" \in results THEN "failed"
    ELSE IF held THEN "authorized"
    ELSE "unused"

Results(t) == {deployed[a] : a \in AttemptsOf(t)}
Held(t) == rows[t] # NoRow \/ t \in removed

phases == [t \in Tokens |-> PhaseIn(Results(t), Held(t))]

\* What its callers were told.
reports == [t \in Tokens |-> {answer[a] : a \in AttemptsOf(t)} \ {"none"}]

Once == INSTANCE PromotionOnce WITH phase <- phases, reported <- reports

\* The broker, the wire, the executor and the table together implement the
\* abstract promise of PromotionOnce.
ImplementsOnce == Once!Spec

\* Every request is answered or its caller disconnected, and no connection to
\* the executor stays open, whatever fails or is killed on the way.
AttemptsSettle ==
    \A a \in Attempts :
        (a =< current) ~> (answer[a] # "none" /\ conn[a] # "open")

\* A stop request ends the broker process, after the promotion in progress.
StopCompletes == stopping ~> bpc = "off"

\* serve_until_stopped: "Hold one listener and process complete requests until
\* stop is requested."  The listener is gone only after a stop request, as long
\* as the process is not killed (FaultKinds excludes "kill").
ServesUntilStopped == bpc = "off" => stopping
=============================================================================
