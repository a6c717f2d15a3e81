---------------------------- MODULE Stores_proofs ----------------------------
(***************************************************************************)
(* The three structures that calls share, for any processes, threads, keys,*)
(* states, records and numbers of errors and kills.                        *)
(*                                                                         *)
(*  - FilesystemDeploymentStateStore (deployment/state_store.py)           *)
(*    implements the register of StateRegister.  The argument is the lock: *)
(*    whoever is between the flock and its release is alone, so what it    *)
(*    has read, written and synced is still there at its next step.        *)
(*  - The key cache (deployment/jwks.py) uses no key too late, leaves no    *)
(*    waiter behind and goes forward only, whatever the issuer does.       *)
(*  - FilesystemAuditSink (deployment/audit.py) keeps exactly the most     *)
(*    recent records and stays usable: as long as successive rotations     *)
(*    have increasing timestamps, the names sort as the serial numbers do. *)
(***************************************************************************)
EXTENDS KeyCache, StateStore, AuditSink, FiniteSetTheorems, TLAPS

-----------------------------------------------------------------------------
(* The state directory.                                                    *)

BeforeLock == {"snapshot", "open", "lock"}
Locked == {"read", "create", "write", "confirm", "replace", "sync", "verify",
           "cleanup", "unlock"}
Steps == {"idle", "unlock_failed"} \cup BeforeLock \cup Locked

StoreTyped ==
    /\ state \in Values
    /\ durable \in Values
    /\ tmp \in Values \cup {None, "partial"}
    /\ pc \in [Procs -> Steps]
    /\ arg \in [Procs -> Values \cup {None}]
    /\ saw \in [Procs -> Values \cup {None}]
    /\ replaced \in [Procs -> BOOLEAN]
    /\ result \in [Procs -> Values \cup {"saved", "failed", None}]

\* The flock excludes.
Exclusive(p) == pc[p] \in Locked => lock = p

\* What a call knows at each of its steps.
Knows(p) ==
    /\ pc[p] \in {"snapshot", "create", "write", "confirm", "replace", "sync",
                  "verify", "cleanup"} => arg[p] \in Values
    /\ pc[p] \notin {"sync", "verify", "unlock", "unlock_failed"} => ~replaced[p]
    /\ replaced[p] => arg[p] \in Values
    /\ pc[p] \in {"confirm", "replace"} => tmp = arg[p]
    /\ pc[p] \in {"sync", "verify"} => replaced[p]
    /\ pc[p] = "verify" => durable = state
    /\ pc[p] = "unlock" /\ arg[p] = None => saw[p] = state
    /\ pc[p] = "unlock" /\ arg[p] # None => replaced[p] /\ durable = state /\ state = arg[p]

StoreInvariant == StoreTyped /\ \A p \in Procs : Exclusive(p) /\ Knows(p)

-----------------------------------------------------------------------------
LEMMA StoreStarts == ASSUME StoreAssumption PROVE StoreInit => StoreInvariant
  BY DEF StoreAssumption, StoreInit, StoreInvariant, StoreTyped, Steps, Locked, BeforeLock,
         Exclusive, Knows

\* A step of p leaves what another process knows alone, if p changes the files
\* only while it holds the lock.
LEMMA OthersKeep ==
    ASSUME StoreAssumption, StoreInvariant, NEW p \in Procs, NEW q \in Procs, q # p,
           pc'[q] = pc[q], arg'[q] = arg[q], saw'[q] = saw[q], replaced'[q] = replaced[q],
           \/ lock' = lock
           \/ lock = None /\ lock' = p
           \/ lock = p /\ lock' = None,
           (UNCHANGED files) \/ lock = p
    PROVE  (Exclusive(q) /\ Knows(q))'
  <1>1. CASE pc[q] \in Locked
    <2>1. lock = q /\ lock # None
      BY <1>1 DEF StoreInvariant, Exclusive, StoreAssumption
    <2>2. lock' = lock /\ UNCHANGED files
      BY <2>1
    <2> QED BY <1>1, <2>1, <2>2 DEF StoreInvariant, Exclusive, Knows, files
  <1>2. CASE pc[q] \notin Locked
    BY <1>2 DEF StoreInvariant, Exclusive, Knows, Locked
  <1> QED BY <1>1, <1>2

\* The steps of one call.
CallStep(p) ==
    \/ \E value \in Values \cup {None} : Invoke(p, value)
    \/ SnapshotState(p) \/ Open(p) \/ Lock(p) \/ Read(p) \/ Create(p) \/ Write(p) \/ Confirm(p)
    \/ Replace(p) \/ Sync(p) \/ Verify(p) \/ Cleanup(p) \/ Unlock(p)
    \/ Kill(p)

LEMMA StepTyped ==
    ASSUME StoreAssumption, StoreInvariant, NEW p \in Procs, CallStep(p)
    PROVE  StoreTyped'
  <1> USE DEF StoreInvariant, StoreTyped, Steps, Locked, BeforeLock, files, locals, Goto, StoreStep,
              Check, Fault, Exclusive, Knows, StoreAssumption
  <1>1. ASSUME NEW value \in Values \cup {None}, Invoke(p, value) PROVE StoreTyped'
    BY <1>1 DEF Invoke
  <1>2. CASE SnapshotState(p) BY <1>2 DEF SnapshotState
  <1>3. CASE Open(p) BY <1>3 DEF Open
  <1>4. CASE Lock(p) BY <1>4 DEF Lock
  <1>5. CASE Read(p)
    <2>1. saw' \in [Procs -> Values \cup {None}]
      BY <1>5 DEF Read
    <2> QED BY <1>5, <2>1 DEF Read
  <1>6. CASE Create(p) BY <1>6 DEF Create
  <1>7. CASE Write(p) BY <1>7 DEF Write
  <1>8. CASE Confirm(p) BY <1>8 DEF Confirm
  <1>9. CASE Replace(p)
    <2>1. tmp \in Values /\ state' \in Values /\ tmp' \in Values \cup {None, "partial"}
      BY <1>9 DEF Replace
    <2> QED BY <1>9, <2>1 DEF Replace
  <1>10. CASE Sync(p) BY <1>10 DEF Sync, SyncDirectory
  <1>11. CASE Verify(p) BY <1>11 DEF Verify
  <1>12. CASE Cleanup(p) BY <1>12 DEF Cleanup, SyncDirectory
  <1>13. CASE Unlock(p) BY <1>13 DEF Unlock, Forget
  <1>14. CASE Kill(p) BY <1>14 DEF Kill, Forget
  <1> QED BY <1>1, <1>2, <1>3, <1>4, <1>5, <1>6, <1>7, <1>8, <1>9, <1>10, <1>11, <1>12,
             <1>13, <1>14 DEF CallStep

LEMMA StepKnows ==
    ASSUME StoreAssumption, StoreInvariant, NEW p \in Procs, CallStep(p)
    PROVE  (Exclusive(p) /\ Knows(p))'
  <1> USE DEF StoreInvariant, StoreTyped, Steps, Locked, BeforeLock, files, locals, Goto, StoreStep,
              Check, Fault, Exclusive, Knows, StoreAssumption
  <1>1. ASSUME NEW value \in Values \cup {None}, Invoke(p, value)
        PROVE (Exclusive(p) /\ Knows(p))'
    BY <1>1 DEF Invoke
  <1>2. CASE SnapshotState(p) BY <1>2 DEF SnapshotState
  <1>3. CASE Open(p) BY <1>3 DEF Open
  <1>4. CASE Lock(p) BY <1>4 DEF Lock
  <1>5. CASE Read(p) BY <1>5 DEF Read
  <1>6. CASE Create(p) BY <1>6 DEF Create
  <1>7. CASE Write(p) BY <1>7 DEF Write
  <1>8. CASE Confirm(p) BY <1>8 DEF Confirm
  <1>9. CASE Replace(p) BY <1>9 DEF Replace
  <1>10. CASE Sync(p) BY <1>10 DEF Sync, SyncDirectory
  <1>11. CASE Verify(p) BY <1>11 DEF Verify
  <1>12. CASE Cleanup(p) BY <1>12 DEF Cleanup, SyncDirectory
  <1>13. CASE Unlock(p) BY <1>13 DEF Unlock, Forget
  <1>14. CASE Kill(p) BY <1>14 DEF Kill, Forget
  <1> QED BY <1>1, <1>2, <1>3, <1>4, <1>5, <1>6, <1>7, <1>8, <1>9, <1>10, <1>11, <1>12,
             <1>13, <1>14 DEF CallStep

\* The step of p is one that OthersKeep is about.
LEMMA StepIsLocal ==
    ASSUME StoreAssumption, StoreInvariant, NEW p \in Procs, CallStep(p),
           NEW q \in Procs, q # p
    PROVE  /\ pc'[q] = pc[q] /\ arg'[q] = arg[q] /\ saw'[q] = saw[q]
           /\ replaced'[q] = replaced[q]
           /\ lock' = lock \/ (lock = None /\ lock' = p) \/ (lock = p /\ lock' = None)
           /\ (UNCHANGED files) \/ lock = p
  <1> USE DEF StoreInvariant, StoreTyped, Steps, Locked, BeforeLock, files, locals, Goto, StoreStep,
              Check, Fault, Exclusive, StoreAssumption
  <1> DEFINE Local == /\ pc'[q] = pc[q] /\ arg'[q] = arg[q] /\ saw'[q] = saw[q]
                      /\ replaced'[q] = replaced[q]
                      /\ lock' = lock \/ (lock = None /\ lock' = p) \/ (lock = p /\ lock' = None)
                      /\ (UNCHANGED files) \/ lock = p
  <1>1. ASSUME NEW value \in Values \cup {None}, Invoke(p, value) PROVE Local
    BY <1>1 DEF Invoke
  <1>2. CASE SnapshotState(p) BY <1>2 DEF SnapshotState
  <1>3. CASE Open(p) BY <1>3 DEF Open
  <1>4. CASE Lock(p) BY <1>4 DEF Lock
  <1>5. CASE Read(p) BY <1>5 DEF Read
  <1>6. CASE Create(p) BY <1>6 DEF Create
  <1>7. CASE Write(p) BY <1>7 DEF Write
  <1>8. CASE Confirm(p) BY <1>8 DEF Confirm
  <1>9. CASE Replace(p) BY <1>9 DEF Replace
  <1>10. CASE Sync(p) BY <1>10 DEF Sync, SyncDirectory
  <1>11. CASE Verify(p) BY <1>11 DEF Verify
  <1>12. CASE Cleanup(p) BY <1>12 DEF Cleanup, SyncDirectory
  <1>13. CASE Unlock(p) BY <1>13 DEF Unlock, Forget
  <1>14. CASE Kill(p) BY <1>14 DEF Kill, Forget
  <1> QED BY <1>1, <1>2, <1>3, <1>4, <1>5, <1>6, <1>7, <1>8, <1>9, <1>10, <1>11, <1>12,
             <1>13, <1>14 DEF CallStep

LEMMA PowerLossKeeps ==
    ASSUME StoreAssumption, StoreInvariant, PowerLoss
    PROVE  StoreInvariant'
  BY DEF StoreAssumption, StoreInvariant, StoreTyped, Steps, Locked, BeforeLock, PowerLoss, Fault,
         Forget, Exclusive, Knows

LEMMA StoreContinues ==
    ASSUME StoreAssumption, StoreInvariant, [StoreNext]_storeVars PROVE StoreInvariant'
  <1>1. ASSUME NEW p \in Procs, CallStep(p) PROVE StoreInvariant'
    <2>1. StoreTyped' BY <1>1, StepTyped
    <2>2. (Exclusive(p) /\ Knows(p))' BY <1>1, StepKnows
    <2>3. ASSUME NEW q \in Procs, q # p PROVE (Exclusive(q) /\ Knows(q))'
      BY <1>1, <2>3, StepIsLocal, OthersKeep
    <2> QED BY <2>1, <2>2, <2>3 DEF StoreInvariant
  <1>2. CASE PowerLoss BY <1>2, PowerLossKeeps
  <1>3. CASE Disturb \/ Restore \/ UNCHANGED storeVars
    BY <1>3 DEF Disturb, Restore, Fault, storeVars, files, locals, StoreInvariant, StoreTyped,
                Exclusive, Knows
  <1> QED BY <1>1, <1>2, <1>3 DEF StoreNext, CallStep

\* The lock excludes, and what a call has read, written and synced under it is
\* still there at its next step.
THEOREM StoreIsInductive ==
    ASSUME StoreAssumption PROVE StoreSpec => []StoreInvariant
  BY StoreStarts, StoreContinues, PTL DEF StoreSpec

-----------------------------------------------------------------------------
(* Every step of the store is a step of the register, or none.             *)

RegisterNext == [Register!Next]_<<state, durable, calls, result>>

LEMMA RegisterStarts ==
    ASSUME StoreAssumption PROVE StoreInit => Register!Init
  BY DEF StoreInit, Register!Init, calls, CallOf

\* A call in progress.
LEMMA CallInProgress ==
    ASSUME StoreAssumption, RegisterAssumption, StoreInvariant, NEW p \in Procs,
           pc[p] # "idle"
    PROVE  /\ calls[p] \in Register!Calls /\ calls[p] # None
           /\ arg[p] = None => calls[p] = [op |-> "load"]
           /\ arg[p] # None => calls[p] = [op |-> "save", value |-> arg[p],
                                           installed |-> replaced[p]]
  BY DEF StoreAssumption, RegisterAssumption, StoreInvariant, StoreTyped, calls, CallOf,
         Register!Calls

\* Only a change of pc from or to idle, of arg or of replaced changes the call.
LEMMA SameCalls ==
    ASSUME UNCHANGED <<arg, replaced>>, \A q \in Procs : pc'[q] = "idle" <=> pc[q] = "idle"
    PROVE  UNCHANGED calls
  <1>1. \A q \in Procs : CallOf(q)' = CallOf(q)
    BY DEF CallOf
  <1> QED BY <1>1 DEF calls

LEMMA InvokeInvokes ==
    ASSUME StoreAssumption, StoreInvariant, NEW p \in Procs,
           NEW value \in Values \cup {None}, Invoke(p, value)
    PROVE  RegisterNext
  <1> DEFINE c == IF value = None THEN [op |-> "load"]
                  ELSE [op |-> "save", value |-> value, installed |-> FALSE]
  <1>1. c \in Register!Calls /\ (c.op = "save" => ~c.installed)
    BY DEF Register!Calls
  <1>2. calls[p] = None BY DEF Invoke, calls, CallOf
  <1>3. calls' = [calls EXCEPT ![p] = c]
    <2>1. CallOf(p)' = c
      BY DEF Invoke, Goto, CallOf, StoreInvariant, StoreTyped, Knows
    <2>2. \A q \in Procs : q # p => CallOf(q)' = CallOf(q)
      BY DEF Invoke, Goto, CallOf, StoreInvariant, StoreTyped
    <2> QED BY <2>1, <2>2 DEF calls
  <1>4. Register!Invoke(p, c)
    BY <1>1, <1>2, <1>3 DEF Invoke, files, Register!Invoke
  <1> QED BY <1>1, <1>4 DEF RegisterNext, Register!Next

LEMMA QuietSteps ==
    ASSUME StoreAssumption, StoreInvariant, NEW p \in Procs,
           \/ SnapshotState(p) \/ Open(p) \/ Lock(p) \/ Read(p) \/ Create(p)
           \/ Write(p) \/ Confirm(p) \/ Verify(p)
    PROVE  UNCHANGED <<state, durable, calls, result>>
  <1> USE DEF StoreInvariant, StoreTyped, files, locals, Goto, StoreStep, Check, Fault
  <1> DEFINE Quiet == /\ UNCHANGED <<state, durable, arg, replaced, result>>
                      /\ \A q \in Procs : pc'[q] = "idle" <=> pc[q] = "idle"
  <1>1. CASE SnapshotState(p) \/ Open(p)
    <2>1. Quiet BY <1>1 DEF SnapshotState, Open
    <2> QED BY <2>1, SameCalls
  <1>2. CASE Lock(p) \/ Read(p)
    <2>1. Quiet BY <1>2 DEF Lock, Read
    <2> QED BY <2>1, SameCalls
  <1>3. CASE Create(p) \/ Write(p)
    <2>1. Quiet BY <1>3 DEF Create, Write
    <2> QED BY <2>1, SameCalls
  <1>4. CASE Confirm(p) \/ Verify(p)
    <2>1. Quiet BY <1>4 DEF Confirm, Verify
    <2> QED BY <2>1, SameCalls
  <1> QED BY <1>1, <1>2, <1>3, <1>4

LEMMA ReplaceInstalls ==
    ASSUME StoreAssumption, RegisterAssumption, StoreInvariant, NEW p \in Procs, Replace(p)
    PROVE  RegisterNext
  <1>1. pc[p] = "replace" /\ arg[p] \in Values /\ arg[p] # None /\ tmp = arg[p] /\ ~replaced[p]
    BY DEF Replace, StoreInvariant, Knows, StoreAssumption
  <1>2. calls[p] # None /\ calls[p] = [op |-> "save", value |-> arg[p], installed |-> FALSE]
    BY <1>1, CallInProgress DEF StoreInvariant, StoreTyped
  <1>3. CASE state' = tmp /\ replaced' = [replaced EXCEPT ![p] = TRUE]
    <2>1. CallOf(p)' = [op |-> "save", value |-> arg[p], installed |-> TRUE]
      BY <1>1, <1>3 DEF Replace, Goto, CallOf, StoreInvariant, StoreTyped
    <2>2. \A q \in Procs : q # p => CallOf(q)' = CallOf(q)
      BY <1>3 DEF Replace, Goto, CallOf, StoreInvariant, StoreTyped
    <2>3. calls' = [calls EXCEPT ![p] = [op |-> "save", value |-> state', installed |-> TRUE]]
      BY <1>1, <1>3, <2>1, <2>2 DEF calls
    <2>4. UNCHANGED <<durable, result>>
      BY <1>1, <1>3 DEF Replace, files, StoreInvariant, StoreTyped
    <2>5. Register!Install(p)
      BY <1>1, <1>2, <1>3, <2>3, <2>4 DEF Register!Install, Register!Saving
    <2> QED BY <2>5 DEF RegisterNext, Register!Next
  <1>4. CASE UNCHANGED <<files, replaced>> /\ Goto(p, "cleanup")
    <2>1. UNCHANGED <<arg, replaced>> /\ \A q \in Procs : pc'[q] = "idle" <=> pc[q] = "idle"
      BY <1>1, <1>4 DEF Replace, Goto, StoreInvariant, StoreTyped
    <2>2. UNCHANGED calls BY <2>1, SameCalls
    <2> QED BY <1>4, <2>2 DEF Replace, files, RegisterNext
  <1> QED BY <1>3, <1>4 DEF Replace

\* The fsync of the directory, after the replacement or in the cleanup, makes
\* whatever state.json is safe.
LEMMA SyncConfirms ==
    ASSUME StoreAssumption, RegisterAssumption, StoreInvariant, NEW p \in Procs,
           Sync(p) \/ Cleanup(p)
    PROVE  RegisterNext
  <1>1. pc[p] \in {"sync", "cleanup"} /\ arg[p] \in Values /\ arg[p] # None
    BY DEF Sync, Cleanup, StoreStep, StoreInvariant, Knows, StoreAssumption
  <1>2. calls[p] # None /\ calls[p].op = "save"
    <2>1. /\ calls[p] # None
          /\ calls[p] = [op |-> "save", value |-> arg[p], installed |-> replaced[p]]
      BY <1>1, CallInProgress
    <2> QED BY <2>1
  <1>3. /\ UNCHANGED <<state, arg, replaced, result>>
        /\ durable' \in {durable, state}
        /\ \A q \in Procs : pc'[q] = "idle" <=> pc[q] = "idle"
    BY <1>1 DEF Sync, Cleanup, StoreStep, SyncDirectory, Goto, Fault, files, locals,
                StoreInvariant, StoreTyped
  <1>4. UNCHANGED calls BY <1>3, SameCalls
  <1>5. durable' = state => Register!Confirm(p)
    BY <1>2, <1>3, <1>4 DEF Register!Confirm, Register!Saving
  <1> QED BY <1>3, <1>4, <1>5 DEF RegisterNext, Register!Next

\* How calls end.
LEMMA EndedCall ==
    ASSUME StoreInvariant, NEW p \in Procs, Goto(p, "idle"), Forget({p})
    PROVE  calls' = [calls EXCEPT ![p] = None]
  <1>1. CallOf(p)' = None
    BY DEF Goto, CallOf, StoreInvariant, StoreTyped
  <1>2. \A q \in Procs : q # p => CallOf(q)' = CallOf(q)
    BY DEF Goto, Forget, CallOf, StoreInvariant, StoreTyped
  <1> QED BY <1>1, <1>2 DEF calls

LEMMA UnlockReturns ==
    ASSUME StoreAssumption, RegisterAssumption, StoreInvariant, NEW p \in Procs, Unlock(p)
    PROVE  RegisterNext
  <1> DEFINE r == IF pc[p] = "unlock_failed" THEN "failed"
                  ELSE IF arg[p] = None THEN saw[p] ELSE "saved"
  <1>1. calls' = [calls EXCEPT ![p] = None]
    BY EndedCall DEF Unlock
  <1>2. pc[p] \in {"unlock", "unlock_failed"} BY DEF Unlock
  <1>3. r \in Register!Results \ {None}
    <2>1. CASE pc[p] = "unlock_failed"
      BY <2>1 DEF StoreAssumption, Register!Results
    <2>2. CASE pc[p] = "unlock" /\ arg[p] = None
      <3>1. saw[p] = state /\ state \in Values
        BY <2>2 DEF StoreInvariant, StoreTyped, Knows
      <3> QED BY <2>2, <3>1 DEF StoreAssumption, Register!Results
    <2>3. CASE pc[p] = "unlock" /\ arg[p] # None
      BY <2>3 DEF StoreAssumption, Register!Results
    <2> QED BY <1>2, <2>1, <2>2, <2>3
  <1>4. calls[p] # None
    BY <1>2, CallInProgress
  <1>5. r = "saved" => Register!Saving(p) /\ calls[p].installed /\ durable = state
    <2> SUFFICES ASSUME r = "saved"
                 PROVE  Register!Saving(p) /\ calls[p].installed /\ durable = state
      OBVIOUS
    <2>1. pc[p] = "unlock" /\ arg[p] # None
      <3>1. pc[p] = "unlock" BY <1>2
      <3>2. arg[p] = None => saw[p] \in Values
        BY <3>1 DEF StoreInvariant, StoreTyped, Knows
      <3> QED BY <3>1, <3>2 DEF StoreAssumption
    <2>2. replaced[p] /\ durable = state
      BY <2>1 DEF StoreInvariant, Knows
    <2>3. calls[p] = [op |-> "save", value |-> arg[p], installed |-> replaced[p]]
      BY <2>1, CallInProgress
    <2> QED BY <1>4, <2>2, <2>3 DEF Register!Saving
  <1>6. r \in Values => calls[p].op = "load" /\ r = state
    <2> SUFFICES ASSUME r \in Values PROVE calls[p].op = "load" /\ r = state
      OBVIOUS
    <2>1. pc[p] = "unlock" /\ arg[p] = None
      BY <1>2 DEF StoreAssumption
    <2>2. calls[p] = [op |-> "load"]
      BY <2>1, CallInProgress
    <2> QED BY <2>1, <2>2 DEF StoreInvariant, Knows
  <1>7. result' = [result EXCEPT ![p] = r] /\ UNCHANGED <<state, durable>>
    BY DEF Unlock, files
  <1>8. Register!Return(p, r)
    BY <1>1, <1>4, <1>5, <1>6, <1>7 DEF Register!Return
  <1> QED BY <1>3, <1>8 DEF RegisterNext, Register!Next

LEMMA KillKills ==
    ASSUME StoreInvariant, NEW p \in Procs, Kill(p)
    PROVE  RegisterNext
  <1>1. calls' = [calls EXCEPT ![p] = None]
    BY EndedCall DEF Kill
  <1>2. Register!Kill(p)
    BY <1>1 DEF Kill, files, Register!Kill
  <1> QED BY <1>2 DEF RegisterNext, Register!Next

\* The undecided rename falls either way: the register keeps its value or
\* falls back to the safe one.
LEMMA PowerLossLoses ==
    ASSUME StoreInvariant, PowerLoss
    PROVE  RegisterNext
  <1>1. calls' = [p \in Procs |-> None]
    BY DEF PowerLoss, calls, CallOf
  <1>2. Register!PowerLoss
    BY <1>1 DEF PowerLoss, Register!PowerLoss
  <1> QED BY <1>2 DEF RegisterNext, Register!Next

LEMMA StoreStepsAreRegisterSteps ==
    ASSUME StoreAssumption, RegisterAssumption, StoreInvariant, [StoreNext]_storeVars
    PROVE  RegisterNext
  <1>1. ASSUME NEW p \in Procs, CallStep(p) PROVE RegisterNext
    <2>1. CASE \E value \in Values \cup {None} : Invoke(p, value)
      BY <2>1, InvokeInvokes
    <2>2. CASE \/ SnapshotState(p) \/ Open(p) \/ Lock(p) \/ Read(p) \/ Create(p)
               \/ Write(p) \/ Confirm(p) \/ Verify(p)
      BY <2>2, QuietSteps DEF RegisterNext
    <2>3. CASE Replace(p) BY <2>3, ReplaceInstalls
    <2>4. CASE Sync(p) \/ Cleanup(p) BY <2>4, SyncConfirms
    <2>5. CASE Unlock(p) BY <2>5, UnlockReturns
    <2>6. CASE Kill(p) BY <2>6, KillKills
    <2> QED BY <1>1, <2>1, <2>2, <2>3, <2>4, <2>5, <2>6 DEF CallStep
  <1>2. CASE PowerLoss BY <1>2, PowerLossLoses
  <1>3. CASE Disturb \/ Restore \/ UNCHANGED storeVars
    <2>1. UNCHANGED <<arg, replaced, pc, state, durable, result>>
      BY <1>3 DEF Disturb, Restore, storeVars, files, locals
    <2>2. UNCHANGED calls BY <2>1, SameCalls
    <2> QED BY <2>1, <2>2 DEF RegisterNext
  <1> QED BY <1>1, <1>2, <1>3 DEF StoreNext, CallStep

\* FilesystemDeploymentStateStore implements the register, whatever fails, is
\* killed or loses power: a save that returns is installed for good, a load
\* returns the state as it is, and state.json is never torn.
THEOREM StoreImplementsRegister ==
    ASSUME StoreAssumption, RegisterAssumption PROVE StoreSpec => ImplementsRegister
  <1>1. StoreInit => Register!Init BY RegisterStarts
  <1>2. StoreInvariant /\ [StoreNext]_storeVars => [Register!Next]_<<state, durable, calls, result>>
    BY StoreStepsAreRegisterSteps DEF RegisterNext
  <1> QED BY <1>1, <1>2, StoreIsInductive, PTL DEF StoreSpec, ImplementsRegister, Register!Spec

-----------------------------------------------------------------------------
(* The audit directory.                                                    *)

AuditRecords == [serial : Nat, prev : Nat, id : Ids, time : Times]
RotatedFile == [time : Times, hash : Nat, gz : BOOLEAN, lines : Seq(AuditRecords)]

AuditTyped ==
    /\ active \in Seq(AuditRecords) /\ written \in Seq(AuditRecords)
    /\ rotated \subseteq RotatedFile /\ IsFiniteSet(rotated)
    /\ at \in {"idle", "rotate", "compress", "unlink", "retain", "write", "sync"}
    /\ Len(written) <= MaxRecords

\* The serial numbers before the first line of a file.
StartOf(f) == f.hash - Len(f.lines)
ActiveStart == Len(written) - Len(active)

\* The serial numbers are the hash chain.
Chained == \A i \in 1..Len(written) : written[i].serial = i /\ written[i].prev = i - 1

\* events.jsonl holds the last records.
ActiveIsTail ==
    /\ ActiveStart \in Nat
    /\ \A i \in 1..Len(active) : active[i] = written[ActiveStart + i]

\* A rotation holds consecutive records, up to the one that names it.
Segments ==
    \A f \in rotated :
        /\ f.hash <= ActiveStart
        /\ Len(f.lines) >= 1 /\ StartOf(f) \in Nat
        /\ f.time = written[f.hash].time
        /\ \A i \in 1..Len(f.lines) : f.lines[i] = written[StartOf(f) + i]

\* Names sort as the serial numbers do, and two files have the same records only
\* if one is the compressed copy of the other.
NamesInOrder ==
    \A f, g \in rotated :
        /\ f.hash < g.hash => f.time < g.time /\ f.hash <= StartOf(g)
        /\ f.hash = g.hash => f.lines = g.lines

\* A copy exists while its source is unlinked, or was never unlinked.
Copies ==
    /\ "copied" \in lapses => at = "idle" /\ \E f, g \in rotated : f # g /\ f.hash = g.hash
    /\ (at # "unlink" /\ "copied" \notin lapses) =>
          \A f, g \in rotated : f.hash = g.hash => f = g
    /\ at = "unlink" =>
          \E f \in Plain :
              /\ IsFirst(f, Plain)
              /\ [f EXCEPT !.gz = TRUE] \in rotated
              /\ \A g, h \in rotated : g.hash = h.hash => g = h \/ g.hash = f.hash

\* The append in progress.
Appending ==
    at \in {"rotate", "compress", "unlink", "retain", "write"} =>
        /\ event \in Events
        /\ prev = Len(written)
        /\ Len(written) < MaxRecords

Rotating == at = "rotate" => active # << >>

TornIsKnown == torn \in BOOLEAN /\ (torn => "torn" \in lapses)

\* Record k is the last one that retention has removed.
Covers(k) ==
    /\ \A f \in rotated : k <= StartOf(f)
    /\ \A s \in 1..ActiveStart : s > k => \E f \in rotated : StartOf(f) < s /\ s <= f.hash

FullWhenTrimmed(k) ==
    /\ k > 0 => Cardinality(rotated) >= Retention
    /\ (k > 0 /\ at = "unlink") => Cardinality(rotated) > Retention

\* No event is kept twice, and the one being appended is new.
IdsDiffer(k) ==
    /\ \A i, j \in 1..Len(written) :
          (i > k /\ j > k /\ written[i].id = written[j].id) => i = j
    /\ at \in {"rotate", "compress", "unlink", "retain", "write"} =>
          \A i \in 1..Len(written) : i > k => written[i].id # event.id

Trimmed(k) == k <= ActiveStart /\ Covers(k) /\ FullWhenTrimmed(k) /\ IdsDiffer(k)

Placed == AuditTyped /\ Chained /\ ActiveIsTail /\ Segments /\ NamesInOrder

AuditSound ==
    /\ Placed /\ Copies /\ Appending /\ Rotating /\ TornIsKnown
    /\ \E k \in 0..Len(written) : Trimmed(k)

AuditInvariant == "clock" \notin lapses => AuditSound

LEMMA AuditStarts == ASSUME AuditAssumption, AuditInit PROVE AuditInvariant
<1>1. AuditTyped
  <2>1. IsFiniteSet({}) BY FS_EmptySet
  <2> QED BY <2>1 DEF AuditInit, AuditTyped, AuditAssumption
<1>2. Len(written) = 0 /\ Len(active) = 0 /\ ActiveStart = 0
  BY DEF AuditInit, ActiveStart
<1>3. Placed
  BY <1>1, <1>2 DEF Placed, AuditInit, Chained, ActiveIsTail, Segments, NamesInOrder
<1>4. Copies /\ Appending /\ Rotating /\ TornIsKnown
  BY DEF AuditInit, Copies, Appending, Rotating, TornIsKnown
<1>5. Trimmed(0)
  BY <1>2 DEF Trimmed, Covers, FullWhenTrimmed, IdsDiffer, AuditInit
<1> QED BY <1>2, <1>3, <1>4, <1>5 DEF AuditInvariant, AuditSound

-----------------------------------------------------------------------------
(* What the names and the files say.                                       *)

LEMMA SegmentNumbers ==
    ASSUME AuditAssumption, Placed, NEW f \in rotated
    PROVE  /\ f.hash \in Nat /\ Len(f.lines) \in Nat /\ StartOf(f) \in Nat
           /\ StartOf(f) = f.hash - Len(f.lines)
           /\ StartOf(f) < f.hash /\ f.hash <= ActiveStart /\ f.hash <= Len(written)
           /\ DOMAIN f.lines = 1..Len(f.lines)
           /\ f.lines \in Seq(AuditRecords) /\ f.gz \in BOOLEAN
  BY DEF Placed, AuditTyped, Segments, RotatedFile, ActiveStart, StartOf, ActiveIsTail

LEMMA ActiveNumbers ==
    ASSUME AuditAssumption, Placed
    PROVE  /\ Len(active) \in Nat /\ Len(written) \in Nat /\ ActiveStart \in Nat
           /\ ActiveStart = Len(written) - Len(active) /\ ActiveStart <= Len(written)
           /\ DOMAIN active = 1..Len(active) /\ DOMAIN written = 1..Len(written)
           /\ active # << >> <=> Len(active) > 0
  BY DEF Placed, AuditTyped, ActiveStart, ActiveIsTail

\* With increasing timestamps the names sort as the serial numbers do, whatever
\* the hashes are; a source sorts before its compressed copy.
LEMMA SortsBySerial ==
    ASSUME AuditAssumption, Placed, NEW f \in rotated, NEW g \in rotated
    PROVE  Sorts(f, g) <=> f.hash < g.hash \/ (f.hash = g.hash /\ ~f.gz /\ g.gz)
<1>1. /\ f \in RotatedFile /\ g \in RotatedFile
      /\ f.hash \in Serials /\ g.hash \in Serials
  <2>1. f \in RotatedFile /\ g \in RotatedFile BY DEF Placed, AuditTyped
  <2>2. Len(written) <= MaxRecords /\ MaxRecords \in Nat BY DEF Placed, AuditTyped, AuditAssumption
  <2> QED BY <2>1, <2>2, SegmentNumbers, ActiveNumbers DEF Serials
<1>2. f.time \in Int /\ g.time \in Int /\ f.hash \in Int /\ g.hash \in Int
  BY <1>1 DEF RotatedFile, Times, Serials
<1>3. HashRank[f.hash] \in Nat /\ HashRank[g.hash] \in Nat
  BY <1>1 DEF AuditAssumption
<1>4. f.hash = g.hash => f.time = g.time
  BY DEF Placed, Segments
<1>5. /\ f.hash < g.hash => f.time < g.time
      /\ g.hash < f.hash => g.time < f.time
  BY DEF Placed, NamesInOrder
<1> QED BY <1>2, <1>3, <1>4, <1>5 DEF Sorts

\* The files hold exactly the records after k.
LEMMA RetainedIsSuffix ==
    ASSUME AuditAssumption, Placed, NEW k \in Nat, k <= ActiveStart, Covers(k)
    PROVE  Retained = {written[i] : i \in (k + 1)..Len(written)}
<1> USE ActiveNumbers
<1>1. ASSUME NEW f \in rotated, NEW i \in DOMAIN f.lines
      PROVE  \E j \in (k + 1)..Len(written) : f.lines[i] = written[j]
  <2>1. k <= StartOf(f) BY DEF Covers
  <2>2. /\ StartOf(f) \in Nat /\ Len(f.lines) \in Nat /\ f.hash \in Nat
        /\ StartOf(f) = f.hash - Len(f.lines) /\ f.hash <= Len(written)
        /\ i \in 1..Len(f.lines)
    BY SegmentNumbers
  <2>3. \A a, h, l, n \in Nat :
           (a = h - l /\ h <= n /\ k <= a /\ i \in 1..l) => a + i \in (k + 1)..n
    OBVIOUS
  <2>4. StartOf(f) + i \in (k + 1)..Len(written) BY <2>1, <2>2, <2>3
  <2> QED BY <2>2, <2>4 DEF Placed, Segments
<1>2. ASSUME NEW i \in DOMAIN active
      PROVE  \E j \in (k + 1)..Len(written) : active[i] = written[j]
  <2>1. ActiveStart + i \in (k + 1)..Len(written)
    BY <1>2
  <2> QED BY <1>2, <2>1 DEF Placed, ActiveIsTail
<1>3. ASSUME NEW j \in (k + 1)..Len(written)
      PROVE  \E f \in Files : \E i \in DOMAIN f.lines : f.lines[i] = written[j]
  <2>1. CASE j > ActiveStart
    <3>1. j - ActiveStart \in DOMAIN active /\ active[j - ActiveStart] = written[j]
      BY <2>1 DEF Placed, ActiveIsTail
    <3>2. ActiveFile \in Files /\ ActiveFile.lines = active BY DEF Files, ActiveFile
    <3> QED BY <3>1, <3>2
  <2>2. CASE j <= ActiveStart
    <3>1. PICK f \in rotated : StartOf(f) < j /\ j <= f.hash
      BY <2>2 DEF Covers
    <3>2. /\ f.hash \in Nat /\ Len(f.lines) \in Nat /\ StartOf(f) \in Nat
          /\ StartOf(f) = f.hash - Len(f.lines) /\ j \in Nat
      BY <3>1, SegmentNumbers
    <3>3. \A a, h, l \in Nat : (a = h - l /\ a < j /\ j <= h) => j - a \in 1..l /\ a + (j - a) = j
      BY <3>2
    <3>4. j - StartOf(f) \in 1..Len(f.lines) /\ StartOf(f) + (j - StartOf(f)) = j
      BY <3>1, <3>2, <3>3
    <3>5. j - StartOf(f) \in DOMAIN f.lines /\ f.lines[j - StartOf(f)] = written[j]
      BY <3>4, SegmentNumbers DEF Placed, Segments
    <3> QED BY <3>5 DEF Files
  <2> QED BY <2>1, <2>2
<1>4. \A f \in Files : f \in rotated \/ f.lines = active
  BY DEF Files, ActiveFile
<1>5. ASSUME NEW r \in Retained PROVE r \in {written[i] : i \in (k + 1)..Len(written)}
  <2>1. PICK f \in Files : r \in ToSet(f.lines) BY DEF Retained
  <2>2. PICK i \in DOMAIN f.lines : r = f.lines[i] BY <2>1 DEF ToSet
  <2>3. CASE f \in rotated
    <3>1. PICK j \in (k + 1)..Len(written) : f.lines[i] = written[j] BY <1>1, <2>3
    <3> QED BY <2>2, <3>1
  <2>4. CASE f.lines = active
    <3>1. PICK j \in (k + 1)..Len(written) : active[i] = written[j] BY <1>2, <2>4
    <3> QED BY <2>2, <2>4, <3>1
  <2> QED BY <1>4, <2>3, <2>4
<1>6. ASSUME NEW j \in (k + 1)..Len(written) PROVE written[j] \in Retained
  <2>1. PICK f \in Files : \E i \in DOMAIN f.lines : f.lines[i] = written[j] BY <1>3
  <2>2. written[j] \in ToSet(f.lines) BY <2>1 DEF ToSet
  <2> QED BY <2>2 DEF Retained
<1> QED BY <1>5, <1>6

\* Lines of two files that are the same record are the same line of the same
\* file, as long as no file has a copy.
LEMMA LinesAreApart ==
    ASSUME AuditAssumption, Placed,
           \A f, g \in rotated : f.hash = g.hash => f = g,
           NEW f \in rotated, NEW g \in rotated,
           NEW i \in 1..Len(f.lines), NEW j \in 1..Len(g.lines),
           StartOf(f) + i = StartOf(g) + j
    PROVE  f = g /\ i = j
<1>1. /\ f.hash \in Nat /\ Len(f.lines) \in Nat /\ StartOf(f) \in Nat
      /\ StartOf(f) = f.hash - Len(f.lines)
      /\ g.hash \in Nat /\ Len(g.lines) \in Nat /\ StartOf(g) \in Nat
      /\ StartOf(g) = g.hash - Len(g.lines)
  BY SegmentNumbers
<1>2. /\ f.hash < g.hash => f.hash <= StartOf(g)
      /\ g.hash < f.hash => g.hash <= StartOf(f)
  BY DEF Placed, NamesInOrder
<1>3. i \in Nat /\ j \in Nat /\ 1 <= i /\ i <= Len(f.lines) /\ 1 <= j /\ j <= Len(g.lines)
  BY <1>1
<1>4. f.hash = g.hash
  BY SMTT(30), <1>1, <1>2, <1>3
<1>5. f = g
  BY <1>4
<1> QED BY <1>1, <1>3, <1>5

\* A whole history without copies is valid.
LEMMA WholeHistoryIsValid ==
    ASSUME AuditAssumption, Placed, ~torn, NEW k \in Nat, k <= Len(written), Trimmed(k),
           \A f, g \in rotated : f.hash = g.hash => f = g
    PROVE  HistoryValid
<1>a. k <= ActiveStart /\ Covers(k) /\ FullWhenTrimmed(k) /\ IdsDiffer(k)
  BY DEF Trimmed
<1>1. (rotated = {} /\ active # << >>) => active[1].prev = 0
  <2> SUFFICES ASSUME rotated = {}, active # << >> PROVE active[1].prev = 0
    OBVIOUS
  <2>1. k = 0
    BY <1>a, FS_EmptySet DEF FullWhenTrimmed, AuditAssumption
  <2>2. ActiveStart = 0
    <3>1. \A m \in 1..ActiveStart : ~(m > k) BY <1>a DEF Covers
    <3>2. ActiveStart \in Nat BY ActiveNumbers
    <3>3. ActiveStart # 0 => 1 \in 1..ActiveStart BY <3>2
    <3> QED BY <2>1, <3>1, <3>3
  <2>3. active[1] = written[1] /\ 1 \in 1..Len(written)
    BY <2>2, ActiveNumbers DEF Placed, ActiveIsTail
  <2> QED BY <2>3 DEF Placed, Chained
<1>2. ASSUME NEW f \in rotated, NEW i \in 1..Len(f.lines)
      PROVE  /\ StartOf(f) + i \in 1..Len(written) /\ StartOf(f) + i > k
             /\ StartOf(f) + i <= ActiveStart
             /\ f.lines[i] = written[StartOf(f) + i]
             /\ f.lines[i].serial = StartOf(f) + i
             /\ f.lines[i].prev = StartOf(f) + i - 1
             /\ f.lines[i].id = written[StartOf(f) + i].id
  <2>1. /\ StartOf(f) + i \in 1..Len(written) /\ StartOf(f) + i > k
        /\ StartOf(f) + i <= ActiveStart
    BY SMTT(30), <1>2, <1>a, SegmentNumbers, ActiveNumbers DEF Covers
  <2>2. f.lines[i] = written[StartOf(f) + i]
    BY <1>2 DEF Placed, Segments
  <2>3. PICK m \in 1..Len(written) : m = StartOf(f) + i BY <2>1
  <2>4. written[m].serial = m /\ written[m].prev = m - 1 BY <2>3 DEF Placed, Chained
  <2>5. m \in Int /\ StartOf(f) \in Int /\ i \in Int BY <2>3, SegmentNumbers, ActiveNumbers
  <2> QED BY <2>1, <2>2, <2>3, <2>4, <2>5
<1>3. ASSUME NEW i \in 1..Len(active)
      PROVE  /\ ActiveStart + i \in 1..Len(written) /\ ActiveStart + i > k
             /\ ActiveStart + i > ActiveStart
             /\ active[i] = written[ActiveStart + i]
             /\ active[i].serial = ActiveStart + i
             /\ active[i].prev = ActiveStart + i - 1
             /\ active[i].id = written[ActiveStart + i].id
  <2>1. ActiveStart + i \in 1..Len(written) /\ ActiveStart + i > k /\ ActiveStart + i > ActiveStart
    BY <1>3, <1>a, ActiveNumbers
  <2>2. active[i] = written[ActiveStart + i]
    BY <1>3 DEF Placed, ActiveIsTail
  <2>3. PICK m \in 1..Len(written) : m = ActiveStart + i BY <2>1
  <2>4. written[m].serial = m /\ written[m].prev = m - 1 BY <2>3 DEF Placed, Chained
  <2>5. m \in Int /\ ActiveStart \in Int /\ i \in Int BY <2>3, ActiveNumbers
  <2> QED BY <2>1, <2>2, <2>3, <2>4, <2>5
<1>4. \A f \in Files : (f \in rotated /\ f # ActiveFile) \/ (f = ActiveFile /\ f.lines = active)
  BY DEF Files, ActiveFile
<1>b. ActiveFile \in Files /\ ActiveFile.lines = active /\ rotated \subseteq Files
  BY DEF Files, ActiveFile
<1>c. \A f \in rotated : f # ActiveFile
  BY SegmentNumbers DEF ActiveFile
<1>5. ASSUME NEW f \in Files, NEW i \in 2..Len(f.lines)
      PROVE  f.lines[i].prev = f.lines[i - 1].serial
  <2>1. CASE f \in rotated
    <3>1. Len(f.lines) \in Nat /\ StartOf(f) \in Nat BY <2>1, SegmentNumbers
    <3>2. i \in 1..Len(f.lines) /\ i - 1 \in 1..Len(f.lines) BY <3>1
    <3> QED BY <1>2, <2>1, <3>1, <3>2
  <2>2. CASE f.lines = active
    <3>1. i \in 1..Len(active) /\ i - 1 \in 1..Len(active) BY <2>2, ActiveNumbers
    <3> QED BY <1>3, <2>2, <3>1, ActiveNumbers
  <2> QED BY <1>4, <2>1, <2>2
<1>6. ASSUME NEW f \in Files, NEW g \in Files, Precedes(f, g), g.lines # << >>
      PROVE  g.lines[1].prev = Last(f.lines).serial
  <2>1. f \in rotated
    BY <1>4, <1>6 DEF Precedes, Before
  <2>2. /\ f.hash \in Nat /\ Len(f.lines) \in Nat /\ StartOf(f) \in Nat
        /\ StartOf(f) = f.hash - Len(f.lines) /\ StartOf(f) < f.hash /\ f.hash <= ActiveStart
    BY <2>1, SegmentNumbers
  <2>3. Last(f.lines).serial = f.hash
    <3>1. Len(f.lines) \in 1..Len(f.lines) /\ StartOf(f) + Len(f.lines) = f.hash BY <2>2
    <3> QED BY <1>2, <2>1, <3>1 DEF Last
  <2>4. k < f.hash
    BY <1>a, <2>1, <2>2 DEF Covers
  <2>5. ASSUME NEW h \in rotated, f.hash < h.hash PROVE Before(f, h)
    BY <1>c, <2>1, <2>5, SortsBySerial DEF Before
  <2>6. CASE g \in rotated
    <3>1. /\ g.hash \in Nat /\ Len(g.lines) \in Nat /\ StartOf(g) \in Nat
          /\ StartOf(g) = g.hash - Len(g.lines) /\ StartOf(g) < g.hash /\ g.hash <= ActiveStart
      BY <2>6, SegmentNumbers
    <3>2. Sorts(f, g)
      BY <1>6, <1>c, <2>6 DEF Precedes, Before
    <3>3. f.hash < g.hash
      BY <2>1, <2>6, <3>2, SortsBySerial
    <3>4. f.hash <= StartOf(g)
      BY <2>1, <2>6, <3>3 DEF Placed, NamesInOrder
    <3>5. f.hash = StartOf(g)
      <4> SUFFICES ASSUME f.hash < StartOf(g) PROVE FALSE
        BY <2>2, <3>1, <3>4
      <4>1. StartOf(g) \in 1..ActiveStart /\ StartOf(g) > k
        BY <2>2, <2>4, <3>1, ActiveNumbers
      <4>2. PICK h \in rotated : StartOf(h) < StartOf(g) /\ StartOf(g) <= h.hash
        BY <1>a, <4>1 DEF Covers
      <4>3. /\ h.hash \in Nat /\ StartOf(h) \in Nat
        BY <4>2, SegmentNumbers
      <4>4. /\ h.hash < g.hash => h.hash <= StartOf(g)
            /\ g.hash < h.hash => g.hash <= StartOf(h)
            /\ g.hash = h.hash => h = g
        BY <2>6 DEF Placed, NamesInOrder
      <4>5. h.hash < g.hash
        BY <3>1, <4>2, <4>3, <4>4
      <4>6. Before(f, h) /\ Before(h, g)
        BY <1>c, <2>2, <2>5, <2>6, <3>1, <4>2, <4>3, <4>5, SortsBySerial DEF Before
      <4> QED BY <1>6, <1>b, <4>6 DEF Precedes
    <3>6. g.lines[1].prev = StartOf(g)
      <4>1. 1 \in 1..Len(g.lines) BY <3>1
      <4> QED BY <1>2, <2>6, <3>1, <4>1
    <3> QED BY <2>3, <3>5, <3>6
  <2>7. CASE g = ActiveFile /\ g.lines = active
    <3>1. f.hash = ActiveStart
      <4> SUFFICES ASSUME f.hash < ActiveStart PROVE FALSE
        BY <2>2, ActiveNumbers
      <4>1. ActiveStart \in 1..ActiveStart /\ ActiveStart > k
        BY <2>2, <2>4, ActiveNumbers
      <4>2. PICK h \in rotated : StartOf(h) < ActiveStart /\ ActiveStart <= h.hash
        BY <1>a, <4>1 DEF Covers
      <4>3. f.hash < h.hash
        BY <2>2, <4>2, SegmentNumbers, ActiveNumbers
      <4>4. Before(f, h) /\ Before(h, g)
        BY <1>c, <2>5, <2>7, <4>3 DEF Before
      <4> QED BY <1>6, <1>b, <4>4 DEF Precedes
    <3>2. 1 \in 1..Len(active)
      BY <1>6, <2>7, ActiveNumbers
    <3> QED BY <1>3, <2>3, <2>7, <3>1, <3>2, ActiveNumbers
  <2> QED BY <1>4, <2>6, <2>7
<1>7. ASSUME NEW f \in Files, NEW g \in Files, NEW i \in DOMAIN f.lines, NEW j \in DOMAIN g.lines,
             f.lines[i].id = g.lines[j].id
      PROVE  f = g /\ i = j
  <2>1. \A m, n \in 1..Len(written) : (m > k /\ n > k /\ written[m].id = written[n].id) => m = n
    BY <1>a DEF IdsDiffer
  <2>2. /\ f \in rotated => DOMAIN f.lines = 1..Len(f.lines)
        /\ g \in rotated => DOMAIN g.lines = 1..Len(g.lines)
        /\ DOMAIN active = 1..Len(active)
    BY SegmentNumbers, ActiveNumbers
  <2>3. CASE f \in rotated /\ g \in rotated
    <3>1. i \in 1..Len(f.lines) /\ j \in 1..Len(g.lines) BY <1>7, <2>2, <2>3
    <3>a. PICK m \in 1..Len(written) : m = StartOf(f) + i /\ m > k /\ f.lines[i].id = written[m].id
      BY <1>2, <2>3, <3>1
    <3>b. PICK n \in 1..Len(written) : n = StartOf(g) + j /\ n > k /\ g.lines[j].id = written[n].id
      BY <1>2, <2>3, <3>1
    <3>2. StartOf(f) + i = StartOf(g) + j BY <1>7, <2>1, <3>a, <3>b
    <3> QED BY <2>3, <3>1, <3>2, LinesAreApart
  <2>4. CASE f \in rotated /\ g = ActiveFile
    <3>1. i \in 1..Len(f.lines) /\ j \in 1..Len(active) /\ g.lines = active BY <1>7, <1>b, <2>2, <2>4
    <3>a. PICK m \in 1..Len(written) : m = StartOf(f) + i /\ m > k /\ f.lines[i].id = written[m].id
      BY <1>2, <2>4, <3>1
    <3>b. PICK n \in 1..Len(written) : n = ActiveStart + j /\ n > k /\ active[j].id = written[n].id
      BY <1>3, <3>1
    <3>2. StartOf(f) + i = ActiveStart + j BY <1>7, <2>1, <3>1, <3>a, <3>b
    <3>3. StartOf(f) + i <= ActiveStart BY <1>2, <2>4, <3>1
    <3>4. StartOf(f) \in Nat /\ i \in Nat /\ j \in Nat /\ j >= 1
      BY <2>4, <3>1, SegmentNumbers, ActiveNumbers
    <3> QED BY <3>2, <3>3, <3>4, ActiveNumbers
  <2>5. CASE f = ActiveFile /\ g \in rotated
    <3>1. i \in 1..Len(active) /\ j \in 1..Len(g.lines) /\ f.lines = active BY <1>7, <1>b, <2>2, <2>5
    <3>a. PICK m \in 1..Len(written) : m = ActiveStart + i /\ m > k /\ active[i].id = written[m].id
      BY <1>3, <3>1
    <3>b. PICK n \in 1..Len(written) : n = StartOf(g) + j /\ n > k /\ g.lines[j].id = written[n].id
      BY <1>2, <2>5, <3>1
    <3>2. ActiveStart + i = StartOf(g) + j BY <1>7, <2>1, <3>1, <3>a, <3>b
    <3>3. StartOf(g) + j <= ActiveStart BY <1>2, <2>5, <3>1
    <3>4. StartOf(g) \in Nat /\ i \in Nat /\ j \in Nat /\ i >= 1
      BY <2>5, <3>1, SegmentNumbers, ActiveNumbers
    <3> QED BY <3>2, <3>3, <3>4, ActiveNumbers
  <2>6. CASE f = ActiveFile /\ g = ActiveFile
    <3>1. i \in 1..Len(active) /\ j \in 1..Len(active) BY <1>7, <1>b, <2>2, <2>6
    <3>2. ActiveStart + i = ActiveStart + j BY <1>3, <1>7, <1>b, <2>1, <2>6, <3>1
    <3> QED BY <2>6, <3>1, <3>2, ActiveNumbers
  <2> QED BY <1>4, <2>3, <2>4, <2>5, <2>6
<1> QED BY <1>1, <1>5, <1>6, <1>7 DEF HistoryValid

\* A valid history has no copies.
LEMMA ValidHasNoCopies ==
    ASSUME AuditAssumption, Placed, HistoryValid, NEW f \in rotated, NEW g \in rotated,
           f.hash = g.hash
    PROVE  f = g
<1>1. f.lines = g.lines BY DEF Placed, NamesInOrder
<1>2. 1 \in DOMAIN f.lines BY SegmentNumbers
<1>3. f \in Files /\ g \in Files BY DEF Files
<1> QED BY <1>1, <1>2, <1>3 DEF HistoryValid

\* The last record of a valid history is the last one written.
LEMMA LastIsLastWritten ==
    ASSUME AuditAssumption, Placed, HistoryValid, NEW k \in Nat, k <= Len(written), Trimmed(k)
    PROVE  LastHash = Len(written)
<1>a. k <= ActiveStart /\ Covers(k) /\ FullWhenTrimmed(k)
  BY DEF Trimmed
<1>1. Retained = {written[i] : i \in (k + 1)..Len(written)}
  BY <1>a, RetainedIsSuffix
<1>2. CASE Len(written) = k
  <2>1. rotated = {}
    <3> SUFFICES ASSUME NEW f \in rotated PROVE FALSE OBVIOUS
    <3>1. k <= StartOf(f) BY <1>a DEF Covers
    <3> QED BY <1>2, <3>1, SegmentNumbers
  <2>2. k = 0 BY <1>a, <2>1, FS_EmptySet DEF FullWhenTrimmed, AuditAssumption
  <2>3. Retained = {} BY <1>1, <1>2, <2>2
  <2> QED BY <1>2, <2>2, <2>3 DEF LastHash
<1>3. CASE Len(written) > k
  <2>1. Retained # {}
    <3>1. Len(written) \in (k + 1)..Len(written) BY <1>3, ActiveNumbers
    <3> QED BY <1>1, <3>1
  <2>2. Last(Latest.lines).serial = Len(written)
    <3>1. CASE active # << >>
      <4>1. Len(active) \in 1..Len(active) /\ ActiveStart + Len(active) = Len(written)
        BY <3>1, ActiveNumbers
      <4>2. Last(Latest.lines) = written[Len(written)]
        BY <3>1, <4>1 DEF Latest, ActiveFile, Last, Placed, ActiveIsTail
      <4> QED BY <1>3, <4>2, ActiveNumbers DEF Placed, Chained
    <3>2. CASE active = << >>
      <4>1. ActiveStart = Len(written) /\ Len(written) \in 1..ActiveStart
        BY <1>3, <3>2, ActiveNumbers
      <4>2. PICK f \in rotated : StartOf(f) < Len(written) /\ Len(written) <= f.hash
        BY <1>3, <1>a, <4>1 DEF Covers
      <4>3. f.hash = Len(written) BY <4>2, SegmentNumbers, ActiveNumbers
      <4>4. ASSUME NEW g \in rotated \ {f} PROVE Sorts(g, f)
        <5>1. g.hash # f.hash BY ValidHasNoCopies
        <5>2. g.hash < f.hash BY <4>3, <5>1, SegmentNumbers, ActiveNumbers
        <5> QED BY <5>2, SortsBySerial
      <4>5. \E h \in rotated : \A g \in rotated \ {h} : Sorts(g, h)
        BY <4>4
      <4>6. Latest \in rotated /\ \A g \in rotated \ {Latest} : Sorts(g, Latest)
        BY <3>2, <4>5 DEF Latest
      <4>7. PICK h \in rotated : h = Latest BY <4>6
      <4>8. h = f
        <5> SUFFICES ASSUME h # f PROVE FALSE OBVIOUS
        <5>1. Sorts(f, h) BY <4>6, <4>7
        <5>2. Sorts(h, f) BY <4>4, <4>7
        <5> QED BY <4>7, <5>1, <5>2, SortsBySerial, SegmentNumbers
      <4>9. Last(f.lines) = written[Len(written)]
        <5>1. /\ Len(f.lines) \in 1..Len(f.lines)
              /\ StartOf(f) + Len(f.lines) = Len(written)
          BY SMTT(30), <4>3, SegmentNumbers
        <5> QED BY <5>1 DEF Last, Placed, Segments
      <4> QED BY <1>3, <4>7, <4>8, <4>9, ActiveNumbers DEF Placed, Chained
    <3> QED BY <3>1, <3>2
  <2> QED BY <2>1, <2>2 DEF LastHash
<1>4. Len(written) \in Nat BY ActiveNumbers
<1>5. Len(written) = k \/ Len(written) > k BY <1>4
<1> QED BY <1>2, <1>3, <1>5

-----------------------------------------------------------------------------
(* The steps of an append.                                                 *)

\* The files are the same, whatever else happens.
LEMMA SameFiles ==
    ASSUME Placed, UNCHANGED <<active, rotated, written>>,
           at' \in {"idle", "rotate", "compress", "unlink", "retain", "write", "sync"}
    PROVE  Placed' /\ ActiveStart' = ActiveStart
  BY DEF Placed, AuditTyped, Chained, ActiveIsTail, Segments, NamesInOrder, ActiveStart, StartOf

LEMMA SameTrimming ==
    ASSUME NEW k \in Nat, Trimmed(k), UNCHANGED <<active, rotated, written>>,
           at' = "unlink" => at = "unlink",
           at' \in {"rotate", "compress", "unlink", "retain", "write"} =>
               \A i \in 1..Len(written) : i > k => written[i].id # event'.id
    PROVE  Trimmed(k)'
<1>1. ActiveStart' = ActiveStart BY DEF ActiveStart
<1>2. Covers(k)' BY <1>1 DEF Trimmed, Covers, StartOf
<1>3. FullWhenTrimmed(k)' BY DEF Trimmed, FullWhenTrimmed
<1>4. IdsDiffer(k)' BY DEF Trimmed, IdsDiffer
<1> QED BY <1>1, <1>2, <1>3, <1>4 DEF Trimmed

\* The append ends, in whatever way, and leaves the files as they are.
LEMMA EndIsSound ==
    ASSUME AuditSound, at' = "idle", UNCHANGED <<active, rotated, written>>,
           torn' \in BOOLEAN, torn' => "torn" \in lapses',
           at = "unlink" => "copied" \in lapses',
           at # "unlink" => ("copied" \in lapses' <=> "copied" \in lapses)
    PROVE  AuditSound'
<1>1. Placed' BY SameFiles DEF AuditSound
<1>2. PICK k \in 0..Len(written) : Trimmed(k) BY DEF AuditSound
<1>3. k \in Nat /\ k \in 0..Len(written)' BY DEF AuditSound, Placed, AuditTyped
<1>4. Trimmed(k)' BY <1>2, <1>3, SameTrimming
<1>5. Copies'
  <2>1. CASE at = "unlink"
    <3>1. PICK f \in Plain : [f EXCEPT !.gz = TRUE] \in rotated BY <2>1 DEF AuditSound, Copies
    <3>2. PICK g \in rotated : g = [f EXCEPT !.gz = TRUE] BY <3>1
    <3>3. f \in rotated /\ f \in RotatedFile /\ f.gz = FALSE
      BY <3>1 DEF Plain, AuditSound, Placed, AuditTyped, RotatedFile
    <3>4. g.hash = f.hash /\ g # f BY <3>2, <3>3 DEF RotatedFile
    <3> QED BY <2>1, <3>2, <3>3, <3>4 DEF Copies
  <2>2. CASE at # "unlink"
    BY <2>2 DEF AuditSound, Copies
  <2> QED BY <2>1, <2>2
<1>6. Appending' /\ Rotating' /\ TornIsKnown' BY DEF Appending, Rotating, TornIsKnown
<1> QED BY <1>1, <1>3, <1>4, <1>5, <1>6 DEF AuditSound

\* The append goes on and leaves the files as they are.
LEMMA GoesOnIsSound ==
    ASSUME AuditSound, UNCHANGED <<active, rotated, written, torn, lapses, event, prev>>,
           at \in {"compress", "retain"},
           at' \in {"compress", "retain", "write"}
    PROVE  AuditSound'
<1>1. Placed' BY SameFiles DEF AuditSound
<1>2. PICK k \in 0..Len(written) : Trimmed(k) BY DEF AuditSound
<1>3. k \in Nat /\ k \in 0..Len(written)' BY DEF AuditSound, Placed, AuditTyped
<1>4. Trimmed(k)' BY <1>2, <1>3, SameTrimming DEF Trimmed, IdsDiffer
<1>5. Copies' /\ Appending' /\ Rotating' /\ TornIsKnown'
  BY DEF AuditSound, Copies, Appending, Rotating, TornIsKnown
<1> QED BY <1>1, <1>3, <1>4, <1>5 DEF AuditSound

\* The history is whole, its last record is the last one written, and the event
\* is new.
LEMMA BeginIsSound ==
    ASSUME AuditAssumption, AuditSound, NEW e \in Events, Begin(e)
    PROVE  AuditSound'
<1>0. /\ UNCHANGED <<active, rotated, written, torn, lapses>>
      /\ at' \in {"rotate", "write"} /\ event' = e /\ prev' = LastHash
      /\ at' = "rotate" => active # << >>
      /\ at = "idle" /\ HistoryValid /\ Len(written) < MaxRecords
      /\ e.id \notin {r.id : r \in Retained}
  BY DEF Begin, auditFiles, MustRotate
<1>1. Placed /\ Placed' BY <1>0, SameFiles DEF AuditSound
<1>2. PICK k \in 0..Len(written) : Trimmed(k) BY DEF AuditSound
<1>3. k \in Nat /\ k <= Len(written) /\ k \in 0..Len(written)' /\ Len(written) \in Nat
  BY <1>0, <1>1 DEF Placed, AuditTyped
<1>4. Retained = {written[i] : i \in (k + 1)..Len(written)}
  BY <1>1, <1>2, <1>3, RetainedIsSuffix DEF Trimmed
<1>5. ASSUME NEW i \in 1..Len(written), i > k PROVE written[i].id # event'.id
  <2>1. i \in (k + 1)..Len(written) BY <1>3, <1>5
  <2>2. written[i] \in Retained BY <1>4, <2>1
  <2> QED BY <1>0, <2>2
<1>6. Trimmed(k)' BY <1>0, <1>2, <1>3, <1>5, SameTrimming
<1>7. LastHash = Len(written) BY <1>0, <1>1, <1>2, <1>3, LastIsLastWritten
<1>8. \A f, g \in rotated : f.hash = g.hash => f = g
  BY <1>0, <1>1, ValidHasNoCopies
<1>9. "copied" \notin lapses BY <1>8 DEF AuditSound, Copies
<1>10. Copies' BY <1>0, <1>8, <1>9 DEF Copies
<1>11. Appending' /\ Rotating' /\ TornIsKnown'
  BY <1>0, <1>7 DEF AuditSound, Appending, Rotating, TornIsKnown
<1> QED BY <1>1, <1>3, <1>6, <1>10, <1>11 DEF AuditSound

\* The record is written: it follows the last one.
LEMMA WriteIsSound ==
    ASSUME AuditAssumption, AuditSound, at = "write",
           active' = Append(active, Record), written' = Append(written, Record),
           at' = "sync", UNCHANGED <<torn, lapses, rotated>>
    PROVE  AuditSound'
<1>0. /\ event \in Events /\ prev = Len(written) /\ Len(written) < MaxRecords
      /\ active \in Seq(AuditRecords) /\ written \in Seq(AuditRecords)
      /\ Len(written) \in Nat /\ Len(active) \in Nat /\ MaxRecords \in Nat
  BY DEF AuditSound, Appending, Placed, AuditTyped, AuditAssumption
<1>1. PICK r : r = Record OBVIOUS
<1>2. /\ r \in AuditRecords
      /\ r.serial = Len(written) + 1 /\ r.prev = Len(written) /\ r.id = event.id
  BY <1>0, <1>1 DEF Record, AuditRecords, Events
<1>3. /\ active' \in Seq(AuditRecords) /\ written' \in Seq(AuditRecords)
      /\ Len(active') = Len(active) + 1 /\ Len(written') = Len(written) + 1
      /\ \A i \in 1..Len(active) : active'[i] = active[i]
      /\ \A i \in 1..Len(written) : written'[i] = written[i]
      /\ active'[Len(active) + 1] = r /\ written'[Len(written) + 1] = r
  BY <1>0, <1>1, <1>2
<1>4. ActiveStart' = ActiveStart /\ ActiveStart \in Nat /\ ActiveStart <= Len(written)
      /\ ActiveStart = Len(written) - Len(active)
  BY <1>0, <1>3 DEF ActiveStart, AuditSound, Placed, ActiveIsTail
<1>5. AuditTyped' BY <1>0, <1>3 DEF AuditSound, Placed, AuditTyped
<1>6. Chained'
  <2> SUFFICES ASSUME NEW i \in 1..Len(written')
               PROVE  written'[i].serial = i /\ written'[i].prev = i - 1
    BY DEF Chained
  <2>1. CASE i \in 1..Len(written)
    BY <1>3, <2>1 DEF AuditSound, Placed, Chained
  <2>2. CASE i = Len(written) + 1
    BY <1>0, <1>2, <1>3, <2>2
  <2> QED BY <1>0, <1>3, <2>1, <2>2
<1>7. ActiveIsTail'
  <2> SUFFICES ASSUME NEW i \in 1..Len(active') PROVE active'[i] = written'[ActiveStart + i]
    BY <1>4 DEF ActiveIsTail
  <2>1. CASE i \in 1..Len(active)
    <3>1. ActiveStart + i \in 1..Len(written) BY <1>0, <1>4, <2>1
    <3>2. active[i] = written[ActiveStart + i] BY <2>1 DEF AuditSound, Placed, ActiveIsTail
    <3> QED BY <1>3, <2>1, <3>1, <3>2
  <2>2. CASE i = Len(active) + 1
    <3>1. ActiveStart + i = Len(written) + 1 BY <1>0, <1>4, <2>2
    <3> QED BY <1>3, <2>2, <3>1
  <2>3. i \in 1..(Len(active) + 1) BY <1>3
  <2>4. i \in 1..Len(active) \/ i = Len(active) + 1 BY <1>0, <2>3
  <2> QED BY <2>1, <2>2, <2>4
<1>8. Segments'
  <2> SUFFICES ASSUME NEW f \in rotated
               PROVE  /\ f.hash <= ActiveStart
                      /\ Len(f.lines) >= 1 /\ StartOf(f) \in Nat
                      /\ f.time = written'[f.hash].time
                      /\ \A i \in 1..Len(f.lines) : f.lines[i] = written'[StartOf(f) + i]
    BY <1>4 DEF Segments, StartOf
  <2>1. /\ f.hash \in Nat /\ Len(f.lines) \in Nat /\ StartOf(f) \in Nat
        /\ StartOf(f) = f.hash - Len(f.lines)
        /\ StartOf(f) < f.hash /\ f.hash <= ActiveStart /\ f.hash <= Len(written)
    BY SegmentNumbers DEF AuditSound
  <2>2. f.hash \in 1..Len(written) BY <1>0, <2>1
  <2>3. \A i \in 1..Len(f.lines) : StartOf(f) + i \in 1..Len(written) BY SMTT(30), <1>0, <2>1
  <2>4. f.time = written[f.hash].time /\ \A i \in 1..Len(f.lines) : f.lines[i] = written[StartOf(f) + i]
    BY DEF AuditSound, Placed, Segments
  <2> QED BY <1>3, <2>1, <2>2, <2>3, <2>4
<1>9. NamesInOrder' BY DEF AuditSound, Placed, NamesInOrder, StartOf
<1>10. PICK k \in 0..Len(written) : Trimmed(k) BY DEF AuditSound
<1>11. k \in Nat /\ k \in 0..Len(written') BY <1>0, <1>3
<1>12. Covers(k)' /\ k <= ActiveStart' BY <1>4, <1>10 DEF Trimmed, Covers, StartOf
<1>13. FullWhenTrimmed(k)' BY <1>10 DEF Trimmed, FullWhenTrimmed
<1>14. IdsDiffer(k)'
  <2>1. /\ \A i, j \in 1..Len(written) :
              (i > k /\ j > k /\ written[i].id = written[j].id) => i = j
        /\ \A i \in 1..Len(written) : i > k => written[i].id # event.id
    BY <1>10 DEF Trimmed, IdsDiffer
  <2>2. \A i \in 1..Len(written') : i \in 1..Len(written) \/ i = Len(written) + 1
    BY <1>0, <1>3
  <2>3. \A i \in 1..Len(written) : written'[i].id = written[i].id BY <1>3
  <2>4. written'[Len(written) + 1].id = event.id BY <1>2, <1>3
  <2>5. ASSUME NEW i \in 1..Len(written'), NEW j \in 1..Len(written'), i > k, j > k,
               written'[i].id = written'[j].id
        PROVE  i = j
    BY <2>1, <2>2, <2>3, <2>4, <2>5
  <2> QED BY <2>5 DEF IdsDiffer
<1>15. Copies' BY DEF AuditSound, Copies
<1>16. Appending' /\ Rotating' /\ TornIsKnown' BY DEF AuditSound, Appending, Rotating, TornIsKnown
<1> QED BY <1>5, <1>6, <1>7, <1>8, <1>9, <1>11, <1>12, <1>13, <1>14, <1>15, <1>16
        DEF AuditSound, Placed, Trimmed

\* The active file becomes the rotation that sorts last.
LEMMA RotateIsSound ==
    ASSUME AuditAssumption, AuditSound, "clock" \notin lapses', at = "rotate", NEW target,
           target = [time |-> Last(active).time, hash |-> Last(active).serial, gz |-> FALSE,
                     lines |-> active],
           rotated' = rotated \cup {target}, active' = << >>, at' = "compress",
           lapses' = IF \E f \in rotated : f.time >= Last(active).time
                     THEN lapses \cup {"clock"} ELSE lapses,
           UNCHANGED <<torn, event, prev, written>>
    PROVE  AuditSound'
<1>0. /\ lapses' = lapses
      /\ \A f \in rotated : ~(f.time >= Last(active).time)
  OBVIOUS
<1>1. /\ Placed /\ active \in Seq(AuditRecords) /\ written \in Seq(AuditRecords)
      /\ Len(written) \in Nat /\ Len(active) \in Nat /\ Len(active) > 0
      /\ ActiveStart = Len(written) - Len(active) /\ ActiveStart \in Nat
  BY ActiveNumbers DEF AuditSound, Placed, AuditTyped, Rotating
<1>2. Last(active) = written[Len(written)] /\ Last(active) \in AuditRecords
  <2>1. Len(active) \in 1..Len(active) /\ ActiveStart + Len(active) = Len(written) BY <1>1
  <2>2. active[Len(active)] = written[ActiveStart + Len(active)]
    BY <1>1, <2>1 DEF Placed, ActiveIsTail
  <2> QED BY <1>1, <2>1, <2>2 DEF Last
<1>3. Last(active).serial = Len(written)
  <2>1. Len(written) \in 1..Len(written) BY <1>1
  <2> QED BY <1>1, <1>2, <2>1 DEF Placed, Chained
<1>4. /\ target \in RotatedFile /\ target.hash = Len(written) /\ target.lines = active
      /\ target.time = written[Len(written)].time /\ target.gz = FALSE
      /\ StartOf(target) = ActiveStart
      /\ target.time \in Int
  BY SMTT(30), <1>1, <1>2, <1>3 DEF RotatedFile, AuditRecords, StartOf, Times
<1>5. ActiveStart' = Len(written) BY <1>1 DEF ActiveStart
<1>6. ASSUME NEW f \in rotated
      PROVE  /\ f.hash \in Nat /\ f.hash <= ActiveStart /\ f.hash < Len(written)
             /\ StartOf(f) \in Nat /\ f.time \in Int /\ f.time < target.time
  <2>1. f.hash \in Nat /\ f.hash <= ActiveStart /\ StartOf(f) \in Nat BY <1>1, SegmentNumbers
  <2>2. f.time \in Int BY <1>1 DEF Placed, AuditTyped, RotatedFile, Times
  <2>3. f.time < target.time BY <1>0, <1>2, <1>4, <2>2
  <2> QED BY <1>1, <2>1, <2>2, <2>3
<1>7. AuditTyped'
  <2>1. IsFiniteSet(rotated') BY <1>1, FS_AddElement DEF Placed, AuditTyped
  <2>2. active' \in Seq(AuditRecords) OBVIOUS
  <2>3. rotated' \subseteq RotatedFile BY <1>1, <1>4 DEF Placed, AuditTyped
  <2> QED BY <1>1, <2>1, <2>2, <2>3 DEF Placed, AuditTyped
<1>8. Chained' BY <1>1 DEF Placed, Chained
<1>9. ActiveIsTail' BY <1>1, <1>5 DEF ActiveIsTail
<1>10. Segments'
  <2> SUFFICES ASSUME NEW f \in rotated'
               PROVE  /\ f.hash <= Len(written)
                      /\ Len(f.lines) >= 1 /\ StartOf(f) \in Nat
                      /\ f.time = written[f.hash].time
                      /\ \A i \in 1..Len(f.lines) : f.lines[i] = written[StartOf(f) + i]
    BY <1>5 DEF Segments, StartOf
  <2>1. CASE f \in rotated
    BY <1>1, <1>6, <2>1 DEF Placed, Segments
  <2>2. CASE f = target
    <3>1. \A i \in 1..Len(active) : active[i] = written[ActiveStart + i]
      BY <1>1 DEF Placed, ActiveIsTail
    <3>2. Len(f.lines) >= 1 /\ f.hash <= Len(written) BY <1>1, <1>4, <2>2
    <3> QED BY <1>1, <1>4, <2>2, <3>1, <3>2
  <2> QED BY <2>1, <2>2
<1>11. NamesInOrder'
  <2> SUFFICES ASSUME NEW f \in rotated', NEW g \in rotated'
               PROVE  /\ f.hash < g.hash => f.time < g.time /\ f.hash <= StartOf(g)
                      /\ f.hash = g.hash => f.lines = g.lines
    BY DEF NamesInOrder, StartOf
  <2>1. CASE f \in rotated /\ g \in rotated
    BY <1>1, <2>1 DEF Placed, NamesInOrder
  <2>2. CASE f \in rotated /\ g = target
    BY <1>1, <1>4, <1>6, <2>2
  <2>3. CASE f = target /\ g \in rotated
    BY <1>1, <1>4, <1>6, <2>3
  <2>4. CASE f = target /\ g = target
    BY <1>1, <1>4, <2>4
  <2> QED BY <2>1, <2>2, <2>3, <2>4
<1>12. "copied" \notin lapses BY DEF AuditSound, Copies
<1>13. \A f, g \in rotated' : f.hash = g.hash => f = g
  <2>1. \A f, g \in rotated : f.hash = g.hash => f = g
    BY <1>12 DEF AuditSound, Copies
  <2>2. \A f \in rotated : f.hash # target.hash BY <1>1, <1>4, <1>6
  <2> QED BY <2>1, <2>2
<1>14. Copies' BY <1>0, <1>12, <1>13 DEF Copies
<1>15. PICK k \in 0..Len(written) : Trimmed(k) BY DEF AuditSound
<1>16. k \in Nat /\ k <= ActiveStart /\ Covers(k) /\ FullWhenTrimmed(k) /\ IdsDiffer(k)
  BY <1>1, <1>15 DEF Trimmed
<1>17. Covers(k)'
  <2>1. ASSUME NEW f \in rotated' PROVE k <= StartOf(f)
    BY <1>4, <1>16 DEF Covers
  <2>2. ASSUME NEW i \in 1..Len(written), i > k
        PROVE  \E f \in rotated' : StartOf(f) < i /\ i <= f.hash
    <3>1. CASE i <= ActiveStart
      <4>1. i \in 1..ActiveStart BY <1>1, <3>1
      <4> QED BY <1>16, <2>2, <4>1 DEF Covers
    <3>2. CASE i > ActiveStart
      <4>1. StartOf(target) < i /\ i <= target.hash BY <1>1, <1>4, <3>2
      <4> QED BY <4>1
    <3> QED BY <1>1, <3>1, <3>2
  <2> QED BY <1>5, <2>1, <2>2 DEF Covers, StartOf
<1>18. FullWhenTrimmed(k)'
  <2>1. IsFiniteSet(rotated) /\ Retention \in Nat BY <1>1 DEF Placed, AuditTyped, AuditAssumption
  <2>2. Cardinality(rotated) \in Nat BY <2>1, FS_CardinalityType
  <2>3. Cardinality(rotated') \in {Cardinality(rotated), Cardinality(rotated) + 1}
    BY <2>1, FS_AddElement
  <2> QED BY <1>16, <2>1, <2>2, <2>3 DEF FullWhenTrimmed
<1>19. IdsDiffer(k)' BY <1>16 DEF IdsDiffer
<1>20. k <= ActiveStart' /\ k \in 0..Len(written') BY <1>1, <1>5, <1>16
<1>21. Appending' /\ Rotating' /\ TornIsKnown'
  BY <1>0 DEF AuditSound, Appending, Rotating, TornIsKnown
<1> QED BY <1>7, <1>8, <1>9, <1>10, <1>11, <1>14, <1>17, <1>18, <1>19, <1>20, <1>21
        DEF AuditSound, Placed, Trimmed

\* Two first files are one.
LEMMA FirstIsUnique ==
    ASSUME AuditAssumption, Placed, NEW S \in SUBSET rotated, NEW f, NEW g,
           IsFirst(f, S), IsFirst(g, S)
    PROVE  f = g
<1> SUFFICES ASSUME f # g PROVE FALSE OBVIOUS
<1>1. f \in rotated /\ g \in rotated /\ Sorts(f, g) /\ Sorts(g, f) BY DEF IsFirst
<1>2. f.hash \in Nat /\ g.hash \in Nat BY <1>1, SegmentNumbers
<1> QED BY <1>1, <1>2, SortsBySerial

\* The compressed copy is added beside its source.
LEMMA CompressIsSound ==
    ASSUME AuditAssumption, AuditSound, at = "compress", NEW f \in Plain, IsFirst(f, Plain),
           rotated' = rotated \cup {[f EXCEPT !.gz = TRUE]}, at' = "unlink",
           UNCHANGED <<active, torn, event, prev, newest, written, lapses>>
    PROVE  AuditSound'
<1>0. f \in rotated /\ f \in RotatedFile /\ f.gz = FALSE
  BY DEF Plain, AuditSound, Placed, AuditTyped, RotatedFile
<1>1. PICK c : c = [f EXCEPT !.gz = TRUE] OBVIOUS
<1>2. /\ c \in RotatedFile /\ c.hash = f.hash /\ c.lines = f.lines /\ c.time = f.time
      /\ c.gz = TRUE /\ StartOf(c) = StartOf(f) /\ c # f
  BY <1>0, <1>1 DEF RotatedFile, StartOf
<1>3. rotated' = rotated \cup {c} BY <1>1
<1>4. ActiveStart' = ActiveStart BY DEF ActiveStart
<1>5. "copied" \notin lapses /\ \A g, h \in rotated : g.hash = h.hash => g = h
  BY DEF AuditSound, Copies
<1>6. c \notin rotated BY <1>0, <1>2, <1>5
<1>7. AuditTyped'
  <2>0. IsFiniteSet(rotated) BY DEF AuditSound, Placed, AuditTyped
  <2>1. IsFiniteSet(rotated') BY <1>3, <2>0, FS_AddElement
  <2> QED BY <1>2, <1>3, <2>1 DEF AuditSound, Placed, AuditTyped
<1>8. Chained' /\ ActiveIsTail' BY <1>4 DEF AuditSound, Placed, Chained, ActiveIsTail
<1>9. Segments'
  BY <1>0, <1>2, <1>3, <1>4 DEF AuditSound, Placed, Segments, StartOf
<1>10. NamesInOrder'
  <2> SUFFICES ASSUME NEW g \in rotated', NEW h \in rotated'
               PROVE  /\ g.hash < h.hash => g.time < h.time /\ g.hash <= StartOf(h)
                      /\ g.hash = h.hash => g.lines = h.lines
    BY DEF NamesInOrder, StartOf
  <2>1. \E a \in rotated : a.hash = g.hash /\ a.time = g.time /\ a.lines = g.lines
    BY <1>0, <1>2, <1>3
  <2>2. \E b \in rotated : b.hash = h.hash /\ b.time = h.time /\ b.lines = h.lines
    BY <1>0, <1>2, <1>3
  <2> QED BY <2>1, <2>2 DEF AuditSound, Placed, NamesInOrder, StartOf
<1>11. Plain' = Plain BY <1>2, <1>3 DEF Plain
<1>12. Copies'
  <2>1. f \in Plain' /\ IsFirst(f, Plain)' BY <1>11 DEF IsFirst, Sorts
  <2>2. \A g, h \in rotated' : g.hash = h.hash => g = h \/ g.hash = f.hash
    BY <1>2, <1>3, <1>5
  <2> QED BY <1>1, <1>3, <1>5, <2>1, <2>2 DEF Copies
<1>13. PICK k \in 0..Len(written) : Trimmed(k) BY DEF AuditSound
<1>14. Covers(k)' /\ k <= ActiveStart'
  BY <1>0, <1>2, <1>3, <1>4, <1>13 DEF Trimmed, Covers, StartOf
<1>15. FullWhenTrimmed(k)'
  <2>1. IsFiniteSet(rotated) /\ Retention \in Nat BY DEF AuditSound, Placed, AuditTyped, AuditAssumption
  <2>2. Cardinality(rotated) \in Nat BY <2>1, FS_CardinalityType
  <2>3. Cardinality(rotated') = Cardinality(rotated) + 1 BY <1>3, <1>6, <2>1, FS_AddElement
  <2> QED BY <1>13, <2>1, <2>2, <2>3 DEF Trimmed, FullWhenTrimmed
<1>16. IdsDiffer(k)' BY <1>13 DEF Trimmed, IdsDiffer
<1>17. Appending' /\ Rotating' /\ TornIsKnown'
  BY DEF AuditSound, Appending, Rotating, TornIsKnown
<1> QED BY <1>7, <1>8, <1>9, <1>10, <1>12, <1>13, <1>14, <1>15, <1>16, <1>17
        DEF AuditSound, Placed, Trimmed

\* A file is unlinked: the others are as before.
LEMMA FewerFiles ==
    ASSUME Placed, NEW f \in rotated, rotated' = rotated \ {f}, UNCHANGED <<active, written>>,
           at' \in {"compress", "retain"}
    PROVE  Placed' /\ ActiveStart' = ActiveStart
<1>1. IsFiniteSet(rotated') BY FS_RemoveElement DEF Placed, AuditTyped
<1>2. ActiveStart' = ActiveStart BY DEF ActiveStart
<1> QED BY <1>1, <1>2 DEF Placed, AuditTyped, Chained, ActiveIsTail, Segments, NamesInOrder, StartOf

\* The source is unlinked; its compressed copy holds the same records.
LEMMA UnlinkIsSound ==
    ASSUME AuditAssumption, AuditSound, at = "unlink", NEW f \in Plain, IsFirst(f, Plain),
           rotated' = rotated \ {f}, at' = "compress",
           UNCHANGED <<active, torn, event, prev, newest, written, lapses>>
    PROVE  AuditSound'
<1>0. f \in rotated /\ f \in RotatedFile /\ f.gz = FALSE /\ Placed
  BY DEF Plain, AuditSound, Placed, AuditTyped, RotatedFile
<1>1. PICK s \in Plain : /\ IsFirst(s, Plain)
                         /\ [s EXCEPT !.gz = TRUE] \in rotated
                         /\ \A g, h \in rotated : g.hash = h.hash => g = h \/ g.hash = s.hash
  BY DEF AuditSound, Copies
<1>2. s = f
  <2>1. Plain \in SUBSET rotated BY DEF Plain
  <2> QED BY <1>0, <1>1, <2>1, FirstIsUnique
<1>3. PICK c \in rotated : c = [f EXCEPT !.gz = TRUE] BY <1>1, <1>2
<1>4. /\ c.hash = f.hash /\ c.lines = f.lines /\ c.time = f.time
      /\ c.gz = TRUE /\ StartOf(c) = StartOf(f) /\ c # f /\ c \in rotated'
  BY <1>0, <1>3 DEF RotatedFile, StartOf
<1>5. Placed' /\ ActiveStart' = ActiveStart BY <1>0, FewerFiles
<1>6. "copied" \notin lapses BY DEF AuditSound, Copies
<1>7. ASSUME NEW g \in rotated', g.hash = f.hash PROVE g = c
  <2>1. g \in RotatedFile /\ c \in RotatedFile /\ g # f
    BY <1>0, <1>3 DEF Placed, AuditTyped
  <2>2. g.lines = f.lines /\ g.time = f.time BY <1>0, <1>7 DEF Placed, NamesInOrder, Segments
  <2>3. g.gz # FALSE
    <3> SUFFICES ASSUME g.gz = FALSE PROVE g = f BY <2>1
    <3> QED BY <1>0, <1>7, <2>1, <2>2 DEF RotatedFile
  <2>4. g.gz = TRUE BY <2>1, <2>3 DEF RotatedFile
  <2> QED BY <1>4, <1>7, <2>1, <2>2, <2>4 DEF RotatedFile
<1>8. \A g, h \in rotated' : g.hash = h.hash => g = h
  BY <1>1, <1>2, <1>7
<1>9. Copies' BY <1>6, <1>8 DEF Copies
<1>10. PICK k \in 0..Len(written) : Trimmed(k) BY DEF AuditSound
<1>11. Covers(k)' /\ k <= ActiveStart'
  BY <1>0, <1>4, <1>5, <1>10 DEF Trimmed, Covers, StartOf
<1>12. FullWhenTrimmed(k)'
  <2>1. IsFiniteSet(rotated) /\ Retention \in Nat BY DEF AuditSound, Placed, AuditTyped, AuditAssumption
  <2>2. Cardinality(rotated) \in Nat BY <2>1, FS_CardinalityType
  <2>3. Cardinality(rotated') = Cardinality(rotated) - 1 BY <1>0, <2>1, FS_RemoveElement
  <2> QED BY <1>10, <2>1, <2>2, <2>3 DEF Trimmed, FullWhenTrimmed
<1>13. IdsDiffer(k)' BY <1>10 DEF Trimmed, IdsDiffer
<1>14. Appending' /\ Rotating' /\ TornIsKnown'
  BY DEF AuditSound, Appending, Rotating, TornIsKnown
<1> QED BY <1>5, <1>9, <1>10, <1>11, <1>12, <1>13, <1>14 DEF AuditSound, Trimmed

\* Retention removes the oldest records, and only when enough files are left.
LEMMA RetainIsSound ==
    ASSUME AuditAssumption, AuditSound, at = "retain", Cardinality(rotated) > Retention,
           NEW f \in rotated, IsFirst(f, rotated), rotated' = rotated \ {f},
           UNCHANGED <<active, torn, at, event, prev, newest, written, lapses>>
    PROVE  AuditSound'
<1>0. Placed /\ Len(written) \in Nat BY DEF AuditSound, Placed, AuditTyped
<1>1. Placed' /\ ActiveStart' = ActiveStart BY <1>0, FewerFiles
<1>2. "copied" \notin lapses /\ \A g, h \in rotated : g.hash = h.hash => g = h
  BY DEF AuditSound, Copies
<1>3. Copies' BY <1>2 DEF Copies
<1>4. PICK k \in 0..Len(written) : Trimmed(k) BY DEF AuditSound
<1>5. /\ f.hash \in Nat /\ StartOf(f) \in Nat /\ StartOf(f) < f.hash
      /\ f.hash <= ActiveStart /\ f.hash <= Len(written) /\ k \in Nat
  BY <1>0, <1>4, SegmentNumbers
<1>6. k < f.hash BY <1>4, <1>5 DEF Trimmed, Covers
<1>7. ASSUME NEW g \in rotated' PROVE f.hash <= StartOf(g)
  <2>1. Sorts(f, g) /\ g.hash # f.hash BY <1>2 DEF IsFirst
  <2>2. f.hash < g.hash BY <1>0, <2>1, SortsBySerial
  <2> QED BY <1>0, <2>2 DEF Placed, NamesInOrder
<1>8. ASSUME NEW i \in 1..ActiveStart, i > f.hash
      PROVE  \E g \in rotated' : StartOf(g) < i /\ i <= g.hash
  <2>1. i \in Nat /\ i > k BY <1>0, <1>5, <1>6, <1>8, ActiveNumbers
  <2>2. PICK g \in rotated : StartOf(g) < i /\ i <= g.hash BY <1>4, <2>1 DEF Trimmed, Covers
  <2>3. g # f BY <1>5, <1>8, <2>1, <2>2
  <2> QED BY <2>2, <2>3
<1>9. Covers(f.hash)'
  BY <1>1, <1>7, <1>8 DEF Covers, StartOf
<1>10. FullWhenTrimmed(f.hash)'
  <2>1. IsFiniteSet(rotated) /\ Retention \in Nat BY DEF AuditSound, Placed, AuditTyped, AuditAssumption
  <2>2. Cardinality(rotated) \in Nat BY <2>1, FS_CardinalityType
  <2>3. Cardinality(rotated') = Cardinality(rotated) - 1 BY <2>1, FS_RemoveElement
  <2> QED BY <2>1, <2>2, <2>3 DEF FullWhenTrimmed
<1>11. IdsDiffer(f.hash)'
  <2>1. \A i \in 1..Len(written) : i > f.hash => i > k BY <1>0, <1>5, <1>6
  <2> QED BY <1>4, <2>1 DEF Trimmed, IdsDiffer
<1>12. Appending' /\ Rotating' /\ TornIsKnown'
  BY DEF AuditSound, Appending, Rotating, TornIsKnown
<1>13. f.hash \in 0..Len(written') /\ f.hash <= ActiveStart' BY <1>0, <1>1, <1>5
<1>14. \E j \in 0..Len(written') : Trimmed(j)'
  BY <1>9, <1>10, <1>11, <1>13 DEF Trimmed
<1> QED BY <1>1, <1>3, <1>12, <1>14 DEF AuditSound

LEMMA AuditContinues ==
    ASSUME AuditAssumption, AuditInvariant, [AuditNext]_auditVars PROVE AuditInvariant'
<1> SUFFICES ASSUME "clock" \notin lapses' PROVE AuditSound' BY DEF AuditInvariant
<1>1. CASE UNCHANGED auditVars
  <2>1. AuditSound BY <1>1 DEF AuditInvariant, auditVars
  <2>2. UNCHANGED <<active, torn, rotated, at, event, prev, newest, written, lapses>>
    BY <1>1 DEF auditVars, auditFiles
  <2>3. PICK k \in 0..Len(written) : Trimmed(k) BY <2>1 DEF AuditSound
  <2>4. Trimmed(k)' /\ k \in 0..Len(written')
    BY <2>2, <2>3 DEF Trimmed, Covers, FullWhenTrimmed, IdsDiffer, ActiveStart, StartOf
  <2>5. Placed' BY <2>1, <2>2 DEF AuditSound, Placed, AuditTyped, Chained, ActiveIsTail, Segments,
                                   NamesInOrder, ActiveStart, StartOf
  <2>6. Appending' /\ Rotating' /\ TornIsKnown'
    BY <2>1, <2>2 DEF AuditSound, Appending, Rotating, TornIsKnown
  <2>7. Plain' = Plain BY <2>2 DEF Plain
  <2>8. Copies' BY SMTT(30), <2>1, <2>2, <2>7 DEF AuditSound, Copies, IsFirst, Sorts
  <2> QED BY <2>4, <2>5, <2>6, <2>8 DEF AuditSound
<1>2. CASE AuditNext
  <2>1. "clock" \notin lapses
    BY <1>2 DEF AuditNext, Begin, Rotate, Compress, Unlink, Retain, WriteRecord, SyncAppend,
                KillAppend, AppendStep
  <2>2. AuditSound BY <2>1 DEF AuditInvariant
  <2>3. TornIsKnown BY <2>2 DEF AuditSound
  <2>4. ASSUME NEW step, AppendStep(step, FALSE), step # "unlink" PROVE AuditSound'
    <3>1. /\ at' = "idle" /\ UNCHANGED <<active, rotated, written, torn, lapses>> /\ at # "unlink"
      BY <2>4 DEF AppendStep, Raise, auditFiles
    <3> QED BY <2>2, <2>3, <3>1, EndIsSound DEF TornIsKnown
  <2>5. CASE \E e \in Events : Begin(e) BY <2>2, <2>5, BeginIsSound
  <2>6. CASE Rotate
    <3>1. CASE AppendStep("rotate", FALSE) BY <2>4, <3>1
    <3>2. CASE ~AppendStep("rotate", FALSE)
      <4>1. PICK t : t = [time |-> Last(active).time, hash |-> Last(active).serial, gz |-> FALSE,
                          lines |-> active]
        OBVIOUS
      <4>2. /\ at = "rotate" /\ rotated' = rotated \cup {t} /\ active' = << >> /\ at' = "compress"
            /\ lapses' = IF \E f \in rotated : f.time >= Last(active).time
                         THEN lapses \cup {"clock"} ELSE lapses
            /\ UNCHANGED <<torn, event, prev, written>>
        BY <2>6, <3>2, <4>1 DEF Rotate, AppendStep
      <4> QED BY <2>2, <4>1, <4>2, RotateIsSound
    <3> QED BY <3>1, <3>2
  <2>7. CASE Compress
    <3>1. CASE AppendStep("compress", FALSE) BY <2>4, <3>1
    <3>2. CASE at = "compress" /\ Plain = {} /\ Proceed("retain")
               /\ UNCHANGED <<auditFiles, written, lapses, errors>>
      BY <2>2, <3>2, GoesOnIsSound DEF Proceed, auditFiles
    <3>3. ASSUME at = "compress", NEW f \in Plain, IsFirst(f, Plain),
                 rotated' = rotated \cup {[f EXCEPT !.gz = TRUE]}, Proceed("unlink"),
                 UNCHANGED <<active, torn, written, lapses>>
          PROVE  AuditSound'
      BY <2>2, <3>3, CompressIsSound DEF Proceed
    <3> QED BY <2>7, <3>1, <3>2, <3>3 DEF Compress, AppendStep
  <2>8. CASE Unlink
    <3>1. CASE Error /\ Raise /\ lapses' = lapses \cup {"copied"} /\ UNCHANGED rotated
      BY <2>2, <2>3, <2>8, <3>1, EndIsSound DEF Unlink, Raise, TornIsKnown
    <3>2. ASSUME NEW f \in Plain, IsFirst(f, Plain), rotated' = rotated \ {f}, Proceed("compress"),
                 UNCHANGED <<lapses, errors>>
          PROVE  AuditSound'
      BY <2>2, <2>8, <3>2, UnlinkIsSound DEF Unlink, Proceed
    <3> QED BY <2>8, <3>1, <3>2 DEF Unlink
  <2>9. CASE Retain
    <3>1. CASE AppendStep("retain", FALSE) BY <2>4, <3>1
    <3>2. CASE at = "retain" /\ Proceed("write") /\ UNCHANGED <<auditFiles, written, lapses, errors>>
      BY <2>2, <3>2, GoesOnIsSound DEF Proceed, auditFiles
    <3>3. ASSUME at = "retain", Cardinality(rotated) > Retention, NEW f \in rotated,
                 IsFirst(f, rotated), rotated' = rotated \ {f},
                 UNCHANGED <<active, torn, at, event, prev, newest, written, lapses>>
          PROVE  AuditSound'
      BY <2>2, <3>3, RetainIsSound
    <3> QED BY <2>9, <3>1, <3>2, <3>3 DEF Retain, AppendStep
  <2>10. CASE WriteRecord
    <3>1. CASE active' = Append(active, Record) /\ written' = Append(written, Record)
               /\ Proceed("sync") /\ UNCHANGED <<torn, errors, lapses>>
      BY <2>2, <2>10, <3>1, WriteIsSound DEF WriteRecord, Proceed
    <3>2. CASE /\ Error /\ Raise
               /\ \/ UNCHANGED <<torn, lapses>>
                  \/ torn' = TRUE /\ lapses' = lapses \cup {"torn"}
               /\ UNCHANGED <<active, written>>
      <4>1. at = "write" /\ at' = "idle" /\ UNCHANGED <<active, rotated, written>>
        BY <2>10, <3>2 DEF WriteRecord, Raise
      <4>2. torn' \in BOOLEAN /\ (torn' => "torn" \in lapses')
        <5>1. CASE UNCHANGED <<torn, lapses>> BY <2>3, <5>1 DEF TornIsKnown
        <5>2. CASE torn' = TRUE /\ lapses' = lapses \cup {"torn"} BY <5>2
        <5> QED BY <3>2, <5>1, <5>2
      <4>3. "copied" \in lapses' <=> "copied" \in lapses BY <3>2
      <4> QED BY <2>2, <4>1, <4>2, <4>3, EndIsSound
    <3> QED BY <2>10, <3>1, <3>2 DEF WriteRecord
  <2>11. CASE SyncAppend
    BY <2>2, <2>3, <2>11, EndIsSound DEF SyncAppend, AppendStep, Raise, TornIsKnown, auditFiles
  <2>12. CASE KillAppend
    BY <2>2, <2>3, <2>12, EndIsSound DEF KillAppend, Raise, TornIsKnown, auditFiles
  <2> QED BY <1>2, <2>5, <2>6, <2>7, <2>8, <2>9, <2>10, <2>11, <2>12 DEF AuditNext
<1> QED BY <1>1, <1>2

\* FilesystemAuditSink: as long as successive rotations have increasing
\* timestamps, every file holds consecutive records of one hash chain, the names
\* sort as the serial numbers, and only the oldest records have been removed.
THEOREM AuditIsInductive ==
    ASSUME AuditAssumption PROVE AuditSpec => []AuditInvariant
  BY AuditStarts, AuditContinues, PTL DEF AuditSpec

\* append and _validate_history: for any records, days, hashes, file sizes and
\* retention, the next append finds a valid history after an error or a kill at
\* any step but the ones that StaysUsable excepts.
THEOREM NextAppendIsAccepted ==
    ASSUME AuditAssumption PROVE AuditSpec => []StaysUsable
<1>1. ASSUME AuditInvariant PROVE StaysUsable
  <2> SUFFICES ASSUME at = "idle", lapses = {} PROVE HistoryValid BY DEF StaysUsable
  <2>1. AuditSound /\ Placed BY <1>1 DEF AuditInvariant, AuditSound
  <2>2. ~torn BY <2>1 DEF AuditSound, TornIsKnown
  <2>3. \A f, g \in rotated : f.hash = g.hash => f = g BY <2>1 DEF AuditSound, Copies
  <2>4. PICK k \in 0..Len(written) : Trimmed(k) BY <2>1 DEF AuditSound
  <2>5. k \in Nat /\ k <= Len(written) BY <2>1 DEF Placed, AuditTyped
  <2> QED BY <2>1, <2>2, <2>3, <2>4, <2>5, WholeHistoryIsValid
<1> QED BY <1>1, AuditIsInductive, PTL

\* _rotate and _compress_delayed: at every moment, also during a rotation, the
\* files hold exactly the most recent records, and none is missing before the
\* full number of rotations is kept.
THEOREM OnlyTheOldestAreRemoved ==
    ASSUME AuditAssumption PROVE AuditSpec => []RetainedSuffix
<1>1. ASSUME AuditInvariant PROVE RetainedSuffix
  <2> SUFFICES ASSUME "clock" \notin lapses
               PROVE  \E k \in 0..Len(written) :
                          /\ Retained = {written[i] : i \in (k + 1)..Len(written)}
                          /\ k > 0 => Cardinality(rotated) >= Retention
    BY DEF RetainedSuffix
  <2>1. AuditSound /\ Placed BY <1>1 DEF AuditInvariant, AuditSound
  <2>2. PICK k \in 0..Len(written) : Trimmed(k) BY <2>1 DEF AuditSound
  <2>3. k \in Nat BY <2>1 DEF Placed, AuditTyped
  <2>4. Retained = {written[i] : i \in (k + 1)..Len(written)}
    BY <2>1, <2>2, <2>3, RetainedIsSuffix DEF Trimmed
  <2> QED BY <2>2, <2>4 DEF Trimmed, FullWhenTrimmed
<1> QED BY <1>1, AuditIsInductive, PTL

-----------------------------------------------------------------------------
(* The key cache.                                                          *)

-----------------------------------------------------------------------------
(* The inductive invariant.                                                *)

IsRunning(t) == call[t].pc \in Running
HasFound(t) == call[t].pc \in {"stamp", "install"}

\* What the fields are.
CacheTyped ==
    /\ now \in Nat /\ version \in Nat /\ held \in Int /\ expires \in Int
    /\ serial \in Nat /\ completed \in Nat /\ staleness \in Int
    /\ published \subseteq Kids /\ keys \subseteq Kids
    /\ gone \in [Kids -> Nat]
    /\ \A k \in Kids : gone[k] <= now
    /\ call = [t \in Threads |-> call[t]]
    /\ \A t \in Threads :
           /\ call[t].pc \in {"idle", "waiting"} \cup Running
           /\ call[t].pc # "idle" => /\ call[t].serial \in Nat
                                     /\ call[t].since \in Nat
           /\ call[t].pc \in {"jwks", "stamp"} => call[t].found.ttl \in 0..MAX_CACHE_TTL
           /\ HasFound(t) => /\ call[t].found.keys \subseteq Kids
                             /\ call[t].found.version \in Nat
           /\ call[t].pc = "install" => call[t].found.until \in Nat

\* A serial names one refresh, and _refreshing one that is running.
RefreshSerials ==
    /\ completed <= serial
    /\ \A t \in Threads : call[t].pc # "idle" => call[t].serial <= serial
    /\ \A t \in Threads : IsRunning(t) => call[t].serial # completed
    /\ \A t, u \in Threads :
           IsRunning(t) /\ IsRunning(u) /\ call[t].serial = call[u].serial => t = u
    /\ refreshing => \E t \in Threads : IsRunning(t) /\ call[t].serial = serial

\* How old the keys are that a call may still use.
TimelyFresh ==
    /\ \A t \in Threads :
           call[t].pc # "idle" => call[t].since <= now /\ now <= call[t].since + MaxDelay
    /\ \A t \in Threads : HasFound(t) =>
           \A k \in call[t].found.keys : call[t].since <= LastPublished(k)
    /\ \A t \in Threads : call[t].pc = "install" =>
           call[t].found.until <= call[t].since + MaxDelay + MAX_CACHE_TTL
    /\ \A k \in keys : expires <= LastPublished(k) + MaxDelay + MAX_CACHE_TTL
    /\ \A t \in Threads :
           (call[t].pc = "waiting" /\ completed = call[t].serial /\ success) =>
               \A k \in keys : call[t].since <= LastPublished(k) + MaxDelay

\* Which refreshes may run beside one another.
RefreshesOrdered ==
    /\ held <= version
    /\ \A t \in Threads : HasFound(t) => call[t].found.version <= version
    /\ ~overslept =>
           \A t \in Threads :
               /\ IsRunning(t) => refreshing /\ call[t].serial = serial
               /\ HasFound(t) => held <= call[t].found.version

CacheInvariant == CacheTyped /\ RefreshSerials /\ TimelyFresh /\ RefreshesOrdered /\ KeyIsTimely

-----------------------------------------------------------------------------
(* Facts about single steps.                                               *)

\* The empty cache satisfies the invariant.
LEMMA CacheInitInvariant == ASSUME CacheAssumption, CacheInit PROVE CacheInvariant
<1>1. \A t \in Threads : call[t].pc = "idle"
  BY DEF CacheInit, Idle
<1>2. CacheTyped
  <2>1. call = [t \in Threads |-> call[t]]
    BY DEF CacheInit
  <2>2. gone \in [Kids -> Nat] /\ \A k \in Kids : gone[k] <= now
    BY DEF CacheInit
  <2>3. published \subseteq Kids /\ keys \subseteq Kids
    BY DEF CacheInit
  <2>4. /\ now \in Nat /\ version \in Nat /\ held \in Int /\ expires \in Int
        /\ serial \in Nat /\ completed \in Nat /\ staleness \in Int
    BY DEF CacheInit
  <2> QED BY <1>1, <2>1, <2>2, <2>3, <2>4 DEF CacheTyped, HasFound, Running
<1>3. RefreshSerials
  BY <1>1 DEF CacheInit, RefreshSerials, IsRunning, Running
<1>4. TimelyFresh
  BY <1>1 DEF CacheInit, TimelyFresh, HasFound
<1>5. RefreshesOrdered
  BY <1>1 DEF CacheInit, RefreshesOrdered, IsRunning, HasFound, Running
<1>6. KeyIsTimely
  BY DEF CacheInit, KeyIsTimely, CacheAssumption
<1> QED BY <1>2, <1>3, <1>4, <1>5, <1>6 DEF CacheInvariant

\* A key is last published at a time that has passed.
LEMMA LastPublishedPast ==
    ASSUME CacheTyped, NEW k \in Kids
    PROVE  LastPublished(k) \in Nat /\ LastPublished(k) <= now
BY DEF CacheTyped, LastPublished

\* While time and the issuer stand still, so does the last publication.
LEMMA LastPublishedKept ==
    ASSUME UNCHANGED <<now, issuer>>, NEW k
    PROVE  LastPublished(k)' = LastPublished(k)
BY DEF issuer, LastPublished

\* A rotation and a tick never bring it forward.
LEMMA LastPublishedGrows ==
    ASSUME CacheTyped, IssuerRotates \/ Tick, NEW k \in Kids
    PROVE  LastPublished(k)' >= LastPublished(k)
<1>1. CASE IssuerRotates
  BY <1>1 DEF CacheTyped, IssuerRotates, LastPublished
<1>2. CASE Tick
  BY <1>2 DEF CacheTyped, Tick, issuer, LastPublished
<1> QED BY <1>1, <1>2

\* Using a key that is fresh enough keeps the bound on staleness.
LEMMA DecodeIsTimely ==
    ASSUME CacheTyped, CacheAssumption, KeyIsTimely, NEW k \in Kids, Decode(k),
           now - LastPublished(k) <= MAX_CACHE_TTL + MaxDelay
    PROVE  staleness' \in Int /\ KeyIsTimely'
BY LastPublishedPast DEF CacheTyped, CacheAssumption, KeyIsTimely, Decode

-----------------------------------------------------------------------------
(* The steps of a call.                                                    *)

\* The refresher's next step between two holds of the condition.
LEMMA CacheStepInvariant ==
    ASSUME CacheAssumption, CacheInvariant, NEW t \in Threads,
           NEW from \in Running, NEW next \in Running, NEW found, CacheStep(t, from, next, found),
           next \in {"jwks", "stamp"} => found.ttl \in 0..MAX_CACHE_TTL,
           next \in {"stamp", "install"} =>
               /\ found.keys \subseteq Kids
               /\ found.version \in Nat
               /\ found.version <= version
               /\ \A k \in found.keys : call[t].since <= LastPublished(k)
               /\ ~overslept => held <= found.version,
           next = "install" =>
               /\ found.until \in Nat
               /\ found.until <= call[t].since + MaxDelay + MAX_CACHE_TTL
    PROVE  CacheInvariant'
<1>1. /\ call' = [u \in Threads |-> call'[u]]
      /\ \A u \in Threads : u # t => call'[u] = call[u]
      /\ call'[t].pc = next
      /\ call'[t].serial = call[t].serial
      /\ call'[t].since = call[t].since
      /\ call'[t].found = found
  BY DEF CacheInvariant, CacheTyped, CacheStep
<1>2. /\ UNCHANGED <<now, issuer, stored, flight, history>>
      /\ call[t].pc = from
  BY DEF CacheStep
<1>3. \A k : LastPublished(k)' = LastPublished(k)
  BY <1>2, LastPublishedKept
<1>4. from # "idle" /\ next # "idle" /\ next # "waiting"
  BY DEF Running
<1>5. \A u \in Threads : IsRunning(u)' <=> IsRunning(u)
  BY <1>1, <1>2 DEF IsRunning
<1>6. CacheTyped'
  BY <1>1, <1>2, <1>4
     DEF CacheInvariant, CacheTyped, issuer, stored, flight, history, HasFound
<1>7. RefreshSerials'
  <2>1. \A u \in Threads : (call'[u].pc # "idle" <=> call[u].pc # "idle") /\ call'[u].serial = call[u].serial
    BY <1>1, <1>2, <1>4
  <2> QED BY <1>2, <1>5, <2>1 DEF CacheInvariant, RefreshSerials, flight
<1>8. TimelyFresh'
  BY <1>1, <1>2, <1>3, <1>4 DEF CacheInvariant, TimelyFresh, stored, flight, HasFound
<1>9. RefreshesOrdered'
  BY <1>1, <1>2, <1>5 DEF CacheInvariant, RefreshesOrdered, issuer, stored, flight, history, HasFound
<1>10. KeyIsTimely'
  BY <1>2 DEF CacheInvariant, KeyIsTimely, history
<1> QED BY <1>6, <1>7, <1>8, <1>9, <1>10 DEF CacheInvariant

\* A call that is not the refresher ends.
LEMMA EndInvariant ==
    ASSUME CacheInvariant, NEW t \in Threads, ~IsRunning(t),
           call' = [call EXCEPT ![t] = Idle], staleness' \in Int, KeyIsTimely',
           UNCHANGED <<now, issuer, stored, flight, overslept>>
    PROVE  CacheInvariant'
<1>1. /\ call' = [u \in Threads |-> call'[u]]
      /\ \A u \in Threads : u # t => call'[u] = call[u]
      /\ call'[t].pc = "idle"
  BY DEF CacheInvariant, CacheTyped, Idle
<1>2. \A k : LastPublished(k)' = LastPublished(k)
  BY LastPublishedKept
<1>3. \A u \in Threads : IsRunning(u)' <=> IsRunning(u)
  BY <1>1 DEF IsRunning, Running
<1>4. CacheTyped'
  BY <1>1 DEF CacheInvariant, CacheTyped, issuer, stored, flight, HasFound
<1>5. RefreshSerials'
  BY <1>1, <1>3 DEF CacheInvariant, RefreshSerials, flight, IsRunning
<1>6. TimelyFresh'
  BY <1>1, <1>2 DEF CacheInvariant, TimelyFresh, stored, flight, HasFound
<1>7. RefreshesOrdered'
  BY <1>1, <1>3 DEF CacheInvariant, RefreshesOrdered, issuer, stored, flight, HasFound, IsRunning
<1> QED BY <1>4, <1>5, <1>6, <1>7 DEF CacheInvariant

\* A call becomes the refresher.
LEMMA StartInvariant ==
    ASSUME CacheInvariant, NEW t \in Threads, ~IsRunning(t), NEW kid, NEW since \in Nat,
           since <= now, now <= since + MaxDelay, StartRefresh(t, kid, since),
           UNCHANGED <<now, issuer, stored>>, ~overslept' => ~overslept /\ ~refreshing
    PROVE  CacheInvariant'
<1>1. /\ call' = [u \in Threads |-> call'[u]]
      /\ \A u \in Threads : u # t => call'[u] = call[u]
      /\ call'[t].pc = "discovery"
      /\ call'[t].serial = serial + 1
      /\ call'[t].since = since
  BY DEF CacheInvariant, CacheTyped, StartRefresh
<1>2. /\ refreshing' = TRUE
      /\ serial' = serial + 1
      /\ UNCHANGED <<completed, staleness>>
  BY DEF StartRefresh
<1>3. \A k : LastPublished(k)' = LastPublished(k)
  BY LastPublishedKept
<1>4. IsRunning(t)' /\ \A u \in Threads : u # t => (IsRunning(u)' <=> IsRunning(u))
  BY <1>1 DEF IsRunning, Running
<1>5. CacheTyped'
  BY <1>1, <1>2 DEF CacheInvariant, CacheTyped, issuer, stored, HasFound, Running
<1>6. /\ serial \in Nat /\ completed \in Nat
      /\ \A u \in Threads : call[u].pc # "idle" => call[u].serial \in Nat
      /\ \A u \in Threads : IsRunning(u) => call[u].pc # "idle"
  BY DEF CacheInvariant, CacheTyped, IsRunning, Running
<1>7. RefreshSerials'
  <2>1. RefreshSerials
    BY DEF CacheInvariant
  <2>2. (completed <= serial)'
    BY <1>2, <1>6, <2>1 DEF RefreshSerials
  <2>3. \A u \in Threads : call'[u].pc # "idle" => call'[u].serial <= serial'
    BY <1>1, <1>2, <1>6, <2>1 DEF RefreshSerials
  <2>4. \A u \in Threads : IsRunning(u)' => call'[u].serial # completed'
    BY <1>1, <1>2, <1>4, <1>6, <2>1 DEF RefreshSerials
  <2>5. \A u, v \in Threads :
            IsRunning(u)' /\ IsRunning(v)' /\ call'[u].serial = call'[v].serial => u = v
    <3>1. \A u \in Threads : IsRunning(u) => call[u].serial # serial + 1
      BY <1>6, <2>1 DEF RefreshSerials
    <3>2. \A u \in Threads : IsRunning(u)' /\ call'[u].serial = serial + 1 => u = t
      BY <1>1, <1>4, <3>1
    <3>3. \A u, v \in Threads :
              u # t /\ v # t /\ IsRunning(u)' /\ IsRunning(v)'
              /\ call'[u].serial = call'[v].serial => u = v
      BY <1>1, <1>4, <2>1 DEF RefreshSerials
    <3> QED BY <1>1, <3>2, <3>3
  <2>6. IsRunning(t)' /\ call'[t].serial = serial'
    BY <1>1, <1>2, <1>4
  <2> QED BY <2>2, <2>3, <2>4, <2>5, <2>6 DEF RefreshSerials
<1>8. TimelyFresh'
  BY <1>1, <1>2, <1>3 DEF CacheInvariant, TimelyFresh, stored, HasFound
<1>9. RefreshesOrdered'
  BY <1>1, <1>2, <1>4 DEF CacheInvariant, RefreshesOrdered, issuer, stored, HasFound
<1>10. KeyIsTimely'
  BY <1>2 DEF CacheInvariant, KeyIsTimely
<1> QED BY <1>5, <1>7, <1>8, <1>9, <1>10 DEF CacheInvariant

\* get_key answers from the cache, joins the refresh in progress or starts one.
LEMMA GetKeyInvariant ==
    ASSUME CacheAssumption, CacheInvariant, NEW t \in Threads, NEW kid \in Kids,
           GetKey(t, kid)
    PROVE  CacheInvariant'
<1>1. ~IsRunning(t) /\ now \in Nat
  BY DEF GetKey, IsRunning, Running, CacheInvariant, CacheTyped
<1>2. UNCHANGED <<now, issuer, stored>>
  BY DEF GetKey
<1>3. CASE Cached(kid) /\ Return(t, kid, keys) /\ UNCHANGED <<flight, overslept>>
  <2>1. kid \in keys /\ Decode(kid)
    BY <1>3 DEF Cached, Return
  <2>2. now - LastPublished(kid) <= MAX_CACHE_TTL + MaxDelay
    BY <1>3, <2>1, LastPublishedPast
       DEF Cached, CacheInvariant, CacheTyped, TimelyFresh, CacheAssumption
  <2>3. staleness' \in Int /\ KeyIsTimely'
    BY <2>1, <2>2, DecodeIsTimely DEF CacheInvariant
  <2> QED BY <1>1, <1>2, <1>3, <2>3, EndInvariant DEF Return
<1>4. CASE /\ ~Cached(kid) /\ refreshing
           /\ call' = [call EXCEPT ![t] = [pc |-> "waiting", kid |-> kid, serial |-> serial,
                                           since |-> now]]
           /\ UNCHANGED <<flight, history>>
  <2>1. /\ call' = [u \in Threads |-> call'[u]]
        /\ \A u \in Threads : u # t => call'[u] = call[u]
        /\ call'[t].pc = "waiting"
        /\ call'[t].serial = serial
        /\ call'[t].since = now
    BY <1>4 DEF CacheInvariant, CacheTyped
  <2>2. \A k : LastPublished(k)' = LastPublished(k)
    BY <1>2, LastPublishedKept
  <2>3. \A u \in Threads : IsRunning(u)' <=> IsRunning(u)
    BY <1>1, <2>1 DEF IsRunning, Running
  <2>4. completed # serial
    BY <1>4 DEF CacheInvariant, RefreshSerials
  <2>5. CacheTyped'
    BY <1>2, <1>4, <2>1 DEF CacheInvariant, CacheTyped, issuer, stored, flight, history, HasFound, Running
  <2>6. RefreshSerials'
    BY <1>1, <1>4, <2>1, <2>3 DEF CacheInvariant, RefreshSerials, CacheTyped, flight
  <2>7. TimelyFresh'
    BY <1>2, <1>4, <2>1, <2>2, <2>4
       DEF CacheInvariant, CacheTyped, TimelyFresh, stored, flight, HasFound, CacheAssumption
  <2>8. RefreshesOrdered'
    BY <1>1, <1>2, <1>4, <2>1, <2>3 DEF CacheInvariant, RefreshesOrdered, issuer, stored, flight, history, HasFound
  <2>9. KeyIsTimely'
    BY <1>4 DEF CacheInvariant, KeyIsTimely, history
  <2> QED BY <2>5, <2>6, <2>7, <2>8, <2>9 DEF CacheInvariant
<1>5. CASE ~Cached(kid) /\ ~refreshing /\ StartRefresh(t, kid, now) /\ UNCHANGED overslept
  <2>1. now <= now + MaxDelay
    BY <1>1 DEF CacheAssumption
  <2> QED BY <1>1, <1>2, <1>5, <2>1, StartInvariant
<1> QED BY <1>3, <1>4, <1>5 DEF GetKey

\* A waiter takes the outcome of the refresh it joined, or starts its own.
LEMMA WakeInvariant ==
    ASSUME CacheAssumption, CacheInvariant, NEW t \in Threads, Wake(t)
    PROVE  CacheInvariant'
<1>1. ~IsRunning(t) /\ call[t].pc = "waiting"
  BY DEF Wake, IsRunning, Running
<1>2. UNCHANGED <<now, issuer, stored>>
  BY DEF Wake
<1>3. CASE completed = call[t].serial
  <2>1. UNCHANGED <<flight, overslept>> /\ call' = [call EXCEPT ![t] = Idle]
    BY <1>3 DEF Wake, Return, Unavailable
  <2>2. CASE success /\ call[t].kid \in keys
    <3>1. Decode(call[t].kid)
      BY <1>3, <2>2 DEF Wake, Return
    <3>2. call[t].kid \in Kids
      BY <2>2 DEF CacheInvariant, CacheTyped
    <3>3. now - LastPublished(call[t].kid) <= MAX_CACHE_TTL + MaxDelay
      BY <1>1, <1>3, <2>2, <3>2, LastPublishedPast
         DEF CacheInvariant, CacheTyped, TimelyFresh, CacheAssumption
    <3>4. staleness' \in Int /\ KeyIsTimely'
      BY <3>1, <3>2, <3>3, DecodeIsTimely DEF CacheInvariant
    <3> QED BY <1>1, <1>2, <2>1, <3>4, EndInvariant
  <2>3. CASE ~(success /\ call[t].kid \in keys)
    <3>1. UNCHANGED staleness
      BY <1>3, <2>3 DEF Wake, Return, Unavailable
    <3>2. staleness' \in Int /\ KeyIsTimely'
      BY <3>1 DEF CacheInvariant, CacheTyped, KeyIsTimely
    <3> QED BY <1>1, <1>2, <2>1, <3>2, EndInvariant
  <2> QED BY <2>2, <2>3
<1>4. CASE completed # call[t].serial
  <2>1. StartRefresh(t, call[t].kid, call[t].since) /\ (~overslept' => ~overslept /\ ~refreshing)
    BY <1>4 DEF Wake
  <2>2. call[t].since \in Nat /\ call[t].since <= now /\ now <= call[t].since + MaxDelay
    BY <1>1 DEF CacheInvariant, CacheTyped, TimelyFresh
  <2> QED BY <1>1, <1>2, <2>1, <2>2, StartInvariant
<1> QED BY <1>3, <1>4

\* The refresh fails and its waiters are told.
LEMMA FailInvariant ==
    ASSUME CacheInvariant, NEW t \in Threads, Fail(t)
    PROVE  CacheInvariant'
<1>1. /\ call' = [u \in Threads |-> call'[u]]
      /\ \A u \in Threads : u # t => call'[u] = call[u]
      /\ call'[t].pc = "idle"
  BY DEF CacheInvariant, CacheTyped, Fail, Unavailable, Idle
<1>2. /\ refreshing' = FALSE /\ completed' = call[t].serial /\ success' = FALSE
      /\ UNCHANGED <<now, issuer, keys, held, expires, serial, overslept, staleness>>
  BY DEF Fail, Unavailable
<1>3. \A k : LastPublished(k)' = LastPublished(k)
  BY <1>2, LastPublishedKept
<1>4. IsRunning(t) /\ call[t].pc # "idle"
  BY DEF Fail, IsRunning, Running
<1>5. ~IsRunning(t)' /\ \A u \in Threads : u # t => (IsRunning(u)' <=> IsRunning(u))
  BY <1>1 DEF IsRunning, Running
<1>6. CacheTyped'
  BY <1>1, <1>2, <1>4 DEF CacheInvariant, CacheTyped, issuer, HasFound
<1>7. RefreshSerials'
  BY <1>1, <1>2, <1>4, <1>5 DEF CacheInvariant, RefreshSerials
<1>8. TimelyFresh'
  BY <1>1, <1>2, <1>3 DEF CacheInvariant, TimelyFresh, HasFound
<1>9. RefreshesOrdered'
  <2>1. ~overslept' => \A u \in Threads : ~IsRunning(u)'
    BY <1>2, <1>4, <1>5 DEF CacheInvariant, RefreshesOrdered, RefreshSerials
  <2>2. \A u \in Threads : HasFound(u)' => IsRunning(u)'
    BY DEF HasFound, IsRunning, Running
  <2>3. \A u \in Threads : HasFound(u)' => call'[u].found.version <= version'
    BY <1>1, <1>2 DEF CacheInvariant, RefreshesOrdered, HasFound, issuer
  <2>4. (held <= version)'
    BY <1>2 DEF CacheInvariant, RefreshesOrdered, issuer
  <2> QED BY <2>1, <2>2, <2>3, <2>4 DEF RefreshesOrdered
<1>10. KeyIsTimely'
  BY <1>2 DEF CacheInvariant, KeyIsTimely
<1> QED BY <1>6, <1>7, <1>8, <1>9, <1>10 DEF CacheInvariant

\* The refresh succeeds.  The keys were published when it asked, and it has not
\* taken longer than a call may; so has no waiter that it wakes.
LEMMA InstallInvariant ==
    ASSUME CacheAssumption, CacheInvariant, NEW t \in Threads, Install(t)
    PROVE  CacheInvariant'
<1> DEFINE kid == call[t].kid
           found == call[t].found
<1>1. /\ call' = [u \in Threads |-> call'[u]]
      /\ \A u \in Threads : u # t => call'[u] = call[u]
      /\ call'[t].pc = "idle"
  BY DEF CacheInvariant, CacheTyped, Install, Return, Idle
<1>2. /\ keys' = found.keys /\ held' = found.version /\ expires' = found.until
      /\ refreshing' = FALSE /\ completed' = call[t].serial /\ success' = TRUE
      /\ UNCHANGED <<now, issuer, serial, overslept>>
  BY DEF Install
<1>3. \A k : LastPublished(k)' = LastPublished(k)
  BY <1>2, LastPublishedKept
<1>4. IsRunning(t) /\ HasFound(t) /\ call[t].pc = "install"
  BY DEF Install, IsRunning, HasFound, Running
<1>5. ~IsRunning(t)' /\ \A u \in Threads : u # t => (IsRunning(u)' <=> IsRunning(u))
  BY <1>1 DEF IsRunning, Running
<1>6. staleness' \in Int /\ KeyIsTimely'
  <2>1. CASE kid \in found.keys
    <3>1. Decode(kid)
      BY <2>1 DEF Install, Return
    <3>2. kid \in Kids
      BY <1>4, <2>1 DEF CacheInvariant, CacheTyped
    <3>3. now - LastPublished(kid) <= MAX_CACHE_TTL + MaxDelay
      BY <1>4, <2>1, <3>2, LastPublishedPast
         DEF CacheInvariant, CacheTyped, TimelyFresh, CacheAssumption
    <3> QED BY <3>1, <3>2, <3>3, DecodeIsTimely DEF CacheInvariant
  <2>2. CASE kid \notin found.keys
    BY <2>2 DEF Install, Return, CacheInvariant, CacheTyped, KeyIsTimely
  <2> QED BY <2>1, <2>2
<1>7. CacheTyped'
  BY <1>1, <1>2, <1>4, <1>6 DEF CacheInvariant, CacheTyped, issuer, HasFound
<1>8. RefreshSerials'
  BY <1>1, <1>2, <1>4, <1>5 DEF CacheInvariant, RefreshSerials
<1>9. TimelyFresh'
  <2>1. /\ call[t].since \in Nat /\ now \in Nat /\ now <= call[t].since + MaxDelay
        /\ found.keys \subseteq Kids /\ found.until \in Nat
        /\ found.until <= call[t].since + MaxDelay + MAX_CACHE_TTL
        /\ \A k \in found.keys : call[t].since <= LastPublished(k)
    BY <1>4 DEF CacheInvariant, CacheTyped, TimelyFresh
  <2>2. \A k \in found.keys : LastPublished(k) \in Nat
    BY <2>1, LastPublishedPast DEF CacheInvariant
  <2>3. \A k \in keys' : expires' <= LastPublished(k)' + MaxDelay + MAX_CACHE_TTL
    BY <1>2, <1>3, <2>1, <2>2 DEF CacheAssumption
  <2>4. \A u \in Threads : call'[u].pc = "waiting" =>
            \A k \in keys' : call'[u].since <= LastPublished(k)' + MaxDelay
    <3> SUFFICES ASSUME NEW u \in Threads, call'[u].pc = "waiting", NEW k \in keys'
                 PROVE  call'[u].since <= LastPublished(k)' + MaxDelay
      OBVIOUS
    <3>1. call'[u] = call[u] /\ call[u].since \in Nat /\ call[u].since <= now
      BY <1>1 DEF CacheInvariant, CacheTyped, TimelyFresh
    <3>2. call[t].since <= LastPublished(k)' /\ LastPublished(k)' \in Nat
      BY <1>2, <1>3, <2>1, <2>2
    <3> QED BY <2>1, <3>1, <3>2 DEF CacheAssumption
  <2> QED BY <1>1, <1>2, <1>3, <2>3, <2>4 DEF CacheInvariant, TimelyFresh, HasFound
<1>10. RefreshesOrdered'
  <2>1. ~overslept' => \A u \in Threads : ~IsRunning(u)'
    BY <1>2, <1>4, <1>5 DEF CacheInvariant, RefreshesOrdered, RefreshSerials
  <2>2. \A u \in Threads : HasFound(u)' => IsRunning(u)'
    BY DEF HasFound, IsRunning, Running
  <2>3. \A u \in Threads : HasFound(u)' => call'[u].found.version <= version'
    BY <1>1, <1>2 DEF CacheInvariant, RefreshesOrdered, HasFound, issuer
  <2>4. (held <= version)'
    BY <1>2, <1>4 DEF CacheInvariant, RefreshesOrdered, issuer
  <2> QED BY <2>1, <2>2, <2>3, <2>4 DEF RefreshesOrdered
<1> QED BY <1>6, <1>7, <1>8, <1>9, <1>10 DEF CacheInvariant

\* The fetch of the discovery document.
LEMMA FetchDiscoveryInvariant ==
    ASSUME CacheAssumption, CacheInvariant, NEW t \in Threads, FetchDiscovery(t)
    PROVE  CacheInvariant'
<1>1. {"discovery", "jwks", "fail"} \subseteq Running
  BY DEF Running
<1>2. CASE CacheStep(t, "discovery", "fail", << >>)
  BY <1>1, <1>2, CacheStepInvariant
<1>3. ASSUME NEW ttl \in CacheTtl, CacheStep(t, "discovery", "jwks", [ttl |-> ttl])
      PROVE  CacheInvariant'
  BY <1>1, <1>3, CacheStepInvariant DEF CacheTtl
<1> QED BY <1>2, <1>3 DEF FetchDiscovery, Fetch

\* The fetch of the keys: they are published at this moment, and no set that
\* was read before is newer.
LEMMA FetchJwksInvariant ==
    ASSUME CacheAssumption, CacheInvariant, NEW t \in Threads, FetchJwks(t)
    PROVE  CacheInvariant'
<1> DEFINE Answer(ttl) == [ttl |-> Shorter(call[t].found.ttl, ttl), keys |-> published,
                           version |-> version]
<1>1. {"jwks", "stamp", "fail"} \subseteq Running
  BY DEF Running
<1>2. CASE CacheStep(t, "jwks", "fail", << >>)
  BY <1>1, <1>2, CacheStepInvariant
<1>3. ASSUME NEW ttl \in CacheTtl, CacheStep(t, "jwks", "stamp", Answer(ttl))
      PROVE  CacheInvariant'
  <2>1. call[t].pc = "jwks"
    BY <1>3 DEF CacheStep
  <2>2. Answer(ttl).ttl \in 0..MAX_CACHE_TTL
    BY <2>1 DEF CacheInvariant, CacheTyped, Shorter, CacheTtl
  <2>3. \A k \in Answer(ttl).keys : call[t].since <= LastPublished(k)
    BY <2>1 DEF CacheInvariant, TimelyFresh, LastPublished
  <2>4. /\ Answer(ttl).keys \subseteq Kids
        /\ Answer(ttl).version \in Nat /\ Answer(ttl).version <= version
        /\ held <= Answer(ttl).version
    BY DEF CacheInvariant, CacheTyped, RefreshesOrdered
  <2> HIDE DEF Answer
  <2> QED BY <1>1, <1>3, <2>2, <2>3, <2>4, CacheStepInvariant
<1> QED BY <1>2, <1>3 DEF FetchJwks, Fetch

\* The expiry is set from the clock as it is then.
LEMMA StampInvariant ==
    ASSUME CacheAssumption, CacheInvariant, NEW t \in Threads, Stamp(t)
    PROVE  CacheInvariant'
<1> DEFINE found == call[t].found
           stamped == [keys |-> found.keys, version |-> found.version,
                       until |-> now + found.ttl]
<1>1. CacheStep(t, "stamp", "install", stamped)
  BY DEF Stamp
<1>2. {"stamp", "install"} \subseteq Running
  BY DEF Running
<1>3. call[t].pc = "stamp"
  BY <1>1 DEF CacheStep
<1>4. stamped.until \in Nat /\ stamped.until <= call[t].since + MaxDelay + MAX_CACHE_TTL
  BY <1>3 DEF CacheInvariant, CacheTyped, TimelyFresh, CacheAssumption
<1>5. /\ stamped.keys \subseteq Kids
      /\ stamped.version \in Nat
      /\ stamped.version <= version
      /\ \A k \in stamped.keys : call[t].since <= LastPublished(k)
      /\ ~overslept => held <= stamped.version
  BY <1>3 DEF CacheInvariant, CacheTyped, TimelyFresh, RefreshesOrdered, HasFound
<1> HIDE DEF stamped
<1> QED BY <1>1, <1>2, <1>4, <1>5, CacheStepInvariant

-----------------------------------------------------------------------------
(* The environment.                                                        *)

\* The issuer rotates: what a call holds becomes no younger, but is dated by
\* when it was published.
LEMMA RotateInvariant == ASSUME CacheAssumption, CacheInvariant, IssuerRotates PROVE CacheInvariant'
<1>1. UNCHANGED <<now, stored, flight, call, history>> /\ version' = version + 1
  BY DEF IssuerRotates
<1>2. \A k \in Kids : /\ LastPublished(k) \in Nat /\ LastPublished(k) <= now
                      /\ LastPublished(k)' >= LastPublished(k)
                      /\ LastPublished(k)' \in Nat
  <2>1. gone' \in [Kids -> Nat] /\ now' \in Nat
    BY LastPublishedPast DEF CacheInvariant, CacheTyped, IssuerRotates
  <2> QED BY <2>1, LastPublishedPast, LastPublishedGrows DEF CacheInvariant, LastPublished
<1>3. CacheTyped'
  BY <1>1, <1>2 DEF CacheInvariant, CacheTyped, IssuerRotates, stored, flight, history, HasFound
<1>4. RefreshSerials'
  BY <1>1 DEF CacheInvariant, RefreshSerials, IsRunning, flight
<1>5. TimelyFresh'
  BY <1>1, <1>2 DEF CacheInvariant, CacheTyped, TimelyFresh, HasFound, stored, flight, CacheAssumption
<1>6. RefreshesOrdered'
  BY <1>1 DEF CacheInvariant, CacheTyped, RefreshesOrdered, HasFound, IsRunning, stored, flight, history
<1>7. KeyIsTimely'
  BY <1>1 DEF CacheInvariant, KeyIsTimely, history
<1> QED BY <1>3, <1>4, <1>5, <1>6, <1>7 DEF CacheInvariant

\* Time passes only while every call has some left.
LEMMA TickInvariant == ASSUME CacheAssumption, CacheInvariant, Tick PROVE CacheInvariant'
<1>1. UNCHANGED <<issuer, stored, flight, call, history>> /\ now' = now + 1
  BY DEF Tick
<1>2. \A k \in Kids : /\ LastPublished(k) \in Nat
                      /\ LastPublished(k)' >= LastPublished(k)
                      /\ LastPublished(k)' \in Nat
  <2>1. gone' \in [Kids -> Nat] /\ now' \in Nat
    BY <1>1 DEF CacheInvariant, CacheTyped, issuer
  <2> QED BY <2>1, LastPublishedPast, LastPublishedGrows DEF CacheInvariant, LastPublished
<1>3. CacheTyped'
  BY <1>1 DEF CacheInvariant, CacheTyped, issuer, stored, flight, history, HasFound
<1>4. RefreshSerials'
  BY <1>1 DEF CacheInvariant, RefreshSerials, IsRunning, flight
<1>5. TimelyFresh'
  <2>1. \A t \in Threads : call[t].pc # "idle" =>
            call[t].since \in Nat /\ call[t].since <= now + 1 /\ now + 1 <= call[t].since + MaxDelay
    BY DEF CacheInvariant, CacheTyped, TimelyFresh, Tick, CacheAssumption
  <2> QED BY <1>1, <1>2, <2>1
          DEF CacheInvariant, CacheTyped, TimelyFresh, HasFound, stored, flight, CacheAssumption
<1>6. RefreshesOrdered'
  BY <1>1 DEF CacheInvariant, RefreshesOrdered, HasFound, IsRunning, issuer, stored, flight, history
<1>7. KeyIsTimely'
  BY <1>1 DEF CacheInvariant, KeyIsTimely, history
<1> QED BY <1>3, <1>4, <1>5, <1>6, <1>7 DEF CacheInvariant

-----------------------------------------------------------------------------
(* The theorems.                                                           *)

\* No step leaves the invariant.
LEMMA CacheNextInvariant ==
    ASSUME CacheAssumption, CacheInvariant, [CacheNext]_cacheVars PROVE CacheInvariant'
<1>1. CASE UNCHANGED cacheVars
  BY <1>1 DEF CacheInvariant, CacheTyped, RefreshSerials, TimelyFresh, RefreshesOrdered, KeyIsTimely, IsRunning, HasFound,
              LastPublished, cacheVars, issuer, stored, flight, history
<1>2. CASE CacheNext
  BY <1>2, GetKeyInvariant, WakeInvariant, FetchDiscoveryInvariant, FetchJwksInvariant,
     StampInvariant, FailInvariant, InstallInvariant, RotateInvariant, TickInvariant
     DEF CacheNext
<1> QED BY <1>1, <1>2

\* The inductive invariant of the cache holds for any threads and keys.
THEOREM CacheIsInvariant == ASSUME CacheAssumption PROVE CacheSpec => []CacheInvariant
<1>1. CacheInit => CacheInvariant
  BY CacheInitInvariant
<1>2. CacheInvariant /\ [CacheNext]_cacheVars => CacheInvariant'
  BY CacheNextInvariant
<1> QED BY <1>1, <1>2, PTL DEF CacheSpec

\* GitHubJWKSCache: a key is never used longer after the issuer withdrew it
\* than the longest reuse and the duration of one call.
THEOREM WithdrawnKeyExpires == ASSUME CacheAssumption PROVE CacheSpec => []KeyIsTimely
<1>1. CacheInvariant => KeyIsTimely
  BY DEF CacheInvariant
<1> QED BY <1>1, CacheIsInvariant, PTL

\* get_key: nobody waits for a refresh that no thread is running.
THEOREM NobodyWaitsInVain == ASSUME CacheAssumption PROVE CacheSpec => []WaiterHasRefresher
<1>1. CacheInvariant => WaiterHasRefresher
  BY DEF CacheInvariant, RefreshSerials, WaiterHasRefresher, Awake, IsRunning
<1> QED BY <1>1, CacheIsInvariant, PTL

\* get_key: the cached set is only replaced by one that is not older, as long
\* as no waiter has started a refresh beside another.
THEOREM CacheGoesForward == ASSUME CacheAssumption PROVE CacheSpec => CacheMovesForward
<1>1. CacheInvariant /\ [CacheNext]_cacheVars => [~overslept' => held' >= held]_cacheVars
  <2> SUFFICES ASSUME CacheInvariant, CacheNext, ~overslept' PROVE held' >= held
    OBVIOUS
  <2>1. held \in Int
    BY DEF CacheInvariant, CacheTyped
  <2>2. CASE \E t \in Threads : Install(t)
    BY <2>2 DEF CacheInvariant, CacheTyped, RefreshesOrdered, HasFound, Install
  <2>3. CASE ~\E t \in Threads : Install(t)
    <3>1. held' = held
      BY <2>3 DEF CacheNext, GetKey, Wake, FetchDiscovery, FetchJwks, Fetch, Stamp, CacheStep, Fail,
                  IssuerRotates, Tick, stored
    <3> QED BY <2>1, <3>1
  <2> QED BY <2>2, <2>3
<1> QED BY <1>1, CacheIsInvariant, PTL DEF CacheSpec, CacheMovesForward
=============================================================================
