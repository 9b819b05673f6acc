--------------------------- MODULE QuiesceProofs ---------------------------
(***************************************************************************)
(* Proofs about the backup quiesce, for any callers, writers, workers,     *)
(* daemons, connections and bounds.  One lemma per part of FenceInv says   *)
(* that a step of the system preserves that part.                          *)
(***************************************************************************)
EXTENDS BackupFence, TLAPS

USE DEF CallerPCs, TaskStates, Inside, FreshToken

\* The steps that only touch the writes, the workers and the daemons.
Beside ==
    \/ WorkerStep
    \/ \E w \in Writers : ArriveWrite(w) \/ AdmitWrite(w) \/ FinishWrite(w)
    \/ \E d \in Daemons : DaemonStep(d)

\* They leave the gateway's quiesce state, the calls and the sessions alone.
LEMMA BesideFrame == Beside => UNCHANGED <<gateVars, callerVars, sess, closed, owner, calls, restarts>>
<1> USE DEF gateVars, callerVars, pgVars, workVars, histVars
<1>1. CASE WorkerStep
  BY <1>1 DEF WorkerStep, BatchStarts, OutboxApplies, BatchEnds
<1>2. ASSUME NEW w \in Writers, ArriveWrite(w) \/ AdmitWrite(w) \/ FinishWrite(w)
      PROVE UNCHANGED <<gateVars, callerVars, sess, closed, owner, calls, restarts>>
  BY <1>2 DEF ArriveWrite, AdmitWrite, FinishWrite
<1>3. ASSUME NEW d \in Daemons, DaemonStep(d)
      PROVE UNCHANGED <<gateVars, callerVars, sess, closed, owner, calls, restarts>>
  BY <1>3 DEF DaemonStep, DaemonTryLock, DaemonReleasesForChat, DaemonChatReturns,
              DaemonReacquires, DaemonReacquireFails, DaemonCycleEnds, DaemonLosesSession
<1> QED
  BY <1>1, <1>2, <1>3 DEF Beside

\* An answer keeps the types of the calls' state.
LEMMA ReplyType ==
    ASSUME TypeOK, NEW c \in Callers, NEW s \in {0, 200, 202, 409}, NEW f \in Nat \X Nat,
           Reply(c, s, f)
    PROVE  CallersOK'
<1>1. pc' \in [Callers -> CallerPCs]
  BY DEF TypeOK, CallersOK, Reply
<1>2. entryGen' \in [Callers -> Nat] /\ myGen' \in [Callers -> Nat]
  BY DEF TypeOK, CallersOK, Reply
<1>3. code' \in [Callers -> {0, 200, 202, 409}]
  BY DEF TypeOK, CallersOK, Reply
<1>4. wire' \in [Callers -> Nat \X Nat]
  BY DEF TypeOK, CallersOK, Reply
<1> QED
  BY <1>1, <1>2, <1>3, <1>4 DEF CallersOK

\* The fence identity is a pair of numbers.
LEMMA WireType == TypeOK => Wire \in Nat \X Nat
  BY DEF TypeOK, GateOK, Wire

\* An aborted call answers, and ends the quiesce or leaves all but the pending
\* connection.
LEMMA AbortFrame ==
    ASSUME NEW c \in Callers, AbortNow(c) \/ AbortEnd(c)
    PROVE  /\ Reply(c, 409, Wire)
           /\ EndQuiesce \/ UNCHANGED <<generation, flag, timer, stored, owner>>
           /\ closed \subseteq closed' /\ pending' = NoConn
           /\ UNCHANGED <<fenceAcqs, token, sess, shared, workVars, calls, restarts, losses>>
<1>1. Reply(c, 409, Wire)
  BY DEF AbortNow, AbortEnd
<1>2. \E end \in BOOLEAN : EndOrDropPending(c, end)
  BY DEF AbortNow, AbortEnd, EndOrDropPending
<1>3. UNCHANGED <<fenceAcqs, token, sess, shared, workVars, calls, restarts, losses>>
  BY DEF AbortNow, AbortEnd
<1> QED
  BY <1>1, <1>2, <1>3 DEF EndOrDropPending, EndQuiesce, Detached

\* Truth values stay truth values.
LEMMA FlagsStep == TypeOK /\ [Next]_vars => FlagsOK'
<1> SUFFICES ASSUME TypeOK, [Next]_vars PROVE FlagsOK'
  OBVIOUS
<1> USE DEF vars, gateVars, callerVars, pgVars, workVars, histVars
<1>1. CASE Resume \/ TimerFires
  BY <1>1 DEF FlagsOK, Resume, TimerFires, EndQuiesce, Detached, TypeOK
<1>2. ASSUME NEW c \in Callers, Call(c) PROVE FlagsOK'
  BY <1>2 DEF FlagsOK, Call, TypeOK
<1>3. ASSUME NEW c \in Callers, Disconnect(c) PROVE FlagsOK'
  BY <1>3 DEF FlagsOK, Disconnect, TypeOK
<1>4. ASSUME NEW c \in Callers, Serve(c) PROVE FlagsOK'
  <2>1. CASE LeaveQueue(c)
    BY <2>1 DEF FlagsOK, LeaveQueue, Reply, TypeOK
  <2>2. CASE Start(c)
    BY <2>2 DEF FlagsOK, Start, ArmedTimer, ConnectPhase, Detached, LockHeld, Exit,
       Resumed, TypeOK
  <2>3. CASE ProbeOk(c) \/ ProbeFails(c)
    BY <2>3 DEF FlagsOK, ProbeOk, ProbeFails, ConnectPhase, Detached,
       LockHeld, Exit, Resumed, TypeOK
  <2>4. CASE ConnectDone(c) \/ ConnectFailed(c)
    BY <2>4 DEF FlagsOK, ConnectDone, ConnectFailed, Detached, Exit, Resumed,
       TypeOK
  <2>5. CASE Promote(c)
    BY <2>5 DEF FlagsOK, Promote, AcquisitionCount, Reply, Exit, Resumed, LockHeld, TypeOK
  <2>6. CASE ReplyUnfenced(c)
    BY <2>6 DEF FlagsOK, ReplyUnfenced, Reply, Exit, Resumed, LockHeld, TypeOK
  <2>7. CASE AbortNow(c) \/ AbortEnd(c)
    <3>1. Reply(c, 409, Wire) /\ flag' \in BOOLEAN
      BY <2>7, AbortFrame DEF EndQuiesce, TypeOK, FlagsOK
    <3> QED
      BY <3>1 DEF FlagsOK, Reply, TypeOK
  <2>8. CASE AbortBegin(c)
    BY <2>8 DEF FlagsOK, AbortBegin, EndsHere, TaskRunning, Detached, TypeOK
  <2> QED
    BY <1>4, <2>1, <2>2, <2>3, <2>4, <2>5, <2>6, <2>7, <2>8 DEF Serve
<1>5. CASE TaskStep
  BY <1>5 DEF FlagsOK, TaskStep, TaskConnects, TaskRequestsLock, TaskLocked,
     TaskFails, Resumed, TypeOK
<1>6. CASE PostgresStep
  BY <1>6 DEF FlagsOK, PostgresStep, GrantExclusive, ReapSession, LoseSession,
     OnQuiesceConnTerminated, TypeOK
<1>7. CASE Restart
  BY <1>7 DEF FlagsOK, Restart, TypeOK
<1>8. CASE UNCHANGED vars
  BY <1>8 DEF FlagsOK, TypeOK
<1>9. CASE Beside
  BY <1>9, BesideFrame DEF FlagsOK, TypeOK
<1> QED
  BY <1>1, <1>2, <1>3, <1>4, <1>5, <1>6, <1>7, <1>8, <1>9 DEF Next, SystemStep, Beside

\* The gateway's globals keep their types.
LEMMA GateStep == TypeOK /\ [Next]_vars => GateOK'
<1> SUFFICES ASSUME TypeOK, [Next]_vars PROVE GateOK'
  OBVIOUS
<1> USE DEF vars, gateVars, callerVars, pgVars, workVars, histVars
<1>1. CASE Resume \/ TimerFires
  BY <1>1 DEF GateOK, Resume, TimerFires, EndQuiesce, Detached, TypeOK
<1>2. ASSUME NEW c \in Callers, Call(c) PROVE GateOK'
  BY <1>2 DEF GateOK, Call, TypeOK
<1>3. ASSUME NEW c \in Callers, Disconnect(c) PROVE GateOK'
  BY <1>3 DEF GateOK, Disconnect, TypeOK
<1>4. ASSUME NEW c \in Callers, Serve(c) PROVE GateOK'
  <2>1. CASE LeaveQueue(c)
    BY <2>1 DEF GateOK, LeaveQueue, Reply, TypeOK
  <2>2. CASE Start(c)
    BY <2>2 DEF GateOK, Start, ArmedTimer, ConnectPhase, Detached, LockHeld, Exit,
       Resumed, TypeOK
  <2>3. CASE ProbeOk(c) \/ ProbeFails(c)
    BY <2>3 DEF GateOK, ProbeOk, ProbeFails, ConnectPhase, Detached, LockHeld,
       Exit, Resumed, TypeOK
  <2>4. CASE ConnectDone(c) \/ ConnectFailed(c)
    BY <2>4 DEF GateOK, ConnectDone, ConnectFailed, Detached, Exit, Resumed,
       TypeOK
  <2>5. CASE Promote(c)
    BY <2>5 DEF GateOK, Promote, AcquisitionCount, Reply, Exit, Resumed, LockHeld, TypeOK
  <2>6. CASE ReplyUnfenced(c)
    BY <2>6 DEF GateOK, ReplyUnfenced, Reply, Exit, Resumed, LockHeld, TypeOK
  <2>7. CASE AbortNow(c) \/ AbortEnd(c)
    BY <2>7 DEF GateOK, AbortNow, AbortEnd, EndOrDropPending, EndQuiesce,
       EndsHere, TaskRunning, Reply, Detached, TypeOK
  <2>8. CASE AbortBegin(c)
    BY <2>8 DEF GateOK, AbortBegin, EndsHere, TaskRunning, Detached, TypeOK
  <2> QED
    BY <1>4, <2>1, <2>2, <2>3, <2>4, <2>5, <2>6, <2>7, <2>8 DEF Serve
<1>5. CASE TaskStep
  BY <1>5 DEF GateOK, TaskStep, TaskConnects, TaskRequestsLock, TaskLocked,
     TaskFails, Resumed, TypeOK
<1>6. CASE PostgresStep
  BY <1>6 DEF GateOK, PostgresStep, GrantExclusive, ReapSession, LoseSession,
     OnQuiesceConnTerminated, TypeOK
<1>7. CASE Restart
  BY <1>7 DEF GateOK, Restart, TypeOK
<1>8. CASE UNCHANGED vars
  BY <1>8 DEF GateOK, TypeOK
<1>9. CASE WorkerStep
  BY <1>9 DEF GateOK, WorkerStep, BatchStarts, OutboxApplies, BatchEnds,
     TypeOK
<1>10. ASSUME NEW w \in Writers, ArriveWrite(w) \/ AdmitWrite(w) \/ FinishWrite(w)
       PROVE GateOK'
  BY <1>10 DEF GateOK, ArriveWrite, AdmitWrite, FinishWrite, TypeOK
<1>11. ASSUME NEW d \in Daemons, DaemonStep(d) PROVE GateOK'
  BY <1>11 DEF GateOK, DaemonStep, DaemonTryLock, DaemonReleasesForChat,
     DaemonChatReturns, DaemonReacquires, DaemonReacquireFails,
     DaemonCycleEnds, DaemonLosesSession, SharedGrantable, TypeOK
<1> QED
  BY <1>1, <1>2, <1>3, <1>4, <1>5, <1>6, <1>7, <1>8, <1>9, <1>10, <1>11 DEF
     Next, SystemStep

\* The locals and the answers of the calls keep their types.
LEMMA CallersStep == TypeOK /\ [Next]_vars => CallersOK'
<1> SUFFICES ASSUME TypeOK, [Next]_vars PROVE CallersOK'
  OBVIOUS
<1> USE DEF vars, gateVars, callerVars, pgVars, workVars, histVars
<1>1. CASE Resume \/ TimerFires
  BY <1>1 DEF CallersOK, Resume, TimerFires, EndQuiesce, Detached, TypeOK,
     GateOK
<1>2. ASSUME NEW c \in Callers, Call(c) PROVE CallersOK'
  <2>1. pc' \in [Callers -> CallerPCs]
    BY <1>2 DEF Call, TypeOK, CallersOK
  <2>2. entryGen' \in [Callers -> Nat]
    BY <1>2 DEF Call, TypeOK, CallersOK, GateOK
  <2>3. code' \in [Callers -> {0, 200, 202, 409}]
    BY <1>2 DEF Call, TypeOK, CallersOK
  <2> QED
    BY <1>2, <2>1, <2>2, <2>3 DEF Call, TypeOK, CallersOK
<1>3. ASSUME NEW c \in Callers, Disconnect(c) PROVE CallersOK'
  BY <1>3 DEF CallersOK, Disconnect, TypeOK, GateOK
<1>4. ASSUME NEW c \in Callers, Serve(c) PROVE CallersOK'
  <2>1. CASE LeaveQueue(c)
    BY <2>1, ReplyType, WireType DEF LeaveQueue
  <2>2. CASE Start(c)
    BY <2>2 DEF CallersOK, Start, ArmedTimer, ConnectPhase, Detached, LockHeld, Exit,
       Resumed, TypeOK, GateOK
  <2>3. CASE ProbeOk(c) \/ ProbeFails(c)
    BY <2>3 DEF CallersOK, ProbeOk, ProbeFails, ConnectPhase, Detached,
       LockHeld, Exit, Resumed, TypeOK, GateOK
  <2>4. CASE ConnectDone(c) \/ ConnectFailed(c)
    BY <2>4 DEF CallersOK, ConnectDone, ConnectFailed, Detached, Exit,
       Resumed, TypeOK, GateOK
  <2>5. CASE Promote(c)
    <3>1. <<token, fenceAcqs'>> \in Nat \X Nat
      BY <2>5 DEF Promote, AcquisitionCount, TypeOK, GateOK
    <3> DEFINE s == IF stored' # NoConn /\ stored' \notin closed THEN 200 ELSE 202
    <3>2. Reply(c, s, <<token, fenceAcqs'>>)
      BY <2>5 DEF Promote, AcquisitionCount
    <3> QED
      BY <3>1, <3>2, ReplyType
  <2>6. CASE ReplyUnfenced(c)
    BY <2>6, ReplyType, WireType DEF ReplyUnfenced
  <2>7. CASE AbortNow(c) \/ AbortEnd(c)
    BY <2>7, ReplyType, WireType DEF AbortNow, AbortEnd
  <2>8. CASE AbortBegin(c)
    BY <2>8 DEF CallersOK, AbortBegin, EndsHere, TaskRunning, Detached,
       TypeOK, GateOK
  <2> QED
    BY <1>4, <2>1, <2>2, <2>3, <2>4, <2>5, <2>6, <2>7, <2>8 DEF Serve
<1>5. CASE TaskStep
  BY <1>5 DEF CallersOK, TaskStep, TaskConnects, TaskRequestsLock, TaskLocked,
     TaskFails, Resumed, TypeOK, GateOK
<1>6. CASE PostgresStep
  BY <1>6 DEF CallersOK, PostgresStep, GrantExclusive, ReapSession,
     LoseSession, OnQuiesceConnTerminated, TypeOK, GateOK
<1>7. CASE Restart
  BY <1>7 DEF CallersOK, Restart, TypeOK, GateOK
<1>8. CASE UNCHANGED vars
  BY <1>8 DEF CallersOK, TypeOK, GateOK
<1>9. CASE Beside
  BY <1>9, BesideFrame DEF CallersOK, TypeOK, GateOK
<1> QED
  BY <1>1, <1>2, <1>3, <1>4, <1>5, <1>6, <1>7, <1>8, <1>9 DEF Next, SystemStep, Beside

\* The tables of Postgres, the writes, workers and daemons keep their types.
LEMMA WorldStep == FenceInv /\ [Next]_vars => WorldOK'
<1> SUFFICES ASSUME FenceInv, [Next]_vars PROVE WorldOK'
  OBVIOUS
<1> USE DEF vars, gateVars, callerVars, pgVars, workVars, histVars
<1>1. CASE Resume \/ TimerFires
  BY <1>1 DEF WorldOK, Resume, TimerFires, EndQuiesce, Detached, FenceInv,
     TypeOK, GateOK, TaskInv
<1>2. ASSUME NEW c \in Callers, Call(c) PROVE WorldOK'
  BY <1>2 DEF WorldOK, Call, FenceInv, TypeOK, GateOK, TaskInv
<1>3. ASSUME NEW c \in Callers, Disconnect(c) PROVE WorldOK'
  BY <1>3 DEF WorldOK, Disconnect, FenceInv, TypeOK, GateOK, TaskInv
<1>4. ASSUME NEW c \in Callers, Serve(c) PROVE WorldOK'
  <2>1. CASE LeaveQueue(c)
    BY <2>1 DEF WorldOK, LeaveQueue, Reply, FenceInv, TypeOK, GateOK, TaskInv
  <2>2. CASE Start(c)
    BY <2>2 DEF WorldOK, Start, ArmedTimer, ConnectPhase, Detached, LockHeld, Exit,
       Resumed, FenceInv, TypeOK, GateOK, TaskInv
  <2>3. CASE ProbeOk(c) \/ ProbeFails(c)
    BY <2>3 DEF WorldOK, ProbeOk, ProbeFails, ConnectPhase, Detached,
       LockHeld, Exit, Resumed, FenceInv, TypeOK, GateOK, TaskInv
  <2>4. CASE ConnectDone(c) \/ ConnectFailed(c)
    BY <2>4 DEF WorldOK, ConnectDone, ConnectFailed, Detached, Exit, Resumed,
       FenceInv, TypeOK, GateOK, TaskInv
  <2>5. CASE Promote(c)
    BY <2>5 DEF WorldOK, Promote, AcquisitionCount, Reply, Exit, Resumed, LockHeld, FenceInv,
       TypeOK, GateOK, TaskInv
  <2>6. CASE ReplyUnfenced(c)
    BY <2>6 DEF WorldOK, ReplyUnfenced, Reply, Exit, Resumed, LockHeld,
       FenceInv, TypeOK, GateOK, TaskInv
  <2>7. CASE AbortNow(c) \/ AbortEnd(c)
    BY <2>7 DEF WorldOK, AbortNow, AbortEnd, EndOrDropPending, EndQuiesce,
       EndsHere, TaskRunning, Reply, Detached, FenceInv, TypeOK, GateOK,
       TaskInv
  <2>8. CASE AbortBegin(c)
    BY <2>8 DEF WorldOK, AbortBegin, EndsHere, TaskRunning, Detached,
       FenceInv, TypeOK, GateOK, TaskInv
  <2> QED
    BY <1>4, <2>1, <2>2, <2>3, <2>4, <2>5, <2>6, <2>7, <2>8 DEF Serve
<1>5. CASE TaskStep
  BY <1>5 DEF WorldOK, TaskStep, TaskConnects, TaskRequestsLock, TaskLocked,
     TaskFails, Resumed, FenceInv, TypeOK, GateOK, TaskInv
<1>6. CASE PostgresStep
  BY <1>6 DEF WorldOK, PostgresStep, GrantExclusive, ReapSession, LoseSession,
     OnQuiesceConnTerminated, FenceInv, TypeOK, GateOK, TaskInv
<1>7. CASE Restart
  BY <1>7 DEF WorldOK, Restart, FenceInv, TypeOK, GateOK, TaskInv
<1>8. CASE UNCHANGED vars
  BY <1>8 DEF WorldOK, FenceInv, TypeOK, GateOK, TaskInv
<1>9. CASE WorkerStep
  BY <1>9 DEF WorldOK, WorkerStep, BatchStarts, OutboxApplies, BatchEnds,
     FenceInv, TypeOK, GateOK, TaskInv
<1>10. ASSUME NEW w \in Writers, ArriveWrite(w) \/ AdmitWrite(w) \/ FinishWrite(w)
       PROVE WorldOK'
  BY <1>10 DEF WorldOK, ArriveWrite, AdmitWrite, FinishWrite, FenceInv,
     TypeOK, GateOK, TaskInv
<1>11. ASSUME NEW d \in Daemons, DaemonStep(d) PROVE WorldOK'
  BY <1>11 DEF WorldOK, DaemonStep, DaemonTryLock, DaemonReleasesForChat,
     DaemonChatReturns, DaemonReacquires, DaemonReacquireFails,
     DaemonCycleEnds, DaemonLosesSession, SharedGrantable, FenceInv, TypeOK,
     GateOK, TaskInv
<1> QED
  BY <1>1, <1>2, <1>3, <1>4, <1>5, <1>6, <1>7, <1>8, <1>9, <1>10, <1>11 DEF
     Next, SystemStep

\* The single-flight lock: one call inside, and it holds the lock.
LEMMA MutexStep == FenceInv /\ [Next]_vars => MutexInv'
<1> SUFFICES ASSUME FenceInv, [Next]_vars PROVE MutexInv'
  OBVIOUS
<1> USE DEF vars, gateVars, callerVars, pgVars, workVars, histVars
<1>1. CASE Resume \/ TimerFires
  BY NullAssumption, <1>1 DEF MutexInv, Resume, TimerFires, EndQuiesce,
     Detached, FenceInv, TypeOK, GateOK, CallersOK, FlagsOK, TaskInv
<1>2. ASSUME NEW c \in Callers, Call(c) PROVE MutexInv'
  BY NullAssumption, <1>2 DEF MutexInv, Call, FenceInv, TypeOK, GateOK,
     CallersOK, FlagsOK, TaskInv
<1>3. ASSUME NEW c \in Callers, Disconnect(c) PROVE MutexInv'
  BY NullAssumption, <1>3 DEF MutexInv, Disconnect, FenceInv, TypeOK, GateOK,
     CallersOK, FlagsOK, TaskInv
<1>4. ASSUME NEW c \in Callers, Serve(c) PROVE MutexInv'
  <2>1. CASE LeaveQueue(c)
    BY NullAssumption, <2>1 DEF MutexInv, LeaveQueue, Reply, FenceInv, TypeOK,
       GateOK, CallersOK, FlagsOK, TaskInv
  <2>2. CASE Start(c)
    BY NullAssumption, <2>2 DEF MutexInv, Start, ArmedTimer, ConnectPhase, Detached,
       LockHeld, Exit, Resumed, FenceInv, TypeOK, GateOK, CallersOK, FlagsOK,
       TaskInv
  <2>3. CASE ProbeOk(c) \/ ProbeFails(c)
    BY NullAssumption, <2>3 DEF MutexInv, ProbeOk, ProbeFails, ConnectPhase,
       Detached, LockHeld, Exit, Resumed, FenceInv, TypeOK, GateOK, CallersOK,
       FlagsOK, TaskInv
  <2>4. CASE ConnectDone(c) \/ ConnectFailed(c)
    BY NullAssumption, <2>4 DEF MutexInv, ConnectDone, ConnectFailed,
       Detached, Exit, Resumed, FenceInv, TypeOK, GateOK, CallersOK, FlagsOK,
       TaskInv
  <2>5. CASE Promote(c)
    BY NullAssumption, <2>5 DEF MutexInv, Promote, AcquisitionCount, Reply, Exit, Resumed,
       LockHeld, FenceInv, TypeOK, GateOK, CallersOK, FlagsOK, TaskInv
  <2>6. CASE ReplyUnfenced(c)
    BY NullAssumption, <2>6 DEF MutexInv, ReplyUnfenced, Reply, Exit, Resumed,
       LockHeld, FenceInv, TypeOK, GateOK, CallersOK, FlagsOK, TaskInv
  <2>7. CASE AbortNow(c) \/ AbortEnd(c)
    BY NullAssumption, <2>7 DEF MutexInv, AbortNow, AbortEnd,
       EndOrDropPending, EndQuiesce, EndsHere, TaskRunning, Reply, Detached,
       FenceInv, TypeOK, GateOK, CallersOK, FlagsOK, TaskInv
  <2>8. CASE AbortBegin(c)
    BY NullAssumption, <2>8 DEF MutexInv, AbortBegin, EndsHere, TaskRunning,
       Detached, FenceInv, TypeOK, GateOK, CallersOK, FlagsOK, TaskInv
  <2> QED
    BY <1>4, <2>1, <2>2, <2>3, <2>4, <2>5, <2>6, <2>7, <2>8 DEF Serve
<1>5. CASE TaskStep
  BY NullAssumption, <1>5 DEF MutexInv, TaskStep, TaskConnects,
     TaskRequestsLock, TaskLocked, TaskFails, Resumed, FenceInv, TypeOK,
     GateOK, CallersOK, FlagsOK, TaskInv
<1>6. CASE PostgresStep
  BY NullAssumption, <1>6 DEF MutexInv, PostgresStep, GrantExclusive,
     ReapSession, LoseSession, OnQuiesceConnTerminated, FenceInv, TypeOK,
     GateOK, CallersOK, FlagsOK, TaskInv
<1>7. CASE Restart
  BY NullAssumption, <1>7 DEF MutexInv, Restart, FenceInv, TypeOK, GateOK,
     CallersOK, FlagsOK, TaskInv
<1>8. CASE UNCHANGED vars
  BY NullAssumption, <1>8 DEF MutexInv, FenceInv, TypeOK, GateOK, CallersOK,
     FlagsOK, TaskInv
<1>9. CASE Beside
  BY NullAssumption, <1>9, BesideFrame DEF MutexInv, FenceInv, TypeOK, GateOK,
     CallersOK, FlagsOK, TaskInv
<1> QED
  BY <1>1, <1>2, <1>3, <1>4, <1>5, <1>6, <1>7, <1>8, <1>9 DEF Next, SystemStep, Beside

\* A call nobody resumed sees the flag, and the owner it made itself.
LEMMA FlagStep == FenceInv /\ [Next]_vars => FlagInv'
<1> SUFFICES ASSUME FenceInv, [Next]_vars PROVE FlagInv'
  OBVIOUS
<1> USE DEF vars, gateVars, callerVars, pgVars, workVars, histVars
<1>1. CASE Resume \/ TimerFires
  BY <1>1 DEF FlagInv, Resume, TimerFires, EndQuiesce, Detached, FenceInv,
     TypeOK, GateOK, CallersOK, FlagsOK, MutexInv
<1>2. ASSUME NEW c \in Callers, Call(c) PROVE FlagInv'
  BY <1>2 DEF FlagInv, Call, FenceInv, TypeOK, GateOK, CallersOK, FlagsOK,
     MutexInv
<1>3. ASSUME NEW c \in Callers, Disconnect(c) PROVE FlagInv'
  BY <1>3 DEF FlagInv, Disconnect, FenceInv, TypeOK, GateOK, CallersOK,
     FlagsOK, MutexInv
<1>4. ASSUME NEW c \in Callers, Serve(c) PROVE FlagInv'
  <2>1. CASE LeaveQueue(c)
    BY <2>1 DEF FlagInv, LeaveQueue, Reply, FenceInv, TypeOK, GateOK,
       CallersOK, FlagsOK, MutexInv
  <2>2. CASE Start(c)
    BY <2>2 DEF FlagInv, Start, ArmedTimer, ConnectPhase, Detached, LockHeld, Exit,
       Resumed, FenceInv, TypeOK, GateOK, CallersOK, FlagsOK, MutexInv
  <2>3. CASE ProbeOk(c) \/ ProbeFails(c)
    BY <2>3 DEF FlagInv, ProbeOk, ProbeFails, ConnectPhase, Detached,
       LockHeld, Exit, Resumed, FenceInv, TypeOK, GateOK, CallersOK, FlagsOK,
       MutexInv
  <2>4. CASE ConnectDone(c) \/ ConnectFailed(c)
    BY <2>4 DEF FlagInv, ConnectDone, ConnectFailed, Detached, Exit, Resumed,
       FenceInv, TypeOK, GateOK, CallersOK, FlagsOK, MutexInv
  <2>5. CASE Promote(c)
    BY <2>5 DEF FlagInv, Promote, AcquisitionCount, Reply, Exit, Resumed, LockHeld, FenceInv,
       TypeOK, GateOK, CallersOK, FlagsOK, MutexInv
  <2>6. CASE ReplyUnfenced(c)
    BY <2>6 DEF FlagInv, ReplyUnfenced, Reply, Exit, Resumed, LockHeld,
       FenceInv, TypeOK, GateOK, CallersOK, FlagsOK, MutexInv
  <2>7. CASE AbortNow(c) \/ AbortEnd(c)
    <3>1. /\ Reply(c, 409, Wire)
          /\ generation' = generation + 1 \/ UNCHANGED <<generation, flag, owner>>
      BY <2>7, AbortFrame DEF EndQuiesce
    <3>2. /\ generation \in Nat /\ pc \in [Callers -> CallerPCs] /\ myGen \in [Callers -> Nat]
          /\ startedHere \in [Callers -> BOOLEAN]
      BY DEF FenceInv, TypeOK, GateOK, CallersOK, FlagsOK
    <3>3. /\ pc'[c] = "idle" /\ myGen'[c] = 0
          /\ \A d \in Callers \ {c} : /\ pc'[d] = pc[d] /\ myGen'[d] = myGen[d]
                                      /\ startedHere'[d] = startedHere[d]
      BY <3>1, <3>2 DEF Reply
    <3> SUFFICES ASSUME NEW d \in Callers
                 PROVE  /\ myGen'[d] <= generation'
                        /\ pc'[d] \in Inside /\ myGen'[d] = generation' =>
                              flag' /\ (startedHere'[d] => owner' = d)
      BY DEF FlagInv
    <3>4. CASE d = c
      BY <3>1, <3>2, <3>3, <3>4 DEF Inside
    <3>5. CASE d # c
      <4>1. /\ myGen[d] <= generation /\ myGen[d] \in Nat
            /\ pc[d] \in Inside /\ myGen[d] = generation =>
                  flag /\ (startedHere[d] => owner = d)
        BY <3>2 DEF FenceInv, FlagInv
      <4>2. pc'[d] = pc[d] /\ myGen'[d] = myGen[d] /\ startedHere'[d] = startedHere[d]
        BY <3>3, <3>5
      <4>3. CASE generation' = generation + 1
        BY <3>2, <4>1, <4>2, <4>3
      <4>4. CASE UNCHANGED <<generation, flag, owner>>
        BY <4>1, <4>2, <4>4
      <4> QED
        BY <3>1, <4>3, <4>4
    <3> QED
      BY <3>4, <3>5
  <2>8. CASE AbortBegin(c)
    BY <2>8 DEF FlagInv, AbortBegin, EndsHere, TaskRunning, Detached,
       FenceInv, TypeOK, GateOK, CallersOK, FlagsOK, MutexInv
  <2> QED
    BY <1>4, <2>1, <2>2, <2>3, <2>4, <2>5, <2>6, <2>7, <2>8 DEF Serve
<1>5. CASE TaskStep
  BY <1>5 DEF FlagInv, TaskStep, TaskConnects, TaskRequestsLock, TaskLocked,
     TaskFails, Resumed, FenceInv, TypeOK, GateOK, CallersOK, FlagsOK,
     MutexInv
<1>6. CASE PostgresStep
  BY <1>6 DEF FlagInv, PostgresStep, GrantExclusive, ReapSession, LoseSession,
     OnQuiesceConnTerminated, FenceInv, TypeOK, GateOK, CallersOK, FlagsOK,
     MutexInv
<1>7. CASE Restart
  BY <1>7 DEF FlagInv, Restart, FenceInv, TypeOK, GateOK, CallersOK, FlagsOK,
     MutexInv
<1>8. CASE UNCHANGED vars
  BY <1>8 DEF FlagInv, FenceInv, TypeOK, GateOK, CallersOK, FlagsOK, MutexInv
<1>9. CASE Beside
  BY <1>9, BesideFrame DEF FlagInv, FenceInv, TypeOK, GateOK, CallersOK,
     FlagsOK, MutexInv
<1> QED
  BY <1>1, <1>2, <1>3, <1>4, <1>5, <1>6, <1>7, <1>8, <1>9 DEF Next, SystemStep, Beside

\* The stored connection holds the lock.
LEMMA StoredStep == FenceInv /\ [Next]_vars => StoredInv'
<1> SUFFICES ASSUME FenceInv, [Next]_vars PROVE StoredInv'
  OBVIOUS
<1> USE DEF vars, gateVars, callerVars, pgVars, workVars, histVars
<1>1. CASE Resume \/ TimerFires
  BY <1>1 DEF StoredInv, Resume, TimerFires, EndQuiesce, Detached, FenceInv,
     TypeOK, GateOK, CallersOK, WorldOK, MutexInv, FlagInv, PendingInv,
     LockHeld, TaskInv
<1>2. ASSUME NEW c \in Callers, Call(c) PROVE StoredInv'
  BY <1>2 DEF StoredInv, Call, FenceInv, TypeOK, GateOK, CallersOK, WorldOK,
     MutexInv, FlagInv, PendingInv, LockHeld, TaskInv
<1>3. ASSUME NEW c \in Callers, Disconnect(c) PROVE StoredInv'
  BY <1>3 DEF StoredInv, Disconnect, FenceInv, TypeOK, GateOK, CallersOK,
     WorldOK, MutexInv, FlagInv, PendingInv, LockHeld, TaskInv
<1>4. ASSUME NEW c \in Callers, Serve(c) PROVE StoredInv'
  <2>1. CASE LeaveQueue(c)
    BY <2>1 DEF StoredInv, LeaveQueue, Reply, FenceInv, TypeOK, GateOK,
       CallersOK, WorldOK, MutexInv, FlagInv, PendingInv, LockHeld, TaskInv
  <2>2. CASE Start(c)
    BY <2>2 DEF StoredInv, Start, ArmedTimer, ConnectPhase, Detached, LockHeld, Exit,
       Resumed, FenceInv, TypeOK, GateOK, CallersOK, WorldOK, MutexInv,
       FlagInv, PendingInv, LockHeld, TaskInv
  <2>3. CASE ProbeOk(c) \/ ProbeFails(c)
    BY <2>3 DEF StoredInv, ProbeOk, ProbeFails, ConnectPhase, Detached,
       LockHeld, Exit, Resumed, FenceInv, TypeOK, GateOK, CallersOK, WorldOK,
       MutexInv, FlagInv, PendingInv, LockHeld, TaskInv
  <2>4. CASE ConnectDone(c) \/ ConnectFailed(c)
    BY <2>4 DEF StoredInv, ConnectDone, ConnectFailed, Detached, Exit,
       Resumed, FenceInv, TypeOK, GateOK, CallersOK, WorldOK, MutexInv,
       FlagInv, PendingInv, LockHeld, TaskInv
  <2>5. CASE Promote(c)
    BY <2>5 DEF StoredInv, Promote, AcquisitionCount, Reply, Exit, Resumed, LockHeld, FenceInv,
       TypeOK, GateOK, CallersOK, WorldOK, MutexInv, FlagInv, PendingInv,
       LockHeld, TaskInv
  <2>6. CASE ReplyUnfenced(c)
    BY <2>6 DEF StoredInv, ReplyUnfenced, Reply, Exit, Resumed, LockHeld,
       FenceInv, TypeOK, GateOK, CallersOK, WorldOK, MutexInv, FlagInv,
       PendingInv, LockHeld, TaskInv
  <2>7. CASE AbortNow(c) \/ AbortEnd(c)
    BY <2>7 DEF StoredInv, AbortNow, AbortEnd, EndOrDropPending, EndQuiesce,
       EndsHere, TaskRunning, Reply, Detached, FenceInv, TypeOK, GateOK,
       CallersOK, WorldOK, MutexInv, FlagInv, PendingInv, LockHeld, TaskInv
  <2>8. CASE AbortBegin(c)
    BY <2>8 DEF StoredInv, AbortBegin, EndsHere, TaskRunning, Detached,
       FenceInv, TypeOK, GateOK, CallersOK, WorldOK, MutexInv, FlagInv,
       PendingInv, LockHeld, TaskInv
  <2> QED
    BY <1>4, <2>1, <2>2, <2>3, <2>4, <2>5, <2>6, <2>7, <2>8 DEF Serve
<1>5. CASE TaskStep
  BY <1>5 DEF StoredInv, TaskStep, TaskConnects, TaskRequestsLock, TaskLocked,
     TaskFails, Resumed, FenceInv, TypeOK, GateOK, CallersOK, WorldOK,
     MutexInv, FlagInv, PendingInv, LockHeld, TaskInv
<1>6. CASE PostgresStep
  BY <1>6 DEF StoredInv, PostgresStep, GrantExclusive, ReapSession,
     LoseSession, OnQuiesceConnTerminated, FenceInv, TypeOK, GateOK,
     CallersOK, WorldOK, MutexInv, FlagInv, PendingInv, LockHeld, TaskInv
<1>7. CASE Restart
  BY <1>7 DEF StoredInv, Restart, FenceInv, TypeOK, GateOK, CallersOK,
     WorldOK, MutexInv, FlagInv, PendingInv, LockHeld, TaskInv
<1>8. CASE UNCHANGED vars
  BY <1>8 DEF StoredInv, FenceInv, TypeOK, GateOK, CallersOK, WorldOK,
     MutexInv, FlagInv, PendingInv, LockHeld, TaskInv
<1>9. CASE Beside
  BY <1>9, BesideFrame DEF StoredInv, FenceInv, TypeOK, GateOK, CallersOK,
     WorldOK, MutexInv, FlagInv, PendingInv, LockHeld, TaskInv
<1> QED
  BY <1>1, <1>2, <1>3, <1>4, <1>5, <1>6, <1>7, <1>8, <1>9 DEF Next, SystemStep, Beside

\* The pending connection belongs to the call inside.
LEMMA PendingStep == FenceInv /\ [Next]_vars => PendingInv'
<1> SUFFICES ASSUME FenceInv, [Next]_vars PROVE PendingInv'
  OBVIOUS
<1> USE DEF vars, gateVars, callerVars, pgVars, workVars, histVars
<1>1. CASE Resume \/ TimerFires
  BY <1>1 DEF PendingInv, Resume, TimerFires, EndQuiesce, Detached, FenceInv,
     TypeOK, GateOK, CallersOK, WorldOK, MutexInv, TaskInv, LockHeld,
     StoredInv
<1>2. ASSUME NEW c \in Callers, Call(c) PROVE PendingInv'
  BY <1>2 DEF PendingInv, Call, FenceInv, TypeOK, GateOK, CallersOK, WorldOK,
     MutexInv, TaskInv, LockHeld, StoredInv
<1>3. ASSUME NEW c \in Callers, Disconnect(c) PROVE PendingInv'
  BY <1>3 DEF PendingInv, Disconnect, FenceInv, TypeOK, GateOK, CallersOK,
     WorldOK, MutexInv, TaskInv, LockHeld, StoredInv
<1>4. ASSUME NEW c \in Callers, Serve(c) PROVE PendingInv'
  <2>1. CASE LeaveQueue(c)
    BY <2>1 DEF PendingInv, LeaveQueue, Reply, FenceInv, TypeOK, GateOK,
       CallersOK, WorldOK, MutexInv, TaskInv, LockHeld, StoredInv
  <2>2. CASE Start(c)
    BY <2>2 DEF PendingInv, Start, ArmedTimer, ConnectPhase, Detached, LockHeld, Exit,
       Resumed, FenceInv, TypeOK, GateOK, CallersOK, WorldOK, MutexInv,
       TaskInv, LockHeld, StoredInv
  <2>3. CASE ProbeOk(c) \/ ProbeFails(c)
    BY <2>3 DEF PendingInv, ProbeOk, ProbeFails, ConnectPhase, Detached,
       LockHeld, Exit, Resumed, FenceInv, TypeOK, GateOK, CallersOK, WorldOK,
       MutexInv, TaskInv, LockHeld, StoredInv
  <2>4. CASE ConnectDone(c) \/ ConnectFailed(c)
    BY <2>4 DEF PendingInv, ConnectDone, ConnectFailed, Detached, Exit,
       Resumed, FenceInv, TypeOK, GateOK, CallersOK, WorldOK, MutexInv,
       TaskInv, LockHeld, StoredInv
  <2>5. CASE Promote(c)
    BY <2>5 DEF PendingInv, Promote, AcquisitionCount, Reply, Exit, Resumed, LockHeld, FenceInv,
       TypeOK, GateOK, CallersOK, WorldOK, MutexInv, TaskInv, LockHeld,
       StoredInv
  <2>6. CASE ReplyUnfenced(c)
    BY <2>6 DEF PendingInv, ReplyUnfenced, Reply, Exit, Resumed, LockHeld,
       FenceInv, TypeOK, GateOK, CallersOK, WorldOK, MutexInv, TaskInv,
       LockHeld, StoredInv
  <2>7. CASE AbortNow(c) \/ AbortEnd(c)
    BY <2>7 DEF PendingInv, AbortNow, AbortEnd, EndOrDropPending, EndQuiesce,
       EndsHere, TaskRunning, Reply, Detached, FenceInv, TypeOK, GateOK,
       CallersOK, WorldOK, MutexInv, TaskInv, LockHeld, StoredInv
  <2>8. CASE AbortBegin(c)
    BY <2>8 DEF PendingInv, AbortBegin, EndsHere, TaskRunning, Detached,
       FenceInv, TypeOK, GateOK, CallersOK, WorldOK, MutexInv, TaskInv,
       LockHeld, StoredInv
  <2> QED
    BY <1>4, <2>1, <2>2, <2>3, <2>4, <2>5, <2>6, <2>7, <2>8 DEF Serve
<1>5. CASE TaskStep
  BY <1>5 DEF PendingInv, TaskStep, TaskConnects, TaskRequestsLock,
     TaskLocked, TaskFails, Resumed, FenceInv, TypeOK, GateOK, CallersOK,
     WorldOK, MutexInv, TaskInv, LockHeld, StoredInv
<1>6. CASE PostgresStep
  BY <1>6 DEF PendingInv, PostgresStep, GrantExclusive, ReapSession,
     LoseSession, OnQuiesceConnTerminated, FenceInv, TypeOK, GateOK,
     CallersOK, WorldOK, MutexInv, TaskInv, LockHeld, StoredInv
<1>7. CASE Restart
  BY <1>7 DEF PendingInv, Restart, FenceInv, TypeOK, GateOK, CallersOK,
     WorldOK, MutexInv, TaskInv, LockHeld, StoredInv
<1>8. CASE UNCHANGED vars
  BY <1>8 DEF PendingInv, FenceInv, TypeOK, GateOK, CallersOK, WorldOK,
     MutexInv, TaskInv, LockHeld, StoredInv
<1>9. CASE Beside
  BY <1>9, BesideFrame DEF PendingInv, FenceInv, TypeOK, GateOK, CallersOK,
     WorldOK, MutexInv, TaskInv, LockHeld, StoredInv
<1> QED
  BY <1>1, <1>2, <1>3, <1>4, <1>5, <1>6, <1>7, <1>8, <1>9 DEF Next, SystemStep, Beside

\* The task belongs to the call inside, and its connection is alive or closed.
LEMMA TaskInvStep == FenceInv /\ [Next]_vars => TaskInv'
<1> SUFFICES ASSUME FenceInv, [Next]_vars PROVE TaskInv'
  OBVIOUS
<1> USE DEF vars, gateVars, callerVars, pgVars, workVars, histVars
<1>1. CASE Resume \/ TimerFires
  BY NullAssumption, <1>1 DEF TaskInv, Resume, TimerFires, EndQuiesce,
     Detached, FenceInv, TypeOK, GateOK, CallersOK, WorldOK, MutexInv,
     PendingInv
<1>2. ASSUME NEW c \in Callers, Call(c) PROVE TaskInv'
  BY NullAssumption, <1>2 DEF TaskInv, Call, FenceInv, TypeOK, GateOK,
     CallersOK, WorldOK, MutexInv, PendingInv
<1>3. ASSUME NEW c \in Callers, Disconnect(c) PROVE TaskInv'
  BY NullAssumption, <1>3 DEF TaskInv, Disconnect, FenceInv, TypeOK, GateOK,
     CallersOK, WorldOK, MutexInv, PendingInv
<1>4. ASSUME NEW c \in Callers, Serve(c) PROVE TaskInv'
  <2>1. CASE LeaveQueue(c)
    BY NullAssumption, <2>1 DEF TaskInv, LeaveQueue, Reply, FenceInv, TypeOK,
       GateOK, CallersOK, WorldOK, MutexInv, PendingInv
  <2>2. CASE Start(c)
    BY NullAssumption, <2>2 DEF TaskInv, Start, ArmedTimer, ConnectPhase, Detached,
       LockHeld, Exit, Resumed, FenceInv, TypeOK, GateOK, CallersOK, WorldOK,
       MutexInv, PendingInv
  <2>3. CASE ProbeOk(c) \/ ProbeFails(c)
    BY NullAssumption, <2>3 DEF TaskInv, ProbeOk, ProbeFails, ConnectPhase,
       Detached, LockHeld, Exit, Resumed, FenceInv, TypeOK, GateOK, CallersOK,
       WorldOK, MutexInv, PendingInv
  <2>4. CASE ConnectDone(c) \/ ConnectFailed(c)
    BY NullAssumption, <2>4 DEF TaskInv, ConnectDone, ConnectFailed, Detached,
       Exit, Resumed, FenceInv, TypeOK, GateOK, CallersOK, WorldOK, MutexInv,
       PendingInv
  <2>5. CASE Promote(c)
    BY NullAssumption, <2>5 DEF TaskInv, Promote, AcquisitionCount, Reply, Exit, Resumed,
       LockHeld, FenceInv, TypeOK, GateOK, CallersOK, WorldOK, MutexInv,
       PendingInv
  <2>6. CASE ReplyUnfenced(c)
    BY NullAssumption, <2>6 DEF TaskInv, ReplyUnfenced, Reply, Exit, Resumed,
       LockHeld, FenceInv, TypeOK, GateOK, CallersOK, WorldOK, MutexInv,
       PendingInv
  <2>7. CASE AbortNow(c) \/ AbortEnd(c)
    BY NullAssumption, <2>7 DEF TaskInv, AbortNow, AbortEnd, EndOrDropPending,
       EndQuiesce, EndsHere, TaskRunning, Reply, Detached, FenceInv, TypeOK,
       GateOK, CallersOK, WorldOK, MutexInv, PendingInv
  <2>8. CASE AbortBegin(c)
    BY NullAssumption, <2>8 DEF TaskInv, AbortBegin, EndsHere, TaskRunning,
       Detached, FenceInv, TypeOK, GateOK, CallersOK, WorldOK, MutexInv,
       PendingInv
  <2> QED
    BY <1>4, <2>1, <2>2, <2>3, <2>4, <2>5, <2>6, <2>7, <2>8 DEF Serve
<1>5. CASE TaskStep
  BY NullAssumption, <1>5 DEF TaskInv, TaskStep, TaskConnects,
     TaskRequestsLock, TaskLocked, TaskFails, Resumed, FenceInv, TypeOK,
     GateOK, CallersOK, WorldOK, MutexInv, PendingInv
<1>6. CASE PostgresStep
  BY NullAssumption, <1>6 DEF TaskInv, PostgresStep, GrantExclusive,
     ReapSession, LoseSession, OnQuiesceConnTerminated, FenceInv, TypeOK,
     GateOK, CallersOK, WorldOK, MutexInv, PendingInv
<1>7. CASE Restart
  BY NullAssumption, <1>7 DEF TaskInv, Restart, FenceInv, TypeOK, GateOK,
     CallersOK, WorldOK, MutexInv, PendingInv
<1>8. CASE UNCHANGED vars
  BY NullAssumption, <1>8 DEF TaskInv, FenceInv, TypeOK, GateOK, CallersOK,
     WorldOK, MutexInv, PendingInv
<1>9. CASE Beside
  BY NullAssumption, <1>9, BesideFrame DEF TaskInv, FenceInv, TypeOK, GateOK,
     CallersOK, WorldOK, MutexInv, PendingInv
<1> QED
  BY <1>1, <1>2, <1>3, <1>4, <1>5, <1>6, <1>7, <1>8, <1>9 DEF Next, SystemStep, Beside

\* Postgres grants the exclusive lock to one session, beside no shared holder.
LEMMA LockStep == FenceInv /\ [Next]_vars => LockInv'
<1> SUFFICES ASSUME FenceInv, [Next]_vars PROVE LockInv'
  OBVIOUS
<1> USE DEF vars, gateVars, callerVars, pgVars, workVars, histVars
<1>1. CASE Resume \/ TimerFires
  BY <1>1 DEF LockInv, Resume, TimerFires, EndQuiesce, Detached, FenceInv,
     TypeOK, GateOK, CallersOK, WorldOK
<1>2. ASSUME NEW c \in Callers, Call(c) PROVE LockInv'
  BY <1>2 DEF LockInv, Call, FenceInv, TypeOK, GateOK, CallersOK, WorldOK
<1>3. ASSUME NEW c \in Callers, Disconnect(c) PROVE LockInv'
  BY <1>3 DEF LockInv, Disconnect, FenceInv, TypeOK, GateOK, CallersOK,
     WorldOK
<1>4. ASSUME NEW c \in Callers, Serve(c) PROVE LockInv'
  <2>1. CASE LeaveQueue(c)
    BY <2>1 DEF LockInv, LeaveQueue, Reply, FenceInv, TypeOK, GateOK,
       CallersOK, WorldOK
  <2>2. CASE Start(c)
    BY <2>2 DEF LockInv, Start, ArmedTimer, ConnectPhase, Detached, LockHeld, Exit,
       Resumed, FenceInv, TypeOK, GateOK, CallersOK, WorldOK
  <2>3. CASE ProbeOk(c) \/ ProbeFails(c)
    BY <2>3 DEF LockInv, ProbeOk, ProbeFails, ConnectPhase, Detached,
       LockHeld, Exit, Resumed, FenceInv, TypeOK, GateOK, CallersOK, WorldOK
  <2>4. CASE ConnectDone(c) \/ ConnectFailed(c)
    BY <2>4 DEF LockInv, ConnectDone, ConnectFailed, Detached, Exit, Resumed,
       FenceInv, TypeOK, GateOK, CallersOK, WorldOK
  <2>5. CASE Promote(c)
    BY <2>5 DEF LockInv, Promote, AcquisitionCount, Reply, Exit, Resumed, LockHeld, FenceInv,
       TypeOK, GateOK, CallersOK, WorldOK
  <2>6. CASE ReplyUnfenced(c)
    BY <2>6 DEF LockInv, ReplyUnfenced, Reply, Exit, Resumed, LockHeld,
       FenceInv, TypeOK, GateOK, CallersOK, WorldOK
  <2>7. CASE AbortNow(c) \/ AbortEnd(c)
    BY <2>7 DEF LockInv, AbortNow, AbortEnd, EndOrDropPending, EndQuiesce,
       EndsHere, TaskRunning, Reply, Detached, FenceInv, TypeOK, GateOK,
       CallersOK, WorldOK
  <2>8. CASE AbortBegin(c)
    BY <2>8 DEF LockInv, AbortBegin, EndsHere, TaskRunning, Detached,
       FenceInv, TypeOK, GateOK, CallersOK, WorldOK
  <2> QED
    BY <1>4, <2>1, <2>2, <2>3, <2>4, <2>5, <2>6, <2>7, <2>8 DEF Serve
<1>5. CASE TaskStep
  BY <1>5 DEF LockInv, TaskStep, TaskConnects, TaskRequestsLock, TaskLocked,
     TaskFails, Resumed, FenceInv, TypeOK, GateOK, CallersOK, WorldOK
<1>6. CASE PostgresStep
  BY <1>6 DEF LockInv, PostgresStep, GrantExclusive, ReapSession, LoseSession,
     OnQuiesceConnTerminated, FenceInv, TypeOK, GateOK, CallersOK, WorldOK
<1>7. CASE Restart
  BY <1>7 DEF LockInv, Restart, FenceInv, TypeOK, GateOK, CallersOK, WorldOK
<1>8. CASE UNCHANGED vars
  BY <1>8 DEF LockInv, FenceInv, TypeOK, GateOK, CallersOK, WorldOK
<1>9. CASE WorkerStep
  BY <1>9 DEF LockInv, WorkerStep, BatchStarts, OutboxApplies, BatchEnds,
     FenceInv, TypeOK, GateOK, CallersOK, WorldOK
<1>10. ASSUME NEW w \in Writers, ArriveWrite(w) \/ AdmitWrite(w) \/ FinishWrite(w)
       PROVE LockInv'
  BY <1>10 DEF LockInv, ArriveWrite, AdmitWrite, FinishWrite, FenceInv,
     TypeOK, GateOK, CallersOK, WorldOK
<1>11. ASSUME NEW d \in Daemons, DaemonStep(d) PROVE LockInv'
  BY <1>11 DEF LockInv, DaemonStep, DaemonTryLock, DaemonReleasesForChat,
     DaemonChatReturns, DaemonReacquires, DaemonReacquireFails,
     DaemonCycleEnds, DaemonLosesSession, SharedGrantable, FenceInv, TypeOK,
     GateOK, CallersOK, WorldOK
<1> QED
  BY <1>1, <1>2, <1>3, <1>4, <1>5, <1>6, <1>7, <1>8, <1>9, <1>10, <1>11 DEF
     Next, SystemStep

\* A writing daemon holds the lock.
LEMMA DaemonStepInv == FenceInv /\ [Next]_vars => DaemonInv'
<1> SUFFICES ASSUME FenceInv, [Next]_vars PROVE DaemonInv'
  OBVIOUS
<1> USE DEF vars, gateVars, callerVars, pgVars, workVars, histVars
<1>1. CASE Resume \/ TimerFires
  BY <1>1 DEF DaemonInv, Resume, TimerFires, EndQuiesce, Detached, FenceInv,
     TypeOK, GateOK, CallersOK, WorldOK
<1>2. ASSUME NEW c \in Callers, Call(c) PROVE DaemonInv'
  BY <1>2 DEF DaemonInv, Call, FenceInv, TypeOK, GateOK, CallersOK, WorldOK
<1>3. ASSUME NEW c \in Callers, Disconnect(c) PROVE DaemonInv'
  BY <1>3 DEF DaemonInv, Disconnect, FenceInv, TypeOK, GateOK, CallersOK,
     WorldOK
<1>4. ASSUME NEW c \in Callers, Serve(c) PROVE DaemonInv'
  <2>1. CASE LeaveQueue(c)
    BY <2>1 DEF DaemonInv, LeaveQueue, Reply, FenceInv, TypeOK, GateOK,
       CallersOK, WorldOK
  <2>2. CASE Start(c)
    BY <2>2 DEF DaemonInv, Start, ArmedTimer, ConnectPhase, Detached, LockHeld, Exit,
       Resumed, FenceInv, TypeOK, GateOK, CallersOK, WorldOK
  <2>3. CASE ProbeOk(c) \/ ProbeFails(c)
    BY <2>3 DEF DaemonInv, ProbeOk, ProbeFails, ConnectPhase, Detached,
       LockHeld, Exit, Resumed, FenceInv, TypeOK, GateOK, CallersOK, WorldOK
  <2>4. CASE ConnectDone(c) \/ ConnectFailed(c)
    BY <2>4 DEF DaemonInv, ConnectDone, ConnectFailed, Detached, Exit,
       Resumed, FenceInv, TypeOK, GateOK, CallersOK, WorldOK
  <2>5. CASE Promote(c)
    BY <2>5 DEF DaemonInv, Promote, AcquisitionCount, Reply, Exit, Resumed, LockHeld, FenceInv,
       TypeOK, GateOK, CallersOK, WorldOK
  <2>6. CASE ReplyUnfenced(c)
    BY <2>6 DEF DaemonInv, ReplyUnfenced, Reply, Exit, Resumed, LockHeld,
       FenceInv, TypeOK, GateOK, CallersOK, WorldOK
  <2>7. CASE AbortNow(c) \/ AbortEnd(c)
    BY <2>7 DEF DaemonInv, AbortNow, AbortEnd, EndOrDropPending, EndQuiesce,
       EndsHere, TaskRunning, Reply, Detached, FenceInv, TypeOK, GateOK,
       CallersOK, WorldOK
  <2>8. CASE AbortBegin(c)
    BY <2>8 DEF DaemonInv, AbortBegin, EndsHere, TaskRunning, Detached,
       FenceInv, TypeOK, GateOK, CallersOK, WorldOK
  <2> QED
    BY <1>4, <2>1, <2>2, <2>3, <2>4, <2>5, <2>6, <2>7, <2>8 DEF Serve
<1>5. CASE TaskStep
  BY <1>5 DEF DaemonInv, TaskStep, TaskConnects, TaskRequestsLock, TaskLocked,
     TaskFails, Resumed, FenceInv, TypeOK, GateOK, CallersOK, WorldOK
<1>6. CASE PostgresStep
  BY <1>6 DEF DaemonInv, PostgresStep, GrantExclusive, ReapSession,
     LoseSession, OnQuiesceConnTerminated, FenceInv, TypeOK, GateOK,
     CallersOK, WorldOK
<1>7. CASE Restart
  BY <1>7 DEF DaemonInv, Restart, FenceInv, TypeOK, GateOK, CallersOK, WorldOK
<1>8. CASE UNCHANGED vars
  BY <1>8 DEF DaemonInv, FenceInv, TypeOK, GateOK, CallersOK, WorldOK
<1>9. CASE WorkerStep
  BY <1>9 DEF DaemonInv, WorkerStep, BatchStarts, OutboxApplies, BatchEnds,
     FenceInv, TypeOK, GateOK, CallersOK, WorldOK
<1>10. ASSUME NEW w \in Writers, ArriveWrite(w) \/ AdmitWrite(w) \/ FinishWrite(w)
       PROVE DaemonInv'
  BY <1>10 DEF DaemonInv, ArriveWrite, AdmitWrite, FinishWrite, FenceInv,
     TypeOK, GateOK, CallersOK, WorldOK
<1>11. ASSUME NEW d \in Daemons, DaemonStep(d) PROVE DaemonInv'
  BY <1>11 DEF DaemonInv, DaemonStep, DaemonTryLock, DaemonReleasesForChat,
     DaemonChatReturns, DaemonReacquires, DaemonReacquireFails,
     DaemonCycleEnds, DaemonLosesSession, SharedGrantable, FenceInv, TypeOK,
     GateOK, CallersOK, WorldOK
<1> QED
  BY <1>1, <1>2, <1>3, <1>4, <1>5, <1>6, <1>7, <1>8, <1>9, <1>10, <1>11 DEF
     Next, SystemStep

\* Answers name fences of the past or the present.
LEMMA WireStep == FenceInv /\ [Next]_vars => WireInv'
<1> SUFFICES ASSUME FenceInv, [Next]_vars PROVE WireInv'
  OBVIOUS
<1> USE DEF vars, gateVars, callerVars, pgVars, workVars, histVars
<1>1. CASE Resume \/ TimerFires
  BY <1>1 DEF WireInv, Resume, TimerFires, EndQuiesce, Detached, FenceInv,
     TypeOK, GateOK, CallersOK, Wire
<1>2. ASSUME NEW c \in Callers, Call(c) PROVE WireInv'
  BY <1>2 DEF WireInv, Call, FenceInv, TypeOK, GateOK, CallersOK, Wire
<1>3. ASSUME NEW c \in Callers, Disconnect(c) PROVE WireInv'
  BY <1>3 DEF WireInv, Disconnect, FenceInv, TypeOK, GateOK, CallersOK, Wire
<1>4. ASSUME NEW c \in Callers, Serve(c) PROVE WireInv'
  <2>1. CASE LeaveQueue(c)
    BY <2>1 DEF WireInv, LeaveQueue, Reply, FenceInv, TypeOK, GateOK,
       CallersOK, Wire
  <2>2. CASE Start(c)
    BY <2>2 DEF WireInv, Start, ArmedTimer, ConnectPhase, Detached, LockHeld, Exit,
       Resumed, FenceInv, TypeOK, GateOK, CallersOK, Wire
  <2>3. CASE ProbeOk(c) \/ ProbeFails(c)
    BY <2>3 DEF WireInv, ProbeOk, ProbeFails, ConnectPhase, Detached,
       LockHeld, Exit, Resumed, FenceInv, TypeOK, GateOK, CallersOK, Wire
  <2>4. CASE ConnectDone(c) \/ ConnectFailed(c)
    BY <2>4 DEF WireInv, ConnectDone, ConnectFailed, Detached, Exit, Resumed,
       FenceInv, TypeOK, GateOK, CallersOK, Wire
  <2>5. CASE Promote(c)
    BY <2>5 DEF WireInv, Promote, AcquisitionCount, Reply, Exit, Resumed, LockHeld, FenceInv,
       TypeOK, GateOK, CallersOK, Wire
  <2>6. CASE ReplyUnfenced(c)
    BY <2>6 DEF WireInv, ReplyUnfenced, Reply, Exit, Resumed, LockHeld,
       FenceInv, TypeOK, GateOK, CallersOK, Wire
  <2>7. CASE AbortNow(c) \/ AbortEnd(c)
    BY <2>7 DEF WireInv, AbortNow, AbortEnd, EndOrDropPending, EndQuiesce,
       EndsHere, TaskRunning, Reply, Detached, FenceInv, TypeOK, GateOK,
       CallersOK, Wire
  <2>8. CASE AbortBegin(c)
    BY <2>8 DEF WireInv, AbortBegin, EndsHere, TaskRunning, Detached,
       FenceInv, TypeOK, GateOK, CallersOK, Wire
  <2> QED
    BY <1>4, <2>1, <2>2, <2>3, <2>4, <2>5, <2>6, <2>7, <2>8 DEF Serve
<1>5. CASE TaskStep
  BY <1>5 DEF WireInv, TaskStep, TaskConnects, TaskRequestsLock, TaskLocked,
     TaskFails, Resumed, FenceInv, TypeOK, GateOK, CallersOK, Wire
<1>6. CASE PostgresStep
  BY <1>6 DEF WireInv, PostgresStep, GrantExclusive, ReapSession, LoseSession,
     OnQuiesceConnTerminated, FenceInv, TypeOK, GateOK, CallersOK, Wire
<1>7. CASE Restart
  BY <1>7 DEF WireInv, Restart, FenceInv, TypeOK, GateOK, CallersOK, Wire
<1>8. CASE UNCHANGED vars
  BY <1>8 DEF WireInv, FenceInv, TypeOK, GateOK, CallersOK, Wire
<1>9. CASE Beside
  BY <1>9, BesideFrame DEF WireInv, FenceInv, TypeOK, GateOK, CallersOK, Wire
<1> QED
  BY <1>1, <1>2, <1>3, <1>4, <1>5, <1>6, <1>7, <1>8, <1>9 DEF Next, SystemStep, Beside

\* The fence a 200 named keeps the writers out.
LEMMA FenceHoldsStep == FenceInv /\ [Next]_vars => FenceHolds'
<1> SUFFICES ASSUME FenceInv, [Next]_vars PROVE FenceHolds'
  OBVIOUS
<1> USE DEF vars, gateVars, callerVars, pgVars, workVars, histVars
<1>1. CASE Resume \/ TimerFires
  BY <1>1 DEF FenceHolds, Resume, TimerFires, EndQuiesce, Detached, FenceInv,
     TypeOK, GateOK, CallersOK, WorldOK, Wire, WireInv, LockHeld, LockInv,
     DaemonInv, StoredInv, PendingInv, MutexInv, FlagInv, Drained
<1>2. ASSUME NEW c \in Callers, Call(c) PROVE FenceHolds'
  BY <1>2 DEF FenceHolds, Call, FenceInv, TypeOK, GateOK, CallersOK, WorldOK,
     Wire, WireInv, LockHeld, LockInv, DaemonInv, StoredInv, PendingInv,
     MutexInv, FlagInv, Drained
<1>3. ASSUME NEW c \in Callers, Disconnect(c) PROVE FenceHolds'
  BY <1>3 DEF FenceHolds, Disconnect, FenceInv, TypeOK, GateOK, CallersOK,
     WorldOK, Wire, WireInv, LockHeld, LockInv, DaemonInv, StoredInv,
     PendingInv, MutexInv, FlagInv, Drained
<1>4. ASSUME NEW c \in Callers, Serve(c) PROVE FenceHolds'
  <2>1. CASE LeaveQueue(c)
    BY <2>1 DEF FenceHolds, LeaveQueue, Reply, FenceInv, TypeOK, GateOK,
       CallersOK, WorldOK, Wire, WireInv, LockHeld, LockInv, DaemonInv,
       StoredInv, PendingInv, MutexInv, FlagInv, Drained
  <2>2. CASE Start(c)
    BY <2>2 DEF FenceHolds, Start, ArmedTimer, ConnectPhase, Detached, LockHeld, Exit,
       Resumed, FenceInv, TypeOK, GateOK, CallersOK, WorldOK, Wire, WireInv,
       LockHeld, LockInv, DaemonInv, StoredInv, PendingInv, MutexInv, FlagInv,
       Drained
  <2>3. CASE ProbeOk(c) \/ ProbeFails(c)
    BY <2>3 DEF FenceHolds, ProbeOk, ProbeFails, ConnectPhase, Detached,
       LockHeld, Exit, Resumed, FenceInv, TypeOK, GateOK, CallersOK, WorldOK,
       Wire, WireInv, LockHeld, LockInv, DaemonInv, StoredInv, PendingInv,
       MutexInv, FlagInv, Drained
  <2>4. CASE ConnectDone(c) \/ ConnectFailed(c)
    BY <2>4 DEF FenceHolds, ConnectDone, ConnectFailed, Detached, Exit,
       Resumed, FenceInv, TypeOK, GateOK, CallersOK, WorldOK, Wire, WireInv,
       LockHeld, LockInv, DaemonInv, StoredInv, PendingInv, MutexInv, FlagInv,
       Drained
  <2>5. CASE Promote(c)
    BY <2>5 DEF FenceHolds, Promote, AcquisitionCount, Reply, Exit, Resumed, LockHeld, FenceInv,
       TypeOK, GateOK, CallersOK, WorldOK, Wire, WireInv, LockHeld, LockInv,
       DaemonInv, StoredInv, PendingInv, MutexInv, FlagInv, Drained
  <2>6. CASE ReplyUnfenced(c)
    BY <2>6 DEF FenceHolds, ReplyUnfenced, Reply, Exit, Resumed, LockHeld,
       FenceInv, TypeOK, GateOK, CallersOK, WorldOK, Wire, WireInv, LockHeld,
       LockInv, DaemonInv, StoredInv, PendingInv, MutexInv, FlagInv, Drained
  <2>7. CASE AbortNow(c) \/ AbortEnd(c)
    <3>1. /\ Reply(c, 409, Wire) /\ (stored' = NoConn \/ stored' = stored)
          /\ closed \subseteq closed' /\ UNCHANGED <<fenceAcqs, token, workVars, losses>>
      <4>1. EndQuiesce \/ UNCHANGED <<generation, flag, timer, stored, owner>>
        BY <2>7, AbortFrame
      <4>2. stored' = NoConn \/ stored' = stored
        BY <4>1 DEF EndQuiesce
      <4>3. Reply(c, 409, Wire) /\ closed \subseteq closed'
        BY <2>7, AbortFrame
      <4>4. UNCHANGED <<fenceAcqs, token, workVars, losses>>
        BY <2>7, AbortFrame
      <4> QED
        BY <4>2, <4>3, <4>4
    <3>2. (LockHeld' => LockHeld) /\ Wire' = Wire
      BY <3>1 DEF LockHeld, Wire
    <3>3. code \in [Callers -> {0, 200, 202, 409}] /\ wire \in [Callers -> Nat \X Nat]
      BY DEF FenceInv, TypeOK, CallersOK
    <3>4. /\ code'[c] = 409
          /\ \A d \in Callers \ {c} : code'[d] = code[d] /\ wire'[d] = wire[d]
      BY <3>1, <3>3 DEF Reply
    <3> SUFFICES ASSUME NEW d \in Callers, code'[d] = 200, wire'[d] = Wire', LockHeld'
                 PROVE  /\ \A w \in Writers : wpc'[w] # "handling"
                        /\ "alt" \in Workers => batch'["alt"] = "idle"
                        /\ losses' = 0 => \A e \in Daemons : dpc'[e] # "work"
      BY DEF FenceHolds
    <3>5. code[d] = 200 /\ wire[d] = Wire /\ LockHeld
      BY <3>2, <3>4
    <3> QED
      BY <3>1, <3>5 DEF FenceInv, FenceHolds
  <2>8. CASE AbortBegin(c)
    BY <2>8 DEF FenceHolds, AbortBegin, EndsHere, TaskRunning, Detached,
       FenceInv, TypeOK, GateOK, CallersOK, WorldOK, Wire, WireInv, LockHeld,
       LockInv, DaemonInv, StoredInv, PendingInv, MutexInv, FlagInv, Drained
  <2> QED
    BY <1>4, <2>1, <2>2, <2>3, <2>4, <2>5, <2>6, <2>7, <2>8 DEF Serve
<1>5. CASE TaskStep
  BY <1>5 DEF FenceHolds, TaskStep, TaskConnects, TaskRequestsLock,
     TaskLocked, TaskFails, Resumed, FenceInv, TypeOK, GateOK, CallersOK,
     WorldOK, Wire, WireInv, LockHeld, LockInv, DaemonInv, StoredInv,
     PendingInv, MutexInv, FlagInv, Drained
<1>6. CASE PostgresStep
  BY <1>6 DEF FenceHolds, PostgresStep, GrantExclusive, ReapSession,
     LoseSession, OnQuiesceConnTerminated, FenceInv, TypeOK, GateOK,
     CallersOK, WorldOK, Wire, WireInv, LockHeld, LockInv, DaemonInv,
     StoredInv, PendingInv, MutexInv, FlagInv, Drained
<1>7. CASE Restart
  BY <1>7 DEF FenceHolds, Restart, FenceInv, TypeOK, GateOK, CallersOK,
     WorldOK, Wire, WireInv, LockHeld, LockInv, DaemonInv, StoredInv,
     PendingInv, MutexInv, FlagInv, Drained
<1>8. CASE UNCHANGED vars
  BY <1>8 DEF FenceHolds, FenceInv, TypeOK, GateOK, CallersOK, WorldOK, Wire,
     WireInv, LockHeld, LockInv, DaemonInv, StoredInv, PendingInv, MutexInv,
     FlagInv, Drained
<1>9. CASE WorkerStep
  BY <1>9 DEF FenceHolds, WorkerStep, BatchStarts, OutboxApplies, BatchEnds,
     FenceInv, TypeOK, GateOK, CallersOK, WorldOK, Wire, WireInv, LockHeld,
     LockInv, DaemonInv, StoredInv, PendingInv, MutexInv, FlagInv, Drained
<1>10. ASSUME NEW w \in Writers, ArriveWrite(w) \/ AdmitWrite(w) \/ FinishWrite(w)
       PROVE FenceHolds'
  BY <1>10 DEF FenceHolds, ArriveWrite, AdmitWrite, FinishWrite, FenceInv,
     TypeOK, GateOK, CallersOK, WorldOK, Wire, WireInv, LockHeld, LockInv,
     DaemonInv, StoredInv, PendingInv, MutexInv, FlagInv, Drained
<1>11. ASSUME NEW d \in Daemons, DaemonStep(d) PROVE FenceHolds'
  BY <1>11 DEF FenceHolds, DaemonStep, DaemonTryLock, DaemonReleasesForChat,
     DaemonChatReturns, DaemonReacquires, DaemonReacquireFails,
     DaemonCycleEnds, DaemonLosesSession, SharedGrantable, FenceInv, TypeOK,
     GateOK, CallersOK, WorldOK, Wire, WireInv, LockHeld, LockInv, DaemonInv,
     StoredInv, PendingInv, MutexInv, FlagInv, Drained
<1> QED
  BY <1>1, <1>2, <1>3, <1>4, <1>5, <1>6, <1>7, <1>8, <1>9, <1>10, <1>11 DEF
     Next, SystemStep

\* The timer is armed with the flag and disarmed with it.
LEMMA DeadManStep == FenceInv /\ [Next]_vars => DeadManArmed'
<1> SUFFICES ASSUME FenceInv, [Next]_vars PROVE DeadManArmed'
  OBVIOUS
<1> USE DEF vars, gateVars, callerVars, pgVars, workVars, histVars
<1>1. CASE Resume \/ TimerFires
  BY <1>1 DEF DeadManArmed, Resume, TimerFires, EndQuiesce, Detached, FenceInv
<1>2. ASSUME NEW c \in Callers, Call(c) PROVE DeadManArmed'
  BY <1>2 DEF DeadManArmed, Call, FenceInv
<1>3. ASSUME NEW c \in Callers, Disconnect(c) PROVE DeadManArmed'
  BY <1>3 DEF DeadManArmed, Disconnect, FenceInv
<1>4. ASSUME NEW c \in Callers, Serve(c) PROVE DeadManArmed'
  <2>1. CASE LeaveQueue(c)
    BY <2>1 DEF DeadManArmed, LeaveQueue, Reply, FenceInv
  <2>2. CASE Start(c)
    BY <2>2 DEF DeadManArmed, Start, ArmedTimer, ConnectPhase, Detached, LockHeld, Exit,
       Resumed, FenceInv
  <2>3. CASE ProbeOk(c) \/ ProbeFails(c)
    BY <2>3 DEF DeadManArmed, ProbeOk, ProbeFails, ConnectPhase, Detached,
       LockHeld, Exit, Resumed, FenceInv
  <2>4. CASE ConnectDone(c) \/ ConnectFailed(c)
    BY <2>4 DEF DeadManArmed, ConnectDone, ConnectFailed, Detached, Exit,
       Resumed, FenceInv
  <2>5. CASE Promote(c)
    BY <2>5 DEF DeadManArmed, Promote, AcquisitionCount, Reply, Exit, Resumed, LockHeld,
       FenceInv
  <2>6. CASE ReplyUnfenced(c)
    BY <2>6 DEF DeadManArmed, ReplyUnfenced, Reply, Exit, Resumed, LockHeld,
       FenceInv
  <2>7. CASE AbortNow(c) \/ AbortEnd(c)
    BY <2>7 DEF DeadManArmed, AbortNow, AbortEnd, EndOrDropPending,
       EndQuiesce, EndsHere, TaskRunning, Reply, Detached, FenceInv
  <2>8. CASE AbortBegin(c)
    BY <2>8 DEF DeadManArmed, AbortBegin, EndsHere, TaskRunning, Detached,
       FenceInv
  <2> QED
    BY <1>4, <2>1, <2>2, <2>3, <2>4, <2>5, <2>6, <2>7, <2>8 DEF Serve
<1>5. CASE TaskStep
  BY <1>5 DEF DeadManArmed, TaskStep, TaskConnects, TaskRequestsLock,
     TaskLocked, TaskFails, Resumed, FenceInv
<1>6. CASE PostgresStep
  BY <1>6 DEF DeadManArmed, PostgresStep, GrantExclusive, ReapSession,
     LoseSession, OnQuiesceConnTerminated, FenceInv
<1>7. CASE Restart
  BY <1>7 DEF DeadManArmed, Restart, FenceInv
<1>8. CASE UNCHANGED vars
  BY <1>8 DEF DeadManArmed, FenceInv
<1>9. CASE Beside
  BY <1>9, BesideFrame DEF DeadManArmed, FenceInv
<1> QED
  BY <1>1, <1>2, <1>3, <1>4, <1>5, <1>6, <1>7, <1>8, <1>9 DEF Next, SystemStep, Beside

\* A connection leaves stored and pending only closed.
LEMMA OrphanStep == FenceInv /\ [Next]_vars => NoOrphanSession'
<1> SUFFICES ASSUME FenceInv, [Next]_vars PROVE NoOrphanSession'
  OBVIOUS
<1> USE DEF vars, gateVars, callerVars, pgVars, workVars, histVars
<1>1. CASE Resume \/ TimerFires
  BY NullAssumption, <1>1 DEF NoOrphanSession, Resume, TimerFires, EndQuiesce,
     Detached, FenceInv, TypeOK, GateOK, CallersOK, WorldOK, TaskInv,
     StoredInv, MutexInv, PendingInv
<1>2. ASSUME NEW c \in Callers, Call(c) PROVE NoOrphanSession'
  BY NullAssumption, <1>2 DEF NoOrphanSession, Call, FenceInv, TypeOK, GateOK,
     CallersOK, WorldOK, TaskInv, StoredInv, MutexInv, PendingInv
<1>3. ASSUME NEW c \in Callers, Disconnect(c) PROVE NoOrphanSession'
  BY NullAssumption, <1>3 DEF NoOrphanSession, Disconnect, FenceInv, TypeOK,
     GateOK, CallersOK, WorldOK, TaskInv, StoredInv, MutexInv, PendingInv
<1>4. ASSUME NEW c \in Callers, Serve(c) PROVE NoOrphanSession'
  <2>1. CASE LeaveQueue(c)
    BY NullAssumption, <2>1 DEF NoOrphanSession, LeaveQueue, Reply, FenceInv,
       TypeOK, GateOK, CallersOK, WorldOK, TaskInv, StoredInv, MutexInv,
       PendingInv
  <2>2. CASE Start(c)
    BY NullAssumption, <2>2 DEF NoOrphanSession, Start, ArmedTimer, ConnectPhase,
       Detached, LockHeld, Exit, Resumed, FenceInv, TypeOK, GateOK, CallersOK,
       WorldOK, TaskInv, StoredInv, MutexInv, PendingInv
  <2>3. CASE ProbeOk(c) \/ ProbeFails(c)
    BY NullAssumption, <2>3 DEF NoOrphanSession, ProbeOk, ProbeFails,
       ConnectPhase, Detached, LockHeld, Exit, Resumed, FenceInv, TypeOK,
       GateOK, CallersOK, WorldOK, TaskInv, StoredInv, MutexInv, PendingInv
  <2>4. CASE ConnectDone(c) \/ ConnectFailed(c)
    BY NullAssumption, <2>4 DEF NoOrphanSession, ConnectDone, ConnectFailed,
       Detached, Exit, Resumed, FenceInv, TypeOK, GateOK, CallersOK, WorldOK,
       TaskInv, StoredInv, MutexInv, PendingInv
  <2>5. CASE Promote(c)
    BY NullAssumption, <2>5 DEF NoOrphanSession, Promote, AcquisitionCount, Reply, Exit,
       Resumed, LockHeld, FenceInv, TypeOK, GateOK, CallersOK, WorldOK,
       TaskInv, StoredInv, MutexInv, PendingInv
  <2>6. CASE ReplyUnfenced(c)
    BY NullAssumption, <2>6 DEF NoOrphanSession, ReplyUnfenced, Reply, Exit,
       Resumed, LockHeld, FenceInv, TypeOK, GateOK, CallersOK, WorldOK,
       TaskInv, StoredInv, MutexInv, PendingInv
  <2>7. CASE AbortNow(c) \/ AbortEnd(c)
    BY NullAssumption, <2>7 DEF NoOrphanSession, AbortNow, AbortEnd,
       EndOrDropPending, EndQuiesce, EndsHere, TaskRunning, Reply, Detached,
       FenceInv, TypeOK, GateOK, CallersOK, WorldOK, TaskInv, StoredInv,
       MutexInv, PendingInv
  <2>8. CASE AbortBegin(c)
    BY NullAssumption, <2>8 DEF NoOrphanSession, AbortBegin, EndsHere,
       TaskRunning, Detached, FenceInv, TypeOK, GateOK, CallersOK, WorldOK,
       TaskInv, StoredInv, MutexInv, PendingInv
  <2> QED
    BY <1>4, <2>1, <2>2, <2>3, <2>4, <2>5, <2>6, <2>7, <2>8 DEF Serve
<1>5. CASE TaskStep
  BY NullAssumption, <1>5 DEF NoOrphanSession, TaskStep, TaskConnects,
     TaskRequestsLock, TaskLocked, TaskFails, Resumed, FenceInv, TypeOK,
     GateOK, CallersOK, WorldOK, TaskInv, StoredInv, MutexInv, PendingInv
<1>6. CASE PostgresStep
  BY NullAssumption, <1>6 DEF NoOrphanSession, PostgresStep, GrantExclusive,
     ReapSession, LoseSession, OnQuiesceConnTerminated, FenceInv, TypeOK,
     GateOK, CallersOK, WorldOK, TaskInv, StoredInv, MutexInv, PendingInv
<1>7. CASE Restart
  BY NullAssumption, <1>7 DEF NoOrphanSession, Restart, FenceInv, TypeOK,
     GateOK, CallersOK, WorldOK, TaskInv, StoredInv, MutexInv, PendingInv
<1>8. CASE UNCHANGED vars
  BY NullAssumption, <1>8 DEF NoOrphanSession, FenceInv, TypeOK, GateOK,
     CallersOK, WorldOK, TaskInv, StoredInv, MutexInv, PendingInv
<1>9. CASE Beside
  BY NullAssumption, <1>9, BesideFrame DEF NoOrphanSession, FenceInv, TypeOK,
     GateOK, CallersOK, WorldOK, TaskInv, StoredInv, MutexInv, PendingInv
<1> QED
  BY <1>1, <1>2, <1>3, <1>4, <1>5, <1>6, <1>7, <1>8, <1>9 DEF Next, SystemStep, Beside

-----------------------------------------------------------------------------
\* FenceInv holds when the gateway starts.
LEMMA InitFenceInv == Init => FenceInv
<1> SUFFICES ASSUME Init PROVE FenceInv
  OBVIOUS
<1>1. FlagsOK
  BY DEF Init, FlagsOK
<1>2. GateOK
  BY DEF Init, GateOK
<1>3. CallersOK
  <2>1. wire \in [Callers -> Nat \X Nat]
    BY DEF Init
  <2>2. code \in [Callers -> {0, 200, 202, 409}]
    BY DEF Init
  <2>3. entryGen \in [Callers -> Nat] /\ myGen \in [Callers -> Nat]
    BY DEF Init
  <2>4. pc \in [Callers -> CallerPCs]
    BY DEF Init
  <2> QED
    BY <2>1, <2>2, <2>3, <2>4 DEF CallersOK
<1>4. WorldOK
  <2>1. sess \in [Conns -> {"none", "open", "waiting", "locked"}]
    BY DEF Init
  <2>2. wpc \in [Writers -> {"idle", "reading", "handling"}]
    BY DEF Init
  <2>3. batch \in [Workers -> {"idle", "run"}]
    BY DEF Init
  <2>4. dpc \in [Daemons -> {"idle", "work", "chat", "reacq"}]
    BY DEF Init
  <2> QED
    BY <2>1, <2>2, <2>3, <2>4 DEF Init, WorldOK
<1>5. MutexInv /\ FlagInv
  BY NullAssumption DEF Init, MutexInv, FlagInv
<1>6. StoredInv /\ PendingInv /\ TaskInv
  BY DEF Init, StoredInv, PendingInv, TaskInv, LockHeld
<1>7. LockInv /\ DaemonInv /\ WireInv
  BY DEF Init, LockInv, DaemonInv, WireInv
<1>8. FenceHolds /\ DeadManArmed /\ NoOrphanSession
  BY DEF Init, FenceHolds, DeadManArmed, NoOrphanSession, LockHeld
<1> QED
  BY <1>1, <1>2, <1>3, <1>4, <1>5, <1>6, <1>7, <1>8 DEF FenceInv, TypeOK

\* FenceInv is inductive: every step of the quiesce preserves all its parts.
THEOREM Inductive == Spec => []FenceInv
<1>1. Init => FenceInv
  BY InitFenceInv
<1>2. FenceInv /\ [Next]_vars => FenceInv'
  <2> SUFFICES ASSUME FenceInv, [Next]_vars PROVE FenceInv'
    OBVIOUS
  <2>0. TypeOK
    BY DEF FenceInv
  <2>1. TypeOK'
    BY <2>0, FlagsStep, GateStep, CallersStep, WorldStep DEF TypeOK
  <2>2. MutexInv' /\ FlagInv' /\ StoredInv' /\ PendingInv' /\ TaskInv'
    BY MutexStep, FlagStep, StoredStep, PendingStep, TaskInvStep
  <2>3. LockInv' /\ DaemonInv' /\ WireInv'
    BY LockStep, DaemonStepInv, WireStep
  <2>4. FenceHolds' /\ DeadManArmed' /\ NoOrphanSession'
    BY FenceHoldsStep, DeadManStep, OrphanStep
  <2> QED
    BY <2>1, <2>2, <2>3, <2>4 DEF FenceInv
<1> QED
  BY <1>1, <1>2, PTL DEF Spec

\* Type correctness of the quiesce.
THEOREM TypeCorrect == Spec => []TypeOK
<1>1. FenceInv => TypeOK
  BY DEF FenceInv
<1> QED
  BY <1>1, Inductive, PTL

\* What a 200 of POST /admin/backup is worth (_begin_quiesce): no admitted
\* write, alternative-vector batch or daemon overlaps the fence it named.
THEOREM FenceCorrect == Spec => []FenceHolds
<1>1. FenceInv => FenceHolds
  BY DEF FenceInv
<1> QED
  BY <1>1, Inductive, PTL

\* _lock_held never lies: the stored session owns the lock, alone.
THEOREM BeliefCorrect == Spec => []BeliefIsTrue
<1>1. FenceInv => BeliefIsTrue
  BY DEF FenceInv, BeliefIsTrue, StoredInv, LockInv, LockHeld, TypeOK, GateOK
<1> QED
  BY <1>1, Inductive, PTL

\* A raised flag has an armed dead-man timer behind it (_quiesce_ttl).
THEOREM DeadManCorrect == Spec => []DeadManArmed
<1>1. FenceInv => DeadManArmed
  BY DEF FenceInv
<1> QED
  BY <1>1, Inductive, PTL

\* No session that holds or awaits the lock escapes _end_quiesce.
THEOREM NoOrphanCorrect == Spec => []NoOrphanSession
<1>1. FenceInv => NoOrphanSession
  BY DEF FenceInv
<1> QED
  BY <1>1, Inductive, PTL

\* Only a resume, the timer, a restart or the departure of the caller that
\* started the quiesce ends it (_quiesce_abort).
THEOREM OwnerCorrect == Spec => OnlyTheOwnerEnds
<1> DEFINE A == flag /\ ~flag' => Resume \/ TimerFires \/ Restart \/ gone[owner]
<1>1. FenceInv /\ [Next]_vars => [A]_vars
  <2> SUFFICES ASSUME FenceInv, Next, flag, ~flag', ~Resume, ~TimerFires, ~Restart
               PROVE gone[owner]
    OBVIOUS
  <2> USE DEF vars, gateVars, callerVars, pgVars, workVars, histVars
  <2>1. PICK c \in Callers : Serve(c)
    <3>1. ~TaskStep
      BY DEF TaskStep, TaskConnects, TaskRequestsLock, TaskLocked, TaskFails
    <3>2. ~PostgresStep
      BY DEF PostgresStep, GrantExclusive, ReapSession, LoseSession,
             OnQuiesceConnTerminated
    <3>3. ~Beside
      BY BesideFrame
    <3>4. \A c \in Callers : ~Call(c) /\ ~Disconnect(c)
      BY DEF Call, Disconnect
    <3> QED
      BY <3>1, <3>2, <3>3, <3>4 DEF Next, SystemStep, Beside
  <2>2. AbortNow(c) \/ AbortEnd(c)
    BY <2>1 DEF Serve, LeaveQueue, Start, ArmedTimer, ProbeOk, ProbeFails, ConnectPhase,
       ConnectDone, ConnectFailed, Promote, AcquisitionCount, ReplyUnfenced, AbortBegin
  <2>3. EndsHere(c) /\ pc[c] \in Inside
    BY <2>2 DEF AbortNow, AbortEnd, EndOrDropPending
  <2> QED
    BY <2>3 DEF EndsHere, FenceInv, FlagInv
<1> QED
  BY <1>1, Inductive, PTL DEF Spec, OnlyTheOwnerEnds

\* One step of FenceIdentityIsMonotone.
LEMMA IdentityStep ==
    ASSUME FenceInv, [Next]_vars
    PROVE  \/ token' > token
           \/ /\ token' = token /\ fenceAcqs' >= fenceAcqs
              /\ LockHeld' /\ ~LockHeld => fenceAcqs' > fenceAcqs
<1> DEFINE A == \/ token' > token
                \/ /\ token' = token /\ fenceAcqs' >= fenceAcqs
                   /\ LockHeld' /\ ~LockHeld => fenceAcqs' > fenceAcqs
<1> SUFFICES A
  OBVIOUS
<1>0. token \in Nat /\ fenceAcqs \in Nat
  BY DEF FenceInv, TypeOK, GateOK
<1> USE <1>0 DEF vars, gateVars, callerVars, pgVars, workVars, histVars
<1>1. CASE Restart
  BY <1>1 DEF Restart
<1>2. CASE Resume \/ TimerFires
  BY <1>2 DEF Resume, TimerFires, EndQuiesce, LockHeld
<1>3. CASE TaskStep
  BY <1>3 DEF TaskStep, TaskConnects, TaskRequestsLock, TaskLocked, TaskFails, LockHeld
<1>4. CASE PostgresStep
  BY <1>4 DEF PostgresStep, GrantExclusive, ReapSession, LoseSession,
     OnQuiesceConnTerminated, LockHeld
<1>5. CASE Beside
  BY <1>5, BesideFrame DEF LockHeld
<1>6. ASSUME NEW c \in Callers, Call(c) \/ Disconnect(c) PROVE A
  BY <1>6 DEF Call, Disconnect, LockHeld
<1>7. ASSUME NEW c \in Callers, Serve(c) PROVE A
  <2>1. CASE Promote(c)
    BY <2>1 DEF Promote, AcquisitionCount, LockHeld
  <2>2. CASE Start(c) \/ ProbeOk(c) \/ ProbeFails(c)
    BY <2>2 DEF Start, ArmedTimer, ProbeOk, ProbeFails, ConnectPhase, LockHeld
  <2>3. CASE LeaveQueue(c) \/ ConnectDone(c) \/ ConnectFailed(c) \/ ReplyUnfenced(c)
    BY <2>3 DEF LeaveQueue, ConnectDone, ConnectFailed, ReplyUnfenced, LockHeld
  <2>4. CASE AbortNow(c) \/ AbortBegin(c) \/ AbortEnd(c)
    BY <2>4 DEF AbortNow, AbortBegin, AbortEnd, EndOrDropPending, EndQuiesce, LockHeld
  <2> QED
    BY <1>7, <2>1, <2>2, <2>3, <2>4 DEF Serve
<1>8. CASE UNCHANGED vars
  BY <1>8 DEF LockHeld
<1> QED
  BY <1>1, <1>2, <1>3, <1>4, <1>5, <1>6, <1>7, <1>8 DEF Next, SystemStep, Beside

\* quiesce_generation on the wire never repeats a fence (_wire_quiesce_generation).
THEOREM FenceIdentityCorrect == Spec => FenceIdentityIsMonotone
<1>1. FenceInv /\ [Next]_vars =>
        [\/ token' > token
         \/ token' = token /\ fenceAcqs' >= fenceAcqs
            /\ (LockHeld' /\ ~LockHeld => fenceAcqs' > fenceAcqs)]_vars
  BY IdentityStep
<1> QED
  BY <1>1, Inductive, PTL DEF Spec, FenceIdentityIsMonotone

-----------------------------------------------------------------------------
(***************************************************************************)
(* ops/backup.sh against this quiesce: what the manifest says of its dumps *)
(* is true, for any other administrators, writers, workers, daemons and    *)
(* bounds.  Every step of the composition is a step of Quiesce or leaves   *)
(* it alone, so FenceInv holds throughout.                                 *)
(***************************************************************************)
USE DEF Early, Dumping

-----------------------------------------------------------------------------
\* What the script and the others do to the gateway is a step of the gateway.
LEMMA ComposedStep == FenceNext => [Next]_vars
<1> SUFFICES ASSUME FenceNext PROVE [Next]_vars
  OBVIOUS
<1>1. ResumeIfOwed => Resume \/ UNCHANGED vars
  BY DEF ResumeIfOwed
<1>2. CASE ScriptStep
  BY <1>1, <1>2, ShAssumption
  DEF ScriptStep, ShQuiesce, ShQuiesceAnswered, ShQuiesceTimesOut, ShDrain, ShRead1, ShRearm,
      ShRearmAnswered, ShRearmTimesOut, ShDumpPostgres, ShDumpNeo4j, ShRead2, ShFinish, ShDies, Next
<1>3. CASE OtherStep
  BY <1>3 DEF OtherStep, Next
<1> QED
  BY <1>2, <1>3 DEF FenceNext

\* The composition implements the gateway's own specification.
LEMMA Composition == FenceSpec => Spec
<1>1. [FenceNext]_allVars => [Next]_vars
  BY ComposedStep DEF allVars
<1>2. FenceInit => Init
  BY DEF FenceInit
<1> QED
  BY <1>1, <1>2, PTL DEF FenceSpec, Spec

LEMMA FenceThroughout == FenceSpec => []FenceInv
  BY Composition, Inductive, PTL

\* A restarted or re-armed gateway never repeats a fence, whatever the script does.
THEOREM ComposedIdentity == FenceSpec => FenceIdentityIsMonotone
  BY Composition, FenceIdentityCorrect, PTL

-----------------------------------------------------------------------------
\* The script's own state, and what it read, keeps its type.
LEMMA FenceTypeStep == TypeOK /\ FenceTypeOK /\ [FenceNext]_allVars => FenceTypeOK'
<1> SUFFICES ASSUME TypeOK, FenceTypeOK, [FenceNext]_allVars PROVE FenceTypeOK'
  OBVIOUS
<1> USE DEF FenceTypeOK, ScriptPCs, Modes, Kinds
<1>1. Reading \in [ok : BOOLEAN, held : BOOLEAN, gen : Nat \X Nat]
  BY WireType DEF Reading, LockHeld
<1>2. NoReading \in [ok : BOOLEAN, held : BOOLEAN, gen : Nat \X Nat]
  BY DEF NoReading
<1>3. CASE UNCHANGED allVars
  BY <1>3 DEF allVars, scriptVars
<1>4. ASSUME FenceNext PROVE dirty' \subseteq Kinds
  BY <1>4 DEF FenceNext, Record, Active
<1>5. CASE ScriptStep /\ FenceNext
  <2>1. CASE ShQuiesce \/ ShQuiesceTimesOut
    BY <1>4, <1>5, <2>1 DEF ShQuiesce, ShQuiesceTimesOut, Unquiesced
  <2>5. CASE ShQuiesceAnswered
    <3>1. spc' \in ScriptPCs
      BY <2>5 DEF ShQuiesceAnswered, Unquiesced
    <3>2. quiesced' \in BOOLEAN /\ initial' \in BOOLEAN
      BY <2>5 DEF ShQuiesceAnswered, Unquiesced
    <3> QED
      BY <1>4, <1>5, <2>5, <3>1, <3>2 DEF ShQuiesceAnswered, Unquiesced
  <2>2. CASE ShDrain \/ ShRead1 \/ ShRearm \/ ShRearmAnswered \/ ShRearmTimesOut
    <3>1. RearmProvesFence \in BOOLEAN
      BY DEF RearmProvesFence
    <3> QED
      BY <1>1, <1>2, <1>4, <1>5, <2>2, <3>1
      DEF ShDrain, ShRead1, ShRearm, ShRearmAnswered, ShRearmTimesOut
  <2>3. CASE ShDumpPostgres \/ ShDumpNeo4j \/ ShRead2 \/ ShDies
    BY <1>1, <1>2, <1>4, <1>5, <2>3
    DEF ShDumpPostgres, ShDumpNeo4j, ShRead2, ShDies, ResumeIfOwed
  <2>4. CASE ShFinish
    BY <1>4, <1>5, <2>4 DEF ShFinish, Verdict, ResumeIfOwed
  <2> QED
    BY <1>5, <2>1, <2>2, <2>3, <2>4, <2>5 DEF ScriptStep
<1>6. CASE OtherStep /\ FenceNext
  BY <1>4, <1>6 DEF OtherStep
<1> QED
  BY <1>3, <1>5, <1>6 DEF FenceNext

\* Type correctness of the composition.
THEOREM FenceTypeCorrect == FenceSpec => [](TypeOK /\ FenceTypeOK)
<1>1. FenceInit => FenceTypeOK
  <2>1. NoReading \in [ok : BOOLEAN, held : BOOLEAN, gen : Nat \X Nat]
    BY DEF NoReading
  <2> QED
    BY <2>1 DEF FenceInit, ScriptInit, FenceTypeOK, ScriptPCs, Modes, Kinds
<1>2. FenceInv => TypeOK
  BY DEF FenceInv
<1> QED
  BY <1>1, <1>2, FenceTypeStep, FenceThroughout, PTL DEF FenceSpec

-----------------------------------------------------------------------------
\* The steps in which caller c does nothing.
StepWithout(c) ==
    \/ SystemStep \/ Resume \/ UNCHANGED vars
    \/ \E d \in Callers \ {c} : Call(d) \/ Disconnect(d)

\* A call that is over keeps its answer until the caller asks again.
LEMMA IdleStep ==
    ASSUME FenceInv, NEW c \in Callers, pc[c] = "idle", StepWithout(c)
    PROVE  pc'[c] = "idle" /\ code'[c] = code[c] /\ wire'[c] = wire[c]
<1> USE DEF vars, gateVars, callerVars, pgVars, workVars, histVars
<1>0. /\ pc \in [Callers -> CallerPCs]
      /\ code \in [Callers -> {0, 200, 202, 409}]
      /\ wire \in [Callers -> Nat \X Nat]
  BY DEF FenceInv, TypeOK, CallersOK
<1>1. CASE Resume \/ TimerFires
  BY <1>1 DEF Resume, TimerFires
<1>2. ASSUME NEW d \in Callers \ {c}, Call(d) \/ Disconnect(d)
      PROVE pc'[c] = "idle" /\ code'[c] = code[c] /\ wire'[c] = wire[c]
  BY <1>0, <1>2 DEF Call, Disconnect
<1>3. ASSUME NEW d \in Callers, Serve(d)
      PROVE pc'[c] = "idle" /\ code'[c] = code[c] /\ wire'[c] = wire[c]
  <2>1. d # c
    BY <1>3 DEF Serve, LeaveQueue, Start, ProbeOk, ProbeFails, ConnectDone, ConnectFailed,
       Promote, ReplyUnfenced, AbortNow, AbortBegin, AbortEnd, TaskRunning
  <2>2. CASE LeaveQueue(d) \/ ReplyUnfenced(d)
    BY <1>0, <2>1, <2>2 DEF LeaveQueue, ReplyUnfenced, Reply
  <2>3. CASE Promote(d)
    BY <1>0, <2>1, <2>3 DEF Promote, Reply
  <2>4. CASE AbortNow(d) \/ AbortEnd(d)
    BY <1>0, <2>1, <2>4 DEF AbortNow, AbortEnd, Reply
  <2>5. CASE Start(d) \/ ProbeOk(d) \/ ProbeFails(d)
    BY <1>0, <2>1, <2>5 DEF Start, ProbeOk, ProbeFails, ConnectPhase
  <2>6. CASE ConnectDone(d) \/ ConnectFailed(d) \/ AbortBegin(d)
    BY <1>0, <2>1, <2>6 DEF ConnectDone, ConnectFailed, AbortBegin
  <2> QED
    BY <1>3, <2>2, <2>3, <2>4, <2>5, <2>6 DEF Serve
<1>4. CASE TaskStep
  BY <1>4 DEF TaskStep, TaskConnects, TaskRequestsLock, TaskLocked, TaskFails
<1>5. CASE PostgresStep
  BY <1>5 DEF PostgresStep, GrantExclusive, ReapSession, LoseSession, OnQuiesceConnTerminated
<1>6. CASE Restart
  BY <1>0, <1>6 DEF Restart
<1>7. CASE Beside
  BY <1>7, BesideFrame
<1>8. CASE UNCHANGED vars
  BY <1>8
<1> QED
  BY <1>1, <1>2, <1>3, <1>4, <1>5, <1>6, <1>7, <1>8 DEF StepWithout, SystemStep, Beside

\* A fence that is live after a step was live before it, if it is not a future one.
LEMMA FencedStep ==
    ASSUME FenceInv, [Next]_vars, NEW f \in Nat \X Nat, NotNewer(f)
    PROVE  NotNewer(f)' /\ (Fenced(f)' => Fenced(f))
<1>1. token \in Nat /\ fenceAcqs \in Nat /\ f[1] \in Nat /\ f[2] \in Nat
  BY DEF FenceInv, TypeOK, GateOK
<1>2. token' \in Nat /\ fenceAcqs' \in Nat
  BY GateStep DEF FenceInv, GateOK
<1> QED
  BY <1>1, <1>2, IdentityStep DEF NotNewer, Fenced, Wire

\* Sessions that daemons lost stay lost.
LEMMA LossesStep == FenceInv /\ [Next]_vars => losses \in Nat /\ losses' >= losses
<1> SUFFICES ASSUME FenceInv, [Next]_vars PROVE losses \in Nat /\ losses' >= losses
  OBVIOUS
<1> USE DEF vars, gateVars, callerVars, pgVars, workVars, histVars
<1>0. losses \in Nat
  BY DEF FenceInv, TypeOK, GateOK
<1>1. CASE UNCHANGED losses
  BY <1>0, <1>1
<1>2. CASE \E d \in Daemons : DaemonLosesSession(d)
  BY <1>0, <1>2 DEF DaemonLosesSession
<1>3. CASE \E c \in Callers : Serve(c)
  BY <1>1, <1>3 DEF Serve, LeaveQueue, Start, ProbeOk, ProbeFails, ConnectDone, ConnectFailed,
     Promote, ReplyUnfenced, AbortNow, AbortBegin, AbortEnd
<1>4. CASE TaskStep \/ PostgresStep
  BY <1>1, <1>4 DEF TaskStep, TaskConnects, TaskRequestsLock, TaskLocked, TaskFails,
     PostgresStep, GrantExclusive, ReapSession, LoseSession, OnQuiesceConnTerminated
<1>5. CASE WorkerStep \/ \E w \in Writers : ArriveWrite(w) \/ AdmitWrite(w) \/ FinishWrite(w)
  BY <1>1, <1>5 DEF WorkerStep, BatchStarts, OutboxApplies, BatchEnds, ArriveWrite, AdmitWrite,
     FinishWrite
<1>6. ASSUME NEW d \in Daemons, DaemonStep(d) PROVE losses' >= losses
  BY <1>1, <1>2, <1>6 DEF DaemonStep, DaemonTryLock, DaemonReleasesForChat, DaemonChatReturns,
     DaemonReacquires, DaemonReacquireFails, DaemonCycleEnds
<1>7. CASE Restart \/ Resume \/ TimerFires \/ \E c \in Callers : Call(c) \/ Disconnect(c)
  BY <1>1, <1>7 DEF Restart, Resume, TimerFires, Call, Disconnect
<1> QED
  BY <1>0, <1>1, <1>3, <1>4, <1>5, <1>6, <1>7 DEF Next, SystemStep

-----------------------------------------------------------------------------
\* Beside a live fence that the script holds an answer for, only the outbox writes.
LEMMA ActiveIsClean ==
    ASSUME FenceInv', code'[Sh] = 200, wire'[Sh] = Wire', LockHeld'
    PROVE  Active' \cap {"client", "alt"} = {} /\ (losses' = 0 => "daemon" \notin Active')
<1>1. /\ \A w \in Writers : wpc'[w] # "handling"
      /\ "alt" \in Workers => batch'["alt"] = "idle"
      /\ losses' = 0 => \A d \in Daemons : dpc'[d] # "work"
  BY ShAssumption DEF FenceInv, FenceHolds
<1> QED
  BY <1>1 DEF Active, Kinds

\* What is recorded of a step.
LEMMA RecordStep ==
    ASSUME FenceNext
    PROVE  \/ dirty' = dirty
           \/ spc' \in {"pg", "neo"} /\ initial' /\ dirty' = dirty \cup Active'
  BY DEF FenceNext, Record

LEMMA CleanKept ==
    ASSUME FenceInv, [Next]_vars, Clean, dirty' = dirty
    PROVE  Clean'
  BY LossesStep DEF Clean

\* Every step keeps what the manifest's verdict rests on.
LEMMA DumpStep ==
    ASSUME FenceInv, FenceInv', FenceTypeOK, FenceTypeOK', DumpInv, FenceNext
    PROVE  DumpInv'
<1> USE ShAssumption DEF vars
<1>1. [Next]_vars
  BY ComposedStep
<1>2. ASSUME spc' \in Early PROVE dirty' = {} /\ ~rearmOk'
  <2>1. dirty' = dirty
    BY <1>2, RecordStep
  <2>2. spc \in Early /\ rearmOk' = rearmOk
    <3>1. CASE ScriptStep
      BY <1>2, <3>1
      DEF ScriptStep, ShQuiesce, ShQuiesceAnswered, ShQuiesceTimesOut, Unquiesced, ShDrain, ShRead1,
          ShRearm, ShRearmAnswered, ShRearmTimesOut, ShDumpPostgres, ShDumpNeo4j, ShRead2, ShFinish,
          ShDies
    <3>2. CASE OtherStep
      BY <1>2, <3>2 DEF OtherStep
    <3> QED
      BY <3>1, <3>2 DEF FenceNext
  <2> QED
    BY <2>1, <2>2 DEF DumpInv
<1>3. ASSUME spc' \in Dumping, rearmOk'
      PROVE  /\ pc'[Sh] = "idle" /\ code'[Sh] = 200 /\ wire'[Sh] = r1'.gen
             /\ Fenced(r1.gen)' => Clean'
  <2>1. CASE ShRearmAnswered
    <3>1. /\ pc'[Sh] = "idle" /\ code'[Sh] = 200 /\ wire'[Sh] = r1'.gen
          /\ Clean /\ dirty \in SUBSET Kinds /\ losses' = losses
      BY <1>3, <2>1 DEF ShRearmAnswered, RearmProvesFence, DumpInv, Clean, histVars, callerVars
    <3>2. ASSUME Fenced(r1.gen)' PROVE Clean'
      BY <3>1, <3>2, ActiveIsClean, RecordStep DEF Fenced, Clean
    <3> QED
      BY <3>1, <3>2
  <2>2. CASE ~ShRearmAnswered
    <3>1. spc \in Dumping /\ rearmOk /\ r1' = r1 /\ StepWithout(Sh)
      <4>1. CASE ScriptStep
        BY <1>3, <2>2, <4>1
        DEF ScriptStep, ShQuiesce, ShQuiesceAnswered, ShQuiesceTimesOut, Unquiesced, ShDrain,
            ShRead1, ShRearm, ShRearmTimesOut, ShDumpPostgres, ShDumpNeo4j, ShRead2,
            ShFinish, ShDies, DumpInv, StepWithout
      <4>2. CASE OtherStep
        BY <1>3, <4>2 DEF OtherStep, StepWithout
      <4> QED
        BY <4>1, <4>2 DEF FenceNext
    <3>2. pc'[Sh] = "idle" /\ code'[Sh] = 200 /\ wire'[Sh] = r1.gen
      BY <3>1, IdleStep DEF DumpInv
    <3>3. ASSUME Fenced(r1.gen)' PROVE Clean'
      <4>1. r1.gen \in Nat \X Nat /\ NotNewer(r1.gen) /\ r1.gen' = r1.gen
        BY <3>1 DEF FenceTypeOK, DumpInv, FenceInv, WireInv, NotNewer
      <4>2. Fenced(r1.gen)
        BY <1>1, <3>3, <4>1, FencedStep DEF Fenced
      <4>3. Clean
        BY <3>1, <4>2 DEF DumpInv
      <4>4. CASE dirty' = dirty
        BY <1>1, <4>3, <4>4, CleanKept
      <4>5. CASE dirty' = dirty \cup Active'
        BY <1>1, <3>2, <3>3, <4>1, <4>3, <4>5, ActiveIsClean, LossesStep DEF Fenced, Clean
      <4> QED
        BY <4>4, <4>5, RecordStep
    <3> QED
      BY <3>1, <3>2, <3>3
  <2> QED
    BY <2>1, <2>2
<1>4. ASSUME spc' = "resume", Verdict' = "full" PROVE Clean'
  <2>1. dirty' = dirty
    BY <1>4, RecordStep
  <2>2. initial' /\ r1'.ok /\ r2'.ok /\ r1'.held /\ r2'.held /\ rearmOk' /\ r1'.gen = r2'.gen
    BY <1>4 DEF Verdict
  <2>3. CASE ShRead2
    <3>1. r2' = Reading /\ r1' = r1 /\ rearmOk
      BY <2>2, <2>3 DEF ShRead2, NoReading
    <3>2. Fenced(r1.gen)
      BY <2>2, <3>1 DEF Reading, Fenced
    <3>3. Clean
      BY <2>3, <3>1, <3>2 DEF ShRead2, DumpInv
    <3> QED
      BY <1>1, <2>1, <3>3, CleanKept
  <2>4. CASE OtherStep
    <3>1. spc = "resume" /\ Verdict = "full"
      BY <1>4, <2>4 DEF OtherStep, Verdict
    <3> QED
      BY <1>1, <2>1, <3>1, CleanKept DEF DumpInv
  <2>5. CASE ScriptStep /\ ~ShRead2
    BY <1>4, <2>2, <2>5
    DEF ScriptStep, ShQuiesce, ShQuiesceAnswered, ShQuiesceTimesOut, Unquiesced, ShDrain, ShRead1,
        ShRearm, ShRearmAnswered, ShRearmTimesOut, ShDumpPostgres, ShDumpNeo4j, ShFinish, ShDies
  <2> QED
    BY <2>3, <2>4, <2>5 DEF FenceNext
<1>5. ASSUME mode' = "full" PROVE Clean' /\ spc' \in {"done", "unpromoted"}
  <2>1. CASE ShFinish
    <3>1. spc = "resume" /\ Verdict = "full" /\ spc' \in {"done", "unpromoted"}
      BY <1>5, <2>1 DEF ShFinish
    <3>2. dirty' = dirty
      BY <3>1, RecordStep
    <3> QED
      BY <1>1, <3>1, <3>2, CleanKept DEF DumpInv
  <2>2. CASE ~ShFinish
    <3>1. mode = "full"
      BY <1>5, <2>2
      DEF FenceNext, ScriptStep, ShQuiesce, ShQuiesceAnswered, ShQuiesceTimesOut, Unquiesced,
          ShDrain, ShRead1, ShRearm, ShRearmAnswered, ShRearmTimesOut, ShDumpPostgres, ShDumpNeo4j,
          ShRead2, ShDies, OtherStep
    <3>2. spc \in {"done", "unpromoted"}
      BY <3>1 DEF DumpInv
    <3> QED
      BY <2>2, <3>2
      DEF FenceNext, ScriptStep, ShQuiesce, ShQuiesceAnswered, ShQuiesceTimesOut, ShDrain, ShRead1,
          ShRearm, ShRearmAnswered, ShRearmTimesOut, ShDumpPostgres, ShDumpNeo4j, ShRead2, ShDies,
          OtherStep
  <2> QED
    BY <2>1, <2>2
<1> QED
  BY <1>2, <1>3, <1>4, <1>5 DEF DumpInv

LEMMA DumpThroughout == FenceSpec => []DumpInv
<1>1. FenceInit => DumpInv
  BY DEF FenceInit, ScriptInit, DumpInv
<1>2. FenceInv /\ FenceInv' /\ FenceTypeOK /\ FenceTypeOK' /\ DumpInv /\ [FenceNext]_allVars
        => DumpInv'
  <2>1. CASE UNCHANGED allVars
    <3>1. DumpInv => DumpInv'
      BY <2>1 DEF allVars, scriptVars, vars, gateVars, callerVars, pgVars, workVars, histVars,
         DumpInv, Clean, Fenced, LockHeld, Wire, Verdict
    <3> QED
      BY <3>1
  <2> QED
    BY <2>1, DumpStep
<1> QED
  BY <1>1, <1>2, FenceThroughout, FenceTypeCorrect, PTL DEF FenceSpec

\* ops/backup.sh: a manifest that says quiesce_mode "full" is true.  No client
\* write, alternative-vector batch or daemon wrote while either dump ran (daemons as
\* long as Postgres kept their lock sessions), whoever else quiesced or resumed.
THEOREM FullIsQuiet == FenceSpec => []FullMeansQuiet
<1>1. DumpInv => FullMeansQuiet
  BY DEF DumpInv, FullMeansQuiet, Clean
<1> QED
  BY <1>1, DumpThroughout, PTL

-----------------------------------------------------------------------------
\* While the flag is up no write is admitted, so none is handled and the outbox
\* gets no rows.
LEMMA QuietStep ==
    ASSUME FenceInv, [Next]_vars, flag, NoWriter
    PROVE  NoWriter' /\ (rows = 0 => rows' = 0)
<1> USE DEF vars, gateVars, callerVars, pgVars, workVars, histVars
<1>0. wpc \in [Writers -> {"idle", "reading", "handling"}]
  BY DEF FenceInv, TypeOK, WorldOK
<1>1. CASE UNCHANGED <<wpc, rows>>
  BY <1>1 DEF NoWriter
<1>2. ASSUME NEW w \in Writers, ArriveWrite(w) \/ AdmitWrite(w) \/ FinishWrite(w)
      PROVE NoWriter' /\ (rows = 0 => rows' = 0)
  BY <1>0, <1>2 DEF ArriveWrite, AdmitWrite, FinishWrite, NoWriter
<1>3. CASE WorkerStep
  <2>1. ASSUME NEW b \in Workers, BatchStarts(b) \/ BatchEnds(b)
        PROVE  UNCHANGED <<wpc, rows>>
    BY <2>1 DEF BatchStarts, BatchEnds
  <2>2. CASE OutboxApplies
    BY <2>2 DEF OutboxApplies, NoWriter
  <2> QED
    BY <1>1, <1>3, <2>1, <2>2 DEF WorkerStep
<1>4. CASE Restart
  BY <1>0, <1>4 DEF Restart, NoWriter
<1>5. CASE \E c \in Callers : Serve(c)
  <2>1. PICK c \in Callers : Serve(c)
    BY <1>5
  <2>2. CASE AbortNow(c) \/ AbortEnd(c)
    BY <1>1, <2>2, AbortFrame
  <2>3. CASE LeaveQueue(c) \/ Start(c) \/ Promote(c) \/ ReplyUnfenced(c) \/ AbortBegin(c)
    BY <1>1, <2>3 DEF LeaveQueue, Start, Promote, ReplyUnfenced, AbortBegin
  <2>4. CASE ProbeOk(c) \/ ProbeFails(c) \/ ConnectDone(c) \/ ConnectFailed(c)
    BY <1>1, <2>4 DEF ProbeOk, ProbeFails, ConnectDone, ConnectFailed
  <2> QED
    BY <2>1, <2>2, <2>3, <2>4 DEF Serve
<1>6. CASE TaskStep \/ PostgresStep
  BY <1>1, <1>6 DEF TaskStep, TaskConnects, TaskRequestsLock, TaskLocked, TaskFails,
     PostgresStep, GrantExclusive, ReapSession, LoseSession, OnQuiesceConnTerminated
<1>7. CASE Resume \/ TimerFires \/ \E c \in Callers : Call(c) \/ Disconnect(c)
  BY <1>1, <1>7 DEF Resume, TimerFires, Call, Disconnect
<1>8. CASE \E d \in Daemons : DaemonStep(d)
  BY <1>1, <1>8 DEF DaemonStep, DaemonTryLock, DaemonReleasesForChat, DaemonChatReturns,
     DaemonReacquires, DaemonReacquireFails, DaemonCycleEnds, DaemonLosesSession
<1>9. CASE UNCHANGED vars
  BY <1>1, <1>9
<1> QED
  BY <1>2, <1>3, <1>4, <1>5, <1>6, <1>7, <1>8, <1>9 DEF Next, SystemStep

\* Only a call that is promoted begins to hold the lock.
LEMMA HeldStep ==
    ASSUME FenceInv, [Next]_vars, LockHeld', ~LockHeld
    PROVE  \E c \in Callers : Promote(c)
<1>0. token \in Nat /\ fenceAcqs \in Nat
  BY DEF FenceInv, TypeOK, GateOK
<1> USE DEF vars, gateVars, callerVars, pgVars, workVars, histVars
<1>1. CASE Restart
  BY <1>1 DEF Restart, LockHeld
<1>2. CASE Resume \/ TimerFires
  BY <1>2 DEF Resume, TimerFires, EndQuiesce, LockHeld
<1>3. CASE TaskStep
  BY <1>3 DEF TaskStep, TaskConnects, TaskRequestsLock, TaskLocked, TaskFails, LockHeld
<1>4. CASE PostgresStep
  BY <1>4 DEF PostgresStep, GrantExclusive, ReapSession, LoseSession,
     OnQuiesceConnTerminated, LockHeld
<1>5. CASE Beside
  BY <1>5, BesideFrame DEF LockHeld
<1>6. CASE \E c \in Callers : Call(c) \/ Disconnect(c)
  BY <1>6 DEF Call, Disconnect, LockHeld
<1>7. ASSUME NEW c \in Callers, Serve(c) PROVE Promote(c)
  <2>2. CASE Start(c) \/ ProbeOk(c) \/ ProbeFails(c)
    BY <2>2 DEF Start, ArmedTimer, ProbeOk, ProbeFails, ConnectPhase, LockHeld
  <2>3. CASE LeaveQueue(c) \/ ConnectDone(c) \/ ConnectFailed(c) \/ ReplyUnfenced(c)
    BY <2>3 DEF LeaveQueue, ConnectDone, ConnectFailed, ReplyUnfenced, LockHeld
  <2>4. CASE AbortNow(c) \/ AbortBegin(c) \/ AbortEnd(c)
    BY <2>4 DEF AbortNow, AbortBegin, AbortEnd, EndOrDropPending, EndQuiesce, LockHeld
  <2> QED
    BY <1>7, <2>2, <2>3, <2>4 DEF Serve
<1>8. CASE UNCHANGED vars
  BY <1>8 DEF LockHeld
<1> QED
  BY <1>1, <1>2, <1>3, <1>4, <1>5, <1>6, <1>7, <1>8 DEF Next, SystemStep, Beside

\* A call that ends with 200 or 202 saw every write drained.
LEMMA AnswerStep ==
    ASSUME FenceInv, [Next]_vars, NEW c \in Callers, pc[c] # "idle", pc'[c] = "idle",
           code'[c] \in {200, 202}
    PROVE  NoWriter'
<1> USE DEF vars, gateVars, callerVars, pgVars, workVars, histVars
<1>0. /\ pc \in [Callers -> CallerPCs]
      /\ code \in [Callers -> {0, 200, 202, 409}]
  BY DEF FenceInv, TypeOK, CallersOK
<1>1. CASE UNCHANGED pc
  BY <1>1
<1>2. ASSUME NEW d \in Callers, Call(d) PROVE FALSE
  BY <1>0, <1>2 DEF Call
<1>3. ASSUME NEW d \in Callers, Serve(d) PROVE NoWriter'
  <2>1. CASE LeaveQueue(d) \/ AbortNow(d) \/ AbortEnd(d)
    BY <1>0, <2>1 DEF LeaveQueue, AbortNow, AbortEnd, Reply
  <2>2. CASE Promote(d)
    BY <2>2 DEF Promote, Drained, NoWriter
  <2>3. CASE ReplyUnfenced(d)
    BY <2>3 DEF ReplyUnfenced, Drained, NoWriter
  <2>4. CASE Start(d) \/ ProbeOk(d) \/ ProbeFails(d)
    BY <1>0, <2>4 DEF Start, ProbeOk, ProbeFails, ConnectPhase
  <2>5. CASE ConnectDone(d) \/ ConnectFailed(d) \/ AbortBegin(d)
    BY <1>0, <2>5 DEF ConnectDone, ConnectFailed, AbortBegin
  <2> QED
    BY <1>3, <2>1, <2>2, <2>3, <2>4, <2>5 DEF Serve
<1>4. CASE Restart
  BY <1>0, <1>4 DEF Restart, NoWriter
<1>5. CASE TaskStep \/ PostgresStep
  BY <1>1, <1>5 DEF TaskStep, TaskConnects, TaskRequestsLock, TaskLocked, TaskFails,
     PostgresStep, GrantExclusive, ReapSession, LoseSession, OnQuiesceConnTerminated
<1>6. CASE Resume \/ TimerFires \/ \E d \in Callers : Disconnect(d)
  BY <1>1, <1>6 DEF Resume, TimerFires, Disconnect
<1>7. CASE Beside
  BY <1>1, <1>7, BesideFrame
<1> QED
  BY <1>1, <1>2, <1>3, <1>4, <1>5, <1>6, <1>7 DEF Next, SystemStep, Beside

\* With no other administrator: what is held after a step outside of the script's
\* calls was held before it, and the outbox gets no rows beside it.
LEMMA AloneStep ==
    ASSUME Callers = {Sh}, FenceInv, pc[Sh] = "idle", StepWithout(Sh), LockHeld'
    PROVE  LockHeld /\ (NoWriter => NoWriter' /\ (rows = 0 => rows' = 0))
<1>1. [Next]_vars
  BY DEF StepWithout, Next
<1>2. LockHeld
  <2>1. \A c \in Callers : ~Promote(c)
    BY DEF Promote
  <2> QED
    BY <1>1, <2>1, HeldStep
<1>3. flag
  BY <1>2 DEF FenceInv, StoredInv
<1> QED
  BY <1>1, <1>2, <1>3, QuietStep

\* Every step keeps what the drain of the outbox rests on.
LEMMA SettledStep ==
    ASSUME Callers = {Sh}, FenceInv, FenceInv', FenceTypeOK, DumpInv, SettledInv, FenceNext
    PROVE  SettledInv'
<1> USE DEF vars
<1>0. ASSUME UNCHANGED vars
      PROVE  LockHeld' = LockHeld /\ NoWriter' = NoWriter /\ rows' = rows /\ pc' = pc
  BY <1>0 DEF gateVars, callerVars, pgVars, workVars, histVars, LockHeld, NoWriter
<1>1. [Next]_vars
  BY ComposedStep
<1>2. ASSUME OtherStep PROVE StepWithout(Sh)
  BY <1>2 DEF OtherStep, StepWithout
<1>3. ASSUME spc' = "quiesce", pc'[Sh] = "idle", code'[Sh] \in {200, 202}, LockHeld'
      PROVE  NoWriter'
  <2>1. OtherStep /\ spc = "quiesce"
    <3>1. ~ShQuiesce
      BY <1>3 DEF ShQuiesce, Call, FenceInv, TypeOK, CallersOK
    <3> QED
      BY <1>3, <3>1
      DEF FenceNext, OtherStep, ScriptStep, ShQuiesceAnswered, ShQuiesceTimesOut, Unquiesced,
          ShDrain, ShRead1, ShRearm, ShRearmAnswered, ShRearmTimesOut, ShDumpPostgres, ShDumpNeo4j,
          ShRead2, ShFinish, ShDies
  <2>2. CASE pc[Sh] # "idle"
    BY <1>1, <1>3, <2>2, AnswerStep
  <2>3. CASE pc[Sh] = "idle"
    <3>1. code'[Sh] = code[Sh]
      BY <1>2, <2>1, <2>3, IdleStep
    <3> QED
      BY <1>2, <1>3, <2>1, <2>3, <3>1, AloneStep DEF SettledInv
  <2> QED
    BY <2>2, <2>3
<1>4. ASSUME spc' \in {"drain", "read1"}
      PROVE  pc'[Sh] = "idle" /\ (LockHeld' => NoWriter')
  <2>1. CASE OtherStep
    <3>1. pc[Sh] = "idle" /\ (LockHeld => NoWriter)
      BY <1>4, <2>1 DEF OtherStep, SettledInv
    <3> QED
      BY <1>2, <2>1, <3>1, IdleStep, AloneStep
  <2>2. CASE ScriptStep
    <3>1. ShQuiesceAnswered \/ ShDrain
      BY <1>4, <2>2
      DEF ScriptStep, ShQuiesce, ShQuiesceTimesOut, Unquiesced, ShRead1, ShRearm, ShRearmAnswered,
          ShRearmTimesOut, ShDumpPostgres, ShDumpNeo4j, ShRead2, ShFinish, ShDies
    <3>2. CASE ShQuiesceAnswered
      BY <1>0, <1>4, <3>2 DEF ShQuiesceAnswered, Unquiesced, SettledInv
    <3>3. CASE ShDrain
      BY <1>0, <3>3 DEF ShDrain, SettledInv
    <3> QED
      BY <3>1, <3>2, <3>3
  <2> QED
    BY <2>1, <2>2 DEF FenceNext
<1>5. ASSUME spc' \in {"start", "quiesce", "drain"} PROVE ~drainedSeen'
  BY <1>5
  DEF FenceNext, OtherStep, ScriptStep, ShQuiesce, ShQuiesceAnswered, ShQuiesceTimesOut, Unquiesced,
      ShDrain, ShRead1, ShRearm, ShRearmAnswered, ShRearmTimesOut, ShDumpPostgres, ShDumpNeo4j,
      ShRead2, ShFinish, ShDies, SettledInv
<1>6. ASSUME spc' = "read1", drainedSeen', LockHeld' PROVE rows' = 0
  <2>1. CASE OtherStep
    <3>1. spc = "read1" /\ drainedSeen
      BY <1>6, <2>1 DEF OtherStep
    <3> QED
      BY <1>2, <1>6, <2>1, <3>1, AloneStep DEF SettledInv
  <2>2. CASE ScriptStep
    <3>1. ShDrain
      BY <1>6, <2>2
      DEF ScriptStep, ShQuiesce, ShQuiesceAnswered, ShQuiesceTimesOut, Unquiesced, ShRead1, ShRearm,
          ShRearmAnswered, ShRearmTimesOut, ShDumpPostgres, ShDumpNeo4j, ShRead2, ShFinish, ShDies
    <3> QED
      BY <1>0, <1>6, <3>1 DEF ShDrain
  <2> QED
    BY <2>1, <2>2 DEF FenceNext
<1>7. ASSUME spc' \in {"rearm", "rearming"} \cup Dumping, r1'.ok, r1'.held, drainedSeen'
      PROVE  /\ NotNewer(r1.gen)'
             /\ Fenced(r1.gen)' => NoWriter' /\ rows' = 0 /\ "outbox" \notin dirty'
  <2>1. CASE ShRead1
    <3>1. r1' = Reading /\ dirty' = {} /\ UNCHANGED vars /\ drainedSeen
      BY <1>7, <2>1, RecordStep DEF ShRead1, NoReading, DumpInv
    <3>2. r1'.gen = Wire /\ LockHeld
      BY <1>7, <3>1 DEF Reading
    <3>3. NotNewer(r1.gen)'
      <4>1. token \in Nat /\ fenceAcqs \in Nat /\ token' = token /\ fenceAcqs' = fenceAcqs
        BY <3>1 DEF FenceInv, TypeOK, GateOK, gateVars
      <4> QED
        BY <3>2, <4>1 DEF NotNewer, Wire
    <3>4. NoWriter' /\ rows' = 0
      BY <1>0, <2>1, <3>1, <3>2 DEF ShRead1, SettledInv
    <3> QED
      BY <3>1, <3>3, <3>4
  <2>2. CASE ~ShRead1
    <3>1. spc \in {"rearm", "rearming"} \cup Dumping /\ r1' = r1 /\ drainedSeen
      BY <1>7, <2>2
      DEF FenceNext, OtherStep, ScriptStep, ShQuiesce, ShQuiesceAnswered, ShQuiesceTimesOut,
          Unquiesced, ShDrain, ShRearm, ShRearmAnswered, ShRearmTimesOut, ShDumpPostgres,
          ShDumpNeo4j, ShRead2, ShFinish, ShDies, SettledInv
    <3>2. r1.gen \in Nat \X Nat /\ NotNewer(r1.gen)
      BY <1>7, <3>1 DEF FenceTypeOK, SettledInv
    <3>3. NotNewer(r1.gen)' /\ (Fenced(r1.gen)' => Fenced(r1.gen))
      <4> DEFINE g == r1.gen
      <4>1. g' = g /\ NotNewer(g)
        BY <3>1, <3>2
      <4> QED
        BY <1>1, <3>1, <3>2, FencedStep DEF NotNewer, Fenced
    <3>4. ASSUME Fenced(r1.gen)' PROVE NoWriter' /\ rows' = 0 /\ "outbox" \notin dirty'
      <4>1. NoWriter /\ rows = 0 /\ "outbox" \notin dirty /\ flag
        BY <1>7, <3>1, <3>3, <3>4 DEF SettledInv, Fenced, FenceInv, StoredInv
      <4>2. NoWriter' /\ rows' = 0
        BY <1>1, <4>1, QuietStep
      <4>3. "outbox" \notin Active'
        BY <4>2 DEF Active
      <4> QED
        BY <4>1, <4>2, <4>3, RecordStep
    <3> QED
      BY <3>3, <3>4
  <2> QED
    BY <2>1, <2>2
<1>8. ASSUME spc' = "resume", Verdict' = "full", drainedSeen' PROVE "outbox" \notin dirty'
  <2>1. dirty' = dirty
    BY <1>8, RecordStep
  <2>2. initial' /\ r1'.ok /\ r2'.ok /\ r1'.held /\ r2'.held /\ r1'.gen = r2'.gen
    BY <1>8 DEF Verdict
  <2>3. CASE ShRead2
    <3>1. r2' = Reading /\ r1' = r1 /\ drainedSeen /\ spc = "read2"
      BY <1>8, <2>2, <2>3 DEF ShRead2, NoReading
    <3>2. Fenced(r1.gen)
      BY <2>2, <3>1 DEF Reading, Fenced
    <3> QED
      BY <2>1, <2>2, <3>1, <3>2 DEF SettledInv
  <2>4. CASE OtherStep
    BY <1>8, <2>1, <2>4 DEF OtherStep, Verdict, SettledInv
  <2>5. CASE ScriptStep /\ ~ShRead2
    BY <1>8, <2>2, <2>5
    DEF ScriptStep, ShQuiesce, ShQuiesceAnswered, ShQuiesceTimesOut, Unquiesced, ShDrain, ShRead1,
        ShRearm, ShRearmAnswered, ShRearmTimesOut, ShDumpPostgres, ShDumpNeo4j, ShFinish, ShDies
  <2> QED
    BY <2>3, <2>4, <2>5 DEF FenceNext
<1>9. FullMeansSettled'
  <2> SUFFICES ASSUME mode' = "full", drainedSeen' PROVE "outbox" \notin dirty'
    BY DEF FullMeansSettled
  <2>1. CASE ShFinish
    <3>1. spc = "resume" /\ Verdict = "full" /\ drainedSeen /\ spc' \in {"done", "unpromoted"}
      BY <2>1 DEF ShFinish
    <3> QED
      BY <3>1, RecordStep DEF SettledInv
  <2>2. CASE ~ShFinish
    <3>1. mode = "full"
      BY <2>2
      DEF FenceNext, ScriptStep, ShQuiesce, ShQuiesceAnswered, ShQuiesceTimesOut, Unquiesced,
          ShDrain, ShRead1, ShRearm, ShRearmAnswered, ShRearmTimesOut, ShDumpPostgres, ShDumpNeo4j,
          ShRead2, ShDies, OtherStep
    <3>2. spc \in {"done", "unpromoted"}
      BY <3>1 DEF DumpInv
    <3> QED
      BY <2>2, <3>2
      DEF FenceNext, ScriptStep, ShQuiesce, ShQuiesceAnswered, ShQuiesceTimesOut, ShDrain, ShRead1,
          ShRearm, ShRearmAnswered, ShRearmTimesOut, ShDumpPostgres, ShDumpNeo4j, ShRead2, ShDies,
          OtherStep
  <2> QED
    BY <2>1, <2>2
<1> QED
  BY <1>3, <1>4, <1>5, <1>6, <1>7, <1>8, <1>9 DEF SettledInv

\* The initial state and a stutter.
LEMMA SettledInit == FenceInit => SettledInv
  BY DEF FenceInit, ScriptInit, SettledInv, FullMeansSettled

LEMMA SettledStutter == SettledInv /\ UNCHANGED allVars => SettledInv'
  BY DEF allVars, scriptVars, vars, gateVars, callerVars, pgVars, workVars, histVars, SettledInv,
     FullMeansSettled, NoWriter, Fenced, NotNewer, LockHeld, Wire, Verdict

\* drain_outbox: without another administrator, a "full" set whose drain was seen to
\* finish has no outbox row applied to Neo4j during the dumps.
THEOREM FullIsSettled ==
    ASSUME Callers = {Sh}
    PROVE  FenceSpec => []FullMeansSettled
<1>1. FenceInv /\ FenceInv' /\ FenceTypeOK /\ DumpInv /\ SettledInv /\ [FenceNext]_allVars
      => SettledInv'
  <2>1. CASE UNCHANGED allVars
    BY <2>1, SettledStutter
  <2>2. CASE FenceNext
    BY <2>2, SettledStep
  <2> QED
    BY <2>1, <2>2
<1>2. SettledInv => FullMeansSettled
  BY DEF SettledInv
<1> QED
  BY <1>1, <1>2, SettledInit, DumpThroughout, FenceThroughout, FenceTypeCorrect, PTL DEF FenceSpec

=============================================================================
