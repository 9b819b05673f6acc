------------------------------ MODULE Quiesce ------------------------------
(***************************************************************************)
(* The backup quiesce of the gateway (coordinator.py), at the granularity  *)
(* of its awaits: every action below runs between two suspension points of *)
(* the asyncio event loop, so it is atomic with respect to the others.     *)
(*                                                                         *)
(* POST /admin/backup {state: quiesce} raises a flag that sheds client     *)
(* writes, takes the EXCLUSIVE Postgres advisory lock that fences the REM  *)
(* and NREM daemons (which hold it SHARED while they write), and waits     *)
(* until admitted writes and worker batches are over.  A dead-man timer, a *)
(* resume, a restart or the departure of the caller that started it ends   *)
(* the quiesce.                                                            *)
(***************************************************************************)
EXTENDS Naturals, FiniteSets

CONSTANTS
    Callers,          \* requests of POST /admin/backup {state: quiesce}
    Writers,          \* client requests on the _WRITE_ROUTES
    Workers,          \* the gateway's own workers: "outbox", "alt"
    Daemons,          \* the REM and NREM processes
    Conns,            \* asyncpg connections opened for the lock
    NoConn, NoCaller,
    MaxCalls,         \* bound: admin requests in one behaviour
    MaxRestarts,      \* bound: gateway restarts in one behaviour
    MaxDaemonLosses,  \* bound: lock sessions a daemon loses while it writes
    MaxRows           \* bound: outbox rows waiting at the same time

ASSUME BoundsAssumption ==
    /\ MaxCalls \in Nat /\ MaxRestarts \in Nat
    /\ MaxDaemonLosses \in Nat /\ MaxRows \in Nat
ASSUME WorkersAssumption == Workers \subseteq {"outbox", "alt"}
ASSUME NullAssumption == NoConn \notin Conns /\ NoCaller \notin Callers

VARIABLES
    \* ---- the gateway process
    flag,         \* _backup_quiesce
    generation,   \* _quiesce_generation
    fenceAcqs,    \* _quiesce_fence_acquisitions
    token,        \* _quiesce_process_token: one value per process
    timer,        \* _quiesce_timer: "off" or "armed"
    stored,       \* _quiesce_conn
    pending,      \* _quiesce_pending_conn
    mutex,        \* _quiesce_lock: the caller inside, or NoCaller
    task, tconn,  \* _quiesce_connect_and_lock of the caller inside; its conn
    \* ---- one _begin_quiesce call per caller
    pc, entryGen, myGen, startedHere, ends,
    gone,         \* request.transport is None
    code, wire,   \* the answer: HTTP status (0: none yet), quiesce_generation
    \* ---- Postgres
    sess,         \* the session of each connection: none, open, waiting, locked
    closed,       \* connections whose client side is closed
    shared,       \* daemons that hold the lock SHARED
    \* ---- what the quiesce waits for, and the daemons
    wpc,          \* each client write: idle, reading its body, handling
    batch,        \* _worker_batches_in_flight, per worker
    rows,         \* outbox rows pending or in_progress
    dpc,          \* each daemon: idle, work, chat, reacq
    \* ---- history and bounds
    owner,        \* the caller whose request raised the flag
    calls, restarts, losses

gateVars   == <<flag, generation, fenceAcqs, token, timer, stored, pending,
                mutex, task, tconn>>
callerVars == <<pc, entryGen, myGen, startedHere, ends, gone, code, wire>>
pgVars     == <<sess, closed, shared>>
workVars   == <<wpc, batch, rows, dpc>>
histVars   == <<owner, calls, restarts, losses>>
vars       == <<gateVars, callerVars, pgVars, workVars, histVars>>

CallerPCs == {"idle", "queued", "probe", "connect", "drain", "drain202", "abort"}
TaskStates == {"none", "connecting", "setting", "locking", "done", "failed"}

\* The truth-valued part of the state, and the rest.
FlagsOK ==
    /\ flag \in BOOLEAN /\ startedHere \in [Callers -> BOOLEAN]
    /\ ends \in [Callers -> BOOLEAN] /\ gone \in [Callers -> BOOLEAN]

GateOK ==
    /\ generation \in Nat /\ fenceAcqs \in Nat /\ token \in Nat
    /\ timer \in {"off", "armed"}
    /\ stored \in Conns \cup {NoConn} /\ pending \in Conns \cup {NoConn}
    /\ mutex \in Callers \cup {NoCaller}
    /\ task \in TaskStates /\ tconn \in Conns \cup {NoConn}
    /\ owner \in Callers \cup {NoCaller}
    /\ calls \in Nat /\ restarts \in Nat /\ losses \in Nat

CallersOK ==
    /\ pc \in [Callers -> CallerPCs]
    /\ entryGen \in [Callers -> Nat] /\ myGen \in [Callers -> Nat]
    /\ code \in [Callers -> {0, 200, 202, 409}]
    /\ wire \in [Callers -> Nat \X Nat]

WorldOK ==
    /\ sess \in [Conns -> {"none", "open", "waiting", "locked"}]
    /\ closed \subseteq Conns /\ shared \subseteq Daemons
    /\ wpc \in [Writers -> {"idle", "reading", "handling"}]
    /\ batch \in [Workers -> {"idle", "run"}]
    /\ rows \in Nat
    /\ dpc \in [Daemons -> {"idle", "work", "chat", "reacq"}]

TypeOK == FlagsOK /\ GateOK /\ CallersOK /\ WorldOK

Init ==
    /\ flag = FALSE /\ generation = 0 /\ fenceAcqs = 0 /\ token = 0
    /\ timer = "off" /\ stored = NoConn /\ pending = NoConn /\ mutex = NoCaller
    /\ task = "none" /\ tconn = NoConn
    /\ pc = [c \in Callers |-> "idle"]
    /\ entryGen = [c \in Callers |-> 0] /\ myGen = [c \in Callers |-> 0]
    /\ startedHere = [c \in Callers |-> FALSE]
    /\ ends = [c \in Callers |-> FALSE] /\ gone = [c \in Callers |-> FALSE]
    /\ code = [c \in Callers |-> 0] /\ wire = [c \in Callers |-> <<0, 0>>]
    /\ sess = [k \in Conns |-> "none"] /\ closed = {} /\ shared = {}
    /\ wpc = [w \in Writers |-> "idle"]
    /\ batch = [b \in Workers |-> "idle"] /\ rows = 0
    /\ dpc = [d \in Daemons |-> "idle"]
    /\ owner = NoCaller /\ calls = 0 /\ restarts = 0 /\ losses = 0

-----------------------------------------------------------------------------
(***************************************************************************)
(* Predicates of the code.                                                 *)
(***************************************************************************)

\* _lock_held: a stored connection that is not closed.
LockHeld == stored # NoConn /\ stored \notin closed

\* _wire_quiesce_generation: what backup.sh compares across its dumps.
Wire == <<token, fenceAcqs>>

\* _writes_in_flight and _worker_batches_in_flight are both zero.
Drained ==
    /\ \A w \in Writers : wpc[w] # "handling"
    /\ \A b \in Workers : batch[b] = "idle"

\* Reported before the departure of the caller: a resume came in between.
Resumed(gen) == generation # gen

\* _quiesce_exit: a reason to leave, checked without awaiting.
Exit(c, gen) == Resumed(gen) \/ gone[c]

Detached(k) == {k} \ {NoConn}

\* Postgres: an exclusive request, granted or queued, stops new SHARED grants.
SharedGrantable == \A k \in Conns : sess[k] \notin {"waiting", "locked"}

-----------------------------------------------------------------------------
(***************************************************************************)
(* _end_quiesce: no await before its effects.                              *)
(***************************************************************************)
\* A call under way does not notice the resume.
EndQuiesceKeepsGeneration ==
    /\ generation' = generation
    /\ flag' = FALSE /\ timer' = "off"
    /\ stored' = NoConn /\ pending' = NoConn
    /\ closed' = closed \cup Detached(stored) \cup Detached(pending)
    /\ owner' = NoCaller

\* Forgets the connection that is still acquiring.
EndQuiesceLeavesPending ==
    /\ generation' = generation + 1
    /\ flag' = FALSE /\ timer' = "off"
    /\ stored' = NoConn /\ pending' = NoConn
    /\ closed' = closed \cup Detached(stored)
    /\ owner' = NoCaller

\* Returns early when there is no lock to release.
EndQuiesceIfLocked ==
    /\ generation' = generation + 1
    /\ flag' = (flag /\ stored = NoConn) /\ timer' = "off"
    /\ stored' = NoConn /\ pending' = NoConn
    /\ closed' = closed \cup Detached(stored) \cup Detached(pending)
    /\ owner' = NoCaller

EndQuiesce ==
    /\ generation' = generation + 1
    /\ flag' = FALSE /\ timer' = "off"
    /\ stored' = NoConn /\ pending' = NoConn
    /\ closed' = closed \cup Detached(stored) \cup Detached(pending)
    /\ owner' = NoCaller

\* {state: resume}.
Resume ==
    /\ calls < MaxCalls /\ calls' = calls + 1
    /\ EndQuiesce
    /\ UNCHANGED <<fenceAcqs, token, mutex, task, tconn, callerVars, sess, shared,
                   workVars, restarts, losses>>

\* _quiesce_ttl: the dead-man timer runs out.
TimerFires ==
    /\ timer = "armed"
    /\ EndQuiesce
    /\ UNCHANGED <<fenceAcqs, token, mutex, task, tconn, callerVars, sess, shared,
                   workVars, calls, restarts, losses>>

-----------------------------------------------------------------------------
(***************************************************************************)
(* _begin_quiesce: a call enters the queue of the single-flight lock, then *)
(* probes the stored connection, connects and locks, drains, and answers.  *)
(***************************************************************************)
Call(c) ==
    /\ pc[c] = "idle" /\ calls < MaxCalls
    /\ calls' = calls + 1
    /\ pc' = [pc EXCEPT ![c] = "queued"]
    /\ entryGen' = [entryGen EXCEPT ![c] = generation]
    /\ code' = [code EXCEPT ![c] = 0]
    /\ UNCHANGED <<gateVars, myGen, startedHere, ends, gone, wire, pgVars, workVars,
                   owner, restarts, losses>>

\* The client of the request disconnects (curl --max-time, a killed script).
Disconnect(c) ==
    /\ pc[c] # "idle" /\ ~gone[c]
    /\ gone' = [gone EXCEPT ![c] = TRUE]
    /\ UNCHANGED <<gateVars, pc, entryGen, myGen, startedHere, ends, code, wire,
                   pgVars, workVars, histVars>>

\* The answer of handle_backup, built without an await after _begin_quiesce;
\* the locals of the call die.
Reply(c, status, fence) ==
    /\ pc' = [pc EXCEPT ![c] = "idle"]
    /\ entryGen' = [entryGen EXCEPT ![c] = 0]
    /\ myGen' = [myGen EXCEPT ![c] = 0]
    /\ startedHere' = [startedHere EXCEPT ![c] = FALSE]
    /\ ends' = [ends EXCEPT ![c] = FALSE]
    /\ gone' = [gone EXCEPT ![c] = FALSE]
    /\ code' = [code EXCEPT ![c] = status]
    /\ wire' = [wire EXCEPT ![c] = fence]

\* A queued call leaves before it changed anything.
LeaveQueue(c) ==
    /\ pc[c] = "queued" /\ Exit(c, entryGen[c])
    /\ Reply(c, 409, Wire)
    /\ UNCHANGED <<gateVars, pgVars, workVars, histVars>>

\* The connect-and-lock task starts; a stale pending connection is terminated.
ConnectPhase(c, dropped) ==
    /\ pc' = [pc EXCEPT ![c] = "connect"]
    /\ task' = "connecting" /\ tconn' = NoConn
    /\ stored' = NoConn /\ pending' = NoConn
    /\ closed' = closed \cup dropped \cup Detached(pending)

\* The timer of a first quiesce is armed at once, a refresh re-arms it at the end.
ArmedOnRefresh == IF flag THEN "armed" ELSE timer
ArmedTimer == IF flag THEN timer ELSE "armed"

\* The call enters: it raises the flag and arms the timer of a first quiesce.
Start(c) ==
    /\ pc[c] = "queued" /\ mutex = NoCaller /\ ~Exit(c, entryGen[c])
    /\ mutex' = c
    /\ myGen' = [myGen EXCEPT ![c] = generation]
    /\ startedHere' = [startedHere EXCEPT ![c] = ~flag]
    /\ flag' = TRUE
    /\ timer' = ArmedTimer
    /\ owner' = IF flag THEN owner ELSE c
    /\ \/ /\ LockHeld
          /\ pc' = [pc EXCEPT ![c] = "probe"]
          /\ UNCHANGED <<stored, pending, closed, task, tconn>>
       \/ ~LockHeld /\ ConnectPhase(c, Detached(stored))
    /\ UNCHANGED <<generation, fenceAcqs, token, entryGen, ends, gone, code, wire,
                   sess, shared, workVars, calls, restarts, losses>>

\* SELECT 1 on the stored connection.
ProbeOk(c) ==
    /\ pc[c] = "probe" /\ ~Exit(c, myGen[c]) /\ LockHeld
    /\ pc' = [pc EXCEPT ![c] = "drain"]
    /\ UNCHANGED <<gateVars, entryGen, myGen, startedHere, ends, gone, code, wire,
                   pgVars, workVars, histVars>>

ProbeFails(c) ==
    /\ pc[c] = "probe" /\ ~Exit(c, myGen[c])
    /\ ConnectPhase(c, Detached(stored))
    /\ UNCHANGED <<flag, generation, fenceAcqs, token, timer, mutex, entryGen, myGen,
                   startedHere, ends, gone, code, wire, sess, shared, workVars,
                   histVars>>

-----------------------------------------------------------------------------
(***************************************************************************)
(* _quiesce_connect_and_lock, a task beside the call that watches it.      *)
(***************************************************************************)

\* asyncpg.connect returns: the connection becomes the pending one.
TaskConnects ==
    /\ task = "connecting" /\ mutex # NoCaller
    /\ \E k \in Conns :
        /\ sess[k] = "none" /\ k \notin {stored, pending}
        /\ tconn' = k /\ pending' = k
        /\ sess' = [sess EXCEPT ![k] = "open"]
        /\ \/ /\ Resumed(myGen[mutex])
              /\ closed' = closed \cup {k} /\ task' = "done"
           \/ /\ ~Resumed(myGen[mutex])
              /\ closed' = closed \ {k} /\ task' = "setting"
    /\ UNCHANGED <<flag, generation, fenceAcqs, token, timer, stored, mutex, callerVars,
                   shared, workVars, histVars>>

\* SET client_connection_check_interval returns; the lock request is sent.
TaskRequestsLock ==
    /\ task = "setting" /\ mutex # NoCaller /\ tconn \notin closed
    /\ \/ /\ Resumed(myGen[mutex])
          /\ closed' = closed \cup {tconn} /\ task' = "done" /\ sess' = sess
       \/ /\ ~Resumed(myGen[mutex])
          /\ sess' = [sess EXCEPT ![tconn] = "waiting"]
          /\ task' = "locking" /\ closed' = closed
    /\ UNCHANGED <<flag, generation, fenceAcqs, token, timer, stored, pending, mutex,
                   tconn, callerVars, shared, workVars, histVars>>

TaskLocked ==
    /\ task = "locking" /\ tconn \notin closed /\ sess[tconn] = "locked"
    /\ task' = "done"
    /\ UNCHANGED <<flag, generation, fenceAcqs, token, timer, stored, pending, mutex,
                   tconn, callerVars, pgVars, workVars, histVars>>

\* The connect is refused, or the connection ends under the task.
TaskFails ==
    /\ \/ task = "connecting"
       \/ task \in {"setting", "locking"} /\ tconn \in closed
    /\ task' = "failed"
    /\ UNCHANGED <<flag, generation, fenceAcqs, token, timer, stored, pending, mutex,
                   tconn, callerVars, pgVars, workVars, histVars>>

-----------------------------------------------------------------------------
ConnectDone(c) ==
    /\ pc[c] = "connect" /\ task = "done" /\ ~Exit(c, myGen[c])
    /\ pc' = [pc EXCEPT ![c] = "drain"]
    /\ task' = "none" /\ tconn' = NoConn
    /\ UNCHANGED <<flag, generation, fenceAcqs, token, timer, stored, pending, mutex,
                   entryGen, myGen, startedHere, ends, gone, code, wire, pgVars,
                   workVars, histVars>>

ConnectFailed(c) ==
    /\ pc[c] = "connect" /\ task = "failed" /\ ~Exit(c, myGen[c])
    /\ pc' = [pc EXCEPT ![c] = "drain202"]
    /\ task' = "none" /\ tconn' = NoConn
    /\ pending' = NoConn /\ closed' = closed \cup Detached(pending)
    /\ UNCHANGED <<flag, generation, fenceAcqs, token, timer, stored, mutex, entryGen,
                   myGen, startedHere, ends, gone, code, wire, sess, shared,
                   workVars, histVars>>

\* Only a connection that is promoted counts as an acquisition.
AcquisitionCount == IF pending = NoConn THEN fenceAcqs ELSE fenceAcqs + 1

\* The last wait is over: the pending connection becomes the stored one.
Promote(c) ==
    /\ pc[c] = "drain" /\ Drained /\ ~Exit(c, myGen[c])
    /\ stored' = IF pending = NoConn THEN stored
                 ELSE IF pending \in closed THEN NoConn ELSE pending
    /\ pending' = NoConn
    /\ fenceAcqs' = AcquisitionCount
    /\ timer' = "armed"
    /\ mutex' = NoCaller
    /\ Reply(c, IF stored' # NoConn /\ stored' \notin closed THEN 200 ELSE 202,
             <<token, fenceAcqs'>>)
    /\ UNCHANGED <<flag, generation, token, task, tconn, pgVars, workVars, histVars>>

\* Writes drained, lock connection failed.
ReplyUnfenced(c) ==
    /\ pc[c] = "drain202" /\ Drained /\ ~Exit(c, myGen[c])
    /\ timer' = "armed" /\ mutex' = NoCaller
    /\ Reply(c, 202, Wire)
    /\ UNCHANGED <<flag, generation, fenceAcqs, token, stored, pending, task, tconn,
                   pgVars, workVars, histVars>>

-----------------------------------------------------------------------------
(***************************************************************************)
(* _quiesce_abort: the call leaves after it raised the flag.  It drops the *)
(* PENDING connection only, and ends the quiesce it started if its caller  *)
(* left and nobody resumed.                                                *)
(***************************************************************************)
TaskRunning(c) ==
    \/ pc[c] = "probe"
    \/ pc[c] = "connect" /\ task \in {"connecting", "setting", "locking"}

\* Ends any quiesce whose caller left, a refreshed one too.
EndsHereNotStarted(c) == gone[c] /\ generation = myGen[c]

EndsHere(c) == gone[c] /\ startedHere[c] /\ generation = myGen[c]

EndOrDropPending(c, end) ==
    \/ end /\ EndQuiesce
    \/ /\ ~end
       /\ pending' = NoConn /\ closed' = closed \cup Detached(pending)
       /\ UNCHANGED <<generation, flag, timer, stored, owner>>

AbortNow(c) ==
    /\ pc[c] \in {"connect", "drain", "drain202"} /\ ~TaskRunning(c)
    /\ Exit(c, myGen[c])
    /\ EndOrDropPending(c, EndsHere(c))
    /\ task' = "none" /\ tconn' = NoConn /\ mutex' = NoCaller
    /\ Reply(c, 409, Wire)
    /\ UNCHANGED <<fenceAcqs, token, sess, shared, workVars, calls, restarts, losses>>

\* The task is cancelled, and awaited before the call ends.
AbortBegin(c) ==
    /\ TaskRunning(c) /\ Exit(c, myGen[c])
    /\ pc' = [pc EXCEPT ![c] = "abort"]
    /\ ends' = [ends EXCEPT ![c] = EndsHere(c)]
    /\ pending' = NoConn /\ closed' = closed \cup Detached(pending)
    /\ task' = "none" /\ tconn' = NoConn
    /\ UNCHANGED <<flag, generation, fenceAcqs, token, timer, stored, mutex, entryGen,
                   myGen, startedHere, gone, code, wire, sess, shared, workVars,
                   histVars>>

\* Leaves without releasing the single-flight lock.
AbortEndKeepsMutex(c) ==
    /\ pc[c] = "abort"
    /\ EndOrDropPending(c, ends[c] /\ EndsHere(c))
    /\ mutex' = mutex
    /\ Reply(c, 409, Wire)
    /\ UNCHANGED <<fenceAcqs, token, task, tconn, sess, shared, workVars, calls, restarts, losses>>

AbortEnd(c) ==
    /\ pc[c] = "abort"
    /\ EndOrDropPending(c, ends[c] /\ EndsHere(c))
    /\ mutex' = NoCaller
    /\ Reply(c, 409, Wire)
    /\ UNCHANGED <<fenceAcqs, token, task, tconn, sess, shared, workVars, calls, restarts, losses>>

Serve(c) ==
    \/ LeaveQueue(c) \/ Start(c) \/ ProbeOk(c) \/ ProbeFails(c)
    \/ ConnectDone(c) \/ ConnectFailed(c) \/ Promote(c) \/ ReplyUnfenced(c)
    \/ AbortNow(c) \/ AbortBegin(c) \/ AbortEnd(c)

TaskStep == TaskConnects \/ TaskRequestsLock \/ TaskLocked \/ TaskFails

-----------------------------------------------------------------------------
(***************************************************************************)
(* Postgres: session advisory locks.  terminate() closes the client side;  *)
(* the server drops the session, and its lock, a little later.             *)
(***************************************************************************)
GrantExclusive(k) ==
    /\ sess[k] = "waiting" /\ shared = {}
    /\ \A j \in Conns : sess[j] # "locked"
    /\ sess' = [sess EXCEPT ![k] = "locked"]
    /\ UNCHANGED <<gateVars, callerVars, closed, shared, workVars, histVars>>

ReapSession(k) ==
    /\ k \in closed /\ sess[k] # "none"
    /\ sess' = [sess EXCEPT ![k] = "none"]
    /\ UNCHANGED <<gateVars, callerVars, closed, shared, workVars, histVars>>

\* The server ends a session; the gateway's socket sees the end of file.
LoseSession(k) ==
    /\ k \notin closed /\ sess[k] # "none"
    /\ sess' = [sess EXCEPT ![k] = "none"]
    /\ closed' = closed \cup {k}
    /\ UNCHANGED <<gateVars, callerVars, shared, workVars, histVars>>

\* _on_quiesce_conn_terminated.
OnQuiesceConnTerminated ==
    /\ stored # NoConn /\ stored \in closed
    /\ stored' = NoConn
    /\ UNCHANGED <<flag, generation, fenceAcqs, token, timer, pending, mutex, task,
                   tconn, callerVars, pgVars, workVars, histVars>>

PostgresStep ==
    \/ \E k \in Conns : GrantExclusive(k) \/ ReapSession(k) \/ LoseSession(k)
    \/ OnQuiesceConnTerminated

-----------------------------------------------------------------------------
(***************************************************************************)
(* auth_middleware: a client write is refused while the flag is up, before *)
(* and again after its body is read, and counted while it is handled.      *)
(***************************************************************************)
ArriveWrite(w) ==
    /\ wpc[w] = "idle" /\ ~flag
    /\ wpc' = [wpc EXCEPT ![w] = "reading"]
    /\ UNCHANGED <<gateVars, callerVars, pgVars, batch, rows, dpc,
                   histVars>>

\* Without the second test of the flag.
AdmitUnchecked(w) ==
    /\ wpc[w] = "reading"
    /\ wpc' = [wpc EXCEPT ![w] = "handling"]
    /\ UNCHANGED <<gateVars, callerVars, pgVars, batch, rows, dpc,
                   histVars>>

AdmitWrite(w) ==
    /\ wpc[w] = "reading"
    /\ wpc' = [wpc EXCEPT ![w] = IF flag THEN "idle" ELSE "handling"]
    /\ UNCHANGED <<gateVars, callerVars, pgVars, batch, rows, dpc,
                   histVars>>

\* The handler commits, with an outbox row or without one, or fails.
FinishWrite(w) ==
    /\ wpc[w] = "handling"
    /\ wpc' = [wpc EXCEPT ![w] = "idle"]
    /\ \/ rows' = rows
       \/ rows < MaxRows /\ rows' = rows + 1
    /\ UNCHANGED <<gateVars, callerVars, pgVars, batch, dpc, histVars>>

\* _outbox_worker runs a batch during a quiesce too; _alternative_vector_worker
\* pauses while the flag is up.
BatchStarts(b) ==
    /\ batch[b] = "idle" /\ (b = "alt" => ~flag)
    /\ batch' = [batch EXCEPT ![b] = "run"]
    /\ UNCHANGED <<gateVars, callerVars, pgVars, wpc, rows, dpc, histVars>>

OutboxApplies ==
    /\ "outbox" \in Workers /\ batch["outbox"] = "run" /\ rows > 0
    /\ rows' = rows - 1
    /\ UNCHANGED <<gateVars, callerVars, pgVars, wpc, batch, dpc, histVars>>

BatchEnds(b) ==
    /\ batch[b] = "run"
    /\ batch' = [batch EXCEPT ![b] = "idle"]
    /\ UNCHANGED <<gateVars, callerVars, pgVars, wpc, rows, dpc, histVars>>

WorkerStep == OutboxApplies \/ \E b \in Workers : BatchStarts(b) \/ BatchEnds(b)

-----------------------------------------------------------------------------
(***************************************************************************)
(* The daemons: rem_loop.run_cycle and the guarded cycles of NREM.  They   *)
(* write only in "work"; the lock is released around each chat call.       *)
(***************************************************************************)
DaemonTryLock(d) ==
    /\ dpc[d] = "idle" /\ SharedGrantable
    /\ dpc' = [dpc EXCEPT ![d] = "work"]
    /\ shared' = shared \cup {d}
    /\ UNCHANGED <<gateVars, callerVars, sess, closed, wpc, batch, rows,
                   histVars>>

DaemonReleasesForChat(d) ==
    /\ dpc[d] = "work"
    /\ dpc' = [dpc EXCEPT ![d] = "chat"]
    /\ shared' = shared \ {d}
    /\ UNCHANGED <<gateVars, callerVars, sess, closed, wpc, batch, rows,
                   histVars>>

DaemonChatReturns(d) ==
    /\ dpc[d] = "chat"
    /\ dpc' = [dpc EXCEPT ![d] = "reacq"]
    /\ UNCHANGED <<gateVars, callerVars, pgVars, wpc, batch, rows,
                   histVars>>

\* Goes on after the chat call without the lock.
DaemonSkipsReacquire(d) ==
    /\ dpc[d] = "reacq"
    /\ dpc' = [dpc EXCEPT ![d] = "work"]
    /\ UNCHANGED <<gateVars, callerVars, pgVars, wpc, batch, rows,
                   histVars>>

\* reacquire_lock_blocking, on the same connection or on a new one.
DaemonReacquires(d) ==
    /\ dpc[d] = "reacq" /\ SharedGrantable
    /\ dpc' = [dpc EXCEPT ![d] = "work"]
    /\ shared' = shared \cup {d}
    /\ UNCHANGED <<gateVars, callerVars, sess, closed, wpc, batch, rows,
                   histVars>>

\* LockReacquireFailed: the cycle is abandoned, nothing more is written.
DaemonReacquireFails(d) ==
    /\ dpc[d] = "reacq"
    /\ dpc' = [dpc EXCEPT ![d] = "idle"]
    /\ UNCHANGED <<gateVars, callerVars, pgVars, wpc, batch, rows,
                   histVars>>

\* holder.close at the end of the cycle, or the death of the process.
DaemonCycleEnds(d) ==
    /\ dpc[d] = "work"
    /\ dpc' = [dpc EXCEPT ![d] = "idle"]
    /\ shared' = shared \ {d}
    /\ UNCHANGED <<gateVars, callerVars, sess, closed, wpc, batch, rows,
                   histVars>>

\* The server drops a daemon's lock session; the cycle does not look at it.
DaemonLosesSession(d) ==
    /\ d \in shared /\ losses < MaxDaemonLosses
    /\ shared' = shared \ {d} /\ losses' = losses + 1
    /\ UNCHANGED <<gateVars, callerVars, sess, closed, workVars, owner, calls, restarts>>

DaemonStep(d) ==
    \/ DaemonTryLock(d) \/ DaemonReleasesForChat(d) \/ DaemonChatReturns(d)
    \/ DaemonReacquires(d) \/ DaemonReacquireFails(d) \/ DaemonCycleEnds(d)
    \/ DaemonLosesSession(d)

-----------------------------------------------------------------------------
\* _quiesce_process_token is drawn once per process.
FreshTokenReused == token
FreshToken == token + 1

\* The gateway process dies and starts again: a new token, every socket closed.
Restart ==
    /\ restarts < MaxRestarts /\ restarts' = restarts + 1
    /\ flag' = FALSE /\ generation' = 0 /\ fenceAcqs' = 0 /\ token' = FreshToken
    /\ timer' = "off" /\ stored' = NoConn /\ pending' = NoConn /\ mutex' = NoCaller
    /\ task' = "none" /\ tconn' = NoConn
    /\ pc' = [c \in Callers |-> "idle"]
    /\ entryGen' = [c \in Callers |-> 0] /\ myGen' = [c \in Callers |-> 0]
    /\ startedHere' = [c \in Callers |-> FALSE]
    /\ ends' = [c \in Callers |-> FALSE] /\ gone' = [c \in Callers |-> FALSE]
    /\ code' = [c \in Callers |-> IF pc[c] = "idle" THEN code[c] ELSE 0]
    /\ closed' = Conns
    /\ wpc' = [w \in Writers |-> "idle"]
    /\ batch' = [b \in Workers |-> "idle"]
    /\ owner' = NoCaller
    /\ UNCHANGED <<wire, sess, shared, rows, dpc, calls, losses>>

\* Everything but the admin requests, which backup.sh makes too.
SystemStep ==
    \/ \E c \in Callers : Serve(c)
    \/ TaskStep \/ TimerFires \/ PostgresStep \/ WorkerStep \/ Restart
    \/ \E w \in Writers : ArriveWrite(w) \/ AdmitWrite(w) \/ FinishWrite(w)
    \/ \E d \in Daemons : DaemonStep(d)

Next ==
    \/ SystemStep \/ Resume
    \/ \E c \in Callers : Call(c) \/ Disconnect(c)

Spec == Init /\ [][Next]_vars

Fairness ==
    /\ \A c \in Callers : /\ WF_vars(Serve(c))
                          /\ SF_vars(Promote(c)) /\ SF_vars(ReplyUnfenced(c))
    /\ WF_vars(TaskStep) /\ WF_vars(TimerFires) /\ WF_vars(OnQuiesceConnTerminated)
    /\ \A k \in Conns : WF_vars(GrantExclusive(k)) /\ WF_vars(ReapSession(k))
    /\ \A w \in Writers : WF_vars(AdmitWrite(w)) /\ WF_vars(FinishWrite(w))
    /\ \A b \in Workers : WF_vars(BatchEnds(b))
    /\ \A d \in Daemons : WF_vars(DaemonReacquires(d)) /\ WF_vars(DaemonCycleEnds(d))

FairSpec == Spec /\ Fairness

-----------------------------------------------------------------------------
(***************************************************************************)
(* Properties.                                                             *)
(***************************************************************************)

\* What a 200 of POST /admin/backup is worth: as long as the fence it named is
\* the live one (lock_held and the same quiesce_generation), no client write is
\* being handled, no alternative-vector batch runs and no daemon writes (unless
\* Postgres dropped the session a daemon held its shared lock with).
FenceHolds ==
    \A c \in Callers :
        code[c] = 200 /\ wire[c] = Wire /\ LockHeld =>
            /\ \A w \in Writers : wpc[w] # "handling"
            /\ "alt" \in Workers => batch["alt"] = "idle"
            /\ losses = 0 => \A d \in Daemons : dpc[d] # "work"

\* A lock the gateway believes it holds is held: the session of the stored
\* connection owns the exclusive lock, and no daemon holds it shared.
BeliefIsTrue == LockHeld => flag /\ sess[stored] = "locked" /\ shared = {}

\* A quiesced gateway always has its dead-man timer armed, whichever call was
\* aborted, refreshed or resumed: a crashed backup cannot wedge writes.
DeadManArmed == flag => timer = "armed"

\* No live session is lost from sight: one that holds or awaits the exclusive
\* lock is the stored or the pending connection, which _end_quiesce terminates.
NoOrphanSession ==
    \A k \in Conns : sess[k] # "none" /\ k \notin closed => k \in {stored, pending}

\* A quiesce ends by resume, timer or restart, or because the caller that
\* STARTED it left; a departing caller never ends somebody else's quiesce.
OnlyTheOwnerEnds ==
    [][flag /\ ~flag' => Resume \/ TimerFires \/ Restart \/ gone[owner]]_vars

\* The fence identity never comes back: a generation that changed stays changed.
FenceIdentityIsMonotone ==
    [][\/ token' > token
       \/ token' = token /\ fenceAcqs' >= fenceAcqs
          /\ (LockHeld' /\ ~LockHeld => fenceAcqs' > fenceAcqs)]_vars

\* A quiesce is always over some day, whoever crashed.
QuiesceEnds == flag ~> ~flag

\* Every admin request is answered.
EveryCallAnswered == \A c \in Callers : pc[c] # "idle" ~> pc[c] = "idle"

\* A daemon that waits for the lock after a chat call gets it, or gives up.
NoDaemonStuck == \A d \in Daemons : dpc[d] = "reacq" ~> dpc[d] # "reacq"

\* The gateway waits for the daemons' locks while it answers, the daemons for the
\* gateway's: neither side waits for ever.
NobodyIsStuck == EveryCallAnswered /\ NoDaemonStuck

-----------------------------------------------------------------------------
(***************************************************************************)
(* The inductive invariant behind the safety properties, part by part.     *)
(***************************************************************************)
Inside == {"probe", "connect", "drain", "drain202", "abort"}

\* The single-flight lock: a call is past the queue iff it holds it.
MutexInv == \A c \in Callers : pc[c] \in Inside <=> mutex = c

\* A call that nobody resumed sees the flag it raised, and is its owner if it
\* started the quiesce.
FlagInv ==
    \A c \in Callers :
        /\ myGen[c] <= generation
        /\ pc[c] \in Inside /\ myGen[c] = generation =>
               flag /\ (startedHere[c] => owner = c)

\* The stored connection holds the lock; it is gone before another is opened.
StoredInv ==
    /\ LockHeld => flag /\ sess[stored] = "locked"
    /\ \A c \in Callers :
          pc[c] = "connect" \/ (pc[c] = "drain" /\ pending # NoConn) => stored = NoConn

\* The pending connection belongs to the call inside, and is locked before the
\* call drains.
PendingInv ==
    /\ pending # NoConn => mutex # NoCaller /\ pc[mutex] \in {"connect", "drain"}
    /\ \A c \in Callers : pc[c] = "connect" /\ pending # NoConn => pending = tconn
    /\ \A c \in Callers :
          pc[c] = "drain" /\ pending # NoConn /\ pending \notin closed
              => sess[pending] = "locked"

TaskInv ==
    /\ task # "none" => mutex # NoCaller /\ pc[mutex] = "connect"
    /\ task = "connecting" => pending = NoConn
    /\ task \in {"setting", "locking", "done"} => tconn \in Conns
    /\ task \in {"setting", "locking"} /\ tconn \notin closed => sess[tconn] # "none"
    /\ task = "done" /\ tconn \notin closed => sess[tconn] = "locked"

\* Postgres: one exclusive holder, and no shared one beside it.
LockInv ==
    /\ \A j, k \in Conns : sess[j] = "locked" /\ sess[k] = "locked" => j = k
    /\ \A k \in Conns : sess[k] = "locked" => shared = {}

\* A daemon that writes holds the lock shared, until a session is dropped.
DaemonInv == losses = 0 => \A d \in Daemons : dpc[d] = "work" => d \in shared

\* An answer names a fence of the past or the present one.
WireInv ==
    \A c \in Callers : code[c] = 200 =>
        /\ wire[c][1] <= token
        /\ wire[c][1] = token => wire[c][2] <= fenceAcqs

FenceInv ==
    /\ TypeOK /\ MutexInv /\ FlagInv /\ StoredInv /\ PendingInv /\ TaskInv
    /\ LockInv /\ DaemonInv /\ WireInv /\ FenceHolds /\ DeadManArmed /\ NoOrphanSession

=============================================================================
