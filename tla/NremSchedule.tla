---------------------------- MODULE NremSchedule ----------------------------
(***************************************************************************)
(* When the NREM daemon runs (consolidation_loop.py, the listener): it     *)
(* evaluates what is due after a second without notification, waits for a  *)
(* free LLM slot under the priority lock that makes REM yield, takes the   *)
(* shared backup lock, and instruments each cycle with a row of            *)
(* consolidation_runs whose writes may all fail.                           *)
(*                                                                         *)
(* Clocks are the answers of their comparisons.  What a cycle does is the  *)
(* subject of NremFold and NremInsight.  REM's probe of the priority lock  *)
(* (try, then unlock) is one step.  Rows closed at birth (deferred, idle)  *)
(* are left out.                                                           *)
(***************************************************************************)
EXTENDS Naturals, FiniteSets, Sequences

CONSTANTS
    MaxRuns,                \* bound: instrumented cycles
    MaxTroubles,            \* bound: deaths of the daemon, clients that fill the pool, backups
    MaxLead                 \* bound: starved records of a cycle

ASSUME BoundsAssumption == MaxRuns \in Nat /\ MaxTroubles \in Nat /\ MaxLead \in Nat

VARIABLES
    listener,   \* wait, due, queue, take, cycle, in_run, down
    parts,      \* the cycles left of the job: fact, ledger, insight
    job,        \* none, fold, sweep
    prio,       \* NREM holds the priority lock
    outlasted,  \* the calls REM was making when NREM queued have ended
    rem,        \* REM: idle, call
    lead,       \* calls REM still makes before it looks at the priority lock again
    notified,   \* a notification waits on the LISTEN connection
    others,     \* another client fills the pool
    backup,     \* the exclusive backup lock is held
    fence,      \* the shared one of NREM: none, held, lost, or chat while it is given up
    backlog,    \* facts waiting reach the density threshold
    seen,       \* the same, as of the last read (_backlog)
    overdue,    \* seen for MAX_DEFERRAL_SEC (_backlog_eligible_since)
    startupDone,\* _startup_sweep_done
    runs,       \* consolidation_runs: none, open, completed, crashed
    cur,        \* the row of the cycle in progress, 0 if none was opened
    abandoned,  \* _abandoned_runs
    truth,      \* how each run ended: none, running, completed, aborted, crashed, died (history)
    unwritten,  \* rows whose final write failed (history)
    spent       \* the troubles so far

poolVars  == <<rem, lead, notified, others, backup>>
clockVars == <<backlog, seen, overdue, startupDone>>
runVars   == <<runs, cur, abandoned, truth, unwritten>>
jobVars   == <<listener, parts, job, prio, outlasted, fence>>
schedVars == <<jobVars, poolVars, clockVars, runVars, spent>>

Runs == 1..MaxRuns
Busy == rem = "call" \/ others

SchedInit ==
    /\ listener = "wait" /\ parts = <<>> /\ job = "none" /\ prio = FALSE /\ outlasted = FALSE
    /\ rem = "idle" /\ lead = 0 /\ notified = FALSE /\ others = FALSE /\ backup = FALSE /\ fence = "none"
    /\ backlog = FALSE /\ seen = FALSE /\ overdue = FALSE /\ startupDone = FALSE
    /\ runs = [i \in Runs |-> "none"] /\ cur = 0 /\ abandoned = {}
    /\ truth = [i \in Runs |-> "none"] /\ unwritten = {}
    /\ spent = 0

-----------------------------------------------------------------------------
\* select() returns readable: the notifications are consumed, nothing is scheduled.
Notified ==
    /\ listener = "wait" /\ notified /\ notified' = FALSE
    /\ UNCHANGED <<jobVars, rem, lead, others, backup, clockVars, runVars, spent>>

\* consolidation_due: quiet (no notification, no busy pool) for IDLE_THRESHOLD_SEC,
\* or the backstop.
Due(s, o, quiet) == s /\ (quiet \/ o)

\* _refresh_backlog: the read may fail, and is left out when the last is fresh.
Backlog(read) == IF read THEN backlog ELSE seen

\* A silent second: the pool and the backlog are looked at, each at its own
\* rate, then what is due is chosen.  sweep is the answer of
\* sweep_due and of its backoff.
Tick(quiet, read, sweep) ==
    /\ listener = "wait" /\ ~notified
    /\ LET s == Backlog(read)
           o == overdue /\ s
       IN  /\ seen' = s /\ overdue' = o
           /\ IF Due(s, o, quiet) THEN listener' = "due" /\ job' = "fold"
              ELSE IF sweep THEN listener' = "due" /\ job' = "sweep"
              ELSE UNCHANGED <<listener, job>>
    /\ UNCHANGED <<parts, prio, outlasted, fence, poolVars, backlog, startupDone, runVars, spent>>

\* The pool is asked; where it is busy, _wait_for_slot takes the priority lock.
TakePriority == prio' = TRUE /\ outlasted' = (rem # "call" /\ lead = 0)
AskPool ==
    /\ listener = "due"
    /\ IF Busy THEN listener' = "queue" /\ TakePriority
       ELSE listener' = "take" /\ UNCHANGED <<prio, outlasted>>
    /\ UNCHANGED <<parts, job, fence, poolVars, clockVars, runVars, spent>>

SlotFree ==
    /\ listener = "queue" /\ ~Busy
    /\ listener' = "take" /\ prio' = FALSE /\ outlasted' = FALSE
    /\ UNCHANGED <<parts, job, fence, poolVars, clockVars, runVars, spent>>

\* NREM_FORCED_SLOT_WAIT passes; it is longer than the calls REM was making.
SlotWaitEnds ==
    /\ listener = "queue" /\ Busy /\ outlasted
    /\ listener' = "wait" /\ prio' = FALSE /\ outlasted' = FALSE /\ job' = "none"
    /\ UNCHANGED <<parts, fence, poolVars, clockVars, runVars, spent>>

\* The rows of abandoned cycles are written first: those in done, the others are lost.
DrainAbandoned(done) ==
    /\ runs' = [i \in Runs |-> IF i \in abandoned \cap done THEN "crashed" ELSE runs[i]]
    /\ unwritten' = unwritten \cup (abandoned \ done)
    /\ abandoned' = {} /\ UNCHANGED <<cur, truth>>

\* The shared backup lock, tried once, and what the job then consists of.
LockGranted == ~backup
TakeBackupLock(done) ==
    /\ listener = "take"
    /\ IF ~LockGranted
       THEN listener' = "wait" /\ job' = "none" /\ UNCHANGED <<parts, fence, runVars>>
       ELSE /\ listener' = "cycle" /\ fence' = "held" /\ DrainAbandoned(done)
            /\ parts' = IF job = "fold" THEN <<"fact">>
                        ELSE IF startupDone THEN <<"ledger", "insight">>
                        ELSE <<"fact", "ledger", "insight">>
            /\ UNCHANGED job
    /\ UNCHANGED <<prio, outlasted, poolVars, clockVars, spent>>

\* _record_cycle opens a row, or fails to.
OpenRun(opened) ==
    /\ listener = "cycle" /\ parts # <<>> /\ listener' = "in_run"
    /\ IF opened
       THEN \E i \in Runs :
              /\ runs[i] = "none" /\ \A j \in 1..(i - 1) : runs[j] # "none"
              /\ cur' = i /\ runs' = [runs EXCEPT ![i] = "open"]
              /\ truth' = [truth EXCEPT ![i] = "running"]
       ELSE UNCHANGED <<cur, runs, truth>>
    /\ UNCHANGED <<parts, job, prio, outlasted, fence, poolVars, clockVars, abandoned, unwritten, spent>>

\* A cycle that finds nothing to do opens none.
NothingToDo ==
    /\ listener = "cycle" /\ parts # <<>> /\ Head(parts) # "insight" /\ parts' = Tail(parts)
    /\ UNCHANGED <<listener, job, prio, outlasted, fence, poolVars, clockVars, runVars, spent>>

\* Around every call of the LLM the backup lock is given up and taken again, which
\* waits for a backup that came in between, over a new connection if need be.
ReleaseForChat ==
    /\ listener = "in_run" /\ fence # "chat" /\ fence' = "chat"
    /\ UNCHANGED <<listener, parts, job, prio, outlasted, poolVars, clockVars, runVars, spent>>
Reacquire ==
    /\ listener = "in_run" /\ fence = "chat" /\ LockGranted /\ fence' = "held"
    /\ UNCHANGED <<listener, parts, job, prio, outlasted, poolVars, clockVars, runVars, spent>>

\* _crun_finish writes the end of the row, or fails to.
Finish(i, how, written) ==
    /\ runs' = IF i # 0 /\ written THEN [runs EXCEPT ![i] = how] ELSE runs
    /\ unwritten' = IF i # 0 /\ ~written THEN unwritten \cup {i} ELSE unwritten

\* The cycle completes, raises, or fails to take the backup lock again; its caller
\* goes on to the next part in each case, in the last one without the lock.
Forgotten(i) == abandoned
Remembered(i) == abandoned \cup ({i} \ {0})
CloseRun(how, written) ==
    /\ listener = "in_run" /\ listener' = "cycle" /\ parts' = Tail(parts) /\ cur' = 0
    /\ how = "aborted" <=> fence = "chat"
    /\ truth' = [i \in Runs |-> IF i = cur THEN how ELSE truth[i]]
    /\ abandoned' = IF how = "aborted" THEN Remembered(cur) ELSE abandoned
    /\ fence' = IF how = "aborted" THEN "lost" ELSE fence
    /\ IF how = "aborted" THEN UNCHANGED <<runs, unwritten>> ELSE Finish(cur, how, written)
    /\ UNCHANGED <<job, prio, outlasted, poolVars, clockVars, spent>>

\* The job ends: a fold reads the backlog again and restarts the clocks.
EndJob(read) ==
    /\ listener = "cycle" /\ parts = <<>>
    /\ listener' = "wait" /\ job' = "none" /\ fence' = "none"
    /\ IF job = "fold"
       THEN /\ overdue' = FALSE /\ seen' = Backlog(read)
            /\ UNCHANGED startupDone
       ELSE startupDone' = TRUE /\ UNCHANGED <<overdue, seen>>
    /\ UNCHANGED <<parts, prio, outlasted, poolVars, backlog, runVars, spent>>

\* The process dies, and is started again: _crun_recover_and_prune closes every open
\* row, or fails.
Die ==
    /\ listener # "down" /\ spent < MaxTroubles
    /\ spent' = spent + 1
    /\ listener' = "down" /\ parts' = <<>> /\ job' = "none" /\ prio' = FALSE /\ outlasted' = FALSE
    /\ fence' = "none" /\ cur' = 0 /\ abandoned' = {}
    /\ truth' = [i \in Runs |-> IF i = cur THEN "died" ELSE truth[i]]
    /\ unwritten' = unwritten \cup abandoned
    /\ seen' = FALSE /\ overdue' = FALSE /\ startupDone' = FALSE
    /\ UNCHANGED <<poolVars, backlog, runs>>
Recover(written) ==
    /\ listener = "down" /\ listener' = "wait"
    /\ runs' = [i \in Runs |-> IF written /\ runs[i] = "open" THEN "crashed" ELSE runs[i]]
    /\ UNCHANGED <<parts, job, prio, outlasted, fence, poolVars, clockVars, cur, abandoned, truth,
                   unwritten, spent>>

-----------------------------------------------------------------------------
\* REM: a cycle, and each record that is not starved, first looks whether NREM is
\* queuing; the starved records, lead of them, follow without a look.  A reply is
\* followed by a notification.
CallsAnyway == TRUE
MayCall == ~prio
RemCalls(starved) ==
    /\ rem = "idle" /\ ~others /\ rem' = "call"
    /\ \/ lead > 0 /\ starved = 0 /\ lead' = lead - 1
       \/ lead = 0 /\ MayCall /\ lead' = starved
    /\ UNCHANGED <<jobVars, notified, others, backup, clockVars, runVars, spent>>
RemCallEnds(notify) ==
    /\ rem = "call" /\ rem' = "idle" /\ notified' = (notified \/ notify)
    /\ outlasted' = (outlasted \/ (listener = "queue" /\ lead = 0))
    /\ UNCHANGED <<listener, parts, job, prio, fence, lead, others, backup, clockVars, runVars, spent>>

OtherArrives ==
    /\ ~others /\ spent < MaxTroubles /\ others' = TRUE
    /\ spent' = spent + 1
    /\ UNCHANGED <<jobVars, rem, lead, notified, backup, clockVars, runVars>>
OtherLeaves ==
    /\ others /\ others' = FALSE
    /\ UNCHANGED <<jobVars, rem, lead, notified, backup, clockVars, runVars, spent>>
BackupStarts ==
    /\ ~backup /\ fence # "held" /\ spent < MaxTroubles /\ backup' = TRUE
    /\ spent' = spent + 1
    /\ UNCHANGED <<jobVars, rem, lead, notified, others, clockVars, runVars>>
BackupEnds ==
    /\ backup /\ backup' = FALSE
    /\ UNCHANGED <<jobVars, rem, lead, notified, others, clockVars, runVars, spent>>

FactsArrive ==
    /\ ~backlog /\ backlog' = TRUE
    /\ UNCHANGED <<jobVars, poolVars, seen, overdue, startupDone, runVars, spent>>
\* A fold consumed them.
FactsFolded ==
    /\ backlog /\ listener = "in_run" /\ Head(parts) # "insight" /\ backlog' = FALSE
    /\ UNCHANGED <<jobVars, poolVars, seen, overdue, startupDone, runVars, spent>>

\* MAX_DEFERRAL_SEC passes.
Overdue ==
    /\ seen /\ ~overdue /\ overdue' = TRUE
    /\ UNCHANGED <<jobVars, poolVars, backlog, seen, startupDone, runVars, spent>>

DaemonStep ==
    \/ \E quiet, read, sweep \in BOOLEAN : Tick(quiet, read, sweep)
    \/ \E done \in SUBSET Runs : TakeBackupLock(done)
    \/ \E b \in BOOLEAN : OpenRun(b) \/ EndJob(b) \/ Recover(b)
    \/ \E how \in {"completed", "aborted", "crashed"}, written \in BOOLEAN : CloseRun(how, written)
    \/ Notified \/ AskPool \/ SlotFree \/ SlotWaitEnds \/ NothingToDo \/ ReleaseForChat \/ Reacquire
RemStep == (\E starved \in 0..MaxLead : RemCalls(starved)) \/ \E notify \in BOOLEAN : RemCallEnds(notify)
Environment == OtherLeaves \/ BackupEnds
SchedNext ==
    \/ DaemonStep \/ RemStep \/ Environment \/ Die
    \/ OtherArrives \/ BackupStarts \/ FactsArrive \/ FactsFolded
    \/ Overdue

\* A silent second comes about between two notifications (a call of REM's takes
\* longer); calls, cycles, other clients and backups end; REM polls for ever.
SilentTick == \E quiet, read, sweep \in BOOLEAN : Tick(quiet, read, sweep)
CycleEnds == \E how \in {"completed", "aborted", "crashed"}, written \in BOOLEAN : CloseRun(how, written)
SchedFairness ==
    /\ WF_schedVars(DaemonStep) /\ WF_schedVars(CycleEnds) /\ SF_schedVars(SilentTick)
    /\ WF_schedVars(RemStep) /\ WF_schedVars(OtherLeaves) /\ WF_schedVars(BackupEnds)
SchedSpec == SchedInit /\ [][SchedNext]_schedVars /\ SchedFairness

-----------------------------------------------------------------------------
\* consolidation_runs tells how the cycles went: a row says completed only of a
\* cycle that completed; a row that is still open is that of the cycle in progress,
\* of an aborted one that the next job writes, of one cut short by the daemon's
\* death, or of one whose final write failed.
RunRowIsOwed ==
    \A i \in Runs :
        /\ runs[i] = "completed" => truth[i] = "completed"
        /\ runs[i] = "crashed" => truth[i] # "completed" \/ i \in unwritten
        /\ runs[i] = "open" => i = cur \/ i \in abandoned \cup unwritten \/ truth[i] = "died"

\* "NREM queues for the LLM slot, REM yields" (_wait_for_slot): a backlog that
\* reached the backstop is consolidated however much REM has to do.
BacklogIsServed ==
    (overdue /\ listener # "down") ~> ((job = "fold" /\ listener = "cycle") \/ ~overdue)

-----------------------------------------------------------------------------
(***************************************************************************)
(* The inductive invariant of RunRowIsOwed.                                *)
(***************************************************************************)
Truths == {"none", "running", "completed", "aborted", "crashed", "died"}
RunTypeOK ==
    /\ runs \in [Runs -> {"none", "open", "completed", "crashed"}] /\ truth \in [Runs -> Truths]
    /\ cur \in Runs \cup {0} /\ abandoned \subseteq Runs

\* The row of the cycle in progress is open, and only a cycle has one.
CycleHasItsRow == cur # 0 => listener = "in_run" /\ runs[cur] = "open" /\ truth[cur] = "running"

\* A row is written for a cycle, whose end is not known before it has ended.
RowsHaveCycles ==
    \A i \in Runs :
        /\ runs[i] = "none" => truth[i] = "none"
        /\ truth[i] = "running" => i = cur

\* Only aborted cycles wait to be written, and not across the daemon's death.
AbandonedWereAborted == \A i \in abandoned : truth[i] = "aborted" /\ listener # "down"

RunInv == RunTypeOK /\ CycleHasItsRow /\ RowsHaveCycles /\ AbandonedWereAborted /\ RunRowIsOwed

=============================================================================
