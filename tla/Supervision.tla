---------------------------- MODULE Supervision -----------------------------
(***************************************************************************)
(* hive_mind_proxy.py as the parent of the two dream daemons: a watchdog   *)
(* task for each probes the backlog table, mints a token, spawns the       *)
(* process with the token in a pipe, waits for its end and decides whether *)
(* to start it again; SIGTERM drains the gateway and then the daemons.     *)
(*                                                                         *)
(* A step of a watchdog or of main runs from one await to the next.  The   *)
(* length of the backoff is abstracted: a wait ends by time or by the stop *)
(* event.  Token values are the numbers of their mint.                     *)
(***************************************************************************)
EXTENDS Naturals, FiniteSets

CONSTANTS
    Daemons,                \* "nrem", "rem"
    DAEMON_MAX_RESTARTS,    \* _DAEMON_MAX_RESTARTS
    MaxMints                \* bound

ASSUME SupervisionAssumption ==
    Daemons = {"nrem", "rem"} /\ DAEMON_MAX_RESTARTS \in Nat /\ MaxMints \in Nat

VARIABLES
    gate,       \* main: serving, draining, term_nrem, term_rem, stopped, crashed
    watch,      \* each watchdog: probe, unreadable, spawn, run, backoff, done, failed, cancelled
    proc,       \* each daemon process: none, running, told (to terminate), exited
    code,       \* its return code: ok, crash
    held,       \* the token it read from its pipe
    digests,    \* _AGENT_TOKENS, the minted ones, by daemon: a set of tokens
    latest,     \* _ephemeral_daemon_token_digests: 0 is no entry
    mints,      \* tokens minted so far
    crashes,    \* restart_times: crashes still in the window
    healthy,    \* _daemon_healthy, _rem_healthy
    unreadable, \* _LLM_BACKLOG_UNREADABLE
    late        \* daemons spawned after the drain had looked at them (history)

supVars == <<gate, watch, proc, code, held, digests, latest, mints, crashes, healthy, unreadable, late>>

Waiting == {"probe", "unreadable", "spawn", "run", "backoff"}
Ended == {"done", "failed", "cancelled"}
Stopping == gate # "serving"
Live(d) == proc[d] \in {"running", "told"}

SupInit ==
    /\ gate = "serving"
    /\ watch = [d \in Daemons |-> "probe"]
    /\ proc = [d \in Daemons |-> "none"] /\ code = [d \in Daemons |-> "ok"]
    /\ held = [d \in Daemons |-> 0] /\ digests = [d \in Daemons |-> {}]
    /\ latest = [d \in Daemons |-> 0] /\ mints = 0
    /\ crashes = [d \in Daemons |-> 0] /\ healthy = [d \in Daemons |-> FALSE]
    /\ unreadable = FALSE /\ late = {}

-----------------------------------------------------------------------------
\* _mint_daemon_token: the previous token of the daemon is taken out first.
MintedBeside(d) == digests[d] \cup {mints + 1}
Minted(d) == (digests[d] \ {latest[d]}) \cup {mints + 1}
Mint(d) ==
    /\ mints < MaxMints /\ mints' = mints + 1
    /\ digests' = [digests EXCEPT ![d] = Minted(d)] /\ latest' = [latest EXCEPT ![d] = mints + 1]

\* _revoke_daemon_token.
Unrevoked(d) == digests[d] \ {latest[d]}
Revoke(d) ==
    /\ digests' = [digests EXCEPT ![d] = Unrevoked(d)]
    /\ latest' = [latest EXCEPT ![d] = 0]

\* A watchdog returns or raises; its finally clause revokes.
LeaveWatch(d, how) == watch' = [watch EXCEPT ![d] = how] /\ Revoke(d)

\* _probe_llm_backlog, and what follows it up to the next await: the wait, or
\* _start_daemon as far as the spawn.  The script or uv may be missing, the pipe
\* may fail.
Probe(d, found) ==
    /\ watch[d] = "probe"
    /\ \/ /\ found = "unreadable" /\ unreadable' = TRUE
          /\ healthy' = [healthy EXCEPT ![d] = FALSE]
          /\ watch' = [watch EXCEPT ![d] = "unreadable"] /\ UNCHANGED <<digests, latest, mints>>
       \/ /\ found = "no_script" /\ unreadable' = FALSE
          /\ healthy' = [healthy EXCEPT ![d] = FALSE] /\ LeaveWatch(d, "done") /\ UNCHANGED mints
       \/ /\ found = "no_pipe" /\ unreadable' = FALSE
          /\ LeaveWatch(d, "failed") /\ UNCHANGED <<healthy, mints>>
       \/ /\ found = "ready" /\ unreadable' = FALSE /\ Mint(d)
          /\ watch' = [watch EXCEPT ![d] = "spawn"] /\ UNCHANGED healthy
    /\ UNCHANGED <<gate, proc, code, held, crashes, late>>

\* The head of the loop, after a wait that time ended; and the wait that the stop
\* event ended: the first wait comes back to the head, the backoff breaks.
Again(d) ==
    /\ watch[d] \in {"unreadable", "backoff"}
    /\ IF Stopping THEN LeaveWatch(d, "done")
       ELSE watch' = [watch EXCEPT ![d] = "probe"] /\ UNCHANGED <<digests, latest>>
    /\ UNCHANGED <<gate, proc, code, held, mints, crashes, healthy, unreadable, late>>

\* The drain looks at nrem, then at rem, and waits only for one that is running.
Looked == [nrem |-> gate \in {"term_nrem", "term_rem"}, rem |-> gate = "term_rem"]

\* create_subprocess_exec returns or raises.
Spawn(d, spawned) ==
    /\ watch[d] = "spawn"
    /\ IF spawned
       THEN /\ proc' = [proc EXCEPT ![d] = "running"] /\ held' = [held EXCEPT ![d] = latest[d]]
            /\ healthy' = [healthy EXCEPT ![d] = TRUE] /\ watch' = [watch EXCEPT ![d] = "run"]
            /\ late' = IF Looked[d] THEN late \cup {d} ELSE late
            /\ UNCHANGED <<digests, latest>>
       ELSE LeaveWatch(d, "failed") /\ UNCHANGED <<proc, held, healthy, late>>
    /\ UNCHANGED <<gate, code, mints, crashes, unreadable>>

\* The process ends, by itself or because it was told to.
Exit(d, c) ==
    /\ Live(d) /\ proc' = [proc EXCEPT ![d] = "exited"] /\ code' = [code EXCEPT ![d] = c]
    /\ UNCHANGED <<gate, watch, held, digests, latest, mints, crashes, healthy, unreadable, late>>

\* proc.wait() returns: clean exit, open circuit breaker, or a restart.
Trips(n) == n >= DAEMON_MAX_RESTARTS
Notice(d) ==
    /\ watch[d] = "run" /\ proc[d] = "exited"
    /\ healthy' = [healthy EXCEPT ![d] = FALSE]
    /\ IF Stopping \/ code[d] = "ok" \/ Trips(crashes[d])
       THEN LeaveWatch(d, "done") /\ UNCHANGED crashes
       ELSE /\ crashes' = [crashes EXCEPT ![d] = @ + 1]
            /\ watch' = [watch EXCEPT ![d] = "backoff"] /\ UNCHANGED <<digests, latest>>
    /\ UNCHANGED <<gate, proc, code, held, mints, unreadable, late>>

\* A crash leaves the restart window.
CrashAges(d) ==
    /\ crashes[d] > 0 /\ crashes' = [crashes EXCEPT ![d] = @ - 1]
    /\ UNCHANGED <<gate, watch, proc, code, held, digests, latest, mints, healthy, unreadable, late>>

-----------------------------------------------------------------------------
\* main: the signal, the end of the in-flight requests, then
\* _drain_watchdogs_and_daemons: each daemon that is running is told to terminate
\* and waited for, five seconds at most, then killed.
Signal ==
    /\ gate = "serving" /\ gate' = "draining"
    /\ UNCHANGED <<watch, proc, code, held, digests, latest, mints, crashes, healthy, unreadable, late>>

Told(p, d) == [p EXCEPT ![d] = "told"]
Cancelled == [d \in Daemons |-> IF watch[d] \in Waiting THEN "cancelled" ELSE watch[d]]

\* The rest of the drain once nrem is dealt with, and once rem is: the watchdogs
\* are cancelled and joined and the tokens revoked.  A watchdog that had raised
\* raises again here, and the rest of the shutdown does not happen.
Join(p) ==
    /\ proc' = p /\ watch' = Cancelled
    /\ digests' = [d \in Daemons |-> Unrevoked(d)] /\ latest' = [d \in Daemons |-> 0]
    /\ gate' = IF \E d \in Daemons : watch[d] = "failed" THEN "crashed" ELSE "stopped"
LookAtRem(p) ==
    IF p["rem"] = "running"
    THEN gate' = "term_rem" /\ proc' = Told(p, "rem") /\ UNCHANGED <<watch, digests, latest>>
    ELSE Join(p)

Drained ==
    /\ gate = "draining"
    /\ IF proc["nrem"] = "running"
       THEN gate' = "term_nrem" /\ proc' = Told(proc, "nrem") /\ UNCHANGED <<watch, digests, latest>>
       ELSE LookAtRem(proc)
    /\ UNCHANGED <<code, held, mints, crashes, healthy, unreadable, late>>

\* The wait for a daemon is over; one that is still there is killed.
Killed(d) == [proc EXCEPT ![d] = "exited"]
NremGone ==
    /\ gate = "term_nrem" /\ LookAtRem(Killed("nrem"))
    /\ UNCHANGED <<code, held, mints, crashes, healthy, unreadable, late>>
RemGone ==
    /\ gate = "term_rem" /\ Join(Killed("rem"))
    /\ UNCHANGED <<code, held, mints, crashes, healthy, unreadable, late>>

SupNext ==
    \/ \E d \in Daemons, found \in {"unreadable", "no_script", "no_pipe", "ready"} : Probe(d, found)
    \/ \E d \in Daemons : Again(d) \/ Notice(d) \/ CrashAges(d)
    \/ \E d \in Daemons, spawned \in BOOLEAN : Spawn(d, spawned)
    \/ \E d \in Daemons, c \in {"ok", "crash"} : Exit(d, c)
    \/ Signal \/ Drained \/ NremGone \/ RemGone

SupSpec == SupInit /\ [][SupNext]_supVars

-----------------------------------------------------------------------------
\* The token a process holds is good as long as its watchdog supervises it, and
\* no other minted token of that daemon ever is: a restart takes back the token
\* of the process that died, and the end of a watchdog, however it comes about,
\* takes back the last one.
TokenFollowsProcess ==
    \A d \in Daemons :
        /\ watch[d] = "run" => digests[d] = {held[d]}
        /\ digests[d] \subseteq {latest[d]}
        /\ watch[d] \in Ended => digests[d] = {}

\* "Publishing _daemon_proc immediately to prevent orphaning processes"
\* (_start_daemon): after the shutdown no daemon is left, but for one whose
\* watchdog was past its last look at the stop event and spawned it after the
\* drain had looked.
NoOrphan == gate \in {"stopped", "crashed"} => \A d \in Daemons \ late : ~Live(d)

\* /health says that a daemon runs only while its watchdog waits for its end; a
\* daemon that nothing will restart is never called healthy, except that the flag
\* of a watchdog that was cancelled is not read any more.
HealthyIsWatched == \A d \in Daemons : healthy[d] => watch[d] \in {"run", "cancelled"}

\* What a start, a crash, a restart and a shutdown may leave behind, in any order:
\* no token without its process, no process without its watchdog, no false health.
DaemonsAreSupervised == TokenFollowsProcess /\ NoOrphan /\ HealthyIsWatched

-----------------------------------------------------------------------------
(***************************************************************************)
(* Why they hold: the invariants of the proofs.                            *)
(***************************************************************************)
Gates == {"serving", "draining", "term_nrem", "term_rem", "stopped", "crashed"}

SupTypeOK ==
    /\ gate \in Gates
    /\ watch \in [Daemons -> Waiting \cup Ended]
    /\ proc \in [Daemons -> {"none", "running", "told", "exited"}]
    /\ code \in [Daemons -> {"ok", "crash"}]
    /\ held \in [Daemons -> Nat] /\ latest \in [Daemons -> Nat]
    /\ digests \in [Daemons -> SUBSET Nat]
    /\ mints \in Nat /\ crashes \in [Daemons -> Nat]
    /\ healthy \in [Daemons -> BOOLEAN] /\ unreadable \in BOOLEAN
    /\ late \subseteq Daemons

\* A process that is about to start will read the one token that is honoured.
TokenIsMinted == \A d \in Daemons : watch[d] = "spawn" => digests[d] = {latest[d]}

\* A daemon is told to terminate when the drain comes to it, not before; once the
\* drain is past it, it does not live unless it came late.
DrainInv ==
    /\ gate \in {"serving", "draining"} => \A d \in Daemons : proc[d] # "told"
    /\ gate = "term_nrem" => proc["rem"] # "told"
    /\ gate \in {"term_rem", "stopped", "crashed"} /\ "nrem" \notin late => ~Live("nrem")
    /\ gate \in {"stopped", "crashed"} => \A d \in Daemons : watch[d] \in Ended

SupInv == SupTypeOK /\ TokenIsMinted /\ DrainInv /\ DaemonsAreSupervised

=============================================================================
