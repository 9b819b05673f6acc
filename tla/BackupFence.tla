---------------------------- MODULE BackupFence ----------------------------
(***************************************************************************)
(* ops/backup.sh composed with the gateway's quiesce: the script asks for  *)
(* the quiesce, waits for the outbox to drain, reads the fence, re-arms    *)
(* it, dumps Postgres and then Neo4j, reads the fence again, resumes, and  *)
(* writes into the manifest what the two readings prove about the dumps.   *)
(***************************************************************************)
EXTENDS Quiesce

CONSTANTS
    Sh,          \* the caller that is the script; flock admits one at a time
    Required     \* BACKUP_QUIESCE_REQUIRED=1

ASSUME ShAssumption == Sh \in Callers /\ Required \in BOOLEAN

VARIABLES
    spc,         \* where do_backup is
    quiesced,    \* QUIESCED: the script owes a resume
    initial,     \* initial_quiesced
    drainedSeen, \* drain_outbox printed "outbox drained"
    r1, r2,      \* the readings of GET /admin/outbox
    rearmOk,     \* rearm_ok
    mode,        \* quiesce_mode in the manifest
    dirty        \* history: who was writing while a quiesced backup dumped

scriptVars == <<spc, quiesced, initial, drainedSeen, r1, r2, rearmOk, mode, dirty>>
allVars    == <<vars, scriptVars>>

ScriptPCs == {"start", "quiesce", "drain", "read1", "rearm", "rearming", "pg", "neo",
              "read2", "resume", "done", "unpromoted", "dead"}
Modes     == {"none", "full", "lost_during_dump", "fence_unknown"}
Kinds     == {"client", "alt", "daemon", "outbox"}
NoReading == [ok |-> FALSE, held |-> FALSE, gen |-> <<0, 0>>]
Reading   == [ok |-> TRUE, held |-> LockHeld, gen |-> Wire]

FenceTypeOK ==
    /\ spc \in ScriptPCs /\ mode \in Modes /\ dirty \subseteq Kinds
    /\ quiesced \in BOOLEAN /\ initial \in BOOLEAN
    /\ drainedSeen \in BOOLEAN /\ rearmOk \in BOOLEAN
    /\ r1 \in [ok : BOOLEAN, held : BOOLEAN, gen : Nat \X Nat]
    /\ r2 \in [ok : BOOLEAN, held : BOOLEAN, gen : Nat \X Nat]

ScriptInit ==
    /\ spc = "start" /\ mode = "none" /\ dirty = {}
    /\ quiesced = FALSE /\ initial = FALSE /\ drainedSeen = FALSE /\ rearmOk = FALSE
    /\ r1 = NoReading /\ r2 = NoReading

FenceInit == Init /\ ScriptInit

\* Who is writing to a store now.
Active ==
    {k \in Kinds :
        \/ k = "client" /\ \E w \in Writers : wpc[w] = "handling"
        \/ k = "alt"    /\ "alt" \in Workers /\ batch["alt"] = "run"
        \/ k = "daemon" /\ \E d \in Daemons : dpc[d] = "work"
        \/ k = "outbox" /\ "outbox" \in Workers /\ batch["outbox"] = "run" /\ rows > 0}

\* Every step: what runs while pg_dump or the APOC export runs is recorded.
Record ==
    dirty' = IF initial' /\ spc' \in {"pg", "neo"} THEN dirty \cup Active' ELSE dirty

-----------------------------------------------------------------------------
(***************************************************************************)
(* do_backup.                                                              *)
(***************************************************************************)

\* quiesce(): POST /admin/backup, answered within curl's --max-time.
ShQuiesce ==
    /\ spc = "start" /\ Call(Sh)
    /\ spc' = "quiesce"
    /\ UNCHANGED <<quiesced, initial, drainedSeen, r1, r2, rearmOk, mode>>

\* No quiesce: die if it is required, dump online otherwise.
Unquiesced ==
    /\ spc' = IF Required THEN "dead" ELSE "pg"
    /\ UNCHANGED <<quiesced, initial, drainedSeen, r1, r2, rearmOk, mode>>

ShQuiesceAnswered ==
    /\ spc = "quiesce" /\ pc[Sh] = "idle"
    /\ \/ /\ code[Sh] \in {200, 202}
          /\ quiesced' = TRUE /\ initial' = TRUE /\ spc' = "drain"
          /\ UNCHANGED <<drainedSeen, r1, r2, rearmOk, mode>>
       \/ code[Sh] \notin {200, 202} /\ Unquiesced
    /\ UNCHANGED vars

ShQuiesceTimesOut ==
    /\ spc = "quiesce" /\ Disconnect(Sh) /\ Unquiesced

\* drain_outbox: pending + in_progress read 0, or the time is over.
ShDrain ==
    /\ spc = "drain" /\ spc' = "read1"
    /\ \/ rows = 0 /\ drainedSeen' = TRUE
       \/ drainedSeen' = FALSE
    /\ UNCHANGED <<vars, quiesced, initial, r1, r2, rearmOk, mode>>

ShRead1 ==
    /\ spc = "read1" /\ spc' = "rearm"
    /\ r1' \in {Reading, NoReading}
    /\ UNCHANGED <<vars, quiesced, initial, drainedSeen, r2, rearmOk, mode>>

ShRearm ==
    /\ spc = "rearm" /\ Call(Sh)
    /\ spc' = "rearming"
    /\ UNCHANGED <<quiesced, initial, drainedSeen, r1, r2, rearmOk, mode>>

RearmProvesFence == code[Sh] = 200 /\ r1.ok /\ wire[Sh] = r1.gen

ShRearmAnswered ==
    /\ spc = "rearming" /\ pc[Sh] = "idle"
    /\ spc' = "pg" /\ rearmOk' = RearmProvesFence
    /\ UNCHANGED <<vars, quiesced, initial, drainedSeen, r1, r2, mode>>

ShRearmTimesOut ==
    /\ spc = "rearming" /\ Disconnect(Sh)
    /\ spc' = "pg"
    /\ UNCHANGED <<quiesced, initial, drainedSeen, r1, r2, rearmOk, mode>>

ShDumpPostgres ==
    /\ spc = "pg" /\ spc' = "neo"
    /\ UNCHANGED <<vars, quiesced, initial, drainedSeen, r1, r2, rearmOk, mode>>

ShDumpNeo4j ==
    /\ spc = "neo" /\ spc' = IF initial THEN "read2" ELSE "resume"
    /\ UNCHANGED <<vars, quiesced, initial, drainedSeen, r1, r2, rearmOk, mode>>

ShRead2 ==
    /\ spc = "read2" /\ spc' = "resume"
    /\ r2' \in {Reading, NoReading}
    /\ UNCHANGED <<vars, quiesced, initial, drainedSeen, r1, rearmOk, mode>>

\* resume(): the request arrives, or it is lost and the timer will do it.
ResumeIfOwed ==
    /\ quiesced' = FALSE
    /\ \/ quiesced /\ Resume
       \/ UNCHANGED vars

Verdict ==
    IF ~initial THEN "none"
    ELSE IF ~r1.ok \/ ~r2.ok THEN "fence_unknown"
    ELSE IF r1.held /\ r2.held /\ rearmOk /\ r1.gen = r2.gen THEN "full"
    ELSE "lost_during_dump"

ShFinish ==
    /\ spc = "resume" /\ ResumeIfOwed
    /\ mode' = Verdict
    /\ spc' = IF Required /\ Verdict # "full" THEN "unpromoted" ELSE "done"
    /\ UNCHANGED <<initial, drainedSeen, r1, r2, rearmOk>>

\* die, INT or TERM run the exit trap; SIGKILL does not.
ShDies ==
    /\ spc \notin {"start", "done", "unpromoted", "dead"}
    /\ ResumeIfOwed /\ spc' = "dead"
    /\ UNCHANGED <<initial, drainedSeen, r1, r2, rearmOk, mode>>

ScriptStep ==
    \/ ShQuiesce \/ ShQuiesceAnswered \/ ShQuiesceTimesOut \/ ShDrain \/ ShRead1
    \/ ShRearm \/ ShRearmAnswered \/ ShRearmTimesOut \/ ShDumpPostgres
    \/ ShDumpNeo4j \/ ShRead2 \/ ShFinish \/ ShDies

-----------------------------------------------------------------------------
\* The gateway, Postgres, the daemons and the other administrators, until the
\* script ends; what the gateway does without it is in Quiesce.
OtherStep ==
    /\ spc \notin {"done", "unpromoted", "dead"}
    /\ \/ SystemStep \/ Resume
       \/ \E c \in Callers \ {Sh} : Call(c) \/ Disconnect(c)
    /\ UNCHANGED <<spc, quiesced, initial, drainedSeen, r1, r2, rearmOk, mode>>

FenceNext == (ScriptStep \/ OtherStep) /\ Record

FenceSpec == FenceInit /\ [][FenceNext]_allVars

-----------------------------------------------------------------------------
\* A manifest that says quiesce_mode "full" is true: while either dump ran no
\* client write was handled, no alternative-vector batch ran and no daemon
\* wrote (as long as Postgres kept the daemons' lock sessions).
FullMeansQuiet ==
    mode = "full" =>
        dirty \cap {"client", "alt"} = {} /\ (losses = 0 => "daemon" \notin dirty)

\* With no other administrator: a "full" set whose drain was seen to finish has
\* no outbox row applied to Neo4j while the dumps ran.
FullMeansSettled == mode = "full" /\ drainedSeen => "outbox" \notin dirty

-----------------------------------------------------------------------------
(***************************************************************************)
(* The invariants behind the two properties.                               *)
(***************************************************************************)
Early   == {"start", "quiesce", "drain", "read1", "rearm", "rearming"}
Dumping == {"pg", "neo", "read2"}

\* The fence that f names is the live one.
Fenced(f) == LockHeld /\ Wire = f

\* f names a fence of the past or the present one.
NotNewer(f) == f[1] <= token /\ (f[1] = token => f[2] <= fenceAcqs)

NoWriter == \A w \in Writers : wpc[w] # "handling"

\* Nobody that the quiesce stops was writing during the dumps.
Clean == dirty \cap {"client", "alt"} = {} /\ (losses = 0 => "daemon" \notin dirty)

\* Nothing is recorded before the dumps, and a re-arm that proved the fence keeps
\* them clean for as long as that fence is live, which the second reading tells.
DumpInv ==
    /\ spc \in Early => dirty = {} /\ ~rearmOk
    /\ spc \in Dumping /\ rearmOk =>
          /\ pc[Sh] = "idle" /\ code[Sh] = 200 /\ wire[Sh] = r1.gen
          /\ Fenced(r1.gen) => Clean
    /\ spc = "resume" /\ Verdict = "full" => Clean
    /\ mode = "full" => Clean /\ spc \in {"done", "unpromoted"}

\* With no other administrator a lock that is held after the quiesce has been held
\* since, so the rows that were drained stay drained; from the first reading on this
\* holds for the fence it named.
SettledInv ==
    /\ spc = "quiesce" /\ pc[Sh] = "idle" /\ code[Sh] \in {200, 202} /\ LockHeld => NoWriter
    /\ spc \in {"drain", "read1"} => pc[Sh] = "idle" /\ (LockHeld => NoWriter)
    /\ spc \in {"start", "quiesce", "drain"} => ~drainedSeen
    /\ spc = "read1" /\ drainedSeen /\ LockHeld => rows = 0
    /\ spc \in {"rearm", "rearming"} \cup Dumping /\ r1.ok /\ r1.held /\ drainedSeen =>
          /\ NotNewer(r1.gen)
          /\ Fenced(r1.gen) => NoWriter /\ rows = 0 /\ "outbox" \notin dirty
    /\ spc = "resume" /\ Verdict = "full" /\ drainedSeen => "outbox" \notin dirty
    /\ FullMeansSettled

=============================================================================
