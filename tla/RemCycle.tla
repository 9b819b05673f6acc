------------------------------ MODULE RemCycle ------------------------------
(***************************************************************************)
(* The REM daemon (rem_loop.py) and its backlog (llm_backlog.py).  A cycle *)
(* selects records the graph has not marked, asks the LLM for summaries,   *)
(* writes the node, marks the outbox row and clears the backlog row.  An   *)
(* LLM reply is paid for: a record whose reply could not be stored is      *)
(* withheld by a backlog row until the pool or the gateway has changed, or *)
(* by the daemon's memory when even that row could not be written.         *)
(*                                                                         *)
(* A cycle is a queue of tasks, one per await that changes state; between  *)
(* two tasks the gateway applies rows, supersedes records and restarts,    *)
(* and the daemon may die.  A record has one outbox row here: its re-save  *)
(* is OutboxMirror's subject, the advisory lock is Quiesce's.              *)
(***************************************************************************)
EXTENDS Naturals, FiniteSets, Sequences, SequencesExt

CONSTANTS
    Records,        \* pg_ids
    Facts,          \* the others are decisions and retrospectives
    Long,           \* longer than REM_SUMMARY_THRESHOLD
    Bad,            \* nodes without a Postgres row, or with another record's label
    BATCH_SIZE, REM_STARVED_THRESHOLD,
    Pools, Ctx, Reply,      \* pool ids with their largest context and largest reply
    LlmReasons,             \* the backlog reasons a call may end in
    NoRow,
    MaxBoot                 \* bound

ASSUME RemAssumption ==
    /\ IsFiniteSet(Records) /\ Facts \cup Long \cup Bad \subseteq Records
    /\ BATCH_SIZE \in Nat \ {0} /\ REM_STARVED_THRESHOLD \in Nat \ {0}
    /\ Ctx \in [Pools -> Nat] /\ Reply \in [Pools -> Nat]
    /\ LlmReasons \subseteq {"no_context", "cut_off", "loop", "unparseable", "unrecognised", "connection_lost"}
    /\ MaxBoot \in Nat

VARIABLES
    node,       \* each record's node in Neo4j
    row,        \* status of each record's outbox row
    backlog,    \* llm_backlog, the rows of kind "rem"
    gw,         \* the gateway's pool and boot id, which the daemon it spawns is given
    pc,         \* the daemon: down, idle, cycle
    soloOnly,   \* _solo_only
    withheld,   \* _withheld
    todo,       \* the rest of the daemon's cycle
    charged,    \* paid replies after which this process should not ask for the record
                \* again: those of a solo try, and those of a batch but for the ones
                \* that left the record to its solo try (history)
    dropped,    \* records whose paid result an aborted cycle threw away (history)
    cutShort    \* records marked in the graph alone when the daemon died (history)

storeVars  == <<node, row, backlog, gw>>
daemonVars == <<pc, soloOnly, withheld, todo>>
history    == <<charged, dropped, cutShort>>
vars       == <<storeVars, daemonVars, history>>

Reasons    == LlmReasons \cup {"unparseable", "write_failed"}
Identities == [pool : Pools, boot : 0..MaxBoot]

ASSUME NoRowAssumption == NoRow \notin Records /\ NoRow \notin [reason : Reasons, id : Identities]

\* A task of the cycle.  call: a solo try; yield: a solo try that first looks
\* whether NREM is queuing; result: apply the reply (good or not) to the node;
\* mark, clear, withhold: the writes that follow.
Task(op, r, arg) == [op |-> op, r |-> r, arg |-> arg]
Tasks(op, S, arg) == [i \in 1..Cardinality(S) |-> Task(op, SetToSeq(S)[i], arg)]
Batch(S) == <<Task("batch", NoRow, S)>>

-----------------------------------------------------------------------------
\* llm_backlog.eligible: what has to change before a stored row is tried again.
Eligible(b, id) ==
    CASE b.reason = "no_context" -> Ctx[id.pool] > Ctx[b.id.pool]
      [] b.reason = "cut_off"    -> Reply[id.pool] > Reply[b.id.pool]
      [] b.reason \in {"connection_lost", "write_failed"} -> id.boot # b.id.boot
      [] OTHER -> id.pool # b.id.pool

\* blocked_keys and eligible_write_failed.
Blocked == {r \in Records : backlog[r] # NoRow /\ ~Eligible(backlog[r], gw)}
EligibleWriteFailed ==
    {r \in Records : backlog[r] # NoRow /\ backlog[r].reason = "write_failed" /\ Eligible(backlog[r], gw)}

\* _release_eligible_write_failed, on the nodes n.
Released == [r \in Records |->
    IF r \in EligibleWriteFailed \ withheld /\ ~node[r].invalid
    THEN [node[r] EXCEPT !.processed = FALSE] ELSE node[r]]

\* _fetch_non_rem_batch.  The order by rem_pickups, which only rotates the queue,
\* is abstracted: any records up to the limit.
Candidates(n) ==
    {r \in Records : ~n[r].processed /\ ~n[r].superseded /\ ~n[r].invalid /\ r \notin Blocked \cup withheld}
Fetches(n) ==
    LET C == Candidates(n)
    IN  {S \in SUBSET C : Cardinality(S) = Min({BATCH_SIZE, Cardinality(C)})}

\* _filter_applied_in_outbox.
Applied(S) == {r \in S : row[r] \in {"applied", "rem_reviewed"}}

\* Solo records skipped too often are drained first, without the yield.
Starved(solo, n) == {r \in solo : n[r].passed >= REM_STARVED_THRESHOLD}

\* The tasks of run_cycle for the records S, in its order: the facts (in one
\* batch if there are several), the starved solo records, the others.
CycleTasks(S, n) ==
    LET batch   == (S \cap Facts) \ soloOnly
        solo    == S \ batch
        starved == Starved(solo, n)
    IN  (IF Cardinality(batch) > 1 THEN Batch(batch) ELSE Tasks("call", batch, "pick"))
        \o Tasks("call", starved, "pick") \o Tasks("yield", solo \ starved, "pick")

-----------------------------------------------------------------------------
TypeOK ==
    /\ node \in [Records -> [processed : BOOLEAN, invalid : BOOLEAN, superseded : BOOLEAN,
                             passed : Nat]]
    /\ row \in [Records -> {"pending", "applied", "rem_reviewed"}]
    /\ backlog \in [Records -> [reason : Reasons, id : Identities] \cup {NoRow}]
    /\ gw \in Identities
    /\ pc \in {"down", "idle", "cycle"}
    /\ soloOnly \subseteq Records /\ withheld \subseteq Records
    /\ charged \in [Records -> 0..2]
    /\ dropped \subseteq Records /\ cutShort \subseteq Records

Init ==
    /\ node = [r \in Records |-> [processed |-> FALSE, invalid |-> FALSE, superseded |-> FALSE,
                                  passed |-> 0]]
    /\ row = [r \in Records |-> "pending"] /\ backlog = [r \in Records |-> NoRow]
    /\ gw \in [pool : Pools, boot : {0}]
    /\ pc = "idle" /\ soloOnly = {} /\ withheld = {} /\ todo = <<>>
    /\ charged = [r \in Records |-> 0] /\ dropped = {} /\ cutShort = {}

\* run_cycle up to the first pickup.  A held backup lock, an error, a recent
\* write, a queuing NREM or a full pool end the cycle after the release.
Begin(yields, retired, fetched) ==
    /\ pc = "idle"
    /\ LET n == Released
           S == IF yields THEN {} ELSE Applied(fetched)
           bad == S \cap Bad
       IN  /\ fetched \in Fetches(n)
           /\ node' = [r \in Records |->
                        IF r \in bad /\ retired THEN [n[r] EXCEPT !.invalid = TRUE, !.processed = TRUE] ELSE n[r]]
           /\ todo' = CycleTasks(S \ bad, n)
           /\ pc' = IF S \ bad = {} THEN "idle" ELSE "cycle"
    /\ UNCHANGED <<row, backlog, gw, soloOnly, withheld, history>>

\* The head of todo is done; more goes before the rest of the cycle.
Goes(more) ==
    /\ todo' = more \o Tail(todo)
    /\ pc' = IF todo' = <<>> THEN "idle" ELSE "cycle"
Doing(op) == pc = "cycle" /\ Head(todo).op = op

\* LockReacquireFailed: what was sent is withheld, the cycle and the results in
\* hand are gone.
AbortsCycle(sent) ==
    /\ withheld' = withheld \cup sent
    /\ dropped' = dropped \cup {todo[i].r : i \in {j \in DOMAIN todo : todo[j].op = "result"}}
    /\ todo' = <<>> /\ pc' = "idle"
    /\ UNCHANGED <<backlog, soloOnly>>

\* _bump_rem_pickups, best effort.
Picked(S, ok) == [r \in Records |-> IF r \in S /\ ok THEN [node[r] EXCEPT !.passed = 0] ELSE node[r]]

\* Ends of a call that cost nothing: the item stays queued.  The others are a
\* reply or a backlog reason; no_context without usage was not paid for either.
Free == {"transport", "refused", "http", "upstream_4xx", "not_json"}
Again == {"cut_off", "loop", "no_context"}
Counted(n) == IF n < 2 THEN n + 1 ELSE n

\* _process_fact and _llm_process: one solo try.
SoloCall(a, paid, ok) ==
    /\ Doing("call")
    /\ LET t == Head(todo)
           r == t.r
       IN  /\ node' = IF t.arg = "pick" THEN Picked({r}, ok) ELSE node
           /\ charged' = IF r \in Long /\ paid THEN [charged EXCEPT ![r] = Counted(@)] ELSE charged
           /\ IF r \notin Long
              THEN a = "complete" /\ ~paid /\ Goes(<<Task("result", r, TRUE)>>)
                   /\ UNCHANGED <<backlog, soloOnly, withheld, dropped>>
              ELSE \/ /\ a \in Free /\ ~paid /\ Goes(<<>>)
                      /\ UNCHANGED <<backlog, soloOnly, withheld, dropped>>
                   \/ /\ a \in LlmReasons /\ (a # "no_context" => paid)
                      /\ Goes(<<Task("withhold", r, [reason |-> a, paid |-> paid])>>)
                      /\ UNCHANGED <<backlog, soloOnly, withheld, dropped>>
                   \/ /\ a \in {"complete", "blank"} /\ paid
                      /\ Goes(<<Task("result", r, a = "complete")>>)
                      /\ UNCHANGED <<backlog, soloOnly, withheld, dropped>>
                   \/ a = "lock" /\ AbortsCycle({r})
    /\ UNCHANGED <<row, gw, cutShort>>

\* The yield between solo records: the ones not reached are passed over.
YieldCheck(queuing, ok) ==
    /\ Doing("yield")
    /\ IF queuing
       THEN LET rest == {todo[i].r : i \in DOMAIN todo}
            IN  /\ node' = [r \in Records |->
                    IF r \in rest /\ ok THEN [node[r] EXCEPT !.passed = @ + 1] ELSE node[r]]
                /\ todo' = <<>> /\ pc' = "idle"
       ELSE /\ todo' = <<[Head(todo) EXCEPT !.op = "call"]>> \o Tail(todo)
            /\ UNCHANGED <<node, pc>>
    /\ UNCHANGED <<row, backlog, gw, soloOnly, withheld, history>>

\* _llm_process_batch and the branches of run_cycle on _batch_action.  A cut-off,
\* a loop or no context sends each fact to one solo try; another reason is a row
\* for each.  A complete reply has a usable line for the facts of good, an
\* unusable one for those of bad, and none for the others.
BatchCall(a, paid, good, bad, ok) ==
    /\ Doing("batch")
    /\ LET S     == Head(todo).arg
           sent  == S \cap Long
           short == Tasks("result", S \ Long, TRUE)
           again(T) == Tasks("call", T, "again")
       IN  /\ node' = Picked(S, ok)
           /\ charged' = [r \in Records |->
                IF paid /\ r \in (IF a = "complete" THEN good \cup bad ELSE IF a \in Again THEN {} ELSE sent)
                THEN Counted(charged[r]) ELSE charged[r]]
           /\ IF a = "lock" THEN sent # {} /\ good = {} /\ bad = {} /\ AbortsCycle(sent)
              ELSE /\ UNCHANGED <<withheld, backlog, dropped>>
                   /\ \/ /\ (sent = {}) = (a = "none") /\ a = "none" /\ ~paid
                         /\ good = {} /\ bad = {} /\ Goes(short) /\ UNCHANGED soloOnly
                      \/ /\ sent # {} /\ a \in Free /\ ~paid /\ good = {} /\ bad = {}
                         /\ soloOnly' = IF a = "upstream_4xx" /\ Cardinality(sent) > 1
                                        THEN soloOnly \cup sent ELSE soloOnly
                         /\ Goes(short)
                      \/ /\ sent # {} /\ a \in Again /\ (a # "no_context" => paid)
                         /\ good = {} /\ bad = {}
                         /\ soloOnly' = soloOnly \cup sent
                         /\ Goes(again(sent) \o short)
                      \/ /\ sent # {} /\ a \in LlmReasons \ Again /\ paid
                         /\ good = {} /\ bad = {}
                         /\ Goes(Tasks("withhold", sent, [reason |-> a, paid |-> TRUE]) \o short)
                         /\ UNCHANGED soloOnly
                      \/ /\ sent # {} /\ a = "complete" /\ paid /\ good \cup bad \subseteq sent /\ good \cap bad = {}
                         /\ soloOnly' = soloOnly \cup (sent \ (good \cup bad))
                         /\ Goes(again(sent \ (good \cup bad)) \o Tasks("result", good, TRUE)
                                 \o Tasks("result", bad, FALSE) \o short)
    /\ UNCHANGED <<row, gw, cutShort>>

\* _apply_fact_result up to the write of the node, which may fail.
ApplyResult(written) ==
    /\ Doing("result")
    /\ LET r == Head(todo).r
       IN  IF ~Head(todo).arg
           THEN /\ written /\ Goes(<<Task("withhold", r, [reason |-> "unparseable", paid |-> TRUE])>>)
                /\ UNCHANGED node
           ELSE IF ~written
           THEN /\ Goes(<<Task("withhold", r, [reason |-> "write_failed", paid |-> TRUE])>>)
                /\ UNCHANGED node
           ELSE /\ node' = [node EXCEPT ![r].processed = TRUE]
                /\ Goes(<<Task("mark", r, "none")>>)
    /\ UNCHANGED <<row, backlog, gw, soloOnly, withheld, history>>

\* The rest of _apply_fact_result: the check that the node took the text and the
\* outbox mark.  If either fails the node's mark is taken back, which may fail.
MarkRow(marked, reverted) ==
    /\ Doing("mark")
    /\ LET r == Head(todo).r
       IN  IF marked
           THEN /\ row' = [row EXCEPT ![r] = IF @ = "applied" THEN "rem_reviewed" ELSE @]
                /\ ~reverted /\ UNCHANGED node /\ Goes(<<Task("clear", r, "none")>>)
           ELSE /\ node' = IF reverted /\ ~node[r].invalid THEN [node EXCEPT ![r].processed = FALSE] ELSE node
                /\ UNCHANGED row
                /\ Goes(<<Task("withhold", r, [reason |-> "write_failed", paid |-> TRUE])>>)
    /\ UNCHANGED <<backlog, gw, soloOnly, withheld, history>>

\* _clear_backlog: a delete that fails withholds the record.
ClearBacklog(deleted) ==
    /\ Doing("clear")
    /\ LET r == Head(todo).r
       IN  IF deleted THEN backlog' = [backlog EXCEPT ![r] = NoRow] /\ UNCHANGED withheld
           ELSE withheld' = withheld \cup {r} /\ UNCHANGED backlog
    /\ Goes(<<>>)
    /\ UNCHANGED <<node, row, gw, soloOnly, history>>

\* _write_backlog: a write that fails withholds a record that was paid for.
NotWithheld(t) == withheld
WithheldIfUnwritten(t) == IF t.arg.paid THEN withheld \cup {t.r} ELSE withheld
WriteBacklog(written) ==
    /\ Doing("withhold")
    /\ LET t == Head(todo)
       IN  IF written
           THEN backlog' = [backlog EXCEPT ![t.r] = [reason |-> t.arg.reason, id |-> gw]] /\ UNCHANGED withheld
           ELSE withheld' = WithheldIfUnwritten(t) /\ UNCHANGED backlog
    /\ Goes(<<>>)
    /\ UNCHANGED <<node, row, gw, soloOnly, history>>

\* The daemon dies with its memory; the supervisor spawns it with the identity
\* of the running gateway.
Dies ==
    /\ cutShort' = cutShort \cup
        {r \in Records : node[r].processed /\ row[r] = "applied" /\ backlog[r] = NoRow}
    /\ pc' = "down" /\ todo' = <<>> /\ soloOnly' = {} /\ withheld' = {}
    /\ charged' = [r \in Records |-> 0] /\ dropped' = {}

DaemonDies ==
    /\ pc # "down" /\ Dies
    /\ UNCHANGED storeVars

Spawn ==
    /\ pc = "down" /\ pc' = "idle"
    /\ UNCHANGED <<storeVars, soloOnly, withheld, todo, history>>

GatewayRestarts(p) ==
    /\ gw.boot < MaxBoot /\ gw' = [pool |-> p, boot |-> gw.boot + 1] /\ Dies
    /\ UNCHANGED <<node, row, backlog>>

\* The gateway's outbox worker and its supersede handler.
RowApplied(r) ==
    /\ row[r] = "pending" /\ row' = [row EXCEPT ![r] = "applied"]
    /\ UNCHANGED <<node, backlog, gw, daemonVars, history>>

Superseded(r) ==
    /\ row[r] # "pending" /\ ~node[r].superseded
    /\ node' = [node EXCEPT ![r].superseded = TRUE]
    /\ UNCHANGED <<row, backlog, gw, daemonVars, history>>

Next ==
    \/ \E yields, retired \in BOOLEAN, fetched \in SUBSET Records : Begin(yields, retired, fetched)
    \/ \E a \in Free \cup LlmReasons \cup {"complete", "blank", "lock"}, paid, ok \in BOOLEAN : SoloCall(a, paid, ok)
    \/ \E queuing, ok \in BOOLEAN : YieldCheck(queuing, ok)
    \/ \E a \in Free \cup LlmReasons \cup {"none", "complete", "lock"}, paid, ok \in BOOLEAN,
          good, bad \in SUBSET (Facts \cap Long) : BatchCall(a, paid, good, bad, ok)
    \/ \E written \in BOOLEAN : ApplyResult(written)
    \/ \E marked, reverted \in BOOLEAN : MarkRow(marked, reverted)
    \/ \E deleted \in BOOLEAN : ClearBacklog(deleted)
    \/ \E written \in BOOLEAN : WriteBacklog(written)
    \/ DaemonDies \/ Spawn
    \/ \E p \in Pools : GatewayRestarts(p)
    \/ \E r \in Records : RowApplied(r) \/ Superseded(r)

Spec == Init /\ [][Next]_vars

-----------------------------------------------------------------------------
\* "Facts batch unless this process already paid for them once" (run_cycle): one
\* process does not pay for a record again after a reply that was to settle it,
\* whatever fails after that reply, unless an aborted cycle threw the result away.
PaidOnceUnlessDropped == \A r \in Records \ dropped : charged[r] <= 1

\* "Item keys that must not be sent" (llm_backlog): a record of the cycle that is
\* still to be asked for is not withheld, and if it has a row the pool has changed
\* since (the boot, for a row that is no fault of the model; the largest context,
\* for one that fitted none), whatever the cycle has written since it read the rows.
BlockedIsNotSent ==
    \A i \in DOMAIN todo :
        LET asked == IF todo[i].op = "batch" THEN todo[i].arg \cap Long
                     ELSE IF todo[i].op \in {"call", "yield"} THEN {todo[i].r} \cap Long ELSE {}
        IN  \A r \in asked :
                /\ r \notin withheld
                /\ backlog[r] # NoRow =>
                    LET b == backlog[r]
                    IN  IF b.reason \in {"connection_lost", "write_failed"} THEN gw.boot # b.id.boot
                        ELSE gw.pool # b.id.pool /\ (b.reason = "no_context" => Ctx[gw.pool] > Ctx[b.id.pool])

\* "A mismatch left marked processed would vanish from both worklists": a record
\* that the graph says is done and whose outbox row is not reviewed is being
\* worked on, waits in the backlog or in memory, or was cut short by a death of
\* the daemon.
NothingVanishes ==
    \A r \in Records : node[r].processed /\ ~node[r].invalid /\ row[r] = "applied" =>
        \/ backlog[r] # NoRow \/ r \in withheld \cup cutShort
        \/ \E i \in DOMAIN todo : todo[i].r = r

\* What the backlog and the graph say of a record is acted upon: a blocked one is not
\* sent, and one that is done in the graph only is not forgotten.
BacklogIsHeeded == BlockedIsNotSent /\ NothingVanishes

-----------------------------------------------------------------------------
(* Why they hold: RemInv is inductive.                                      *)

\* The records of a task, and whether the task asks the LLM for them.
Of(t) == IF t.op = "batch" THEN t.arg ELSE {t.r}
Asks(t) == t.op \in {"batch", "call", "yield"}

Typed(t) ==
    /\ t.op \in {"batch", "call", "yield", "result", "mark", "clear", "withhold"}
    /\ Of(t) \subseteq IF t.op = "batch" THEN Facts ELSE Records
    /\ t.op = "batch" => t.r = NoRow
    /\ t.op = "result" => t.arg \in BOOLEAN
    /\ t.op = "withhold" => t.arg.reason \in Reasons /\ t.arg.paid \in BOOLEAN

\* What a process has to show for a reply it paid for: the record is not fetched again.
Settled(r) ==
    r \in withheld \cup Blocked \/ (node[r].processed /\ r \notin EligibleWriteFailed)

\* A record that is still to be asked for may be asked for.
Askable(r) ==
    /\ ~node[r].processed /\ r \notin withheld \cup Blocked
    /\ charged[r] = 0 \/ r \in dropped

\* What the tasks of a record rely on, from its fetch to the writes of its end.
Stands(t) ==
    /\ Typed(t)
    /\ \A r \in Of(t) : row[r] # "pending"
    /\ Asks(t) => \A r \in Of(t) : Askable(r)
    /\ t.op = "result" => ~node[t.r].processed
    /\ t.op \in {"mark", "clear"} => node[t.r].processed
    /\ t.op = "clear" => row[t.r] = "rem_reviewed"
    /\ t.op = "withhold" /\ ~t.arg.paid => ~node[t.r].processed

\* The writes of a record go before the other calls, the tries that yield last, and
\* no record has two tasks.
Rank(t) == CASE t.op \in {"mark", "clear", "withhold"} -> 0
             [] t.op \in {"batch", "call", "result"} -> 1
             [] OTHER -> 2
Orderly(q) ==
    \A i, j \in DOMAIN q : i < j => Rank(q[i]) <= Rank(q[j]) /\ Of(q[i]) \cap Of(q[j]) = {}

\* The tasks that end with the record settled.
Settles(t) == t.op \in {"result", "mark", "clear"} \/ (t.op = "withhold" /\ t.arg.paid)

QueueStands ==
    /\ pc = "cycle" <=> todo # <<>>
    /\ Orderly(todo) /\ \A i \in DOMAIN todo : Stands(todo[i])

\* A reply paid for is being stored, or settled its record.
PaidIsSettled ==
    \A r \in Records \ dropped : charged[r] > 0 =>
        /\ charged[r] = 1
        /\ Settled(r) \/ \E i \in DOMAIN todo : todo[i].r = r /\ Settles(todo[i])

MarkedWasApplied == \A r \in Records : node[r].processed => row[r] # "pending"

RemInv == TypeOK /\ QueueStands /\ PaidIsSettled /\ MarkedWasApplied /\ NothingVanishes

=============================================================================
