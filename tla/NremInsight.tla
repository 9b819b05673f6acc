------------------------------ MODULE NremInsight ------------------------------
(***************************************************************************)
(* The judgement side of the NREM daemon (consolidation_loop.py and         *)
(* insight_gate.py): decisions and retrospectives that hang together in the *)
(* graph are folded into one insight by one paid LLM call.  The daemon      *)
(* retires insights whose ground was reversed, reconciles what a crash left *)
(* between the stores, folds again the insights with open retrospectives,   *)
(* then folds the components that changed.  Judgements are saved, applied,  *)
(* reviewed and reversed at any moment, above all during the call.          *)
(***************************************************************************)
EXTENDS Naturals, Sequences, FiniteSets

CONSTANTS
    Decisions, Retros,  \* the judgements
    Target,             \* the decision a retrospective judges
    Near,               \* pairs of judgements joined by a shared ground
    Groups,             \* gating (project, section) groups, of one project
    Seeds,              \* the judgements next to a group's facts
    MaxSaves,           \* bound: ledger rows written
    MaxBoot,            \* bound: gateway restarts
    None

Judgements == Decisions \cup Retros

ASSUME JudgementsAssumption ==
    /\ Target \in [Retros -> Decisions]
    /\ Near \subseteq Judgements \X Judgements
    /\ Seeds \in [Groups -> SUBSET Judgements]

VARIABLES
    doc,        \* Postgres, judgement: "absent", "standing", "superseded", "reversing"
    node,       \* Neo4j, judgement: [there, superseded, rem, consolidated]
    outbox,     \* ledger rows: [id, of, status]
    saves,      \* rows written so far
    insights,   \* community_summaries of kind insight: [of, state, read, told]
    refold,     \* refold_ledger, kind insight: [of, from, trigger, older, status]
    backlog,    \* llm_backlog, kind fold: [key, boot]
    boot,       \* the gateway's boot id, in the daemon's environment
    withheld,   \* _withheld_folds, lost with the process
    burned,     \* history: folds this process paid for in vain
    daemon      \* where the daemon is and what it holds

stores == <<doc, node, outbox, saves, insights, refold>>
vars == <<doc, node, outbox, saves, insights, refold, backlog, boot, withheld, burned, daemon>>

Ids == 1 .. Len(insights)
Active == {i \in Ids : insights[i].state = "active"}
InLedger == {"applied", "rem_reviewed"}
Idle == [pc |-> "idle", ret |-> None, todo |-> {}, blocked |-> {}, unready |-> {},
         attempted |-> {}, folded |-> {}, cur |-> None]
At(pc) == daemon.pc = pc
Go(pc) == daemon' = [daemon EXCEPT !.pc = pc]

Init ==
    /\ doc = [j \in Judgements |-> IF j \in Decisions THEN "standing" ELSE "absent"]
    /\ node = [j \in Judgements |-> [there |-> j \in Decisions, superseded |-> FALSE,
                                     rem |-> j \in Decisions, consolidated |-> FALSE]]
    /\ outbox = {} /\ saves = 0
    /\ insights = <<>>
    /\ refold = {} /\ backlog = {} /\ boot = 0
    /\ withheld = {} /\ burned = {}
    /\ daemon = Idle

-------------------------------------------------------------------------------
(* What the gateway and REM do meanwhile. *)

\* A judgement is saved, or saved again; a verdict may reverse its decision.
Save(j) ==
    /\ saves < MaxSaves
    /\ saves' = saves + 1
    /\ outbox' = outbox \cup {[id |-> saves + 1, of |-> j, status |-> "pending"]}
    /\ \/ doc' = [doc EXCEPT ![j] = IF @ = "absent" THEN "standing" ELSE @]
       \/ /\ j \in Retros /\ doc[j] = "absent" /\ doc[Target[j]] = "standing"
          /\ doc' = [doc EXCEPT ![j] = "reversing", ![Target[j]] = "superseded"]
    /\ UNCHANGED <<node, insights, refold, backlog, boot, withheld, burned, daemon>>

\* The outbox worker applies the row: the node, and a reversal's mark.
Apply(r) ==
    /\ r.status = "pending"
    /\ outbox' = (outbox \ {r}) \cup {[r EXCEPT !.status = "applied"]}
    /\ node' = [j \in Judgements |->
         CASE j = r.of -> [node[j] EXCEPT !.there = TRUE]
           [] r.of \in Retros /\ doc[r.of] = "reversing" /\ j = Target[r.of]
                -> [node[j] EXCEPT !.superseded = TRUE]
           [] OTHER -> node[j]]
    /\ UNCHANGED <<doc, saves, insights, refold, backlog, boot, withheld, burned, daemon>>

Review(j) ==
    /\ node[j].there /\ ~node[j].rem /\ ~node[j].superseded
    /\ node' = [node EXCEPT ![j].rem = TRUE]
    /\ outbox' = {IF r.of = j /\ r.status = "applied"
                    THEN [r EXCEPT !.status = "rem_reviewed"] ELSE r : r \in outbox}
    /\ UNCHANGED <<doc, saves, insights, refold, backlog, boot, withheld, burned, daemon>>

-------------------------------------------------------------------------------
(* insight_gate: what one group reaches, and whether it may fold. *)

Walkable(j) == node[j].there /\ ~(j \in Decisions /\ node[j].superseded)

Linked(i, j) ==
    \/ <<i, j>> \in Near \/ <<j, i>> \in Near
    \/ i \in Retros /\ Target[i] = j
    \/ j \in Retros /\ Target[j] = i

\* What the walk joins to a judgement: the least set that holds it and every
\* walkable judgement linked to a member.
Component(j) ==
    LET closed(R) == \A i \in R, k \in Judgements : Walkable(k) /\ Linked(i, k) => k \in R
    IN {k \in Judgements : \A R \in SUBSET Judgements : j \in R /\ closed(R) => k \in R}

Components(g) == {Component(j) : j \in {s \in Seeds[g] : Walkable(s)}}

\* G2 and G3: a retrospective and a judgement no insight holds yet.
PassesInsightGate(reached) ==
    /\ reached \cap Retros # {}
    /\ \E j \in reached : ~node[j].consolidated

\* match_existing_insight: nothing to fold for a set that is held already.
Held(S) == \E i \in Active : S \subseteq insights[i].of

\* The reversals a fold has to tell: of the triggers of its open refold rows.
TriggersOfItself(S) == {d \in S : doc[d] = "superseded"}    \* mutant
Triggers(S) == {r.trigger : r \in {x \in refold : x.status = "open" /\ x.of \in S}}
Reversals(S) ==
    {r \in Retros : doc[r] = "reversing" /\ Target[r] \in Triggers(S)}

Carried(S) == S \cup Reversals(S)
Unprocessed == {j \in Judgements : ~node[j].there \/ (~node[j].superseded /\ ~node[j].rem)}

Blocked == {b.key : b \in {x \in backlog : x.boot = boot}}
DeadLettered(S) == S \in daemon.blocked \/ S \in withheld

-------------------------------------------------------------------------------
(* run_lineage_invalidation_pass. *)

Invalidated == {i \in Active : \E j \in insights[i].of : doc[j] = "superseded"}

RefoldRows(i) ==
    {[of |-> j, from |-> i, trigger |-> t, status |-> "open", older |-> Active \ Invalidated] :
        j \in {k \in insights[i].of : doc[k] # "superseded"},
        t \in {k \in insights[i].of : doc[k] = "superseded"}}

LineagePass ==
    /\ At("idle")
    /\ insights' = [i \in Ids |-> IF i \in Invalidated
                                    THEN [insights[i] EXCEPT !.state = "lineage"]
                                    ELSE insights[i]]
    /\ refold' = refold \cup UNION {RefoldRows(i) : i \in Invalidated}
    /\ daemon' = [Idle EXCEPT !.pc = "clear", !.todo = Invalidated]
    /\ UNCHANGED <<doc, node, outbox, saves, backlog, boot, withheld, burned>>

\* Each retired insight's judgements read as fresh again; a failure is logged.
Clear ==
    /\ At("clear")
    /\ \E i \in daemon.todo :
         /\ daemon' = [daemon EXCEPT !.todo = @ \ {i}]
         /\ \/ node' = [j \in Judgements |-> IF j \in insights[i].of
                                               THEN [node[j] EXCEPT !.consolidated = FALSE]
                                               ELSE node[j]]
            \/ UNCHANGED node
    /\ UNCHANGED <<doc, outbox, saves, insights, refold, backlog, boot, withheld, burned>>

-------------------------------------------------------------------------------
(* run_insight_cycle. *)

ConsolidatedRows(S) == {r \in outbox : r.of \in S /\ r.status = "consolidated"}
Stuck == {i \in Active : ConsolidatedRows(insights[i].of) # {}}

BeginCycle ==
    /\ At("clear") /\ daemon.todo = {}
    /\ daemon' = [Idle EXCEPT !.pc = "reconcile", !.todo = Stuck]
    /\ UNCHANGED <<stores, backlog, boot, withheld, burned>>

Consolidate(S) ==
    [j \in Judgements |-> IF j \in S /\ node[j].there
                            THEN [node[j] EXCEPT !.consolidated = TRUE] ELSE node[j]]

Reconcile ==
    /\ At("reconcile")
    /\ \E i \in daemon.todo :
         /\ node' = Consolidate(insights[i].of)
         /\ outbox' = outbox \ ConsolidatedRows(insights[i].of)
         /\ daemon' = [daemon EXCEPT !.todo = @ \ {i}]
    /\ UNCHANGED <<doc, saves, insights, refold, backlog, boot, withheld, burned>>

\* The insights that hold a retrospective with an open row are folded again.
Refolds ==
    {insights[i].of : i \in {k \in Active : \E r \in outbox :
        /\ r.of \in Retros \cap insights[k].of
        /\ r.status \in InLedger}}

PlanRefolds ==
    /\ At("reconcile") /\ daemon.todo = {}
    /\ daemon' = [daemon EXCEPT !.pc = "fold", !.ret = "walk", !.todo = Refolds,
                                !.blocked = Blocked, !.unready = Unprocessed]
    /\ UNCHANGED <<stores, backlog, boot, withheld, burned>>

\* The groups are walked one after the other, on a graph that goes on changing.
BeginWalk ==
    /\ At("fold") /\ daemon.todo = {} /\ daemon.ret = "walk"
    /\ daemon' = [daemon EXCEPT !.pc = "walk", !.ret = Groups, !.todo = {}]
    /\ UNCHANGED <<stores, backlog, boot, withheld, burned>>

Walk ==
    /\ At("walk")
    /\ \E g \in daemon.ret :
         LET comps == Components(g)
         IN daemon' = [daemon EXCEPT
              !.ret = @ \ {g},
              !.todo = IF PassesInsightGate(UNION comps)
                         THEN @ \cup {S \in comps : S \cap Decisions # {}} ELSE @]
    /\ UNCHANGED <<stores, backlog, boot, withheld, burned>>

\* Held sets only get a reference; singletons and withheld sets are not folded.
PlanFresh ==
    /\ At("walk") /\ daemon.ret = {}
    /\ daemon' = [daemon EXCEPT
         !.pc = "fold", !.ret = "end", !.unready = Unprocessed,
         !.todo = {S \in @ : ~Held(S) /\ ~DeadLettered(S) /\ Cardinality(S) >= 2}]
    /\ UNCHANGED <<stores, backlog, boot, withheld, burned>>

-------------------------------------------------------------------------------
(* _fold_insight. *)

\* A set is tried once a pass, and a component that shares a judgement with one
\* that was folded waits for the next pass.
TriedOnly(S) == S \in daemon.attempted                      \* mutant
Tried(S) ==
    \/ S \in daemon.attempted
    \/ daemon.ret = "end" /\ S \cap daemon.folded # {}

MayFold(S) == ~DeadLettered(S) /\ ~Tried(S) /\ Carried(S) \cap daemon.unready = {}

SkipFold ==
    /\ At("fold")
    /\ \E S \in daemon.todo : ~MayFold(S) /\ daemon' = [daemon EXCEPT !.todo = @ \ {S}]
    /\ UNCHANGED <<stores, backlog, boot, withheld, burned>>

\* The rows the fold consumes are read, by id, before the call.
OpenRows(S) == {r.id : r \in {x \in outbox : x.of \in S /\ x.status \in InLedger}}

BeginFold ==
    /\ At("fold")
    /\ \E S \in daemon.todo :
         /\ MayFold(S)
         /\ daemon' = [daemon EXCEPT !.pc = "call", !.todo = @ \ {S}, !.attempted = @ \cup {S},
              !.cur = [of |-> S, rows |-> OpenRows(S), told |-> Reversals(S), id |-> None]]
    /\ UNCHANGED <<stores, backlog, boot, withheld, burned>>

\* write_insight_summary and supersede_covered_summaries, one transaction.
ConsumedByRecord(r) == r.of \in daemon.cur.of               \* mutant
Consumed(r) == r.id \in daemon.cur.rows

Commit ==
    /\ At("call")
    /\ LET S == daemon.cur.of
           covered == {i \in Active : insights[i].of \subseteq S}
       IN /\ insights' = Append([i \in Ids |-> IF i \in covered
                                   THEN [insights[i] EXCEPT !.state = "coverage"]
                                   ELSE insights[i]],
                  [of |-> S, state |-> "active", read |-> daemon.cur.rows,
                   told |-> daemon.cur.told])
          /\ outbox' = {IF Consumed(r) /\ r.status \in InLedger
                          THEN [r EXCEPT !.status = "consolidated"] ELSE r : r \in outbox}
          /\ daemon' = [daemon EXCEPT !.pc = "sync", !.folded = @ \cup S]
    /\ UNCHANGED <<doc, node, saves, refold, backlog, boot, withheld, burned>>

\* The graph is marked and the rows that were read are closed; a failure leaves
\* both to the reconciliation.  Either way the backlog row goes, or stays when
\* its delete fails.
SyncOk ==
    /\ At("sync")
    /\ node' = Consolidate(daemon.cur.of)
    /\ outbox' = {r \in outbox : ~(r.id \in daemon.cur.rows /\ r.status = "consolidated")}
    /\ \/ backlog' = {b \in backlog : b.key # daemon.cur.of}
       \/ UNCHANGED backlog
    /\ daemon' = [daemon EXCEPT !.pc = "fold", !.cur = None]
    /\ UNCHANGED <<doc, saves, insights, refold, boot, withheld, burned>>

SyncFails ==
    /\ At("sync")
    /\ backlog' = {b \in backlog : b.key # daemon.cur.of}
    /\ daemon' = [daemon EXCEPT !.pc = "fold", !.cur = None]
    /\ UNCHANGED <<stores, boot, withheld, burned>>

\* The call fails.  What names a reason gets a backlog row, which may itself
\* fail to be written; a reply that was paid for is then withheld.
Row(S) == [key |-> S, boot |-> boot]
NotWithheld(S) == withheld                                  \* mutant
WithheldIfPaid(S) == withheld \cup {S}

PaidInVain ==
    /\ At("call")
    /\ LET S == daemon.cur.of
       IN /\ burned' = burned \cup {S}
          /\ \/ backlog' = {b \in backlog : b.key # S} \cup {Row(S)} /\ UNCHANGED withheld
             \/ UNCHANGED backlog /\ withheld' = WithheldIfPaid(S)
    /\ daemon' = [daemon EXCEPT !.pc = "fold", !.cur = None]
    /\ UNCHANGED <<stores, boot>>

Refused ==
    /\ At("call")
    /\ \/ backlog' = {b \in backlog : b.key # daemon.cur.of} \cup {Row(daemon.cur.of)}
       \/ UNCHANGED backlog
    /\ daemon' = [daemon EXCEPT !.pc = "fold", !.cur = None]
    /\ UNCHANGED <<stores, boot, withheld, burned>>

\* The reply came, the shared backup lock did not: the cycle is over.
LockLost ==
    /\ At("call")
    /\ burned' = burned \cup {daemon.cur.of}
    /\ withheld' = WithheldIfPaid(daemon.cur.of)
    /\ daemon' = Idle
    /\ UNCHANGED <<stores, backlog, boot>>

\* The refold rows of the judgements an insight was written over since.
Refolded(r) == \E i \in Active \ r.older : r.of \in insights[i].of

EndCycle ==
    /\ At("fold") /\ daemon.todo = {} /\ daemon.ret = "end"
    /\ refold' = {IF r.status = "open" /\ Refolded(r)
                    THEN [r EXCEPT !.status = "refolded"]
                  ELSE IF r.status = "open" /\ doc[r.of] = "superseded"
                    THEN [r EXCEPT !.status = "dropped"] ELSE r : r \in refold}
    /\ daemon' = Idle
    /\ UNCHANGED <<doc, node, outbox, saves, insights, backlog, boot, withheld, burned>>

\* A statement fails and ends the pass; the process keeps its memory.
Abort ==
    /\ daemon.pc \in {"clear", "reconcile", "walk", "fold"}
    /\ daemon' = Idle
    /\ UNCHANGED <<stores, backlog, boot, withheld, burned>>

\* The process dies, alone or with the gateway, whose boot id then changes.
Die ==
    /\ boot' \in {boot, boot + 1} \cap (0 .. MaxBoot)
    /\ withheld' = {} /\ burned' = {}
    /\ daemon' = Idle
    /\ UNCHANGED <<stores, backlog>>

Next ==
    \/ \E j \in Judgements : Save(j) \/ Review(j)
    \/ \E r \in outbox : Apply(r)
    \/ LineagePass \/ Clear \/ BeginCycle \/ Reconcile \/ PlanRefolds
    \/ BeginWalk \/ Walk \/ PlanFresh \/ SkipFold \/ BeginFold
    \/ Commit \/ SyncOk \/ SyncFails \/ PaidInVain \/ Refused \/ LockLost
    \/ EndCycle \/ Abort \/ Die

Spec == Init /\ [][Next]_vars

-------------------------------------------------------------------------------
\* A ledger row only leaves after a fold that read it was committed: a verdict
\* that arrives during the call stays open for the next pass.
UnreadRowStays ==
    [][\A r \in outbox : (\E s \in outbox' : s.id = r.id)
        \/ \E i \in DOMAIN insights' : r.id \in insights'[i].read]_vars

\* No active insight stands inside another one.
NoneInsideAnother ==
    \A i, k \in Active : insights[i].of \subseteq insights[k].of => i = k

\* A fold that was paid for in vain is not sent again by the same process.
PaidFoldOnce == At("call") => daemon.cur.of \notin burned

\* A refold row is closed as refolded by an insight that tells the reversal
\* that opened it.
ReversalIsTold ==
    [][\A r \in refold :
        (r.status = "open" /\ [r EXCEPT !.status = "refolded"] \in refold'
                          /\ r \notin refold') =>
            \E i \in Active \ r.older :
               /\ r.of \in insights[i].of
               /\ \E v \in insights[i].told : Target[v] = r.trigger]_vars

===============================================================================
