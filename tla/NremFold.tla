------------------------------- MODULE NremFold -------------------------------
(***************************************************************************)
(* The fact side of the NREM daemon (consolidation_loop.py): the facts of   *)
(* one (project, section) group that judgements rest on are indexed by one  *)
(* active thematic summary.  The daemon reads the group off the graph,      *)
(* writes the summary and its bookkeeping in one Postgres transaction, then *)
(* marks the graph and closes the ledger rows, each on its own; it may die  *)
(* between any two steps, and facts are saved, reviewed, grounded and       *)
(* superseded meanwhile.  Insights only appear as the readers of summaries. *)
(*                                                                         *)
(* A summary's text is what it was rendered from: its members and the       *)
(* version of each one's metadata.                                          *)
(***************************************************************************)
EXTENDS Naturals, Sequences, SequencesExt, FiniteSetsExt

CONSTANTS
    Facts,              \* technical_docs of type fact
    Sections,           \* registered (project, section) pairs
    SectionsOf,         \* a fact's DOMAIN_OF edges
    Insights,           \* active insight summaries
    Threads,            \* an insight's decisions, each the set of its grounds
    DENSITY_THRESHOLD,
    Ready,              \* facts reviewed and grounded to begin with
    Superseders,        \* facts a supersession may name as successor
    MaxSaves,           \* bound: saves of all facts
    MaxSuperseded,      \* bound: superseded facts
    None

ASSUME FoldAssumption ==
    /\ SectionsOf \in [Facts -> SUBSET Sections]
    /\ Threads \in [Insights -> SUBSET SUBSET Facts]
    /\ DENSITY_THRESHOLD \in Nat \ {0}
    /\ Superseders \subseteq Facts /\ None \notin Facts \cup Nat

VARIABLES
    doc,        \* Postgres, fact: [superseded, by, version]
    node,       \* Neo4j, fact: [superseded, rem, grounded]
    outbox,     \* ledger rows of facts: [fact, n, status]
    sums,       \* thematic community_summaries, in id order
    refold,     \* refold_ledger: [fact, sum, trigger, older, status]
    graph,      \* Neo4j, summaries: [nodes, edges, retired]
    cites,      \* an insight's summary_ids
    daemon      \* where the daemon is and what it holds

facts == <<doc, node>>
vars == <<doc, node, outbox, sums, refold, graph, cites, daemon>>

Ids == 1 .. Len(sums)
Members(s) == DOMAIN s.src
Active == {id \in Ids : sums[id].state = "active"}
ActiveOf(sec) == {id \in Active : sums[id].sec = sec}
Holding(f) == {id \in Active : f \in Members(sums[id])}
Open == {r \in refold : r.status = "open"}
RowsOf(F) == {r \in outbox : r.fact \in F}
InLedger == {"applied", "rem_reviewed"}
Idle == [pc |-> "idle", scan |-> {}, todo |-> {}, skip |-> {}, cur |-> None,
         again |-> {}]

Init ==
    /\ doc = [f \in Facts |-> [superseded |-> FALSE, by |-> None, version |-> 1]]
    /\ node = [f \in Facts |-> [superseded |-> FALSE, rem |-> f \in Ready,
                                 grounded |-> f \in Ready]]
    /\ outbox = {[fact |-> f, n |-> 1, status |->
                    IF f \in Ready THEN "rem_reviewed" ELSE "applied"] : f \in Facts}
    /\ sums = <<>>
    /\ refold = {}
    /\ graph = [nodes |-> {}, edges |-> {}, retired |-> {}]
    /\ cites = [i \in Insights |-> {}]
    /\ daemon = Idle

-------------------------------------------------------------------------------
(* What the gateway and REM do meanwhile. *)

\* A save of the same content: new metadata, a new ledger row already applied.
Resave(f) ==
    /\ FoldSet(LAMBDA g, n : doc[g].version + n, 0, Facts) < MaxSaves
    /\ doc' = [doc EXCEPT ![f].version = @ + 1]
    /\ outbox' = outbox \cup
         {[fact |-> f, n |-> doc[f].version + 1, status |-> "applied"]}
    /\ UNCHANGED <<node, sums, refold, graph, cites, daemon>>

\* REM reviews the node and advances the rows that are applied by then.
Review(f) ==
    /\ ~node[f].rem /\ ~node[f].superseded
    /\ node' = [node EXCEPT ![f].rem = TRUE]
    /\ outbox' = {IF r.fact = f /\ r.status = "applied"
                    THEN [r EXCEPT !.status = "rem_reviewed"] ELSE r : r \in outbox}
    /\ UNCHANGED <<doc, sums, refold, graph, cites, daemon>>

\* A judgement that rests on the fact reaches the graph.
Ground(f) ==
    /\ ~node[f].grounded
    /\ node' = [node EXCEPT ![f].grounded = TRUE]
    /\ UNCHANGED <<doc, outbox, sums, refold, graph, cites, daemon>>

\* Postgres retires a fact, with or without a successor; the graph follows.
SupersedeDoc(f, by) ==
    /\ ~doc[f].superseded
    /\ Cardinality({g \in Facts : doc[g].superseded}) < MaxSuperseded
    /\ by \in {None} \cup {g \in Superseders \ {f} : ~doc[g].superseded}
    /\ doc' = [doc EXCEPT ![f].superseded = TRUE, ![f].by = by]
    /\ UNCHANGED <<node, outbox, sums, refold, graph, cites, daemon>>

SupersedeNode(f) ==
    /\ doc[f].superseded /\ ~node[f].superseded
    /\ node' = [node EXCEPT ![f].superseded = TRUE]
    /\ UNCHANGED <<doc, outbox, sums, refold, graph, cites, daemon>>

\* An insight is written over active summaries.
WriteInsight(i) ==
    /\ cites[i] = {}
    /\ \E S \in SUBSET Active : S # {} /\ cites' = [cites EXCEPT ![i] = S]
    /\ UNCHANGED <<doc, node, outbox, sums, refold, graph, daemon>>

-------------------------------------------------------------------------------
(* The gate: grounded, reviewed, standing facts by registered section. *)

GroundedRows ==
    {p \in Facts \X Sections :
        /\ p[2] \in SectionsOf[p[1]]
        /\ node[p[1]].grounded /\ node[p[1]].rem /\ ~node[p[1]].superseded}

Scanned(scan) == {r[1] : r \in scan}
Group(scan, sec) == {f \in Facts : <<f, sec>> \in scan}
Gating(scan) == {sec \in Sections : Cardinality(Group(scan, sec)) >= DENSITY_THRESHOLD}

Rendered(F) == [f \in F |-> doc[f].version]

Current(sec, src) == \E id \in ActiveOf(sec) : sums[id].src = src

\* A fact and those that came after it by supersession, and the one of them that
\* still stands.
Line(f) ==
    {g \in Facts : \A S \in SUBSET Facts :
        f \in S /\ (\A h \in S : doc[h].by # None => doc[h].by \in S) => g \in S}

Standing(F) == {g \in Facts : ~doc[g].superseded /\ \E f \in F : g \in Line(f)}

-------------------------------------------------------------------------------
(* Summaries and the insights that cite them. *)

RefoldRows(id, triggers, written) ==
    {[fact |-> f, sum |-> id, trigger |-> t, status |-> "open",
      older |-> Active \ (written \cup {id})] :
        f \in Standing(Members(sums[id])), t \in triggers}

Support(S, i, ids) ==
    {t \in Threads[i] : t \cap UNION {Members(S[id]) : id \in ids} # {}}

SolidMatchSkipped(old, new) == TRUE      \* mutant: the successor always serves
SolidMatch(old, new) == old \subseteq new

\* One citation moved to another summary, when no thread loses its support.
Repointed(S, i, ids, old, new) ==
    LET moved == (ids \ {old}) \cup {new}
    IN IF old \in ids /\ SolidMatch(Support(S, i, ids), Support(S, i, moved))
         THEN moved ELSE ids

LinkedCites(S, old, new) == [i \in Insights |-> Repointed(S, i, cites[i], old, new)]

ChainEnd(id) ==
    LET end[n \in Ids] == IF sums[n].state = "active" \/ sums[n].by = None
                            THEN n ELSE end[sums[n].by]
    IN end[id]

\* An insight's citations after the first n summaries were looked at.
Rechecked(i) ==
    LET upTo[n \in 0 .. Len(sums)] ==
          IF n = 0 THEN cites[i]
          ELSE IF sums[n].state = "lineage" /\ ChainEnd(n) \in Active
                 THEN Repointed(sums, i, upTo[n - 1], n, ChainEnd(n))
                 ELSE upTo[n - 1]
    IN upTo[Len(sums)]

RecheckedCites == [i \in Insights |-> Rechecked(i)]

-------------------------------------------------------------------------------
(* The ledger sweep, ahead of its own fold. *)

Go(pc) == daemon' = [daemon EXCEPT !.pc = pc]

Covered(r) == r.status \in InLedger /\ Holding(r.fact) # {}

Unreconciled(O) ==
    {id \in Active : \E r \in O : r.status = "consolidated" /\ r.fact \in Members(sums[id])}

Backfill ==
    /\ daemon.pc = "idle"
    /\ outbox' = {IF Covered(r) THEN [r EXCEPT !.status = "consolidated"] ELSE r :
                    r \in outbox}
    /\ daemon' = [daemon EXCEPT !.pc = "reconcile", !.todo = Unreconciled(outbox')]
    /\ UNCHANGED <<facts, sums, refold, graph, cites>>

\* _mark_consolidated_in_graph, for the summary and what it retired.
Marked(id, old) ==
    LET known == old \cap graph.nodes
    IN [graph EXCEPT !.nodes = @ \cup {id},
                     !.edges = @ \cup {<<f, id>> : f \in Members(sums[id])},
                     !.retired = @ \cup known]

Reconcile ==
    /\ daemon.pc = "reconcile"
    /\ \E id \in daemon.todo :
         /\ graph' = Marked(id, {})
         /\ daemon' = [daemon EXCEPT !.pc = "closing", !.todo = @ \ {id}, !.cur = id]
    /\ UNCHANGED <<facts, outbox, sums, refold, cites>>

\* The rows of F that are consolidated go, and with them every row of a
\* superseded predecessor of a fact whose row went.
Closed(F) ==
    LET gone == {r \in RowsOf(F) : r.status = "consolidated"}
        older == {f \in Facts : /\ doc[f].by # None
                                /\ \E r \in gone : r.fact \in Line(doc[f].by)}
    IN outbox \ (gone \cup RowsOf(older))

CloseReconciled ==
    /\ daemon.pc = "closing"
    /\ outbox' = Closed(Members(sums[daemon.cur]))
    /\ daemon' = [daemon EXCEPT !.pc = "reconcile", !.cur = None]
    /\ UNCHANGED <<facts, sums, refold, graph, cites>>

ReconcileRetired ==
    /\ daemon.pc = "reconcile" /\ daemon.todo = {}
    /\ LET gone == (Ids \ Active) \cap graph.nodes
       IN graph' = [graph EXCEPT !.retired = @ \cup gone]
    /\ Go("recheck")
    /\ UNCHANGED <<facts, outbox, sums, refold, cites>>

Recheck ==
    /\ daemon.pc = "recheck"
    /\ cites' = RecheckedCites
    /\ Go("scan")
    /\ UNCHANGED <<facts, outbox, sums, refold, graph>>

-------------------------------------------------------------------------------
(* The fold: from the sweep, or on its own when a cycle is due. *)

Scan ==
    /\ daemon.pc \in {"idle", "scan"}
    /\ daemon' = IF GroundedRows = {} THEN Idle
                 ELSE [Idle EXCEPT !.pc = "plan", !.scan = GroundedRows]
    /\ UNCHANGED <<facts, outbox, sums, refold, graph, cites>>

\* The groups whose summary would change, with what each one loses.
WorkItem(scan, sec) ==
    LET F == Group(scan, sec)
        old == ActiveOf(sec)
    IN [sec |-> sec, src |-> Rendered(F), old |-> old,
        lost |-> {f \in (UNION {Members(sums[id]) : id \in old}) \ F : doc[f].superseded}]

Invalidated(skip) ==
    {id \in Active \ skip : \E f \in Members(sums[id]) : doc[f].superseded}

\* The groups are compared with their rows; then the rows of other groups that
\* hold a superseded fact are retired without a successor, in one transaction.
\* (A supersession between the two reads is one before or after both.)
Plan ==
    /\ daemon.pc = "plan"
    /\ LET gating == Gating(daemon.scan)
           items == {WorkItem(daemon.scan, sec) : sec \in gating}
           ids == Invalidated(UNION {ActiveOf(sec) : sec \in gating})
       IN /\ daemon' = [daemon EXCEPT
               !.pc = "mark_retired",
               !.todo = {w \in items : ~Current(w.sec, w.src)},
               !.skip = ids]
          /\ sums' = [id \in Ids |-> IF id \in ids
                                       THEN [sums[id] EXCEPT !.state = "lineage"]
                                       ELSE sums[id]]
          /\ refold' = refold \cup UNION
               {RefoldRows(id, {f \in Members(sums[id]) : doc[f].superseded}, ids) : id \in ids}
    /\ UNCHANGED <<facts, outbox, graph, cites>>

MarkRetired ==
    /\ daemon.pc = "mark_retired"
    /\ \/ graph' = [graph EXCEPT !.retired = @ \cup (daemon.skip \cap graph.nodes)]
       \/ UNCHANGED graph
    /\ daemon' = [daemon EXCEPT !.pc = "fold", !.skip = {}]
    /\ UNCHANGED <<facts, outbox, sums, refold, cites>>

\* _write_summary, one transaction: the row that lost a superseded member is
\* retired, its successor or the group's changed row is written, the newest
\* retired row of the group without a successor is linked, and every ledger
\* row of the members is consolidated.
Loose(sec) ==
    {id \in Ids : sums[id].sec = sec /\ sums[id].state = "lineage" /\ sums[id].by = None}

\* mutant: a row retired by itself is not linked
PredecessorIfLost(w) == IF w.lost # {} THEN w.old ELSE {}

Predecessor(w) ==
    IF w.lost # {} /\ w.old # {} THEN w.old
    ELSE IF w.old = {} /\ Loose(w.sec) # {} THEN {Max(Loose(w.sec))}
    ELSE {}

Inserted(w) == w.old = {} \/ w.lost # {}
Target(w) == IF Inserted(w) THEN Len(sums) + 1 ELSE CHOOSE id \in w.old : TRUE

Written(w) ==
    LET retiredFirst == [id \in Ids |-> IF w.lost # {} /\ id \in w.old
                                          THEN [sums[id] EXCEPT !.state = "lineage"]
                                          ELSE sums[id]]
        linked == [id \in Ids |-> IF id \in Predecessor(w)
                                    THEN [retiredFirst[id] EXCEPT !.by = Target(w)]
                                    ELSE retiredFirst[id]]
        owed == RowsOf(DOMAIN w.src) # {}
        new == [sec |-> w.sec, src |-> w.src, state |-> "active", by |-> None, owed |-> owed]
    IN IF Inserted(w) THEN Append(linked, new)
                      ELSE [linked EXCEPT ![Target(w)] = new]

Write(w) ==
    /\ sums' = Written(w)
    /\ refold' = {[r EXCEPT !.older = @ \ {Target(w)}] : r \in refold} \cup
         UNION {RefoldRows(id, w.lost, {Target(w)}) : id \in w.old}
    /\ cites' = IF Predecessor(w) = {} THEN cites
                ELSE LinkedCites(Written(w), Max(Predecessor(w)), Target(w))
    /\ outbox' = {IF r.fact \in DOMAIN w.src /\ r.status \in InLedger
                    THEN [r EXCEPT !.status = "consolidated"] ELSE r : r \in outbox}
    /\ daemon' = [daemon EXCEPT !.pc = "sync", !.todo = @ \ {w},
                                !.cur = Target(w), !.skip = Predecessor(w)]
    /\ UNCHANGED <<facts, graph>>

FoldOne ==
    /\ daemon.pc = "fold"
    /\ \E w \in daemon.todo : Write(w)

\* No vector, or the transaction fails: the members are queued again.
FoldFails ==
    /\ daemon.pc = "fold"
    /\ \E w \in daemon.todo :
         daemon' = [daemon EXCEPT !.todo = @ \ {w}, !.again = @ \cup DOMAIN w.src]
    /\ UNCHANGED <<facts, outbox, sums, refold, graph, cites>>

\* The summary is committed; the graph is marked, then the rows are closed.
Sync ==
    /\ daemon.pc = "sync"
    /\ graph' = Marked(daemon.cur, daemon.skip)
    /\ daemon' = [daemon EXCEPT !.pc = "close", !.skip = {}]
    /\ UNCHANGED <<facts, outbox, sums, refold, cites>>

\* mutant: the rows are closed all the same
SyncFailsButCloses ==
    /\ daemon.pc = "sync"
    /\ daemon' = [daemon EXCEPT !.pc = "close", !.skip = {}]
    /\ UNCHANGED <<facts, outbox, sums, refold, graph, cites>>

SyncFails ==
    /\ daemon.pc = "sync"
    /\ daemon' = [daemon EXCEPT !.pc = "fold", !.cur = None, !.skip = {}]
    /\ UNCHANGED <<facts, outbox, sums, refold, graph, cites>>

CloseFolded ==
    /\ daemon.pc = "close"
    /\ outbox' = Closed(Members(sums[daemon.cur]))
    /\ daemon' = [daemon EXCEPT !.pc = "fold", !.cur = None]
    /\ UNCHANGED <<facts, sums, refold, graph, cites>>

\* The end of a fold closes the refold rows: of a fact in no gating group, of a
\* fact outside the scan, of a fact an active summary was written over since,
\* and of a fact superseded again.
BelowDensity(scan) ==
    Scanned(scan) \ UNION {Group(scan, sec) : sec \in Gating(scan)}

OutOfScan(scan) == Facts \ Scanned(scan)

Refolded(r) == Holding(r.fact) \ r.older # {}

Settled(r) ==
    LET close(st) == [r EXCEPT !.status = st, !.older = {}]
    IN IF r.status # "open" THEN r
       ELSE IF r.fact \in BelowDensity(daemon.scan) THEN close("dropped")
       ELSE IF r.fact \in OutOfScan(daemon.scan) THEN close("dropped")
       ELSE IF Refolded(r) THEN close("refolded")
       ELSE IF doc[r.fact].superseded THEN close("dropped")
       ELSE r

Settle ==
    /\ daemon.pc = "fold" /\ daemon.todo = {}
    /\ refold' = {Settled(r) : r \in refold}
    /\ daemon' = [Idle EXCEPT !.pc = "settled", !.again = daemon.again]
    /\ UNCHANGED <<facts, outbox, sums, graph, cites>>

Rest ==
    /\ daemon.pc = "settled"
    /\ daemon' = Idle
    /\ UNCHANGED <<facts, outbox, sums, refold, graph, cites>>

\* A store fails under a statement that is not guarded, or the process dies.
Abort ==
    /\ daemon.pc # "idle"
    /\ daemon' = Idle
    /\ UNCHANGED <<facts, outbox, sums, refold, graph, cites>>

Next ==
    \/ \E f \in Facts : Resave(f) \/ Review(f) \/ Ground(f) \/ SupersedeNode(f)
    \/ \E f \in Facts, by \in Facts \cup {None} : SupersedeDoc(f, by)
    \/ \E i \in Insights : WriteInsight(i)
    \/ Backfill \/ Reconcile \/ CloseReconciled \/ ReconcileRetired \/ Recheck
    \/ Scan \/ Plan \/ MarkRetired
    \/ FoldOne \/ FoldFails \/ Sync \/ SyncFails \/ CloseFolded
    \/ Settle \/ Rest \/ Abort

Spec == Init /\ [][Next]_vars

-------------------------------------------------------------------------------
(* What the fold promises. *)

\* Every summary a group ever lost is the predecessor of exactly the one that
\* replaced it: at most one row of a group, its active one or the last retired
\* one, is without a successor.
ChainIsUnbroken ==
    \A sec \in Sections : Cardinality(ActiveOf(sec) \cup Loose(sec)) <= 1

\* Scans, plans, transactions, failures and deaths come to steps of Chronicle: the
\* summaries of a group are one line, whose past is never written again.
Told == [id \in Ids |-> [group |-> sums[id].sec, members |-> Members(sums[id]),
                         state |-> sums[id].state, next |-> sums[id].by]]
Gone == {f \in Facts : doc[f].superseded}

C == INSTANCE Chronicle WITH Groups <- Sections, gone <- Gone, told <- Told

ImplementsChronicle == C!Spec

\* A summary the graph does not show yet, and whose write found a ledger row of
\* a member, is still owed to the graph: a consolidated row keeps the next
\* sweep's reconciliation on it, and is there before the daemon marks it itself.
Missing(id) == \E f \in Members(sums[id]) : <<f, id>> \notin graph.edges
OwnedAlone(id) ==
    \A f \in Members(sums[id]) : SectionsOf[f] = {sums[id].sec} /\ ~doc[f].superseded

UnmarkedIsOwed ==
    \A id \in Active :
        (sums[id].owed /\ OwnedAlone(id) /\ Missing(id)) =>
            \E r \in RowsOf(Members(sums[id])) : r.status = "consolidated"

\* A fold that ran to its end leaves no refold row open but for what it queued
\* again, or for a fact that is in other groups than the row's summary: one of
\* their summaries may be older than the row and hold the fact as it is.
NoZombieRow ==
    daemon.pc = "settled" =>
        \A r \in Open : r.fact \in daemon.again \/ SectionsOf[r.fact] # {sums[r.sum].sec}

\* What the ledger rows say of the summaries: none too few, and none that nothing
\* will ever close.
LedgerTellsTheDebt == UnmarkedIsOwed /\ NoZombieRow

\* Moving an insight from a retired summary to its successor never takes the
\* support of one of its threads away.
SupportNeverShrinks ==
    [][\A i \in Insights : Support(sums, i, cites[i]) \subseteq Support(sums', i, cites'[i])]_vars

===============================================================================
