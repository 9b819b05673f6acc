---------------------------- MODULE OutboxMirror ----------------------------
(***************************************************************************)
(* Postgres is the record, Neo4j its mirror.  A save commits its record    *)
(* together with a row of neo4j_outbox; the outbox worker claims the       *)
(* oldest rows, applies each with a few autocommitted Cypher statements; a *)
(* failed row backs off.  REM and NREM carry an applied row to its end and *)
(* delete it.  The graph keeps what the mirror is about: which spine nodes *)
(* exist, under which label, and which are marked superseded.              *)
(***************************************************************************)
EXTENDS Naturals, FiniteSets, Sequences, Functions

CONSTANTS
    Facts, Decisions, Retros,   \* rows of technical_docs, each known by its content
    None,
    Judges, Reversals,          \* each retro's target; the retros rated "reversed"
    Cites,                      \* what each judgement is grounded_in
    Corrections,                \* facts saved with "supersedes"
    Targets,                    \* facts a request may supersede
    Successors,                 \* records "by" may name
    MaxRetries, BatchSize,      \* OUTBOX_MAX_RETRIES, OUTBOX_BATCH_SIZE
    MaxRows,                    \* bound: outbox rows of one behaviour
    MaxRestarts,                \* bound: gateway restarts
    MaxStrands                  \* bound: claimed rows whose retry is not recorded

Judgements == Decisions \cup Retros
Records == Facts \cup Judgements

ASSUME RecordsAssumption ==
    /\ Facts \cap Judgements = {} /\ Decisions \cap Retros = {} /\ None \notin Records
    /\ IsFiniteSet(Facts)
    /\ Judges \in [Retros -> Records] /\ Reversals \subseteq Retros
    /\ Cites \in [Judgements -> SUBSET Records]
    /\ Corrections \subseteq Facts /\ Targets \subseteq Facts /\ Successors \subseteq Records
ASSUME BoundsAssumption ==
    /\ MaxRetries \in Nat \ {0} /\ BatchSize \in Nat \ {0}
    /\ MaxRows \in Nat /\ MaxRestarts \in Nat /\ MaxStrands \in Nat

VARIABLES
    docs, superseded, supersededBy,     \* technical_docs
    outbox,                             \* neo4j_outbox: row id -> row
    nextId,
    batch, stage,                       \* _drain_outbox: rows left; where the first one is
    nodes, marked,                      \* Neo4j: <<pg_id, label>>; superseded = true
    restarts, strands

pgVars     == <<docs, superseded, supersededBy>>
workerVars == <<batch, stage>>
graphVars  == <<nodes, marked>>
vars       == <<pgVars, outbox, nextId, workerVars, graphVars, restarts, strands>>

Label(x) == IF x \in Facts THEN "Fact" ELSE IF x \in Decisions THEN "Decision"
            ELSE "Retrospective"
Kind(x)  == IF x \in Facts THEN "fact" ELSE IF x \in Decisions THEN "decision"
            ELSE "retrospective"
Labels == {"Fact", "Decision", "Retrospective"}
Kinds  == {"fact", "decision", "retrospective", "supersede"}
Open   == {"pending", "in_progress"}
Statuses == Open \cup {"applied", "rem_reviewed", "consolidated", "failed"}
Stages == {"idle", "claimed", "merge", "link", "ground", "finish"}

Rows == [pg : Records, kind : Kinds, old : Records \cup {None}, new : Records \cup {None},
         status : Statuses, retries : 0..MaxRetries, due : BOOLEAN]

TypeOK ==
    /\ superseded \subseteq docs /\ docs \subseteq Records
    /\ supersededBy \in [Facts -> Records \cup {None}]
    /\ nextId \in Nat \ {0} /\ DOMAIN outbox \subseteq 1..(nextId - 1)
    /\ \A i \in DOMAIN outbox : outbox[i] \in Rows
    /\ stage \in Stages /\ (stage = "idle" <=> batch = <<>>)
    /\ \A n \in DOMAIN batch : batch[n].id < nextId
    /\ marked \subseteq nodes /\ nodes \subseteq Records \X Labels
    /\ restarts \in Nat /\ strands \in Nat

Init ==
    /\ docs = {} /\ superseded = {} /\ supersededBy = [f \in Facts |-> None]
    /\ outbox = [i \in {} |-> None] /\ nextId = 1
    /\ batch = <<>> /\ stage = "idle" /\ nodes = {} /\ marked = {}
    /\ restarts = 0 /\ strands = 0

-----------------------------------------------------------------------------
(***************************************************************************)
(* The requests: record and row in one transaction.                        *)
(***************************************************************************)
Standing(x) == x \in docs /\ x \notin superseded

NewRow(x, kind, old, new) ==
    [pg |-> x, kind |-> kind, old |-> old, new |-> new,
     status |-> "pending", retries |-> 0, due |-> TRUE]

\* The rows in drop leave, one new row comes.
Enqueue(row, drop) ==
    /\ nextId <= MaxRows /\ nextId' = nextId + 1
    /\ outbox' = [i \in (DOMAIN outbox \ drop) \cup {nextId} |->
                    IF i = nextId THEN row ELSE outbox[i]]
    /\ UNCHANGED <<workerVars, graphVars, restarts, strands>>

RowsOf(x, kinds) == {i \in DOMAIN outbox : outbox[i].pg = x /\ outbox[i].kind \in kinds}

\* handle_save of a fact, new or again.
SaveFact(f) ==
    /\ docs' = docs \cup {f}
    /\ Enqueue(NewRow(f, "fact", None, None), {})
    /\ UNCHANGED <<superseded, supersededBy>>

\* handle_save with "supersedes": the row carries the mark.
SaveCorrection(f, old) ==
    /\ f \in Corrections /\ old \in Targets \ {f} /\ Standing(old)
    /\ docs' = docs \cup {f}
    /\ superseded' = superseded \cup {old}
    /\ supersededBy' = [supersededBy EXCEPT ![old] = f]
    /\ Enqueue(NewRow(f, "fact", old, None), {})

SaveDecision(d) ==
    /\ docs' = docs \cup {d}
    /\ Enqueue(NewRow(d, "decision", None, None), {})
    /\ UNCHANGED <<superseded, supersededBy>>

\* handle_retrospective: "reversed" flags its target in the same transaction.
SaveRetro(r) ==
    /\ Judges[r] \in docs
    /\ docs' = docs \cup {r}
    /\ superseded' = superseded \cup (IF r \in Reversals THEN {Judges[r]} ELSE {})
    /\ Enqueue(NewRow(r, "retrospective", None, None), {})
    /\ UNCHANGED supersededBy

\* handle_supersede: a "supersede" row; the fact's own rows stay only if its
\* successor has a fact row to take them along later.
Supersede(f, by) ==
    /\ f \in Targets /\ Standing(f)
    /\ by \in Successors \cup {None} /\ by # f /\ (by # None => Standing(by))
    /\ superseded' = superseded \cup {f}
    /\ supersededBy' = [supersededBy EXCEPT ![f] = by]
    /\ Enqueue(NewRow(f, "supersede", f, by),
               IF by # None /\ RowsOf(by, {"fact"}) # {} THEN {} ELSE RowsOf(f, {"fact"}))
    /\ UNCHANGED docs

Request ==
    \/ \E f \in Facts : SaveFact(f) \/ \E old \in Facts : SaveCorrection(f, old)
    \/ \E d \in Decisions : SaveDecision(d)
    \/ \E r \in Retros : SaveRetro(r)
    \/ \E f \in Facts, by \in Records \cup {None} : Supersede(f, by)

-----------------------------------------------------------------------------
(***************************************************************************)
(* _outbox_worker and _drain_outbox.                                       *)
(***************************************************************************)
Claimable ==
    {i \in DOMAIN outbox :
        outbox[i].status = "pending" /\ outbox[i].due /\ outbox[i].retries < MaxRetries}

\* The first BatchSize of them by id, as the worker's own copies.
Claimed == {i \in Claimable : Cardinality({j \in Claimable : j < i}) < BatchSize}

\* RETURNING promises no order.
Claim ==
    /\ stage = "idle" /\ Claimable # {}
    /\ \E ids \in Bijection(1..Cardinality(Claimed), Claimed) :
        batch' = [n \in DOMAIN ids |->
                    LET row == outbox[ids[n]] IN
                    [id |-> ids[n], pg |-> row.pg, kind |-> row.kind, old |-> row.old,
                     new |-> row.new, retries |-> row.retries]]
    /\ outbox' = [i \in DOMAIN outbox |->
                    IF i \in Claimed THEN [outbox[i] EXCEPT !.status = "in_progress"]
                    ELSE outbox[i]]
    /\ stage' = "claimed"
    /\ UNCHANGED <<pgVars, nextId, graphVars, restarts, strands>>

\* The second connection of the drain.
ConnectionAcquired ==
    /\ stage = "claimed" /\ stage' = "merge"
    /\ UNCHANGED <<pgVars, outbox, nextId, batch, graphVars, restarts, strands>>

\* The pool is saturated: the cycle ends with its rows claimed.
PoolTimeout ==
    /\ stage = "claimed" /\ strands < MaxStrands /\ strands' = strands + 1
    /\ batch' = <<>> /\ stage' = "idle"
    /\ UNCHANGED <<pgVars, outbox, nextId, graphVars, restarts>>

-----------------------------------------------------------------------------
(***************************************************************************)
(* _apply_outbox_row and the functions per type, statement by statement.   *)
(***************************************************************************)
Row == Head(batch)
LabelsOf(x) == {l \in Labels : <<x, l>> \in nodes}

\* _ensure_spine_node: a :Fact placeholder if no spine node has the id.
Ensured(x) == nodes \cup (IF LabelsOf(x) = {} THEN {<<x, "Fact">>} ELSE {})

\* UPDATE ... WHERE id: nothing, if the row was purged meanwhile.
Updated(id, row) ==
    outbox' = [i \in DOMAIN outbox |-> IF i = id THEN row ELSE outbox[i]]

WithStatus(id, s) ==
    Updated(id, IF id \in DOMAIN outbox THEN [outbox[id] EXCEPT !.status = s] ELSE None)

RowDone ==
    /\ batch' = Tail(batch)
    /\ stage' = IF Tail(batch) = <<>> THEN "idle" ELSE "merge"

\* Takes the mark of a fact's row that was tried before as placed.
AfterMergeOfRetry(row) ==
    IF row.kind = "decision" THEN "ground"
    ELSE IF row.kind = "fact" /\ row.retries > 0 THEN "finish" ELSE "link"

AfterMerge(row) == IF row.kind = "decision" THEN "ground" ELSE "link"

\* The id already has a node under another label: the MERGE writes nothing.
Conflicts(row) ==
    row.kind # "supersede" /\ LabelsOf(row.pg) \ {Label(row.pg)} # {}

MergeNode ==
    /\ stage = "merge"
    /\ \/ /\ Conflicts(Row) /\ WithStatus(Row.id, "failed") /\ RowDone
          /\ UNCHANGED graphVars
       \/ /\ ~Conflicts(Row)
          /\ nodes' = IF Row.kind = "supersede" THEN Ensured(Row.old)
                      ELSE nodes \cup {<<Row.pg, Label(Row.pg)>>}
          /\ stage' = AfterMerge(Row)
          /\ UNCHANGED <<marked, outbox, batch>>
    /\ UNCHANGED <<pgVars, nextId, restarts, strands>>

\* What the second statement marks superseded: MERGE for a fact's row, MATCH for
\* a retrospective's and a "supersede" row's.
Marks(row) ==
    CASE row.kind = "fact" -> IF row.old = None THEN {} ELSE {<<row.old, "Fact">>}
      [] row.kind = "retrospective" ->
            IF row.pg \in Reversals THEN {<<Judges[row.pg], "Decision">>} \cap nodes ELSE {}
      [] row.kind = "supersede" -> {n \in nodes : n[1] = row.old}

LinkNodes ==
    /\ stage = "link"
    /\ marked' = marked \cup Marks(Row) /\ nodes' = nodes \cup Marks(Row)
    /\ stage' = IF Row.kind = "fact" THEN "finish" ELSE "ground"
    /\ UNCHANGED <<pgVars, outbox, nextId, batch, restarts, strands>>

\* _write_typed_grounding, under the labels Postgres knows.
GroundingAsFacts(row) == {<<x, "Fact">> : x \in Cites[row.pg]}
Grounding(row) == {<<x, Label(x)>> : x \in Cites[row.pg]}

\* The grounding of a judgement; the successor of a "supersede" row.
GroundNodes ==
    /\ stage = "ground" /\ stage' = "finish"
    /\ nodes' = IF Row.kind # "supersede" THEN nodes \cup Grounding(Row)
                ELSE IF Row.new # None THEN Ensured(Row.new) ELSE nodes
    /\ UNCHANGED <<pgVars, outbox, nextId, batch, marked, restarts, strands>>

FinishRow ==
    /\ stage = "finish" /\ RowDone
    /\ IF Row.kind = "supersede"
       THEN outbox' = [i \in DOMAIN outbox \ {Row.id} |-> outbox[i]]
       ELSE WithStatus(Row.id, "applied")
    /\ UNCHANGED <<pgVars, nextId, graphVars, restarts, strands>>

\* _record_retry: one more retry, failed at the limit, else pending and deferred.
Retried(row) ==
    IF row.retries + 1 >= MaxRetries
    THEN [row EXCEPT !.status = "failed", !.retries = @ + 1]
    ELSE [row EXCEPT !.status = "pending", !.retries = @ + 1, !.due = FALSE]

\* A statement fails, at any point of the row.
ApplyFails ==
    /\ stage \in {"merge", "link", "ground", "finish"} /\ RowDone
    /\ \/ /\ Updated(Row.id, IF Row.id \in DOMAIN outbox THEN Retried(outbox[Row.id]) ELSE None)
          /\ UNCHANGED strands
       \/ /\ strands < MaxStrands /\ strands' = strands + 1
          /\ UNCHANGED outbox
    /\ UNCHANGED <<pgVars, nextId, graphVars, restarts>>

BackoffEnds(i) ==
    /\ i \in DOMAIN outbox /\ ~outbox[i].due
    /\ Updated(i, [outbox[i] EXCEPT !.due = TRUE])
    /\ UNCHANGED <<pgVars, nextId, workerVars, graphVars, restarts, strands>>

WorkerStep ==
    \/ Claim \/ ConnectionAcquired \/ PoolTimeout
    \/ MergeNode \/ LinkNodes \/ GroundNodes \/ FinishRow \/ ApplyFails

\* The claims of a dead gateway are not taken back.
RestartForgetsClaims ==
    /\ restarts < MaxRestarts /\ restarts' = restarts + 1
    /\ batch' = <<>> /\ stage' = "idle"
    /\ UNCHANGED <<pgVars, outbox, nextId, graphVars, strands>>

\* The gateway dies; start() makes claimed rows pending again.
Restart ==
    /\ restarts < MaxRestarts /\ restarts' = restarts + 1
    /\ batch' = <<>> /\ stage' = "idle"
    /\ outbox' = [i \in DOMAIN outbox |->
                    IF outbox[i].status = "in_progress"
                    THEN [outbox[i] EXCEPT !.status = "pending"] ELSE outbox[i]]
    /\ UNCHANGED <<pgVars, nextId, graphVars, strands>>

-----------------------------------------------------------------------------
(***************************************************************************)
(* The daemons move an applied row on and delete it.                       *)
(***************************************************************************)

\* _mark_outbox_rem_reviewed: the latest applied row of the record.
RemReview(x) ==
    LET applied == {i \in RowsOf(x, Kinds) : outbox[i].status = "applied"} IN
    /\ \E i \in applied : (\A j \in applied : j <= i) /\ WithStatus(i, "rem_reviewed")
    /\ UNCHANGED <<pgVars, nextId, workerVars, graphVars, restarts, strands>>

\* A fold consumes the rows of a record in the transaction of its summary; a
\* superseded fact is not folded.
Fold(x) ==
    LET rows == {i \in RowsOf(x, Kinds) : outbox[i].status \in {"applied", "rem_reviewed"}} IN
    /\ \E i \in rows : x \in Facts => outbox[i].status = "rem_reviewed"
    /\ x \in Facts => x \notin superseded
    /\ outbox' = [i \in DOMAIN outbox |->
                    IF i \in rows THEN [outbox[i] EXCEPT !.status = "consolidated"]
                    ELSE outbox[i]]
    /\ UNCHANGED <<pgVars, nextId, workerVars, graphVars, restarts, strands>>

\* The records that a record replaced, at any distance.
Ancestry(x) ==
    {y \in Facts : \E n \in 1..Cardinality(Facts) : \E p \in [1..n -> Facts] :
        /\ p[1] = y /\ supersededBy[p[n]] = x
        /\ \A k \in 1..(n - 1) : supersededBy[p[k]] = p[k + 1]}

\* What goes along with a closed fact: the second form spares the "supersede" rows.
AncestryRows(x) == UNION {RowsOf(y, {"fact"}) : y \in Ancestry(x)}

\* The first form closes a record that was saved again meanwhile.
ConsolidatedRecord(x) ==
    IF \E i \in RowsOf(x, Kinds) : outbox[i].status = "consolidated" THEN RowsOf(x, Kinds) ELSE {}
ConsolidatedRows(x) == {i \in RowsOf(x, Kinds) : outbox[i].status = "consolidated"}

\* close_ledger_rows, after the graph has the summary; close_ledger_rows_by_id
\* for a judgement.
CloseLedgerRows(x) ==
    LET rows == ConsolidatedRows(x)
        drop == rows \cup IF x \in Facts THEN AncestryRows(x) ELSE {}
    IN  /\ rows # {}
        /\ outbox' = [i \in DOMAIN outbox \ drop |-> outbox[i]]
        /\ UNCHANGED <<pgVars, nextId, workerVars, graphVars, restarts, strands>>

DaemonStep == \E x \in Records : RemReview(x) \/ Fold(x) \/ CloseLedgerRows(x)

Next ==
    \/ Request \/ WorkerStep \/ Restart \/ DaemonStep
    \/ \E i \in 1..MaxRows : BackoffEnds(i)

Spec == Init /\ [][Next]_vars

-----------------------------------------------------------------------------
\* The worker never writes a second node for a record, nor one under another
\* label: every id has one spine node, of its own kind.
NoClone == \A n \in nodes : n[2] = Label(n[1])

\* A row that counts as applied is in the graph, whatever was retried, claimed
\* twice or interrupted between its statements.
AppliedIsMirrored ==
    \A i \in DOMAIN outbox :
        outbox[i].status \in {"applied", "rem_reviewed", "consolidated"} =>
            /\ <<outbox[i].pg, Label(outbox[i].pg)>> \in nodes
            /\ outbox[i].kind = "fact" /\ outbox[i].old # None =>
                  <<outbox[i].old, "Fact">> \in marked

\* A fact that Postgres calls superseded is marked in the graph, or a row that
\* will mark it (or has failed, and says so) is still there.
SupersededIsOwed ==
    \A f \in superseded \cap Facts :
        \/ <<f, "Fact">> \in marked
        \/ \E i \in DOMAIN outbox :
              outbox[i].old = f /\ outbox[i].status \in Open \cup {"failed"}

\* A record that stands is in the graph under its own label, or a row that will
\* write it (or has failed, and says so) is still there: no deletion of the
\* request path, of a fold or of a closed successor takes the last one.
StandingIsOwed ==
    \A x \in docs \ superseded :
        \/ <<x, Label(x)>> \in nodes
        \/ \E i \in DOMAIN outbox : outbox[i].pg = x /\ outbox[i].status \in Open \cup {"failed"}

\* What Postgres has, the graph has or is owed, and has once.
MirrorIsOwed == AppliedIsMirrored /\ SupersededIsOwed /\ StandingIsOwed
MirrorIsTrue == NoClone /\ MirrorIsOwed

\* An open row is never out of the worker's reach, across restarts and at the
\* retry limit: a claimed one is in its batch and a pending one can be claimed,
\* unless the pool timed out after a claim or when a retry had to be recorded.
OpenRowIsServed ==
    strands = 0 => \A i \in DOMAIN outbox :
        /\ outbox[i].status = "in_progress" => \E n \in DOMAIN batch : batch[n].id = i
        /\ outbox[i].status = "pending" => outbox[i].retries < MaxRetries

\* The outbox keeps its promises: a row, whatever its status, is a promise of
\* Mirror's, and the graph under the records' own labels is Mirror's graph.
State(row) == IF row.status \in Open THEN "owed"
              ELSE IF row.status = "failed" THEN "failed" ELSE "kept"
Promises == [i \in DOMAIN outbox |-> [pg |-> outbox[i].pg, old |-> outbox[i].old,
                                      state |-> State(outbox[i])]]
Mirrored == {x \in Records : <<x, Label(x)>> \in nodes}
Struck == {x \in Records : <<x, "Fact">> \in marked}

M == INSTANCE Mirror WITH next <- nextId, promises <- Promises,
                          mirrored <- Mirrored, struck <- Struck

\* Whatever is batched, retried, claimed twice, restarted or deleted by a daemon,
\* each step is one that Mirror allows.
ImplementsMirror == M!Spec

-----------------------------------------------------------------------------
(***************************************************************************)
(* The inductive invariant.                                                *)
(***************************************************************************)
Copies == [id : Nat, pg : Records, kind : Kinds, old : Records \cup {None},
           new : Records \cup {None}, retries : 0..MaxRetries]

\* What the request of each kind puts into its row.
WellFormed(r) ==
    /\ r.kind = "fact" => r.pg \in Facts /\ (r.old # None => r.old \in Targets /\ r.pg \in Corrections)
    /\ r.kind = "supersede" => r.old \in Targets /\ r.pg = r.old
    /\ r.kind = "decision" => r.pg \in Decisions /\ r.old = None
    /\ r.kind = "retrospective" => r.pg \in Retros /\ r.old = None
    /\ r.new \in Successors \cup {None}
SameBody(r, s) == r.pg = s.pg /\ r.kind = s.kind /\ r.old = s.old /\ r.new = s.new

RowsAreWellFormed ==
    /\ \A i \in DOMAIN outbox : WellFormed(outbox[i])
    /\ \A f \in Facts : supersededBy[f] # None => f \in Targets /\ f \in superseded

\* The worker has each row once, and nobody else moves it while it has it.
CopiesAreClaimed ==
    \A n \in DOMAIN batch :
        /\ WellFormed(batch[n])
        /\ \A m \in DOMAIN batch : batch[m].id = batch[n].id => m = n
        /\ batch[n].id \in DOMAIN outbox =>
              /\ SameBody(batch[n], outbox[batch[n].id])
              /\ outbox[batch[n].id].status = "in_progress"

\* At the retry limit a row is closed, also while it is claimed.
OpenRowsHaveTries == \A i \in DOMAIN outbox : outbox[i].status \in Open => outbox[i].retries < MaxRetries
ClaimsAreKnown ==
    strands = 0 => \A i \in DOMAIN outbox :
        outbox[i].status = "in_progress" => \E n \in DOMAIN batch : batch[n].id = i

\* A decision has nothing to mark and a fact nothing to ground.
StagesFit ==
    /\ stage = "link" => Row.kind # "decision"
    /\ stage = "ground" => Row.kind # "fact"

OutboxInv ==
    /\ TypeOK /\ batch \in Seq(Copies) /\ StagesFit
    /\ RowsAreWellFormed /\ CopiesAreClaimed /\ OpenRowsHaveTries /\ ClaimsAreKnown

\* What the statements of the row in hand have done so far.
Merged ==
    stage \in {"link", "ground", "finish"} =>
        IF Row.kind = "supersede" THEN <<Row.old, "Fact">> \in nodes
        ELSE <<Row.pg, Label(Row.pg)>> \in nodes
Linked ==
    stage \in {"ground", "finish"} /\ Row.kind \in {"fact", "supersede"} /\ Row.old # None =>
        <<Row.old, "Fact">> \in marked
FactsAreFacts == \A n \in nodes : n[1] \in Facts => n[2] = "Fact"
SupersedeLeaves == \A i \in DOMAIN outbox : outbox[i].kind = "supersede" => outbox[i].status \in Open \cup {"failed"}

GraphInv == Merged /\ Linked /\ FactsAreFacts /\ SupersedeLeaves /\ AppliedIsMirrored

=============================================================================
