-------------------------- MODULE NremInsightProofs --------------------------
(***************************************************************************)
(* Proofs about the judgement side of the NREM daemon, for any judgements, *)
(* grounds, groups and bounds: no insight stands inside another, a fold    *)
(* paid for in vain is not sent again by the same process, a verdict that  *)
(* no fold read stays open, and a reversal is told by the insight that     *)
(* closes its refold row.                                                  *)
(***************************************************************************)
EXTENDS NremInsight, FiniteSetTheorems, TLAPS

Insight == [of : SUBSET Judgements, state : {"active", "lineage", "coverage"},
            read : SUBSET Nat, told : SUBSET Retros]
LedgerRow == [id : Nat, of : Judgements,
              status : {"pending", "applied", "rem_reviewed", "consolidated"}]
RefoldRow == [of : Judgements, from : Nat, trigger : Judgements, older : SUBSET Nat,
              status : {"open", "refolded", "dropped"}]
Fold == [of : SUBSET Judgements, rows : SUBSET Nat, told : SUBSET Retros, id : {None}]

StoresOK ==
    /\ doc \in [Judgements -> {"absent", "standing", "superseded", "reversing"}]
    /\ node \in [Judgements -> [there : BOOLEAN, superseded : BOOLEAN,
                                rem : BOOLEAN, consolidated : BOOLEAN]]
    /\ outbox \subseteq LedgerRow /\ saves \in Nat
    /\ insights \in Seq(Insight)
    /\ refold \subseteq RefoldRow

MemoryOK ==
    /\ backlog \subseteq [key : SUBSET Judgements, boot : Nat] /\ boot \in Nat
    /\ withheld \subseteq SUBSET Judgements /\ burned \subseteq SUBSET Judgements

\* Where the daemon is, and what it holds there.
InSweep == daemon.pc \in {"clear", "reconcile"}
Folding == daemon.pc \in {"fold", "call", "sync"}
Calling == daemon.pc \in {"call", "sync"}

Things == Nat \cup SUBSET Judgements
DaemonOK ==
    /\ daemon \in [pc : {"idle", "clear", "reconcile", "walk", "fold", "call", "sync"},
                   ret : {None, "walk", "end"} \cup SUBSET Groups, todo : SUBSET Things,
                   blocked : SUBSET SUBSET Judgements, unready : SUBSET Judgements,
                   attempted : SUBSET SUBSET Judgements, folded : SUBSET Judgements,
                   cur : {None} \cup Fold]
    /\ InSweep => daemon.todo \subseteq Ids
    /\ At("walk") => daemon.ret \subseteq Groups
    /\ Folding => daemon.ret \in {"walk", "end"}
    /\ Folding \/ At("walk") => daemon.todo \subseteq SUBSET Judgements
    /\ Calling => daemon.cur \in Fold

TypeOK == StoresOK /\ MemoryOK /\ DaemonOK

-----------------------------------------------------------------------------
\* A row the ledger marks consolidated was read by a fold that was committed,
\* and so were the rows of a fold that is being closed.
RowsWereRead ==
    /\ \A r \in outbox : r.status = "consolidated" => \E i \in Ids : r.id \in insights[i].read
    /\ At("sync") => \E i \in Ids : daemon.cur.rows \subseteq insights[i].read

\* What was paid for in vain is held back by the backlog or by the process, and
\* a cycle that plans or folds knows it.
BurnedIsKept ==
    \A S \in burned : S \in withheld \/ [key |-> S, boot |-> boot] \in backlog
BurnedIsKnown ==
    /\ Folding \/ At("walk") =>
         \A S \in burned : S \in withheld \/ S \in daemon.blocked \/ S \in daemon.attempted
    /\ Calling => daemon.cur.of \in daemon.attempted /\ daemon.cur.of \notin burned

\* An insight that is folded again is folded over its own set; a fresh set lies
\* inside no active insight but those of this pass, which keep it from folding.
RefoldsReplace ==
    Folding /\ daemon.ret = "walk" =>
        /\ \A S \in daemon.todo : \E i \in Active : insights[i].of = S
        /\ At("call") => \E i \in Active : insights[i].of = daemon.cur.of
FreshIsFresh ==
    Folding /\ daemon.ret = "end" =>
        /\ \A S \in daemon.todo :
             /\ S # {}
             /\ \A i \in Active : S \subseteq insights[i].of => insights[i].of \subseteq daemon.folded
        /\ At("call") => \A i \in Active : ~(daemon.cur.of \subseteq insights[i].of)

\* A superseded decision has the verdict that reversed it.
ReversedByOne ==
    \A d \in Judgements : doc[d] = "superseded" =>
        \E v \in Retros : doc[v] = "reversing" /\ Target[v] = d

\* A refold row is known by where it comes from, an insight that is retired.
RowsAreDistinct ==
    /\ \A r \in refold : r.from \in Ids \ Active
    /\ \A r, s \in refold : r.of = s.of /\ r.from = s.from /\ r.trigger = s.trigger => r = s

\* What is written over the judgement of an open row tells its reversal.
Tells(told, r) == \E v \in told : Target[v] = r.trigger
OpenRowsAreTold ==
    \A r \in refold : r.status = "open" =>
        /\ doc[r.trigger] = "superseded"
        /\ \A i \in Active \ r.older : r.of \in insights[i].of => Tells(insights[i].told, r)
        /\ At("call") /\ r.of \in daemon.cur.of => Tells(daemon.cur.told, r)

InsightInv ==
    /\ TypeOK /\ RowsWereRead /\ BurnedIsKept /\ BurnedIsKnown
    /\ NoneInsideAnother /\ RefoldsReplace /\ FreshIsFresh
    /\ ReversedByOne /\ RowsAreDistinct /\ OpenRowsAreTold

-----------------------------------------------------------------------------
(* The sequence of insights. *)

LEMMA InsightsAre ==
    ASSUME StoresOK
    PROVE  /\ Len(insights) \in Nat /\ Ids \subseteq Nat
           /\ insights \in [Ids -> Insight]
           /\ Active \subseteq Ids
  BY DEF StoresOK, Ids, Active

\* A sweep retires insights and changes nothing else of them.
LEMMA Retires ==
    ASSUME StoresOK, LineagePass
    PROVE  /\ Ids' = Ids /\ insights' \in Seq(Insight)
           /\ \A i \in Ids : /\ insights'[i].of = insights[i].of
                             /\ insights'[i].read = insights[i].read
                             /\ insights'[i].told = insights[i].told
           /\ Active' = Active \ Invalidated
<1>1. Len(insights) \in Nat /\ insights \in [Ids -> Insight] /\ Ids \subseteq Nat
  BY InsightsAre
<1>2. insights' = [i \in Ids |-> IF i \in Invalidated
                                   THEN [insights[i] EXCEPT !.state = "lineage"]
                                   ELSE insights[i]]
  BY DEF LineagePass
<1>3. insights' \in [1 .. Len(insights) -> Insight]
  BY <1>1, <1>2 DEF Ids, Insight
<1>4. insights' \in Seq(Insight) /\ Len(insights') = Len(insights)
  BY <1>1, <1>3
<1>5. Ids' = Ids
  BY <1>4 DEF Ids
<1>6. ASSUME NEW i \in Ids
      PROVE  /\ insights'[i].of = insights[i].of
             /\ insights'[i].read = insights[i].read
             /\ insights'[i].told = insights[i].told
             /\ insights'[i].state = "active" <=> insights[i].state = "active" /\ i \notin Invalidated
  BY <1>1, <1>2 DEF Insight
<1> QED
  BY <1>4, <1>5, <1>6 DEF Active

\* A committed fold retires the insights it covers and appends its own.
Covered == {i \in Active : insights[i].of \subseteq daemon.cur.of}
LEMMA Commits ==
    ASSUME StoresOK, DaemonOK, Commit
    PROVE  /\ Ids' = Ids \cup {Len(insights) + 1} /\ insights' \in Seq(Insight)
           /\ Len(insights) + 1 \notin Ids /\ Len(insights) + 1 \in Nat
           /\ \A i \in Ids : /\ insights'[i].of = insights[i].of
                             /\ insights'[i].read = insights[i].read
                             /\ insights'[i].told = insights[i].told
           /\ insights'[Len(insights) + 1] =
                [of |-> daemon.cur.of, state |-> "active", read |-> daemon.cur.rows,
                 told |-> daemon.cur.told]
           /\ Active' = (Active \ Covered) \cup {Len(insights) + 1}
<1> DEFINE n == Len(insights) + 1
           old == [i \in Ids |-> IF i \in Covered
                                   THEN [insights[i] EXCEPT !.state = "coverage"]
                                   ELSE insights[i]]
           new == [of |-> daemon.cur.of, state |-> "active", read |-> daemon.cur.rows,
                   told |-> daemon.cur.told]
<1>1. Len(insights) \in Nat /\ insights \in [Ids -> Insight] /\ Ids \subseteq Nat
  BY InsightsAre
<1>2. insights' = Append(old, new)
  BY DEF Commit, Covered
<1>3. old \in [1 .. Len(insights) -> Insight]
  BY <1>1 DEF Ids, Insight
<1>4. old \in Seq(Insight) /\ Len(old) = Len(insights)
  BY <1>1, <1>3
<1>5. new \in Insight
  BY DEF Commit, DaemonOK, Calling, At, Insight, Fold
<1> HIDE DEF old, new
<1>6. /\ insights' \in Seq(Insight) /\ Len(insights') = n
      /\ \A i \in 1 .. Len(insights) : insights'[i] = old[i]
      /\ insights'[n] = new
  BY <1>1, <1>2, <1>4, <1>5
<1>7. Ids' = Ids \cup {n} /\ n \notin Ids /\ n \in Nat
  BY <1>1, <1>6 DEF Ids
<1>8. ASSUME NEW i \in Ids
      PROVE  /\ insights'[i].of = insights[i].of
             /\ insights'[i].read = insights[i].read
             /\ insights'[i].told = insights[i].told
             /\ insights'[i].state = "active" <=> insights[i].state = "active" /\ i \notin Covered
  BY <1>1, <1>6 DEF Insight, Ids, old
<1>9. Active' = (Active \ Covered) \cup {n}
  BY <1>6, <1>7, <1>8 DEF Active, new
<1> QED
  BY <1>6, <1>7, <1>8, <1>9 DEF new

\* The refold rows of an insight that is retired name it, a member that still
\* counts and one that was reversed.
LEMMA RefoldRowsAre ==
    ASSUME StoresOK, NEW i \in Invalidated, NEW r \in RefoldRows(i)
    PROVE  /\ r \in RefoldRow /\ r.from = i /\ i \in Active /\ r.status = "open"
           /\ doc[r.trigger] = "superseded" /\ r.older = Active \ Invalidated
           /\ r = [of |-> r.of, from |-> i, trigger |-> r.trigger, status |-> "open",
                   older |-> Active \ Invalidated]
<1>1. i \in Active /\ i \in Nat /\ insights[i] \in Insight /\ Active \ Invalidated \in SUBSET Nat
  BY InsightsAre DEF Invalidated
<1>2. insights[i].of \subseteq Judgements
  BY <1>1 DEF Insight
<1>3. PICK j \in {k \in insights[i].of : doc[k] # "superseded"},
           t \in {k \in insights[i].of : doc[k] = "superseded"} :
        r = [of |-> j, from |-> i, trigger |-> t, status |-> "open", older |-> Active \ Invalidated]
  BY DEF RefoldRows
<1> HIDE DEF Invalidated
<1> QED
  BY <1>1, <1>2, <1>3 DEF RefoldRow

-----------------------------------------------------------------------------
(* Types. *)

World == (\E j \in Judgements : Save(j) \/ Review(j)) \/ (\E r \in outbox : Apply(r))
\* The steps that only say where the daemon is and what it holds.
Plan == BeginCycle \/ PlanRefolds \/ BeginWalk \/ Walk \/ PlanFresh \/ SkipFold
        \/ BeginFold \/ Abort
\* The ways a call ends without an insight.
Fails == PaidInVain \/ Refused \/ LockLost

LEMMA WorldFrame ==
    World => UNCHANGED <<insights, refold, backlog, boot, withheld, burned, daemon>>
  BY DEF World, Save, Review, Apply

LEMMA PlanFrame == Plan => UNCHANGED <<stores, backlog, boot, withheld, burned>>
  BY DEF Plan, BeginCycle, PlanRefolds, BeginWalk, Walk, PlanFresh, SkipFold, BeginFold, Abort

LEMMA FailsFrame == Fails => UNCHANGED <<doc, node, outbox, saves, insights, refold, boot>>
  BY DEF Fails, PaidInVain, Refused, LockLost, stores

LEMMA NextCases ==
    [Next]_vars => \/ World \/ LineagePass \/ Clear \/ Plan \/ Reconcile \/ Commit
                   \/ SyncOk \/ SyncFails \/ Fails \/ EndCycle \/ Die \/ UNCHANGED vars
  BY DEF Next, World, Plan, Fails

\* One field of a graph node, of a ledger row or of a refold row is set.
Node == [there : BOOLEAN, superseded : BOOLEAN, rem : BOOLEAN, consolidated : BOOLEAN]
LEMMA NodeSet ==
    ASSUME NEW n \in Node, NEW b \in BOOLEAN
    PROVE  [n EXCEPT !.rem = b] \in Node /\ [n EXCEPT !.consolidated = b] \in Node
  BY DEF Node

LEMMA LedgerSet ==
    ASSUME NEW r \in LedgerRow, NEW st \in {"pending", "applied", "rem_reviewed", "consolidated"}
    PROVE  [r EXCEPT !.status = st] \in LedgerRow
  BY DEF LedgerRow

LEMMA RefoldSet ==
    ASSUME NEW r \in RefoldRow, NEW st \in {"open", "refolded", "dropped"}
    PROVE  [r EXCEPT !.status = st] \in RefoldRow
  BY DEF RefoldRow

LEMMA ConsolidateType ==
    ASSUME node \in [Judgements -> Node], NEW S
    PROVE  Consolidate(S) \in [Judgements -> Node]
  BY NodeSet DEF Consolidate

\* Every save, application, review, fold and repair keeps the stores' types.
LEMMA StoresStep == StoresOK /\ DaemonOK /\ [Next]_vars => StoresOK'
<1> SUFFICES ASSUME StoresOK, DaemonOK, [Next]_vars PROVE StoresOK'
  OBVIOUS
<1>0. Len(insights) \in Nat /\ insights \in [Ids -> Insight] /\ Ids \subseteq Nat /\ Active \subseteq Ids
  BY InsightsAre
<1>n. node \in [Judgements -> Node]
  BY DEF StoresOK, Node
<1>o. outbox \subseteq LedgerRow /\ refold \subseteq RefoldRow
  BY DEF StoresOK
<1>1. CASE World
  <2>1. UNCHANGED <<insights, refold>>
    BY <1>1, WorldFrame
  <2>2. ASSUME NEW j \in Judgements, Save(j) PROVE StoresOK'
    <3>1. Target \in [Retros -> Decisions] /\ Retros \subseteq Judgements /\ Decisions \subseteq Judgements
      BY JudgementsAssumption DEF Judgements
    <3>2. doc' \in [Judgements -> {"absent", "standing", "superseded", "reversing"}]
      BY <2>2, <3>1 DEF Save, StoresOK
    <3>3. saves' \in Nat /\ outbox' \subseteq LedgerRow
      <4>1. saves + 1 \in Nat
        BY DEF StoresOK
      <4>2. [id |-> saves + 1, of |-> j, status |-> "pending"] \in LedgerRow
        BY <4>1 DEF LedgerRow
      <4> QED
        BY <1>o, <2>2, <4>1, <4>2 DEF Save
    <3>4. node' = node
      BY <2>2 DEF Save
    <3> QED
      BY <2>1, <3>2, <3>3, <3>4 DEF StoresOK
  <2>3. ASSUME NEW j \in Judgements, Review(j) PROVE StoresOK'
    <3>1. node' \in [Judgements -> Node]
      <4>1. node' = [node EXCEPT ![j].rem = TRUE]
        BY <2>3 DEF Review
      <4>2. node' = [node EXCEPT ![j] = [node[j] EXCEPT !.rem = TRUE]]
        BY <4>1
      <4>3. [node[j] EXCEPT !.rem = TRUE] \in Node
        BY <1>n, NodeSet
      <4> QED
        BY <1>n, <4>2, <4>3
    <3>2. outbox' \subseteq LedgerRow
      <4>1. outbox' = {IF r.of = j /\ r.status = "applied"
                         THEN [r EXCEPT !.status = "rem_reviewed"] ELSE r : r \in outbox}
        BY <2>3 DEF Review
      <4> QED
        BY <1>o, <4>1, LedgerSet
    <3>3. doc' = doc /\ saves' = saves
      BY <2>3 DEF Review
    <3> QED
      BY <2>1, <3>1, <3>2, <3>3 DEF StoresOK, Node
  <2>4. ASSUME NEW r \in outbox, Apply(r) PROVE StoresOK'
    <3>1. node' \in [Judgements -> [there : BOOLEAN, superseded : BOOLEAN,
                                    rem : BOOLEAN, consolidated : BOOLEAN]]
      BY <2>4 DEF Apply, StoresOK
    <3>2. outbox' \subseteq LedgerRow
      BY <1>o, <2>4, LedgerSet DEF Apply
    <3> QED
      BY <2>1, <2>4, <3>1, <3>2 DEF Apply, StoresOK
  <2> QED
    BY <1>1, <2>2, <2>3, <2>4 DEF World
<1>2. CASE LineagePass
  <2>1. UNION {RefoldRows(i) : i \in Invalidated} \subseteq RefoldRow
    BY RefoldRowsAre
  <2> QED
    BY <1>2, <2>1, Retires DEF LineagePass, StoresOK
<1>3. CASE Clear
  <2>1. node' \in [Judgements -> Node]
    <3>1. PICK i \in daemon.todo :
            \/ node' = [j \in Judgements |-> IF j \in insights[i].of
                                               THEN [node[j] EXCEPT !.consolidated = FALSE]
                                               ELSE node[j]]
            \/ node' = node
      BY <1>3 DEF Clear
    <3> QED
      BY <1>n, <3>1, NodeSet
  <2>2. UNCHANGED <<doc, outbox, saves, insights, refold>>
    BY <1>3 DEF Clear
  <2> QED
    BY <2>1, <2>2 DEF StoresOK, Node
<1>4. CASE Reconcile
  <2>1. PICK i \in daemon.todo : node' = Consolidate(insights[i].of)
                                 /\ outbox' = outbox \ ConsolidatedRows(insights[i].of)
    BY <1>4 DEF Reconcile
  <2>2. node' \in [Judgements -> Node]
    BY <1>n, <2>1, ConsolidateType
  <2>3. outbox' \subseteq LedgerRow
    BY <1>o, <2>1
  <2>4. UNCHANGED <<doc, saves, insights, refold>>
    BY <1>4 DEF Reconcile
  <2> QED
    BY <2>2, <2>3, <2>4 DEF StoresOK, Node
<1>5. CASE Commit
  <2>1. outbox' \subseteq LedgerRow
    BY <1>o, <1>5, LedgerSet DEF Commit
  <2> QED
    BY <1>5, <2>1, Commits DEF Commit, StoresOK
<1>6. CASE SyncOk
  <2>1. node' \in [Judgements -> Node]
    BY <1>n, <1>6, ConsolidateType DEF SyncOk
  <2>2. outbox' \subseteq LedgerRow
    BY <1>o, <1>6 DEF SyncOk
  <2>3. UNCHANGED <<doc, saves, insights, refold>>
    BY <1>6 DEF SyncOk
  <2> QED
    BY <2>1, <2>2, <2>3 DEF StoresOK, Node
<1>7. CASE SyncFails \/ Die
  BY <1>7 DEF SyncFails, Die, StoresOK, stores
<1>8. CASE EndCycle
  <2>1. refold' \subseteq RefoldRow
    BY <1>o, <1>8, RefoldSet DEF EndCycle
  <2>2. UNCHANGED <<doc, node, outbox, saves, insights>>
    BY <1>8 DEF EndCycle
  <2> QED
    BY <2>1, <2>2 DEF StoresOK
<1>9. CASE Plan \/ Fails \/ UNCHANGED vars
  BY <1>9, PlanFrame, FailsFrame DEF vars, stores, StoresOK
<1> QED
  BY <1>1, <1>2, <1>3, <1>4, <1>5, <1>6, <1>7, <1>8, <1>9, NextCases

\* What the daemon keeps beside the stores is a set of judgements, under a boot.
LEMMA MemoryStep == MemoryOK /\ DaemonOK /\ [Next]_vars => MemoryOK'
<1> SUFFICES ASSUME MemoryOK, DaemonOK, [Next]_vars PROVE MemoryOK'
  OBVIOUS
<1>1. CASE World \/ Plan \/ LineagePass \/ Clear \/ Reconcile \/ Commit \/ EndCycle \/ UNCHANGED vars
  BY <1>1, WorldFrame, PlanFrame
  DEF LineagePass, Clear, Reconcile, Commit, EndCycle, vars, MemoryOK
<1>2. CASE SyncOk \/ SyncFails
  BY <1>2 DEF SyncOk, SyncFails, MemoryOK
<1>3. CASE Fails
  <2>1. daemon.cur.of \in SUBSET Judgements
    BY <1>3 DEF Fails, PaidInVain, Refused, LockLost, At, DaemonOK, Calling, Fold
  <2> QED
    BY <1>3, <2>1 DEF Fails, PaidInVain, Refused, LockLost, MemoryOK, Row, WithheldIfPaid
<1>4. CASE Die
  BY <1>4 DEF Die, MemoryOK
<1> QED
  BY <1>1, <1>2, <1>3, <1>4, NextCases

\* Every step leaves the daemon at one of its places, with what belongs there.
LEMMA DaemonStep == StoresOK /\ MemoryOK /\ DaemonOK /\ [Next]_vars => DaemonOK'
<1> SUFFICES ASSUME StoresOK, MemoryOK, DaemonOK, [Next]_vars PROVE DaemonOK'
  OBVIOUS
<1> USE DEF InSweep, Folding, Calling, At
<1>0. /\ Len(insights) \in Nat /\ insights \in [Ids -> Insight]
      /\ Ids \subseteq Nat /\ Active \subseteq Ids
  BY InsightsAre
<1>1. CASE World
  <2>1. UNCHANGED <<insights, daemon>>
    BY <1>1, WorldFrame
  <2> QED
    BY <2>1 DEF DaemonOK, Ids
<1>2. CASE LineagePass
  <2>1. Ids' = Ids /\ Invalidated \subseteq Ids
    BY <1>0, <1>2, Retires DEF Invalidated
  <2> HIDE DEF Invalidated
  <2>2. Invalidated \in SUBSET Things
    BY <2>1, <1>0 DEF Things
  <2>3. daemon' = [Idle EXCEPT !.pc = "clear", !.todo = Invalidated]
    BY <1>2 DEF LineagePass
  <2> QED
    BY <2>1, <2>2, <2>3 DEF DaemonOK, Idle
<1>3. CASE Clear
  BY <1>3 DEF Clear, DaemonOK, Ids
<1>4. CASE Reconcile
  BY <1>4 DEF Reconcile, DaemonOK, Ids
<1>5. CASE Commit
  <2>1. daemon.cur \in Fold /\ daemon.cur.of \subseteq Judgements
    BY <1>5 DEF Commit, DaemonOK, Fold
  <2>2. daemon' = [daemon EXCEPT !.pc = "sync", !.folded = @ \cup daemon.cur.of] /\ daemon.pc = "call"
    BY <1>5 DEF Commit
  <2>3. daemon.folded \cup daemon.cur.of \in SUBSET Judgements
    BY <2>1 DEF DaemonOK
  <2> QED
    BY <2>1, <2>2, <2>3 DEF DaemonOK
<1>6. CASE SyncOk \/ SyncFails
  <2>1. daemon' = [daemon EXCEPT !.pc = "fold", !.cur = None] /\ daemon.pc = "sync"
    BY <1>6 DEF SyncOk, SyncFails
  <2> QED
    BY <2>1 DEF DaemonOK
<1>7. CASE Fails
  <2>1. \/ daemon' = [daemon EXCEPT !.pc = "fold", !.cur = None] /\ daemon.pc = "call"
        \/ daemon' = Idle
    BY <1>7 DEF Fails, PaidInVain, Refused, LockLost
  <2>2. CASE daemon' = [daemon EXCEPT !.pc = "fold", !.cur = None] /\ daemon.pc = "call"
    BY <2>2 DEF DaemonOK
  <2>3. CASE daemon' = Idle
    BY <2>3 DEF DaemonOK, Idle
  <2> QED
    BY <2>1, <2>2, <2>3
<1>8. CASE EndCycle \/ Abort \/ Die
  <2>1. daemon' = Idle
    BY <1>8 DEF EndCycle, Abort, Die
  <2> QED
    BY <2>1 DEF DaemonOK, Idle
<1>9. CASE BeginCycle
  <2>1. daemon' = [Idle EXCEPT !.pc = "reconcile", !.todo = Stuck] /\ Ids' = Ids
    BY <1>9 DEF BeginCycle, stores, Ids
  <2>2. Stuck \subseteq Ids /\ Stuck \in SUBSET Things
    BY <1>0 DEF Stuck, Things
  <2> HIDE DEF Stuck
  <2> QED
    BY <2>1, <2>2 DEF DaemonOK, Idle
<1>10. CASE PlanRefolds
  <2>1. Refolds \subseteq SUBSET Judgements
    BY <1>0 DEF Refolds, Insight
  <2>2. Blocked \subseteq SUBSET Judgements /\ Unprocessed \subseteq Judgements
    BY DEF MemoryOK, Blocked, Unprocessed
  <2>3. daemon' = [daemon EXCEPT !.pc = "fold", !.ret = "walk", !.todo = Refolds,
                                 !.blocked = Blocked, !.unready = Unprocessed]
    BY <1>10 DEF PlanRefolds
  <2> HIDE DEF Refolds, Blocked, Unprocessed
  <2> QED
    BY <2>1, <2>2, <2>3 DEF DaemonOK, Things
<1>11. CASE BeginWalk
  BY <1>11 DEF BeginWalk, DaemonOK
<1>12. CASE Walk
  <2>1. PICK g \in daemon.ret :
          daemon' = [daemon EXCEPT
            !.ret = @ \ {g},
            !.todo = IF PassesInsightGate(UNION Components(g))
                       THEN @ \cup {S \in Components(g) : S \cap Decisions # {}} ELSE @]
    BY <1>12 DEF Walk
  <2>2. Components(g) \subseteq SUBSET Judgements
    BY DEF Components, Component
  <2>3. PICK more \in SUBSET SUBSET Judgements :
          daemon' = [daemon EXCEPT !.ret = @ \ {g}, !.todo = daemon.todo \cup more]
    <3>1. CASE PassesInsightGate(UNION Components(g))
      BY <2>1, <2>2, <3>1
    <3>2. CASE ~PassesInsightGate(UNION Components(g))
      <4>1. daemon.todo = daemon.todo \cup {}
        OBVIOUS
      <4> QED
        BY <2>1, <3>2, <4>1
    <3> QED
      BY <3>1, <3>2
  <2> QED
    BY <1>12, <2>3 DEF Walk, DaemonOK, Things
<1>13. CASE PlanFresh
  <2> DEFINE fresh == {S \in daemon.todo : ~Held(S) /\ ~DeadLettered(S) /\ Cardinality(S) >= 2}
  <2>1. /\ daemon' = [daemon EXCEPT !.pc = "fold", !.ret = "end", !.unready = Unprocessed,
                                    !.todo = fresh]
        /\ daemon.pc = "walk"
    BY <1>13 DEF PlanFresh
  <2>2. Unprocessed \subseteq Judgements /\ fresh \subseteq daemon.todo
    BY DEF Unprocessed
  <2> HIDE DEF fresh
  <2> QED
    BY <2>1, <2>2 DEF DaemonOK
<1>14. CASE SkipFold
  BY <1>14 DEF SkipFold, DaemonOK
<1>15. CASE BeginFold
  <2>1. PICK S \in daemon.todo :
          daemon' = [daemon EXCEPT !.pc = "call", !.todo = @ \ {S}, !.attempted = @ \cup {S},
            !.cur = [of |-> S, rows |-> OpenRows(S), told |-> Reversals(S), id |-> None]]
    BY <1>15 DEF BeginFold
  <2>2. S \in SUBSET Judgements /\ OpenRows(S) \in SUBSET Nat /\ Reversals(S) \in SUBSET Retros
    BY <1>15 DEF BeginFold, DaemonOK, OpenRows, Reversals, StoresOK, LedgerRow
  <2>3. [of |-> S, rows |-> OpenRows(S), told |-> Reversals(S), id |-> None] \in Fold
    BY <2>2 DEF Fold
  <2> QED
    BY <1>15, <2>1, <2>2, <2>3 DEF BeginFold, DaemonOK
<1>16. CASE UNCHANGED vars
  BY <1>16 DEF vars, DaemonOK, Ids
<1> QED
  BY <1>1, <1>2, <1>3, <1>4, <1>5, <1>6, <1>7, <1>8, <1>9, <1>10, <1>11, <1>12, <1>13, <1>14,
     <1>15, <1>16, NextCases DEF Plan

\* What each step does to what the daemon holds.
Remembers == /\ daemon'.blocked = daemon.blocked /\ daemon'.attempted = daemon.attempted
             /\ daemon'.folded = daemon.folded
LEMMA Places ==
    ASSUME DaemonOK
    PROVE  /\ LineagePass \/ Clear => daemon'.pc = "clear"
           /\ BeginCycle \/ Reconcile => daemon'.pc = "reconcile"
           /\ LockLost \/ EndCycle \/ Abort \/ Die => daemon'.pc = "idle"
           /\ PlanRefolds =>
                /\ daemon'.pc = "fold" /\ daemon'.ret = "walk" /\ daemon'.todo = Refolds
                /\ daemon'.blocked = Blocked
           /\ BeginWalk \/ Walk =>
                daemon.pc \in {"fold", "walk"} /\ daemon'.pc = "walk" /\ Remembers
           /\ PlanFresh =>
                /\ daemon.pc = "walk" /\ daemon'.pc = "fold" /\ daemon'.ret = "end" /\ Remembers
                /\ daemon'.todo =
                     {S \in daemon.todo : ~Held(S) /\ ~DeadLettered(S) /\ Cardinality(S) >= 2}
           /\ SkipFold =>
                /\ daemon.pc = "fold" /\ daemon'.pc = "fold" /\ daemon'.ret = daemon.ret /\ Remembers
                /\ daemon'.todo \subseteq daemon.todo
           /\ BeginFold => daemon'.pc = "call"
           /\ Commit =>
                /\ daemon.pc = "call" /\ daemon'.pc = "sync" /\ daemon'.cur = daemon.cur
                /\ daemon'.ret = daemon.ret /\ daemon'.todo = daemon.todo
                /\ daemon'.blocked = daemon.blocked /\ daemon'.attempted = daemon.attempted
                /\ daemon'.folded = daemon.folded \cup daemon.cur.of
           /\ SyncOk \/ SyncFails \/ PaidInVain \/ Refused =>
                /\ Calling /\ daemon'.pc = "fold" /\ Remembers
                /\ daemon'.ret = daemon.ret /\ daemon'.todo = daemon.todo
<1> USE DEF DaemonOK, Remembers, At, Calling
<1>1. LineagePass \/ Clear => daemon'.pc = "clear"
  BY DEF LineagePass, Clear, Idle
<1>2. BeginCycle \/ Reconcile => daemon'.pc = "reconcile"
  BY DEF BeginCycle, Reconcile, Idle
<1>3. LockLost \/ EndCycle \/ Abort \/ Die => daemon'.pc = "idle"
  BY DEF LockLost, EndCycle, Abort, Die, Idle
<1>4. PlanRefolds => /\ daemon'.pc = "fold" /\ daemon'.ret = "walk" /\ daemon'.todo = Refolds
                     /\ daemon'.blocked = Blocked
  BY DEF PlanRefolds
<1>5. BeginWalk => daemon.pc \in {"fold", "walk"} /\ daemon'.pc = "walk" /\ Remembers
  BY DEF BeginWalk
<1>6. Walk => daemon.pc \in {"fold", "walk"} /\ daemon'.pc = "walk" /\ Remembers
  BY DEF Walk
<1>7. PlanFresh =>
        /\ daemon.pc = "walk" /\ daemon'.pc = "fold" /\ daemon'.ret = "end" /\ Remembers
        /\ daemon'.todo =
             {S \in daemon.todo : ~Held(S) /\ ~DeadLettered(S) /\ Cardinality(S) >= 2}
  BY DEF PlanFresh
<1>8. SkipFold =>
        /\ daemon.pc = "fold" /\ daemon'.pc = "fold" /\ daemon'.ret = daemon.ret /\ Remembers
        /\ daemon'.todo \subseteq daemon.todo
  BY DEF SkipFold
<1>9. BeginFold => daemon'.pc = "call"
  BY DEF BeginFold
<1>10. Commit =>
         /\ daemon.pc = "call" /\ daemon'.pc = "sync" /\ daemon'.cur = daemon.cur
         /\ daemon'.ret = daemon.ret /\ daemon'.todo = daemon.todo
         /\ daemon'.blocked = daemon.blocked /\ daemon'.attempted = daemon.attempted
         /\ daemon'.folded = daemon.folded \cup daemon.cur.of
  BY DEF Commit
<1>11. SyncOk \/ SyncFails \/ PaidInVain \/ Refused =>
         /\ Calling /\ daemon' = [daemon EXCEPT !.pc = "fold", !.cur = None]
  BY DEF SyncOk, SyncFails, PaidInVain, Refused
<1>12. SyncOk \/ SyncFails \/ PaidInVain \/ Refused =>
         /\ Calling /\ daemon'.pc = "fold" /\ Remembers
         /\ daemon'.ret = daemon.ret /\ daemon'.todo = daemon.todo
  BY <1>11
<1> HIDE DEF DaemonOK, Remembers, At, Calling
<1> QED
  BY <1>1, <1>2, <1>3, <1>4, <1>5, <1>6, <1>7, <1>8, <1>9, <1>10, <1>12

\* The fold a call is for.
LEMMA Begins ==
    ASSUME DaemonOK, BeginFold
    PROVE  \E S \in daemon.todo :
             /\ MayFold(S) /\ daemon.pc = "fold" /\ daemon'.pc = "call"
             /\ daemon'.ret = daemon.ret /\ daemon'.todo = daemon.todo \ {S}
             /\ daemon'.blocked = daemon.blocked /\ daemon'.folded = daemon.folded
             /\ daemon'.attempted = daemon.attempted \cup {S}
             /\ daemon'.cur.of = S /\ daemon'.cur.told = Reversals(S)
<1>1. PICK S \in daemon.todo :
        /\ MayFold(S)
        /\ daemon' = [daemon EXCEPT !.pc = "call", !.todo = @ \ {S}, !.attempted = @ \cup {S},
              !.cur = [of |-> S, rows |-> OpenRows(S), told |-> Reversals(S), id |-> None]]
  BY DEF BeginFold
<1>2. daemon.pc = "fold"
  BY DEF BeginFold, At
<1> WITNESS S \in daemon.todo
<1> QED
  BY <1>1, <1>2 DEF DaemonOK

-----------------------------------------------------------------------------
(* The rows a fold consumes. *)

\* No step marks a row consolidated but the commit of a fold that read it.
LEMMA RowsWereReadStep == TypeOK /\ RowsWereRead /\ [Next]_vars => RowsWereRead'
<1> SUFFICES ASSUME StoresOK, MemoryOK, DaemonOK, RowsWereRead, [Next]_vars PROVE RowsWereRead'
  BY DEF TypeOK
<1> USE DEF At
<1>1. ASSUME UNCHANGED insights, daemon'.pc = "sync" => daemon' = daemon,
             \A r \in outbox' : r.status = "consolidated" => r \in outbox
      PROVE  RowsWereRead'
  BY <1>1 DEF RowsWereRead, Ids
<1>2. CASE World
  <2>1. UNCHANGED <<insights, daemon>>
    BY <1>2, WorldFrame
  <2>2. ASSUME NEW j \in Judgements, Save(j) \/ Review(j) PROVE RowsWereRead'
    <3>1. \A r \in outbox' : r.status = "consolidated" => r \in outbox
      BY <2>2 DEF Save, Review, StoresOK, LedgerRow
    <3> QED
      BY <1>1, <2>1, <3>1
  <2>3. ASSUME NEW r \in outbox, Apply(r) PROVE RowsWereRead'
    <3>1. \A s \in outbox' : s.status = "consolidated" => s \in outbox
      BY <2>3 DEF Apply, StoresOK, LedgerRow
    <3> QED
      BY <1>1, <2>1, <3>1
  <2> QED
    BY <1>2, <2>2, <2>3 DEF World
<1>3. CASE LineagePass
  <2>1. outbox' = outbox /\ daemon'.pc = "clear"
    BY <1>3 DEF LineagePass, Idle
  <2> QED
    BY <1>3, <2>1, Retires DEF RowsWereRead
<1>4. CASE Commit
  <2> DEFINE n == Len(insights) + 1
  <2>1. /\ n \in Ids' /\ Ids \subseteq Ids' /\ insights'[n].read = daemon.cur.rows
        /\ \A i \in Ids : insights'[i].read = insights[i].read
    BY <1>4, Commits
  <2>2. daemon'.cur = daemon.cur
    BY <1>4, Places
  <2>3. ASSUME NEW r \in outbox', r.status = "consolidated"
        PROVE  \E i \in Ids' : r.id \in insights'[i].read
    <3>1. PICK s \in outbox : r = IF Consumed(s) /\ s.status \in InLedger
                                    THEN [s EXCEPT !.status = "consolidated"] ELSE s
      BY <1>4 DEF Commit
    <3>2. CASE Consumed(s) /\ s.status \in InLedger
      BY <2>1, <3>1, <3>2 DEF Consumed, StoresOK, LedgerRow
    <3>3. CASE ~(Consumed(s) /\ s.status \in InLedger)
      BY <2>1, <2>3, <3>1, <3>3 DEF RowsWereRead
    <3> QED
      BY <3>2, <3>3
  <2> QED
    BY <2>1, <2>2, <2>3 DEF RowsWereRead
<1>5. CASE Plan
  <2>1. UNCHANGED <<outbox, insights>>
    BY <1>5, PlanFrame DEF stores
  <2>2. daemon'.pc # "sync"
    BY <1>5, Places DEF Plan
  <2> QED
    BY <1>1, <2>1, <2>2
<1>6. CASE Clear \/ Reconcile
  BY <1>1, <1>6, Places DEF Clear, Reconcile
<1>7. CASE SyncOk
  BY <1>1, <1>7, Places DEF SyncOk
<1>8. CASE SyncFails
  BY <1>1, <1>8, Places DEF SyncFails, stores
<1>9. CASE Fails
  <2>1. UNCHANGED <<outbox, insights>> /\ daemon'.pc # "sync"
    BY <1>9, Places, FailsFrame DEF Fails
  <2> QED
    BY <1>1, <2>1
<1>10. CASE EndCycle
  BY <1>1, <1>10, Places DEF EndCycle
<1>11. CASE Die
  BY <1>1, <1>11, Places DEF Die, stores
<1>12. CASE UNCHANGED vars
  BY <1>1, <1>12 DEF vars
<1> QED
  BY <1>2, <1>3, <1>4, <1>5, <1>6, <1>7, <1>8, <1>9, <1>10, <1>11, <1>12, NextCases

-----------------------------------------------------------------------------
(* What was paid for in vain. *)

\* A backlog row stays through whatever does not fold its set.
LEMMA BurnedIsKeptStep ==
    TypeOK /\ BurnedIsKept /\ BurnedIsKnown /\ [Next]_vars => BurnedIsKept'
<1> SUFFICES ASSUME StoresOK, MemoryOK, DaemonOK, BurnedIsKept, BurnedIsKnown, [Next]_vars
             PROVE  BurnedIsKept'
  BY DEF TypeOK
<1> USE DEF At
<1>1. CASE World \/ Plan \/ LineagePass \/ Clear \/ Reconcile \/ Commit \/ EndCycle \/ UNCHANGED vars
  <2>1. UNCHANGED <<backlog, boot, withheld, burned>>
    BY <1>1, WorldFrame, PlanFrame DEF LineagePass, Clear, Reconcile, Commit, EndCycle, vars
  <2> QED
    BY <2>1 DEF BurnedIsKept
<1>2. CASE SyncOk \/ SyncFails
  <2>1. UNCHANGED <<boot, withheld, burned>> /\ daemon.cur.of \notin burned
    BY <1>2 DEF SyncOk, SyncFails, BurnedIsKnown, Calling
  <2>2. {b \in backlog : b.key # daemon.cur.of} \subseteq backlog'
    BY <1>2 DEF SyncOk, SyncFails
  <2> QED
    BY <2>1, <2>2 DEF BurnedIsKept
<1>3. CASE PaidInVain \/ Refused
  <2> DEFINE S == daemon.cur.of
             others == {b \in backlog : b.key # S}
  <2>1. UNCHANGED boot
    BY <1>3 DEF PaidInVain, Refused
  <2>2. \/ backlog' = others \cup {[key |-> S, boot |-> boot]} /\ withheld' = withheld
           /\ burned' \subseteq burned \cup {S}
        \/ backlog' = backlog /\ withheld' = withheld \cup {S} /\ burned' = burned \cup {S}
        \/ UNCHANGED <<backlog, withheld, burned>>
    BY <1>3 DEF PaidInVain, Refused, Row, WithheldIfPaid
  <2> QED
    BY <2>1, <2>2 DEF BurnedIsKept
<1>4. CASE LockLost
  BY <1>4 DEF LockLost, WithheldIfPaid, BurnedIsKept
<1>5. CASE Die
  BY <1>5 DEF Die, BurnedIsKept
<1> QED
  BY <1>1, <1>2, <1>3, <1>4, <1>5, NextCases DEF Fails

\* A cycle reads the backlog once, and remembers what it tried since.
LEMMA BurnedIsKnownStep ==
    TypeOK /\ BurnedIsKept /\ BurnedIsKnown /\ [Next]_vars => BurnedIsKnown'
<1> SUFFICES ASSUME StoresOK, MemoryOK, DaemonOK, BurnedIsKept, BurnedIsKnown, [Next]_vars
             PROVE  BurnedIsKnown'
  BY DEF TypeOK
<1> USE DEF At, Folding, Calling
<1>1. CASE World \/ UNCHANGED vars
  <2>1. UNCHANGED <<withheld, burned, daemon>>
    BY <1>1, WorldFrame DEF vars
  <2> QED
    BY <2>1 DEF BurnedIsKnown
<1>2. CASE LineagePass \/ Clear \/ Reconcile \/ LockLost \/ EndCycle \/ Die \/ Abort \/ BeginCycle
  <2>1. daemon'.pc \in {"idle", "clear", "reconcile"}
    BY <1>2, Places
  <2> QED
    BY <2>1 DEF BurnedIsKnown
<1>3. CASE PlanRefolds
  <2>1. UNCHANGED <<withheld, burned>> /\ daemon'.pc = "fold" /\ daemon'.blocked = Blocked
    BY <1>3, Places DEF PlanRefolds
  <2>2. ASSUME NEW S \in burned, S \notin withheld PROVE S \in Blocked
    <3>1. [key |-> S, boot |-> boot] \in {x \in backlog : x.boot = boot}
      BY <2>2 DEF BurnedIsKept
    <3> QED
      BY <3>1 DEF Blocked
  <2> QED
    BY <2>1, <2>2 DEF BurnedIsKnown
<1>4. CASE BeginWalk \/ Walk \/ PlanFresh \/ SkipFold
  <2>1. UNCHANGED <<withheld, burned>> /\ daemon'.pc \in {"walk", "fold"} /\ Remembers
        /\ daemon.pc \in {"walk", "fold"}
    BY <1>4, Places, PlanFrame DEF Plan
  <2> QED
    BY <2>1 DEF BurnedIsKnown, Remembers
<1>5. CASE BeginFold
  <2>1. PICK S \in daemon.todo :
          /\ MayFold(S) /\ daemon.pc = "fold" /\ daemon'.cur.of = S
          /\ daemon'.blocked = daemon.blocked /\ daemon'.attempted = daemon.attempted \cup {S}
    BY <1>5, Begins
  <2>2. S \notin burned
    BY <2>1 DEF MayFold, DeadLettered, Tried, BurnedIsKnown
  <2>3. UNCHANGED <<withheld, burned>>
    BY <1>5, PlanFrame DEF Plan
  <2> QED
    BY <2>1, <2>2, <2>3 DEF BurnedIsKnown
<1>6. CASE Commit
  <2>1. UNCHANGED <<withheld, burned>>
    BY <1>6 DEF Commit
  <2> QED
    BY <1>6, <2>1, Places DEF BurnedIsKnown
<1>7. CASE SyncOk \/ SyncFails \/ PaidInVain \/ Refused
  <2>1. withheld \subseteq withheld' /\ burned' \subseteq burned \cup {daemon.cur.of}
    BY <1>7 DEF SyncOk, SyncFails, PaidInVain, Refused, WithheldIfPaid
  <2>2. Calling /\ daemon'.pc = "fold" /\ Remembers
    BY <1>7, Places
  <2> QED
    BY <2>1, <2>2 DEF BurnedIsKnown, Remembers
<1> QED
  BY <1>1, <1>2, <1>3, <1>4, <1>5, <1>6, <1>7, NextCases DEF Plan, Fails

-----------------------------------------------------------------------------
(* Insights beside one another. *)

LEMMA InsightsFrame == [Next]_vars => LineagePass \/ Commit \/ UNCHANGED insights
<1>1. CASE World \/ Plan \/ Fails
  BY <1>1, WorldFrame, PlanFrame, FailsFrame DEF stores
<1>2. CASE Clear \/ Reconcile \/ SyncOk \/ SyncFails \/ EndCycle \/ Die \/ UNCHANGED vars
  BY <1>2 DEF Clear, Reconcile, SyncOk, SyncFails, EndCycle, Die, stores, vars
<1> QED
  BY <1>1, <1>2, NextCases

\* A fold replaces what it covers, and what covers it is never folded into.
LEMMA NoneInsideStep ==
    TypeOK /\ NoneInsideAnother /\ RefoldsReplace /\ FreshIsFresh /\ [Next]_vars
        => NoneInsideAnother'
<1> SUFFICES ASSUME StoresOK, MemoryOK, DaemonOK, NoneInsideAnother, RefoldsReplace, FreshIsFresh,
                    [Next]_vars
             PROVE  NoneInsideAnother'
  BY DEF TypeOK
<1>0. Active \subseteq Ids
  BY DEF Active
<1>1. CASE UNCHANGED insights
  BY <1>1 DEF NoneInsideAnother, Active, Ids
<1>2. CASE LineagePass
  <2>1. Active' \subseteq Active /\ \A i \in Active : insights'[i].of = insights[i].of
    BY <1>0, <1>2, Retires
  <2> QED
    BY <2>1 DEF NoneInsideAnother
<1>3. CASE Commit
  <2> DEFINE n == Len(insights) + 1
             S == daemon.cur.of
  <2>1. /\ Active' = (Active \ Covered) \cup {n} /\ n \notin Active
        /\ insights'[n].of = S /\ \A i \in Active : insights'[i].of = insights[i].of
    BY <1>0, <1>3, Commits
  <2>2. \A i \in Active \ Covered : ~(insights[i].of \subseteq S)
    BY DEF Covered
  <2>3. ASSUME NEW i \in Active \ Covered PROVE ~(S \subseteq insights[i].of)
    <3>1. Folding /\ At("call") /\ daemon.ret \in {"walk", "end"}
      BY <1>3 DEF Commit, Folding, At, DaemonOK
    <3>2. CASE daemon.ret = "walk"
      <4>1. PICK k \in Active : insights[k].of = S
        BY <3>1, <3>2 DEF RefoldsReplace
      <4> QED
        BY <2>2, <4>1 DEF NoneInsideAnother
    <3>3. CASE daemon.ret = "end"
      BY <3>1, <3>3 DEF FreshIsFresh
    <3> QED
      BY <3>1, <3>2, <3>3
  <2> QED
    BY <2>1, <2>2, <2>3 DEF NoneInsideAnother
<1> QED
  BY <1>1, <1>2, <1>3, InsightsFrame

\* A refold keeps the sets that are active: it covers the one it was planned for.
LEMMA RefoldsReplaceStep ==
    TypeOK /\ NoneInsideAnother /\ RefoldsReplace /\ [Next]_vars => RefoldsReplace'
<1> SUFFICES ASSUME StoresOK, MemoryOK, DaemonOK, NoneInsideAnother, RefoldsReplace, [Next]_vars
             PROVE  RefoldsReplace'
  BY DEF TypeOK
<1> USE DEF Folding, At
<1>0. Active \subseteq Ids
  BY DEF Active
<1>1. CASE UNCHANGED <<insights, daemon>>
  BY <1>1 DEF RefoldsReplace, Active, Ids
<1>2. CASE LineagePass \/ Clear \/ Reconcile \/ LockLost \/ EndCycle \/ Die \/ Abort \/ BeginCycle
           \/ BeginWalk \/ Walk \/ PlanFresh
  <2>1. daemon'.pc \in {"idle", "clear", "reconcile", "walk"} \/ daemon'.ret = "end"
    BY <1>2, Places
  <2> QED
    BY <2>1 DEF RefoldsReplace
<1>3. CASE PlanRefolds
  <2>1. daemon'.pc = "fold" /\ daemon'.todo = Refolds
    BY <1>3, Places
  <2>2. Active' = Active /\ UNCHANGED insights
    BY <1>3, PlanFrame DEF Plan, stores, Active, Ids
  <2>3. \A S \in Refolds : \E i \in Active : insights[i].of = S
    BY DEF Refolds
  <2> QED
    BY <2>1, <2>2, <2>3 DEF RefoldsReplace
<1>4. CASE SkipFold \/ SyncOk \/ SyncFails \/ PaidInVain \/ Refused
  <2>1. /\ Folding /\ daemon'.pc = "fold" /\ daemon'.ret = daemon.ret
        /\ daemon'.todo \subseteq daemon.todo
    BY <1>4, Places DEF Calling
  <2>2. Active' = Active /\ UNCHANGED insights
    BY <1>4, PlanFrame DEF Plan, SyncOk, SyncFails, PaidInVain, Refused, stores, Active, Ids
  <2> QED
    BY <2>1, <2>2 DEF RefoldsReplace
<1>5. CASE BeginFold
  <2>1. PICK S \in daemon.todo :
          /\ daemon.pc = "fold" /\ daemon'.pc = "call" /\ daemon'.ret = daemon.ret
          /\ daemon'.todo = daemon.todo \ {S} /\ daemon'.cur.of = S
    BY <1>5, Begins
  <2>2. Active' = Active /\ UNCHANGED insights
    BY <1>5, PlanFrame DEF Plan, stores, Active, Ids
  <2> QED
    BY <2>1, <2>2 DEF RefoldsReplace
<1>6. CASE Commit
  <2> SUFFICES ASSUME daemon.ret = "walk", NEW S \in daemon.todo
               PROVE  \E i \in Active' : insights'[i].of = S
    BY <1>6, Places DEF RefoldsReplace
  <2> DEFINE n == Len(insights) + 1
  <2>1. /\ Active' = (Active \ Covered) \cup {n}
        /\ insights'[n].of = daemon.cur.of /\ \A i \in Active : insights'[i].of = insights[i].of
    BY <1>0, <1>6, Commits
  <2>2. daemon.pc = "call"
    BY <1>6, Places
  <2>3. PICK i \in Active : insights[i].of = S
    BY <2>2 DEF RefoldsReplace
  <2>4. PICK k \in Active : insights[k].of = daemon.cur.of
    BY <2>2 DEF RefoldsReplace
  <2>5. CASE i \in Covered
    <3>1. i = k
      BY <2>4, <2>5 DEF Covered, NoneInsideAnother
    <3> QED
      BY <2>1, <2>3, <2>4, <3>1
  <2>6. CASE i \notin Covered
    BY <2>1, <2>3, <2>6
  <2> QED
    BY <2>5, <2>6
<1>7. CASE World \/ UNCHANGED vars
  BY <1>1, <1>7, WorldFrame DEF vars
<1> QED
  BY <1>2, <1>3, <1>4, <1>5, <1>6, <1>7, NextCases DEF Plan, Fails

\* Two judgements are more than none.
LEMMA FreshIsSomething == ASSUME NEW S, Cardinality(S) >= 2 PROVE S # {}
  BY FS_EmptySet

\* What a pass adds to the active insights is what it has folded.
LEMMA FreshIsFreshStep == TypeOK /\ FreshIsFresh /\ [Next]_vars => FreshIsFresh'
<1> SUFFICES ASSUME StoresOK, MemoryOK, DaemonOK, FreshIsFresh, [Next]_vars PROVE FreshIsFresh'
  BY DEF TypeOK
<1> USE DEF Folding, At
<1>0. Active \subseteq Ids
  BY DEF Active
<1>1. CASE UNCHANGED <<insights, daemon>>
  BY <1>1 DEF FreshIsFresh, Active, Ids
<1>2. CASE LineagePass \/ Clear \/ Reconcile \/ LockLost \/ EndCycle \/ Die \/ Abort \/ BeginCycle
           \/ BeginWalk \/ Walk \/ PlanRefolds
  <2>1. daemon'.pc \in {"idle", "clear", "reconcile", "walk"} \/ daemon'.ret = "walk"
    BY <1>2, Places
  <2> QED
    BY <2>1 DEF FreshIsFresh
<1>3. CASE PlanFresh
  <2>1. Active' = Active /\ UNCHANGED insights
    BY <1>3, PlanFrame DEF Plan, stores, Active, Ids
  <2>2. /\ daemon'.pc = "fold"
        /\ daemon'.todo = {S \in daemon.todo : ~Held(S) /\ ~DeadLettered(S) /\ Cardinality(S) >= 2}
    BY <1>3, Places
  <2>3. ASSUME NEW S \in daemon'.todo
        PROVE  S # {} /\ \A i \in Active : ~(S \subseteq insights[i].of)
    BY <2>2, FreshIsSomething DEF Held
  <2> QED
    BY <2>1, <2>2, <2>3 DEF FreshIsFresh
<1>4. CASE SkipFold \/ SyncOk \/ SyncFails \/ PaidInVain \/ Refused
  <2>1. /\ Folding /\ daemon'.pc = "fold" /\ daemon'.ret = daemon.ret
        /\ daemon'.todo \subseteq daemon.todo /\ daemon'.folded = daemon.folded
    BY <1>4, Places DEF Calling, Remembers
  <2>2. Active' = Active /\ UNCHANGED insights
    BY <1>4, PlanFrame DEF Plan, SyncOk, SyncFails, PaidInVain, Refused, stores, Active, Ids
  <2> QED
    BY <2>1, <2>2 DEF FreshIsFresh
<1>5. CASE BeginFold
  <2>1. PICK S \in daemon.todo :
          /\ MayFold(S) /\ daemon.pc = "fold" /\ daemon'.pc = "call" /\ daemon'.ret = daemon.ret
          /\ daemon'.todo = daemon.todo \ {S} /\ daemon'.folded = daemon.folded
          /\ daemon'.cur.of = S
    BY <1>5, Begins
  <2>2. Active' = Active /\ UNCHANGED insights
    BY <1>5, PlanFrame DEF Plan, stores, Active, Ids
  <2>3. daemon.ret = "end" => \A i \in Active : ~(S \subseteq insights[i].of)
    BY <2>1 DEF FreshIsFresh, MayFold, Tried
  <2> QED
    BY <2>1, <2>2, <2>3 DEF FreshIsFresh
<1>6. CASE Commit
  <2> DEFINE n == Len(insights) + 1
  <2>1. /\ Active' = (Active \ Covered) \cup {n}
        /\ insights'[n].of = daemon.cur.of /\ \A i \in Active : insights'[i].of = insights[i].of
    BY <1>0, <1>6, Commits
  <2>2. /\ daemon.pc = "call" /\ daemon'.pc = "sync" /\ daemon'.ret = daemon.ret
        /\ daemon'.todo = daemon.todo /\ daemon'.folded = daemon.folded \cup daemon.cur.of
    BY <1>6, Places
  <2> QED
    BY <2>1, <2>2 DEF FreshIsFresh
<1>7. CASE World \/ UNCHANGED vars
  BY <1>1, <1>7, WorldFrame DEF vars
<1> QED
  BY <1>2, <1>3, <1>4, <1>5, <1>6, <1>7, NextCases DEF Plan, Fails

-----------------------------------------------------------------------------
(* Reversals and the rows that record them. *)

\* A decision that was reversed stays so, and so does the verdict.
LEMMA ReversalsStay ==
    ASSUME StoresOK, [Next]_vars
    PROVE  /\ \A d \in Judgements : doc[d] = "superseded" => doc'[d] = "superseded"
           /\ \A v \in Judgements : doc[v] = "reversing" => doc'[v] = "reversing"
<1>1. CASE UNCHANGED doc
  BY <1>1
<1>2. ASSUME NEW j \in Judgements, Save(j)
      PROVE  /\ \A d \in Judgements : doc[d] = "superseded" => doc'[d] = "superseded"
             /\ \A v \in Judgements : doc[v] = "reversing" => doc'[v] = "reversing"
  BY <1>2, JudgementsAssumption DEF Save, StoresOK, Judgements
<1>3. CASE ~\E j \in Judgements : Save(j)
  <2>1. World => UNCHANGED doc
    BY <1>3 DEF World, Review, Apply
  <2>2. Plan \/ Fails => UNCHANGED doc
    BY PlanFrame, FailsFrame DEF stores
  <2> QED
    BY <1>1, <2>1, <2>2, NextCases
    DEF LineagePass, Clear, Reconcile, Commit, SyncOk, SyncFails, EndCycle, Die, stores, vars
<1> QED
  BY <1>2, <1>3

\* The verdict that reverses a decision supersedes it in one transaction.
LEMMA ReversedByOneStep == StoresOK /\ ReversedByOne /\ [Next]_vars => ReversedByOne'
<1> SUFFICES ASSUME StoresOK, ReversedByOne, [Next]_vars,
                    NEW d \in Judgements, doc'[d] = "superseded"
             PROVE  \E v \in Retros : doc'[v] = "reversing" /\ Target[v] = d
  BY DEF ReversedByOne
<1>0. Retros \subseteq Judgements
  BY DEF Judgements
<1>1. CASE doc[d] = "superseded"
  BY <1>0, <1>1, ReversalsStay DEF ReversedByOne
<1>2. CASE doc[d] # "superseded"
  <2>1. PICK j \in Judgements : Save(j)
    <3>1. (World /\ ~\E j \in Judgements : Save(j)) => UNCHANGED doc
      BY DEF World, Review, Apply
    <3>2. Plan \/ Fails => UNCHANGED doc
      BY PlanFrame, FailsFrame DEF stores
    <3> QED
      BY <1>2, <3>1, <3>2, NextCases
      DEF LineagePass, Clear, Reconcile, Commit, SyncOk, SyncFails, EndCycle, Die, stores, vars
  <2>2. /\ j \in Retros /\ doc[Target[j]] = "standing" /\ doc[j] = "absent" /\ d = Target[j]
        /\ doc' = [doc EXCEPT ![j] = "reversing", ![Target[j]] = "superseded"]
    BY <1>2, <2>1, JudgementsAssumption DEF Save, StoresOK, Judgements
  <2>3. doc'[j] = "reversing"
    BY <2>1, <2>2, JudgementsAssumption DEF StoresOK, Judgements
  <2> QED
    BY <2>2, <2>3
<1> QED
  BY <1>1, <1>2

LEMMA RefoldFrame == [Next]_vars => LineagePass \/ EndCycle \/ UNCHANGED refold
<1>1. CASE World \/ Plan \/ Fails
  BY <1>1, WorldFrame, PlanFrame, FailsFrame DEF stores
<1>2. CASE Clear \/ Reconcile \/ Commit \/ SyncOk \/ SyncFails \/ Die \/ UNCHANGED vars
  BY <1>2 DEF Clear, Reconcile, Commit, SyncOk, SyncFails, Die, stores, vars
<1> QED
  BY <1>1, <1>2, NextCases

\* The close of a cycle moves each row on its own.
Closed(r) ==
    IF r.status = "open" /\ Refolded(r) THEN [r EXCEPT !.status = "refolded"]
    ELSE IF r.status = "open" /\ doc[r.of] = "superseded" THEN [r EXCEPT !.status = "dropped"]
    ELSE r
LEMMA Closes ==
    ASSUME StoresOK, NEW r \in refold
    PROVE  /\ Closed(r).of = r.of /\ Closed(r).from = r.from /\ Closed(r).trigger = r.trigger
           /\ Closed(r).older = r.older /\ Closed(r).status \in {r.status, "refolded", "dropped"}
           /\ Closed(r).status = "refolded" =>
                r.status = "refolded" \/ (r.status = "open" /\ Refolded(r))
           /\ Closed(r).status = r.status => Closed(r) = r
<1>1. r \in RefoldRow
  BY DEF StoresOK
<1> QED
  BY <1>1 DEF Closed, RefoldRow

\* An insight is retired once: its rows are written once.
LEMMA RowsAreDistinctStep == TypeOK /\ RowsAreDistinct /\ [Next]_vars => RowsAreDistinct'
<1> SUFFICES ASSUME StoresOK, MemoryOK, DaemonOK, RowsAreDistinct, [Next]_vars PROVE RowsAreDistinct'
  BY DEF TypeOK
<1>0. Active \subseteq Ids
  BY DEF Active
<1>1. CASE LineagePass
  <2>1. refold' = refold \cup UNION {RefoldRows(i) : i \in Invalidated}
    BY <1>1 DEF LineagePass
  <2>2. Ids' = Ids /\ Active' = Active \ Invalidated
    BY <1>1, Retires
  <2>3. ASSUME NEW r \in refold', r \notin refold
        PROVE  /\ r.from \in Invalidated /\ r.from \in Active
               /\ r = [of |-> r.of, from |-> r.from, trigger |-> r.trigger, status |-> "open",
                       older |-> Active \ Invalidated]
    <3>1. PICK i \in Invalidated : r \in RefoldRows(i)
      BY <2>1, <2>3
    <3> QED
      BY <3>1, RefoldRowsAre
  <2>4. \A r \in refold' : r.from \in Ids' \ Active'
    BY <1>0, <2>2, <2>3 DEF RowsAreDistinct
  <2>5. ASSUME NEW r \in refold', NEW s \in refold',
               r.of = s.of, r.from = s.from, r.trigger = s.trigger
        PROVE  r = s
    <3>1. CASE r \in refold /\ s \in refold
      BY <2>5, <3>1 DEF RowsAreDistinct
    <3>2. CASE r \notin refold /\ s \notin refold
      BY <2>3, <2>5, <3>2
    <3>3. CASE r \in refold /\ s \notin refold
      BY <2>3, <2>5, <3>3 DEF RowsAreDistinct
    <3>4. CASE r \notin refold /\ s \in refold
      BY <2>3, <2>5, <3>4 DEF RowsAreDistinct
    <3> QED
      BY <3>1, <3>2, <3>3, <3>4
  <2> QED
    BY <2>4, <2>5 DEF RowsAreDistinct
<1>2. CASE EndCycle
  <2>1. refold' = {Closed(r) : r \in refold}
    BY <1>2 DEF EndCycle, Closed
  <2>2. Ids' = Ids /\ Active' = Active
    BY <1>2 DEF EndCycle, Ids, Active
  <2> QED
    BY <2>1, <2>2, Closes DEF RowsAreDistinct
<1>3. CASE Commit
  <2>1. /\ Ids \subseteq Ids' /\ Active' \subseteq Active \cup {Len(insights) + 1}
        /\ Len(insights) + 1 \notin Ids /\ refold' = refold
    BY <1>3, Commits DEF Commit
  <2> QED
    BY <2>1 DEF RowsAreDistinct
<1>4. CASE UNCHANGED <<refold, insights>>
  BY <1>4 DEF RowsAreDistinct, Ids, Active
<1> QED
  BY <1>1, <1>2, <1>3, <1>4, RefoldFrame, InsightsFrame

\* A fold tells the reversals of the open rows it is written over, read before
\* the call; rows are opened only when no fold is under way.
LEMMA OpenRowsAreToldStep ==
    TypeOK /\ ReversedByOne /\ OpenRowsAreTold /\ [Next]_vars => OpenRowsAreTold'
<1> SUFFICES ASSUME StoresOK, MemoryOK, DaemonOK, ReversedByOne, OpenRowsAreTold, [Next]_vars
             PROVE  OpenRowsAreTold'
  BY DEF TypeOK
<1> USE DEF At, Tells
<1>0. Active \subseteq Ids /\ \A r \in refold : r.trigger \in Judgements
  BY DEF Active, StoresOK, RefoldRow
<1>1. \A r \in refold : doc[r.trigger] = "superseded" => doc'[r.trigger] = "superseded"
  BY <1>0, ReversalsStay
<1>2. CASE LineagePass
  <2>1. /\ Ids' = Ids /\ Active' = Active \ Invalidated
        /\ \A i \in Active : insights'[i].of = insights[i].of /\ insights'[i].told = insights[i].told
    BY <1>0, <1>2, Retires
  <2>2. daemon'.pc = "clear" /\ UNCHANGED doc
    BY <1>2, Places DEF LineagePass
  <2>3. ASSUME NEW r \in refold', r \notin refold
        PROVE  doc[r.trigger] = "superseded" /\ r.older = Active \ Invalidated
    <3>1. PICK i \in Invalidated : r \in RefoldRows(i)
      BY <1>2, <2>3 DEF LineagePass
    <3> QED
      BY <3>1, RefoldRowsAre
  <2>4. ASSUME NEW r \in refold, r.status = "open"
        PROVE  /\ doc'[r.trigger] = "superseded"
               /\ \A i \in Active' \ r.older : r.of \in insights'[i].of => Tells(insights'[i].told, r)
    BY <2>1, <2>2, <2>4 DEF OpenRowsAreTold
  <2> QED
    BY <2>1, <2>2, <2>3, <2>4 DEF OpenRowsAreTold
<1>3. CASE EndCycle
  <2>1. refold' = {Closed(r) : r \in refold}
    BY <1>3 DEF EndCycle, Closed
  <2>2. \A r \in refold' : r.status = "open" => r \in refold
    BY <2>1, Closes
  <2>3. daemon'.pc = "idle" /\ UNCHANGED <<doc, insights>>
    BY <1>3, Places DEF EndCycle
  <2> QED
    BY <2>2, <2>3 DEF OpenRowsAreTold, Active, Ids
<1>4. CASE Commit
  <2> DEFINE n == Len(insights) + 1
  <2>1. /\ Active' = (Active \ Covered) \cup {n}
        /\ insights'[n].of = daemon.cur.of /\ insights'[n].told = daemon.cur.told
        /\ \A i \in Active : insights'[i].of = insights[i].of /\ insights'[i].told = insights[i].told
    BY <1>0, <1>4, Commits
  <2>2. daemon.pc = "call" /\ daemon'.pc = "sync" /\ UNCHANGED <<doc, refold>>
    BY <1>4, Places DEF Commit
  <2> QED
    BY <2>1, <2>2 DEF OpenRowsAreTold
<1>5. CASE BeginFold
  <2>1. PICK S \in daemon.todo : daemon'.cur.of = S /\ daemon'.cur.told = Reversals(S)
    BY <1>5, Begins
  <2>2. UNCHANGED <<doc, refold, insights>>
    BY <1>5, PlanFrame DEF Plan, stores
  <2>3. ASSUME NEW r \in refold, r.status = "open", r.of \in S PROVE Tells(Reversals(S), r)
    <3>1. doc[r.trigger] = "superseded" /\ r.trigger \in Judgements
      BY <1>0, <2>3 DEF OpenRowsAreTold
    <3>2. PICK v \in Retros : doc[v] = "reversing" /\ Target[v] = r.trigger
      BY <3>1 DEF ReversedByOne
    <3>3. r.trigger \in Triggers(S)
      BY <2>3 DEF Triggers
    <3>4. v \in Reversals(S)
      BY <3>2, <3>3 DEF Reversals
    <3> QED
      BY <3>2, <3>4
  <2> QED
    BY <2>1, <2>2, <2>3 DEF OpenRowsAreTold, Active, Ids
<1>6. CASE UNCHANGED <<refold, insights>> /\ (daemon'.pc = "call" => daemon' = daemon)
  BY <1>1, <1>6 DEF OpenRowsAreTold, Active, Ids
<1>7. CASE World \/ UNCHANGED vars
  BY <1>6, <1>7, WorldFrame DEF vars
<1>8. CASE Plan /\ ~BeginFold
  BY <1>6, <1>8, PlanFrame, Places DEF Plan, stores
<1>9. CASE Clear \/ Reconcile \/ SyncOk \/ SyncFails \/ Fails \/ Die
  BY <1>6, <1>9, InsightsFrame, RefoldFrame, FailsFrame, Places
  DEF Clear, Reconcile, SyncOk, SyncFails, Fails, Die, stores
<1> QED
  BY <1>2, <1>3, <1>4, <1>5, <1>7, <1>8, <1>9, NextCases

-----------------------------------------------------------------------------
(* The theorems. *)

LEMMA InitInv == Init => InsightInv
<1> SUFFICES ASSUME Init PROVE InsightInv
  OBVIOUS
<1> USE DEF Init
<1>1. StoresOK
  BY DEF StoresOK, Judgements
<1>2. MemoryOK
  BY DEF MemoryOK
<1>3. DaemonOK
  BY DEF DaemonOK, Idle, InSweep, At, Folding, Calling
<1>4. Ids = {} /\ Active = {}
  BY DEF Ids, Active
<1>5. RowsWereRead /\ BurnedIsKept /\ BurnedIsKnown /\ NoneInsideAnother
  BY <1>4 DEF RowsWereRead, BurnedIsKept, BurnedIsKnown, NoneInsideAnother, Idle, At, Folding, Calling
<1>6. RefoldsReplace /\ FreshIsFresh
  BY DEF RefoldsReplace, FreshIsFresh, Idle, Folding
<1>7. ReversedByOne /\ RowsAreDistinct /\ OpenRowsAreTold
  BY DEF ReversedByOne, RowsAreDistinct, OpenRowsAreTold
<1> QED
  BY <1>1, <1>2, <1>3, <1>5, <1>6, <1>7 DEF InsightInv, TypeOK

\* The types of the judgement side, and what its properties rest on, hold at
\* every step of the daemon, the gateway and REM.
THEOREM InsightInductive == Spec => []InsightInv
<1>1. InsightInv /\ [Next]_vars => InsightInv'
  BY StoresStep, MemoryStep, DaemonStep, RowsWereReadStep, BurnedIsKeptStep, BurnedIsKnownStep,
     NoneInsideStep, RefoldsReplaceStep, FreshIsFreshStep, ReversedByOneStep, RowsAreDistinctStep,
     OpenRowsAreToldStep
  DEF InsightInv, TypeOK
<1> QED
  BY InitInv, <1>1, PTL DEF Spec

\* An active insight whose set another active one contains would be a duplicate
\* that no later fold retires: coverage retires it, and a set that is held is
\* not folded, however the graph changes between the plan and the commit.
THEOREM InsightsStandApart == Spec => []NoneInsideAnother
<1>1. InsightInv => NoneInsideAnother
  BY DEF InsightInv
<1> QED
  BY InsightInductive, <1>1, PTL

\* The process that paid for a fold and got nothing usable does not pay for it
\* again: the backlog or its own memory holds the set back.
THEOREM PaidOnceByAProcess == Spec => []PaidFoldOnce
<1>1. InsightInv => PaidFoldOnce
  BY DEF InsightInv, BurnedIsKnown, PaidFoldOnce, Calling, At
<1> QED
  BY InsightInductive, <1>1, PTL

\* A row that leaves the ledger was read by an insight.
LEMMA RowsLeaveRead ==
    ASSUME StoresOK, RowsWereRead, [Next]_vars,
           NEW r \in outbox, ~\E s \in outbox' : s.id = r.id
    PROVE  \E i \in DOMAIN insights' : r.id \in insights'[i].read
<1> USE DEF At
<1>0. r \in LedgerRow /\ outbox \subseteq LedgerRow
  BY DEF StoresOK
<1>1. /\ insights \in [Ids -> Insight] /\ DOMAIN insights = Ids
  BY InsightsAre
<1>2. (Reconcile /\ r.status = "consolidated")
        \/ (SyncOk /\ r.id \in daemon.cur.rows)
  <2>1. UNCHANGED outbox => FALSE
    OBVIOUS
  <2>2. World => FALSE
    <3>1. ASSUME NEW j \in Judgements, Save(j) \/ Review(j) PROVE FALSE
      <4>1. Save(j) => r \in outbox'
        BY DEF Save
      <4>2. CASE Review(j)
        <5>1. (IF r.of = j /\ r.status = "applied"
                 THEN [r EXCEPT !.status = "rem_reviewed"] ELSE r) \in outbox'
          BY <4>2 DEF Review
        <5> QED
          BY <1>0, <5>1 DEF LedgerRow
      <4> QED
        BY <3>1, <4>1, <4>2
    <3>2. ASSUME NEW q \in outbox, Apply(q) PROVE FALSE
      <4>1. r = q => [q EXCEPT !.status = "applied"] \in outbox'
        BY <3>2 DEF Apply
      <4>2. r # q => r \in outbox'
        BY <3>2 DEF Apply
      <4> QED
        BY <1>0, <4>1, <4>2 DEF LedgerRow
    <3> QED
      BY <3>1, <3>2 DEF World
  <2>3. Commit => FALSE
    <3>1. Commit => (IF Consumed(r) /\ r.status \in InLedger
                       THEN [r EXCEPT !.status = "consolidated"] ELSE r) \in outbox'
      BY DEF Commit
    <3> QED
      BY <1>0, <3>1 DEF LedgerRow
  <2>4. Plan \/ Fails => FALSE
    BY <2>1, PlanFrame, FailsFrame DEF stores
  <2>5. LineagePass \/ Clear \/ SyncFails \/ EndCycle \/ Die \/ UNCHANGED vars => FALSE
    BY <2>1 DEF LineagePass, Clear, SyncFails, EndCycle, Die, stores, vars
  <2>6. Reconcile => r.status = "consolidated"
    BY DEF Reconcile, ConsolidatedRows
  <2>7. SyncOk => r.id \in daemon.cur.rows
    BY DEF SyncOk
  <2> QED
    BY <2>2, <2>3, <2>4, <2>5, <2>6, <2>7, NextCases
<1>3. PICK i \in Ids : r.id \in insights[i].read
  BY <1>2 DEF RowsWereRead, SyncOk
<1>4. UNCHANGED insights
  BY <1>2 DEF Reconcile, SyncOk
<1> QED
  BY <1>1, <1>3, <1>4

\* A ledger row leaves only after an insight that read it was committed; a
\* verdict that arrives during the call keeps its row.
THEOREM VerdictsAreRead == Spec => UnreadRowStays
<1>1. ASSUME InsightInv, [Next]_vars
      PROVE  [\A r \in outbox : (\E s \in outbox' : s.id = r.id)
                 \/ \E i \in DOMAIN insights' : r.id \in insights'[i].read]_vars
  BY <1>1, RowsLeaveRead DEF InsightInv, TypeOK
<1> QED
  BY InsightInductive, <1>1, PTL DEF Spec, UnreadRowStays

\* A row that is closed as refolded has an insight that tells its reversal.
LEMMA ClosedRowsAreTold ==
    ASSUME StoresOK, RowsAreDistinct, OpenRowsAreTold, [Next]_vars,
           NEW r \in refold, r.status = "open",
           [r EXCEPT !.status = "refolded"] \in refold', r \notin refold'
    PROVE  \E i \in Active \ r.older :
              /\ r.of \in insights[i].of
              /\ \E v \in insights[i].told : Target[v] = r.trigger
<1>1. EndCycle
  BY RefoldFrame DEF LineagePass
<1>2. refold' = {Closed(s) : s \in refold}
  BY <1>1 DEF EndCycle, Closed
<1>3. PICK s \in refold : [r EXCEPT !.status = "refolded"] = Closed(s)
  BY <1>2
<1>4. /\ [r EXCEPT !.status = "refolded"].of = r.of
      /\ [r EXCEPT !.status = "refolded"].from = r.from
      /\ [r EXCEPT !.status = "refolded"].trigger = r.trigger
      /\ [r EXCEPT !.status = "refolded"].status = "refolded"
  BY DEF StoresOK, RefoldRow
<1>5. s = r
  <2>1. Closed(s).of = s.of /\ Closed(s).from = s.from /\ Closed(s).trigger = s.trigger
    BY Closes
  <2>2. s.of = r.of /\ s.from = r.from /\ s.trigger = r.trigger
    BY <1>3, <1>4, <2>1
  <2> QED
    BY <2>2 DEF RowsAreDistinct
<1>6. Refolded(r)
  BY <1>3, <1>4, <1>5, Closes
<1> QED
  BY <1>6 DEF Refolded, OpenRowsAreTold, Tells

\* A refold row is closed as refolded only by an insight, younger than the row,
\* that was asked to tell the reversal the row is about.
THEOREM ReversalsAreTold == Spec => ReversalIsTold
<1>1. ASSUME InsightInv, [Next]_vars
      PROVE  [\A r \in refold :
                (r.status = "open" /\ [r EXCEPT !.status = "refolded"] \in refold'
                                  /\ r \notin refold') =>
                    \E i \in Active \ r.older :
                       /\ r.of \in insights[i].of
                       /\ \E v \in insights[i].told : Target[v] = r.trigger]_vars
  BY <1>1, ClosedRowsAreTold DEF InsightInv, TypeOK
<1> QED
  BY InsightInductive, <1>1, PTL DEF Spec, ReversalIsTold

=============================================================================
