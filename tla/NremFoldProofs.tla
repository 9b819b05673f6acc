---------------------------- MODULE NremFoldProofs ---------------------------
(***************************************************************************)
(* Proofs about the fact side of the NREM daemon, for any facts, groups,   *)
(* insights and bounds: a group's summaries form one chain, the ledger     *)
(* says what the graph lacks and a whole fold leaves no row behind, and an *)
(* insight that follows a summary to its successor keeps its support.      *)
(***************************************************************************)
EXTENDS NremFold, FiniteSetTheorems, TLAPS

Text == UNION {[F -> Nat] : F \in SUBSET Facts}
Summary == [sec : Sections, src : Text, state : {"active", "lineage"},
            by : Nat \cup {None}, owed : BOOLEAN]
LedgerRow == [fact : Facts, n : Nat, status : {"applied", "rem_reviewed", "consolidated"}]
RefoldRow == [fact : Facts, sum : Nat, trigger : Facts, older : SUBSET Nat,
              status : {"open", "refolded", "dropped"}]
Item == [sec : Sections, src : Text, old : SUBSET Nat, lost : SUBSET Facts]

FactsOK ==
    /\ doc \in [Facts -> [superseded : BOOLEAN, by : Facts \cup {None}, version : Nat]]
    /\ node \in [Facts -> [superseded : BOOLEAN, rem : BOOLEAN, grounded : BOOLEAN]]
    /\ \A f \in Facts : doc[f].by # None \/ node[f].superseded => doc[f].superseded

SummariesOK ==
    /\ sums \in Seq(Summary)
    /\ outbox \subseteq LedgerRow /\ refold \subseteq RefoldRow
    /\ graph \in [nodes : SUBSET Nat, edges : SUBSET (Facts \X Nat), retired : SUBSET Nat]
    /\ cites \in [Insights -> SUBSET Ids]

\* Where the daemon is, and what it holds there.
InSweep == daemon.pc \in {"reconcile", "closing"}
Folding == daemon.pc \in {"mark_retired", "fold", "sync", "close"}

DaemonOK ==
    /\ daemon \in [pc : {"idle", "reconcile", "closing", "recheck", "scan", "plan",
                         "mark_retired", "fold", "sync", "close", "settled"},
                   scan : SUBSET (Facts \X Sections), todo : SUBSET (Nat \cup Item),
                   skip : SUBSET Nat, cur : Nat \cup {None}, again : SUBSET Facts]
    /\ InSweep => daemon.todo \subseteq Active
    /\ Folding => daemon.todo \subseteq Item
    /\ daemon.pc \in {"closing", "sync", "close"} => daemon.cur \in Active
    /\ \A p \in daemon.scan : p[2] \in SectionsOf[p[1]]

TypeOK == FactsOK /\ SummariesOK /\ DaemonOK

-----------------------------------------------------------------------------
\* The summary of a group that has no successor is one.
Ends(sec) == ActiveOf(sec) \cup Loose(sec)
OneEnd == \A sec \in Sections : \A x, y \in Ends(sec) : x = y

\* What a summary is of is in its group, and was grounded and reviewed.
MembersQualify ==
    \A id \in Ids : \A f \in Members(sums[id]) :
        sums[id].sec \in SectionsOf[f] /\ node[f].grounded /\ node[f].rem

\* A scan that is about to be compared with the summaries found their members,
\* or these are superseded; what was planned for a group still fits its summary.
ScanIsTrue ==
    daemon.pc = "plan" =>
        /\ \A p \in daemon.scan : node[p[1]].grounded /\ node[p[1]].rem
        /\ \A id \in Ids : \A f \in Members(sums[id]) :
             <<f, sums[id].sec>> \in daemon.scan \/ doc[f].superseded

PlanStands ==
    Folding =>
        /\ \A w \in daemon.todo :
             /\ w.old = ActiveOf(w.sec) /\ DOMAIN w.src = Group(daemon.scan, w.sec)
             /\ \A f \in DOMAIN w.src : w.sec \in SectionsOf[f] /\ node[f].grounded /\ node[f].rem
             /\ w.lost \subseteq UNION {Members(sums[id]) : id \in w.old}
             /\ \A id \in w.old : Members(sums[id]) \subseteq DOMAIN w.src \cup w.lost
        /\ \A w, x \in daemon.todo : w.sec = x.sec => w = x

\* The summary whose rows are closed is marked.
CurIsMarked == daemon.pc \in {"closing", "close"} => ~Missing(daemon.cur)

\* The summaries a refold row does not count are of other groups than its own.
OlderIsElsewhere ==
    \A r \in refold :
        /\ r.sum \in Ids /\ r.older \subseteq Ids
        /\ \A id \in r.older : sums[id].sec # sums[r.sum].sec

\* A dense group of the scan has its summary, or will have it, or was given up.
GroupsAreCovered ==
    Folding => \A sec \in Gating(daemon.scan) :
        \/ \E w \in daemon.todo : w.sec = sec
        \/ Group(daemon.scan, sec) \subseteq daemon.again
        \/ \E id \in ActiveOf(sec) : Members(sums[id]) = Group(daemon.scan, sec)

FoldInv ==
    /\ TypeOK /\ OneEnd /\ MembersQualify /\ ScanIsTrue /\ PlanStands /\ CurIsMarked
    /\ OlderIsElsewhere /\ GroupsAreCovered /\ UnmarkedIsOwed /\ NoZombieRow

-----------------------------------------------------------------------------
(* Summaries and facts. *)

LEMMA SummariesAre ==
    ASSUME SummariesOK
    PROVE  /\ Len(sums) \in Nat /\ Ids = 1 .. Len(sums) /\ Ids \subseteq Nat
           /\ sums \in [Ids -> Summary]
           /\ Active \subseteq Ids
           /\ \A id \in Ids : sums[id] \in Summary /\ Members(sums[id]) \subseteq Facts
<1>1. Len(sums) \in Nat /\ sums \in [Ids -> Summary] /\ Ids \subseteq Nat
  BY DEF SummariesOK, Ids
<1>2. ASSUME NEW id \in Ids PROVE Members(sums[id]) \subseteq Facts
  <2>1. sums[id].src \in Text
    BY <1>1 DEF Summary
  <2>2. PICK F \in SUBSET Facts : sums[id].src \in [F -> Nat]
    BY <2>1 DEF Text
  <2> QED
    BY <2>2 DEF Members
<1> QED
  BY <1>1, <1>2 DEF Ids, Active

LEMMA ItemsAre ==
    ASSUME NEW w \in Item
    PROVE  w.sec \in Sections /\ w.src \in Text /\ DOMAIN w.src \subseteq Facts
<1>1. w.sec \in Sections /\ w.src \in Text
  BY DEF Item
<1>2. PICK F \in SUBSET Facts : w.src \in [F -> Nat]
  BY <1>1 DEF Text
<1> QED
  BY <1>1, <1>2

LEMMA Unwritten ==
    ASSUME sums' = sums
    PROVE  /\ Ids' = Ids /\ Active' = Active
           /\ \A sec \in Sections : ActiveOf(sec)' = ActiveOf(sec) /\ Loose(sec)' = Loose(sec) /\ Ends(sec)' = Ends(sec)
  BY DEF Ids, Active, ActiveOf, Loose, Ends

-----------------------------------------------------------------------------
(* What others do meanwhile. *)

Meanwhile ==
    \/ \E f \in Facts : Resave(f) \/ Review(f) \/ Ground(f) \/ SupersedeNode(f)
    \/ \E f \in Facts, by \in Facts \cup {None} : SupersedeDoc(f, by)
    \/ \E i \in Insights : WriteInsight(i)

\* Nothing they do takes a quality from a fact, or a summary, or a consolidated row.
LEMMA MeanwhileKeeps ==
    ASSUME TypeOK, Meanwhile
    PROVE  /\ UNCHANGED <<sums, refold, graph, daemon>>
           /\ FactsOK' /\ SummariesOK'
           /\ \A f \in Facts :
                /\ node[f].grounded => node'[f].grounded
                /\ node[f].rem => node'[f].rem
                /\ doc[f].superseded => doc'[f].superseded
           /\ \A r \in outbox : r.status = "consolidated" => r \in outbox'
<1> USE DEF FactsOK
<1> FactsOK /\ outbox \subseteq LedgerRow /\ cites \in [Insights -> SUBSET Ids]
  BY DEF TypeOK, SummariesOK
<1> DEFINE Kept ==
             /\ FactsOK'
             /\ \A f \in Facts :
                  /\ node[f].grounded => node'[f].grounded
                  /\ node[f].rem => node'[f].rem
                  /\ doc[f].superseded => doc'[f].superseded
           Rows ==
             /\ outbox' \subseteq LedgerRow
             /\ \A r \in outbox : r.status = "consolidated" => r \in outbox'
           Rest0 == UNCHANGED <<sums, refold, graph, daemon>> /\ cites' \in [Insights -> SUBSET Ids]
<1> SUFFICES Kept /\ Rows /\ Rest0
  BY DEF TypeOK, SummariesOK, Ids
<1>1. ASSUME NEW f \in Facts, Resave(f) PROVE Kept /\ Rows /\ Rest0
  <2>1. doc' = [doc EXCEPT ![f].version = @ + 1] /\ node' = node
    BY <1>1 DEF Resave
  <2>2. Kept
    BY <2>1
  <2>3. outbox' = outbox \cup {[fact |-> f, n |-> doc[f].version + 1, status |-> "applied"]}
    BY <1>1 DEF Resave
  <2>4. [fact |-> f, n |-> doc[f].version + 1, status |-> "applied"] \in LedgerRow
    BY DEF LedgerRow
  <2> QED
    BY <1>1, <2>2, <2>3, <2>4 DEF Resave
<1>2. ASSUME NEW f \in Facts, Review(f) PROVE Kept /\ Rows /\ Rest0
  <2>1. Kept
    BY <1>2 DEF Review
  <2>2. ASSUME NEW r \in outbox PROVE [r EXCEPT !.status = "rem_reviewed"] \in LedgerRow
    BY DEF LedgerRow
  <2>3. Rows
    BY <1>2, <2>2 DEF Review
  <2> QED
    BY <1>2, <2>1, <2>3 DEF Review
<1>3. ASSUME NEW f \in Facts, Ground(f) PROVE Kept /\ Rows /\ Rest0
  <2>1. Kept
    BY <1>3 DEF Ground
  <2> QED
    BY <1>3, <2>1 DEF Ground
<1>4. ASSUME NEW f \in Facts, SupersedeNode(f) PROVE Kept /\ Rows /\ Rest0
  <2>1. Kept
    BY <1>4 DEF SupersedeNode
  <2> QED
    BY <1>4, <2>1 DEF SupersedeNode
<1>5. ASSUME NEW f \in Facts, NEW by \in Facts \cup {None}, SupersedeDoc(f, by)
      PROVE  Kept /\ Rows /\ Rest0
  <2>1. doc' = [doc EXCEPT ![f].superseded = TRUE, ![f].by = by] /\ node' = node
    BY <1>5 DEF SupersedeDoc
  <2>2. /\ \A g \in Facts \ {f} : doc'[g] = doc[g]
        /\ doc'[f] = [doc[f] EXCEPT !.superseded = TRUE, !.by = by]
        /\ DOMAIN doc' = Facts
    BY <2>1
  <2>3. doc'[f] \in [superseded : BOOLEAN, by : Facts \cup {None}, version : Nat]
        /\ doc'[f].superseded
    <3>1. doc[f] \in [superseded : BOOLEAN, by : Facts \cup {None}, version : Nat]
      OBVIOUS
    <3> DEFINE d == doc[f]
    <3>2. /\ [d EXCEPT !.superseded = TRUE, !.by = by] \in [superseded : BOOLEAN, by : Facts \cup {None}, version : Nat]
          /\ [d EXCEPT !.superseded = TRUE, !.by = by].superseded
      <4> HIDE DEF d, FactsOK
      <4>1. d \in [superseded : BOOLEAN, by : Facts \cup {None}, version : Nat]
        BY <3>1 DEF d
      <4> QED
        BY <4>1
    <3> QED
      BY <2>2, <3>2
  <2>4. doc' \in [Facts -> [superseded : BOOLEAN, by : Facts \cup {None}, version : Nat]]
    BY <2>1, <2>2, <2>3
  <2>5. \A g \in Facts : doc[g].superseded => doc'[g].superseded
    BY <2>2, <2>3
  <2>6. \A g \in Facts : doc'[g].by # None \/ node'[g].superseded => doc'[g].superseded
    BY <2>1, <2>2, <2>3
  <2>7. Kept
    BY <2>1, <2>4, <2>5, <2>6
  <2> QED
    BY <1>5, <2>7 DEF SupersedeDoc
<1>6. ASSUME NEW i \in Insights, WriteInsight(i) PROVE Kept /\ Rows /\ Rest0
  <2>1. Kept /\ Rows
    BY <1>6 DEF WriteInsight
  <2> QED
    BY <1>6, <2>1 DEF WriteInsight, Active
<1> QED
  BY <1>1, <1>2, <1>3, <1>4, <1>5, <1>6 DEF Meanwhile

LEMMA MeanwhileStep == ASSUME FoldInv, Meanwhile PROVE FoldInv'
<1> USE DEF FoldInv
<1>1. TypeOK /\ UNCHANGED <<sums, refold, graph, daemon>>
  BY MeanwhileKeeps
<1>2. /\ Ids' = Ids /\ Active' = Active
      /\ \A sec \in Sections : ActiveOf(sec)' = ActiveOf(sec) /\ Loose(sec)' = Loose(sec) /\ Ends(sec)' = Ends(sec)
  BY <1>1, Unwritten
<1>3. /\ \A id \in Ids : Members(sums[id]) \subseteq Facts
      /\ Active \subseteq Ids
  BY <1>1, SummariesAre DEF TypeOK
<1>4. TypeOK'
  <2>1. DaemonOK'
    BY <1>1, <1>2 DEF TypeOK, DaemonOK, InSweep, Folding
  <2> QED
    BY <1>1, <2>1, MeanwhileKeeps DEF TypeOK
<1>5. OneEnd'
  BY <1>2 DEF OneEnd
<1>6. MembersQualify' /\ ScanIsTrue'
  <2>1. \A p \in daemon.scan : p[1] \in Facts
    BY <1>1 DEF TypeOK, DaemonOK
  <2> QED
    BY <1>1, <1>2, <1>3, <2>1, MeanwhileKeeps DEF MembersQualify, ScanIsTrue
<1>7. PlanStands'
  <2>1. ASSUME NEW w \in daemon.todo, Folding
        PROVE  DOMAIN w.src \subseteq Facts /\ w.sec \in Sections
    BY <2>1, <1>1, ItemsAre DEF TypeOK, DaemonOK
  <2> QED
    BY <1>1, <1>2, <2>1, MeanwhileKeeps DEF PlanStands, Folding, Group
<1>8. CurIsMarked' /\ OlderIsElsewhere' /\ GroupsAreCovered'
  <2>1. Folding' = Folding /\ Gating(daemon.scan)' = Gating(daemon.scan)
    BY <1>1 DEF Folding, Gating, Group
  <2>2. \A sec \in Sections : Group(daemon.scan, sec)' = Group(daemon.scan, sec)
    BY <1>1 DEF Group
  <2> QED
    BY <1>1, <1>2, <2>1, <2>2 DEF CurIsMarked, Missing, OlderIsElsewhere, GroupsAreCovered, Gating
<1>9. UnmarkedIsOwed'
  <2> SUFFICES ASSUME NEW id \in Active, sums[id].owed, OwnedAlone(id)', Missing(id)
               PROVE  \E r \in outbox' : r.fact \in Members(sums[id]) /\ r.status = "consolidated"
    BY <1>1, <1>2 DEF UnmarkedIsOwed, Missing, RowsOf
  <2>1. OwnedAlone(id)
    BY <1>1, <1>3, MeanwhileKeeps DEF OwnedAlone
  <2> QED
    BY <2>1, MeanwhileKeeps DEF UnmarkedIsOwed, RowsOf
<1>10. NoZombieRow'
  BY <1>1 DEF NoZombieRow, Open
<1> QED
  BY <1>4, <1>5, <1>6, <1>7, <1>8, <1>9, <1>10

-----------------------------------------------------------------------------
(* The daemon's steps that write no summary. *)

LEMMA StoresStand ==
    ASSUME FoldInv, UNCHANGED <<doc, node, sums>>
    PROVE  /\ FactsOK' /\ OneEnd' /\ MembersQualify'
           /\ Ids' = Ids /\ Active' = Active
           /\ \A sec \in Sections : ActiveOf(sec)' = ActiveOf(sec)
           /\ refold' = refold => OlderIsElsewhere'
  BY Unwritten DEF FoldInv, TypeOK, FactsOK, OneEnd, MembersQualify, OlderIsElsewhere

LEMMA StillOwed ==
    ASSUME FoldInv, UNCHANGED <<doc, node, sums>>, graph.edges \subseteq graph'.edges,
           \A r \in outbox : r.status = "consolidated" => r \in outbox'
    PROVE  UnmarkedIsOwed'
<1> SUFFICES ASSUME NEW id \in Active, sums[id].owed, OwnedAlone(id), Missing(id)
             PROVE  \E r \in outbox' : r.fact \in Members(sums[id]) /\ r.status = "consolidated"
  BY StoresStand DEF UnmarkedIsOwed, Missing, OwnedAlone, RowsOf
<1> QED
  BY DEF FoldInv, UnmarkedIsOwed, RowsOf

\* The rows of a marked summary go; a summary of another group has none of them,
\* unless a member of it is also in that group or superseded.
LEMMA ClosingKeeps ==
    ASSUME FoldInv, UNCHANGED <<doc, node, sums, graph>>,
           daemon.pc \in {"closing", "close"}, outbox' = Closed(Members(sums[daemon.cur]))
    PROVE  UnmarkedIsOwed' /\ outbox' \subseteq LedgerRow
<1>1. daemon.cur \in Active /\ Active \subseteq Ids /\ ~Missing(daemon.cur)
      /\ outbox \subseteq LedgerRow
  BY SummariesAre DEF FoldInv, TypeOK, DaemonOK, CurIsMarked, SummariesOK
<1>2. outbox' \subseteq LedgerRow
  BY <1>1 DEF Closed
<1>3. ASSUME NEW id \in Active, sums[id].owed, OwnedAlone(id), Missing(id)
      PROVE  \E r \in outbox' : r.fact \in Members(sums[id]) /\ r.status = "consolidated"
  <2>1. PICK r \in outbox : r.fact \in Members(sums[id]) /\ r.status = "consolidated"
    BY <1>3 DEF FoldInv, UnmarkedIsOwed, RowsOf
  <2>2. id \in Ids /\ sums[id].sec \in Sections /\ r.fact \in Facts /\ sums[daemon.cur].sec \in Sections
    BY <1>1, <2>1, SummariesAre DEF FoldInv, TypeOK, Summary, LedgerRow
  <2>3. doc[r.fact].by = None
    BY <1>3, <2>1, <2>2 DEF OwnedAlone, FoldInv, TypeOK, FactsOK
  <2>4. r.fact \notin Members(sums[daemon.cur])
    <3> SUFFICES ASSUME r.fact \in Members(sums[daemon.cur]) PROVE FALSE
      OBVIOUS
    <3>1. sums[daemon.cur].sec \in SectionsOf[r.fact]
      BY <1>1 DEF FoldInv, MembersQualify
    <3>2. sums[daemon.cur].sec = sums[id].sec
      BY <1>3, <2>1, <3>1 DEF OwnedAlone
    <3>3. daemon.cur = id
      BY <1>1, <1>3, <2>2, <3>2 DEF FoldInv, OneEnd, Ends, ActiveOf
    <3> QED
      BY <1>1, <1>3, <3>3
  <2>5. r \in outbox'
    BY <2>1, <2>3, <2>4 DEF Closed, RowsOf
  <2> QED
    BY <2>1, <2>5
<1>4. UnmarkedIsOwed'
  BY <1>3, StoresStand DEF UnmarkedIsOwed, Missing, OwnedAlone, RowsOf
<1> QED
  BY <1>2, <1>4

\* Marking a summary is complete, and takes nothing away.
LEMMA MarkedIsMarked ==
    ASSUME SummariesOK, NEW id \in Active, NEW old \in SUBSET Nat, graph' = Marked(id, old), sums' = sums
    PROVE  /\ graph' \in [nodes : SUBSET Nat, edges : SUBSET (Facts \X Nat), retired : SUBSET Nat]
           /\ graph.edges \subseteq graph'.edges
           /\ ~Missing(id)'
<1>1. graph \in [nodes : SUBSET Nat, edges : SUBSET (Facts \X Nat), retired : SUBSET Nat]
      /\ id \in Nat /\ Members(sums[id]) \subseteq Facts
  BY SummariesAre DEF SummariesOK
<1>2. graph' = [nodes |-> graph.nodes \cup {id},
                edges |-> graph.edges \cup {<<f, id>> : f \in Members(sums[id])},
                retired |-> graph.retired \cup (old \cap graph.nodes)]
  BY <1>1 DEF Marked
<1>3. {<<f, id>> : f \in Members(sums[id])} \in SUBSET (Facts \X Nat)
  BY <1>1
<1>4. ~Missing(id)'
  <2>1. \A f \in Members(sums[id]) : <<f, id>> \in graph'.edges
    BY <1>2
  <2>2. Members(sums'[id]) = Members(sums[id])
    OBVIOUS
  <2> QED
    BY <2>1, <2>2 DEF Missing
<1> QED
  BY <1>1, <1>2, <1>3, <1>4

-----------------------------------------------------------------------------
(* Induction up to a number: what holds of 0, and of n + 1 when of n, holds of  *)
(* all, since a finite set has no injection into itself that misses a member.   *)

LEMMA UpTo ==
    ASSUME NEW N \in Nat, NEW G \in SUBSET (0 .. N), 0 \in G, \A n \in G : n < N => n + 1 \in G
    PROVE  N \in G
<1> SUFFICES ASSUME N \notin G PROVE FALSE
  OBVIOUS
<1> DEFINE next == [n \in G |-> n + 1]
<1>1. IsFiniteSet(G)
  <2>1. IsFiniteSet(0 .. N)
    BY FS_Interval
  <2> QED
    BY <2>1, FS_Subset
<1>2. next \in [G -> G]
  OBVIOUS
<1>3. next \in Injection(G, G)
  BY <1>2 DEF Injection, IsInjective
<1>4. next \in Surjection(G, G)
  BY <1>1, <1>3, FS_Injection
<1>5. PICK n \in G : next[n] = 0
  BY <1>4 DEF Surjection
<1> QED
  BY <1>5

-----------------------------------------------------------------------------
(* Citations. *)

LEMMA RepointedKeeps ==
    ASSUME NEW S, NEW i, NEW ids, NEW old, NEW new
    PROVE  /\ Support(S, i, ids) \subseteq Support(S, i, Repointed(S, i, ids, old, new))
           /\ Repointed(S, i, ids, old, new) \subseteq ids \cup {new}
  BY DEF Repointed, SolidMatch

\* A recheck goes through the retired summaries one by one.
LEMMA RecheckedAre ==
    ASSUME SummariesOK, NEW i \in Insights
    PROVE  Rechecked(i) \in SUBSET Ids /\ Support(sums, i, cites[i]) \subseteq Support(sums, i, Rechecked(i))
<1> DEFINE N == Len(sums)
           After(ids, n) == IF sums[n].state = "lineage" /\ ChainEnd(n) \in Active
                              THEN Repointed(sums, i, ids, n, ChainEnd(n)) ELSE ids
           Runs(u, n) == u[0] = cites[i] /\ \A m \in 1 .. n : u[m] = After(u[m - 1], m)
           Good(ids) == ids \in SUBSET Ids /\ Support(sums, i, cites[i]) \subseteq Support(sums, i, ids)
<1>1. N \in Nat /\ Active \subseteq Ids /\ cites[i] \in SUBSET Ids
  BY SummariesAre DEF SummariesOK
<1>2. \A ids, n : Good(ids) => Good(After(ids, n))
  BY <1>1, RepointedKeeps
<1> HIDE DEF After, Good
<1>3. \E u : DOMAIN u = 0 .. N /\ Runs(u, N)
  <2> DEFINE G == {n \in 0 .. N : \E u : DOMAIN u = 0 .. n /\ Runs(u, n)}
  <2>1. 0 \in G
    <3> DEFINE v == [n \in 0 .. 0 |-> cites[i]]
    <3>1. DOMAIN v = 0 .. 0 /\ Runs(v, 0)
      OBVIOUS
    <3> HIDE DEF v, Runs
    <3>2. \E u : DOMAIN u = 0 .. 0 /\ Runs(u, 0)
      BY <3>1
    <3> QED
      BY <1>1, <3>2
  <2>2. ASSUME NEW n \in G, n < N PROVE n + 1 \in G
    <3>1. PICK u : DOMAIN u = 0 .. n /\ Runs(u, n)
      OBVIOUS
    <3> DEFINE v == [m \in 0 .. n + 1 |-> IF m = n + 1 THEN After(u[n], m) ELSE u[m]]
    <3>2. v[0] = cites[i]
      BY <3>1
    <3>3. ASSUME NEW m \in 1 .. n + 1 PROVE v[m] = After(v[m - 1], m)
      <4>1. CASE m = n + 1
        BY <4>1
      <4>2. CASE m # n + 1
        <5>1. m \in 1 .. n /\ m - 1 \in 0 .. n /\ m - 1 # n + 1 /\ m \in 0 .. n + 1 /\ m - 1 \in 0 .. n + 1
          BY <4>2
        <5>2. v[m] = u[m] /\ v[m - 1] = u[m - 1]
          BY <4>2, <5>1
        <5> QED
          BY <3>1, <5>1, <5>2
      <4> QED
        BY <4>1, <4>2
    <3>4. DOMAIN v = 0 .. n + 1
      OBVIOUS
    <3> HIDE DEF v
    <3>5. Runs(v, n + 1)
      BY <3>2, <3>3
    <3>6. n + 1 \in 0 .. N
      BY <1>1, <2>2
    <3> HIDE DEF Runs
    <3>7. \E w : DOMAIN w = 0 .. n + 1 /\ Runs(w, n + 1)
      BY <3>4, <3>5
    <3> QED
      BY <3>6, <3>7
  <2> QED
    BY <1>1, <2>1, <2>2, UpTo
<1> DEFINE Whole(u) == u = [n \in 0 .. N |-> IF n = 0 THEN cites[i] ELSE After(u[n - 1], n)]
           run == CHOOSE u : Whole(u)
<1>4. Whole(run)
  <2>1. PICK u : DOMAIN u = 0 .. N /\ Runs(u, N)
    BY <1>3
  <2> DEFINE v == [n \in 0 .. N |-> u[n]]
  <2>2. \A n \in 0 .. N : v[n] = IF n = 0 THEN cites[i] ELSE After(v[n - 1], n)
    <3> SUFFICES ASSUME NEW n \in 0 .. N, n # 0 PROVE v[n] = After(v[n - 1], n)
      BY <1>1, <2>1
    <3>1. n \in 1 .. N /\ n - 1 \in 0 .. N
      BY <1>1
    <3> QED
      BY <2>1, <3>1
  <2>3. Whole(v)
    BY <2>2
  <2> QED
    BY <2>3
<1>5. Rechecked(i) = run[N]
  BY DEF Rechecked, After
<1> HIDE DEF run
<1>6. Good(run[N])
  <2> DEFINE G == {n \in 0 .. N : Good(run[n])}
  <2>1. 0 \in G
    BY <1>1, <1>4 DEF Good
  <2>2. ASSUME NEW n \in G, n < N PROVE n + 1 \in G
    <3>1. n + 1 \in 0 .. N /\ n + 1 # 0 /\ (n + 1) - 1 = n
      BY <1>1, <2>2
    <3>2. run[n + 1] = After(run[n], n + 1)
      BY <1>4, <3>1
    <3> QED
      BY <1>2, <3>1, <3>2
  <2> QED
    BY <1>1, <2>1, <2>2, UpTo
<1> QED
  BY <1>5, <1>6 DEF Good

-----------------------------------------------------------------------------
(* The sweep. *)

LEMMA SweepStep ==
    ASSUME FoldInv,
           Backfill \/ Reconcile \/ CloseReconciled \/ ReconcileRetired \/ Recheck
    PROVE  FoldInv'
<1> TypeOK
  BY DEF FoldInv
<1> USE DEF TypeOK
<1>0. /\ UNCHANGED <<doc, node, sums, refold>>
      /\ daemon'.pc \in {"reconcile", "closing", "recheck", "scan"}
  BY DEF Backfill, Reconcile, CloseReconciled, ReconcileRetired, Recheck, Go, facts, DaemonOK
<1>1. /\ FactsOK' /\ OneEnd' /\ MembersQualify' /\ OlderIsElsewhere'
      /\ Ids' = Ids /\ Active' = Active
  BY <1>0, StoresStand
<1>2. ScanIsTrue' /\ PlanStands' /\ GroupsAreCovered' /\ NoZombieRow'
  BY <1>0 DEF ScanIsTrue, PlanStands, GroupsAreCovered, NoZombieRow, Folding
<1>3. SUFFICES SummariesOK' /\ DaemonOK' /\ CurIsMarked' /\ UnmarkedIsOwed'
  BY <1>1, <1>2 DEF FoldInv
<1>4. /\ sums' \in Seq(Summary) /\ refold' \subseteq RefoldRow
      /\ cites' = cites => cites' \in [Insights -> SUBSET Ids']
      /\ graph' = graph => graph' \in [nodes : SUBSET Nat, edges : SUBSET (Facts \X Nat), retired : SUBSET Nat]
      /\ outbox' = outbox => outbox' \subseteq LedgerRow
  BY <1>0, <1>1 DEF SummariesOK
<1>5. CASE Backfill
  <2>1. /\ \A r \in outbox : [r EXCEPT !.status = "consolidated"] \in LedgerRow
        /\ outbox' = {IF Covered(r) THEN [r EXCEPT !.status = "consolidated"] ELSE r : r \in outbox}
    BY <1>5 DEF Backfill, SummariesOK, LedgerRow
  <2>2. outbox' \subseteq LedgerRow
    BY <2>1 DEF SummariesOK
  <2>3. \A r \in outbox : r.status = "consolidated" => r \in outbox'
    BY <2>1 DEF Covered, InLedger
  <2>4. daemon' = [daemon EXCEPT !.pc = "reconcile", !.todo = Unreconciled(outbox')]
        /\ Unreconciled(outbox') \subseteq Active /\ Active \subseteq Nat
    BY <1>5, SummariesAre DEF Backfill, Unreconciled
  <2>5. DaemonOK'
    BY <1>1, <2>4 DEF DaemonOK, InSweep, Folding
  <2> QED
    BY <1>0, <1>4, <1>5, <2>2, <2>3, <2>4, <2>5, StillOwed DEF Backfill, SummariesOK, CurIsMarked, DaemonOK
<1>6. CASE Reconcile
  <2>1. PICK id \in daemon.todo :
          /\ graph' = Marked(id, {})
          /\ daemon' = [daemon EXCEPT !.pc = "closing", !.todo = @ \ {id}, !.cur = id]
    BY <1>6 DEF Reconcile
  <2>2. daemon.todo \subseteq Active /\ id \in Active /\ id \in Nat
    BY <1>6, SummariesAre DEF Reconcile, DaemonOK, InSweep
  <2>3. /\ graph' \in [nodes : SUBSET Nat, edges : SUBSET (Facts \X Nat), retired : SUBSET Nat]
        /\ graph.edges \subseteq graph'.edges /\ ~Missing(id)'
    BY <1>0, <2>1, <2>2, MarkedIsMarked
  <2>4. DaemonOK'
    BY <1>1, <2>1, <2>2 DEF DaemonOK, InSweep, Folding
  <2>5. CurIsMarked'
    BY <2>1, <2>3 DEF CurIsMarked, DaemonOK
  <2> QED
    BY <1>0, <1>4, <1>6, <2>3, <2>4, <2>5, StillOwed DEF Reconcile, SummariesOK
<1>7. CASE CloseReconciled
  <2>1. daemon' = [daemon EXCEPT !.pc = "reconcile", !.cur = None]
    BY <1>7 DEF CloseReconciled
  <2>2. DaemonOK'
    BY <1>1, <1>7, <2>1 DEF CloseReconciled, DaemonOK, InSweep, Folding
  <2>3. UnmarkedIsOwed' /\ outbox' \subseteq LedgerRow
    BY <1>0, <1>7, ClosingKeeps DEF CloseReconciled
  <2> QED
    BY <1>0, <1>4, <1>7, <2>1, <2>2, <2>3 DEF CloseReconciled, SummariesOK, CurIsMarked, DaemonOK
<1>8. CASE ReconcileRetired
  <2>1. /\ graph' = [graph EXCEPT !.retired = @ \cup ((Ids \ Active) \cap graph.nodes)]
        /\ daemon' = [daemon EXCEPT !.pc = "recheck"]
    BY <1>8 DEF ReconcileRetired, Go
  <2>2. /\ graph' \in [nodes : SUBSET Nat, edges : SUBSET (Facts \X Nat), retired : SUBSET Nat]
        /\ graph'.edges = graph.edges
    BY <2>1 DEF SummariesOK
  <2>3. DaemonOK'
    BY <1>1, <2>1 DEF DaemonOK, InSweep, Folding
  <2> QED
    BY <1>0, <1>4, <1>8, <2>1, <2>2, <2>3, StillOwed DEF ReconcileRetired, SummariesOK, CurIsMarked, DaemonOK
<1>9. CASE Recheck
  <2>1. daemon' = [daemon EXCEPT !.pc = "scan"] /\ UNCHANGED <<outbox, graph>>
    BY <1>9 DEF Recheck, Go
  <2>2. DaemonOK'
    BY <1>1, <2>1 DEF DaemonOK, InSweep, Folding
  <2>3. cites' \in [Insights -> SUBSET Ids]
    BY <1>9, RecheckedAre DEF Recheck, RecheckedCites
  <2> QED
    BY <1>0, <1>1, <1>4, <2>1, <2>2, <2>3, StillOwed DEF SummariesOK, CurIsMarked, DaemonOK
<1> QED
  BY <1>5, <1>6, <1>7, <1>8, <1>9

-----------------------------------------------------------------------------
(* The plan of a fold. *)

LEMMA ScanStep == ASSUME FoldInv, Scan PROVE FoldInv'
<1> TypeOK
  BY DEF FoldInv
<1>0. UNCHANGED <<doc, node, outbox, sums, refold, graph, cites>>
  BY DEF Scan, facts
<1>1. /\ FactsOK' /\ OneEnd' /\ MembersQualify' /\ OlderIsElsewhere' /\ UnmarkedIsOwed'
      /\ Ids' = Ids /\ Active' = Active
  BY <1>0, StoresStand, StillOwed
<1>2. SummariesOK'
  BY <1>0, <1>1 DEF TypeOK, SummariesOK
<1>3. daemon' = Idle \/ daemon' = [Idle EXCEPT !.pc = "plan", !.scan = GroundedRows]
  BY DEF Scan
<1>4. DaemonOK' /\ daemon'.pc \in {"idle", "plan"}
  <2>1. CASE daemon' = Idle
    BY <2>1 DEF DaemonOK, Idle, InSweep, Folding
  <2>2. CASE daemon' = [Idle EXCEPT !.pc = "plan", !.scan = GroundedRows]
    <3>1. daemon' = [pc |-> "plan", scan |-> GroundedRows, todo |-> {}, skip |-> {},
                     cur |-> None, again |-> {}]
      BY <2>2 DEF Idle
    <3>2. GroundedRows \subseteq Facts \X Sections /\ \A p \in GroundedRows : p[2] \in SectionsOf[p[1]]
      BY DEF GroundedRows
    <3> QED
      BY <3>1, <3>2 DEF DaemonOK, InSweep, Folding
  <2> QED
    BY <1>3, <2>1, <2>2
<1>5. ScanIsTrue'
  <2>1. CASE daemon' = Idle
    BY <2>1 DEF ScanIsTrue, Idle
  <2>2. CASE daemon' = [Idle EXCEPT !.pc = "plan", !.scan = GroundedRows]
    <3>1. daemon'.scan = GroundedRows
      BY <2>2 DEF Idle
    <3>2. ASSUME NEW id \in Ids, NEW f \in Members(sums[id])
          PROVE  <<f, sums[id].sec>> \in GroundedRows \/ doc[f].superseded
      <4>1. f \in Facts /\ sums[id].sec \in Sections
        BY SummariesAre DEF TypeOK, Summary
      <4> QED
        BY <4>1 DEF FoldInv, MembersQualify, GroundedRows, TypeOK, FactsOK
    <3>3. \A p \in GroundedRows : node[p[1]].grounded /\ node[p[1]].rem
      BY DEF GroundedRows
    <3> QED
      BY <1>0, <1>1, <3>1, <3>2, <3>3 DEF ScanIsTrue
  <2> QED
    BY <1>3, <2>1, <2>2
<1>6. PlanStands' /\ CurIsMarked' /\ GroupsAreCovered' /\ NoZombieRow'
  BY <1>4 DEF PlanStands, CurIsMarked, GroupsAreCovered, NoZombieRow, Folding
<1> QED
  BY <1>1, <1>2, <1>4, <1>5, <1>6 DEF FoldInv, TypeOK

\* A work item is of one group, whose summary loses what is superseded and no more.
LEMMA PlannedItem ==
    ASSUME FoldInv, daemon.pc = "plan", NEW sec \in Sections
    PROVE  LET w == WorkItem(daemon.scan, sec)
           IN  /\ w \in Item /\ w.sec = sec /\ w.old = ActiveOf(sec)
               /\ DOMAIN w.src = Group(daemon.scan, sec) /\ w.src = Rendered(Group(daemon.scan, sec))
               /\ \A f \in DOMAIN w.src : sec \in SectionsOf[f] /\ node[f].grounded /\ node[f].rem
               /\ w.lost \subseteq UNION {Members(sums[id]) : id \in w.old}
               /\ \A id \in w.old : Members(sums[id]) \subseteq DOMAIN w.src \cup w.lost
<1> DEFINE F == Group(daemon.scan, sec)
           w == WorkItem(daemon.scan, sec)
<1>1. TypeOK /\ F \subseteq Facts /\ ActiveOf(sec) \subseteq Ids /\ Ids \subseteq Nat
  BY SummariesAre DEF FoldInv, Group, ActiveOf, TypeOK
<1>2. /\ w.sec = sec /\ w.old = ActiveOf(sec) /\ w.src = Rendered(F)
      /\ w.lost = {f \in (UNION {Members(sums[id]) : id \in ActiveOf(sec)}) \ F : doc[f].superseded}
  BY DEF WorkItem
<1>3. DOMAIN w.src = F /\ w.src \in Text
  <2>1. Rendered(F) \in [F -> Nat]
    BY <1>1 DEF Rendered, TypeOK, FactsOK
  <2> QED
    BY <1>1, <1>2, <2>1 DEF Text
<1>4. UNION {Members(sums[id]) : id \in ActiveOf(sec)} \subseteq Facts
  BY <1>1, SummariesAre DEF TypeOK
<1>5. w \in Item
  BY <1>1, <1>2, <1>3, <1>4 DEF Item, WorkItem
<1>6. \A f \in F : sec \in SectionsOf[f] /\ node[f].grounded /\ node[f].rem
  BY <1>1 DEF FoldInv, ScanIsTrue, Group, TypeOK, DaemonOK
<1>7. ASSUME NEW id \in ActiveOf(sec), NEW f \in Members(sums[id]) PROVE f \in F \cup w.lost
  <2>1. f \in Facts /\ sums[id].sec = sec /\ id \in Ids
    BY <1>1, <1>4 DEF ActiveOf
  <2>2. <<f, sec>> \in daemon.scan \/ doc[f].superseded
    BY <2>1 DEF FoldInv, ScanIsTrue
  <2>3. f \in UNION {Members(sums[x]) : x \in ActiveOf(sec)}
    OBVIOUS
  <2>4. f \in F \/ doc[f].superseded
    BY <2>1, <2>2 DEF Group
  <2> HIDE DEF w, F
  <2> QED
    BY <1>2, <2>3, <2>4
<1> QED
  BY <1>2, <1>3, <1>5, <1>6, <1>7

\* The plan retires the summaries of groups that are no longer dense, if they hold
\* a superseded fact, and changes nothing else of any summary.
Outdated == Invalidated(UNION {ActiveOf(sec) : sec \in Gating(daemon.scan)})

LEMMA PlanRetires ==
    ASSUME FoldInv, Plan
    PROVE  /\ sums' \in Seq(Summary) /\ Ids' = Ids
           /\ \A id \in Ids : /\ sums'[id].sec = sums[id].sec /\ sums'[id].src = sums[id].src
                              /\ sums'[id].owed = sums[id].owed /\ sums'[id].by = sums[id].by
                              /\ sums'[id].state = IF id \in Outdated THEN "lineage" ELSE sums[id].state
           /\ Active' = Active \ Outdated /\ Outdated \subseteq Active
           /\ \A sec \in Sections : Ends(sec)' \subseteq Ends(sec)
           /\ \A sec \in Gating(daemon.scan) : ActiveOf(sec)' = ActiveOf(sec)
<1>1. Len(sums) \in Nat /\ sums \in [Ids -> Summary] /\ Ids = 1 .. Len(sums) /\ Active \subseteq Ids
  BY SummariesAre DEF FoldInv, TypeOK
<1>2. sums' = [id \in Ids |-> IF id \in Outdated THEN [sums[id] EXCEPT !.state = "lineage"]
                                                ELSE sums[id]]
  BY DEF Plan, Outdated
<1>3. sums' \in [Ids -> Summary]
  <2>1. ASSUME NEW id \in Ids PROVE [sums[id] EXCEPT !.state = "lineage"] \in Summary
    BY <1>1 DEF Summary
  <2> QED
    BY <1>1, <1>2, <2>1
<1>4. sums' \in Seq(Summary) /\ Len(sums') = Len(sums)
  BY <1>1, <1>3
<1>5. Ids' = Ids
  BY <1>4 DEF Ids
<1>6. ASSUME NEW id \in Ids
      PROVE  /\ sums'[id].sec = sums[id].sec /\ sums'[id].src = sums[id].src
             /\ sums'[id].owed = sums[id].owed /\ sums'[id].by = sums[id].by
             /\ sums'[id].state = IF id \in Outdated THEN "lineage" ELSE sums[id].state
  BY <1>1, <1>2 DEF Summary
<1>7. Outdated \subseteq Active
  BY DEF Outdated, Invalidated
<1>8. Active' = Active \ Outdated
  BY <1>5, <1>6 DEF Active
<1>9. ASSUME NEW sec \in Sections PROVE Ends(sec)' \subseteq Ends(sec)
  BY <1>1, <1>5, <1>6, <1>7, <1>8 DEF Ends, ActiveOf, Loose
<1>10. ASSUME NEW sec \in Gating(daemon.scan) PROVE ActiveOf(sec)' = ActiveOf(sec)
  <2>1. ActiveOf(sec) \cap Outdated = {}
    BY DEF Outdated, Invalidated
  <2> QED
    BY <1>1, <1>6, <1>8, <2>1 DEF ActiveOf
<1> QED
  BY <1>4, <1>5, <1>6, <1>7, <1>8, <1>9, <1>10

\* A refold row counts no summary of its own group: a group has one at most.
Elsewhere(id) == {x \in Active : sums[x].sec # sums[id].sec}

LEMMA OpenedRows ==
    ASSUME FoldInv, NEW id \in Active, NEW T \in SUBSET Facts, NEW written \in SUBSET Nat,
           NEW r, r \in RefoldRows(id, T, written)
    PROVE  r \in RefoldRow /\ r.sum = id /\ r.older \subseteq Elsewhere(id)
<1>1. Active \subseteq Ids /\ Ids \subseteq Nat /\ \A x \in Ids : sums[x].sec \in Sections
  BY SummariesAre DEF FoldInv, TypeOK, Summary
<1>2. ASSUME NEW x \in Active, sums[x].sec = sums[id].sec PROVE x = id
  BY <1>1, <1>2 DEF FoldInv, OneEnd, Ends, ActiveOf
<1>3. /\ r \in RefoldRow /\ r.sum = id /\ r.fact \in Facts
      /\ r.older = Active \ (written \cup {id})
  <2>1. PICK f \in Standing(Members(sums[id])), t \in T :
          r = [fact |-> f, sum |-> id, trigger |-> t, status |-> "open",
               older |-> Active \ (written \cup {id})]
    BY DEF RefoldRows
  <2>2. f \in Facts
    BY DEF Standing
  <2> QED
    BY <1>1, <2>1, <2>2 DEF RefoldRow
<1> QED
  BY <1>2, <1>3 DEF Elsewhere

LEMMA PlanStep == ASSUME FoldInv, Plan PROVE FoldInv'
<1> DEFINE gating == Gating(daemon.scan)
           items == {WorkItem(daemon.scan, sec) : sec \in gating}
<1>1. TypeOK /\ Ids \subseteq Nat /\ Active \subseteq Ids
  BY SummariesAre DEF FoldInv, TypeOK
<1>2. /\ daemon.pc = "plan" /\ UNCHANGED <<doc, node, outbox, graph, cites>>
      /\ daemon' = [daemon EXCEPT !.pc = "mark_retired", !.skip = Outdated,
                                  !.todo = {w \in items : ~Current(w.sec, w.src)}]
      /\ refold' = refold \cup UNION
           {RefoldRows(id, {f \in Members(sums[id]) : doc[f].superseded}, Outdated) : id \in Outdated}
  BY DEF Plan, Outdated, facts
<1>3. /\ daemon'.pc = "mark_retired" /\ daemon'.scan = daemon.scan
      /\ daemon'.todo = {w \in items : ~Current(w.sec, w.src)}
  BY <1>1, <1>2 DEF TypeOK, DaemonOK
<1>4. gating \subseteq Sections
  BY DEF Gating
<1>5. ASSUME NEW r \in refold'
      PROVE  /\ r \in RefoldRow /\ r.sum \in Ids /\ r.older \subseteq Ids
             /\ \A id \in r.older : sums[id].sec # sums[r.sum].sec
  <2>1. CASE r \in refold
    BY <1>1, <2>1 DEF FoldInv, OlderIsElsewhere, TypeOK, SummariesOK
  <2>2. CASE r \notin refold
    <3>1. PICK id \in Outdated :
            r \in RefoldRows(id, {f \in Members(sums[id]) : doc[f].superseded}, Outdated)
      BY <1>2, <2>2
    <3> DEFINE T == {f \in Members(sums[id]) : doc[f].superseded}
    <3>2. /\ id \in Active /\ T \in SUBSET Facts /\ Outdated \in SUBSET Nat
          /\ r \in RefoldRows(id, T, Outdated)
      BY <1>1, <3>1, PlanRetires, SummariesAre DEF TypeOK
    <3> HIDE DEF T
    <3>3. r \in RefoldRow /\ r.sum = id /\ r.older \subseteq Elsewhere(id)
      BY <3>2, OpenedRows
    <3> QED
      BY <1>1, <3>2, <3>3 DEF Elsewhere
  <2> QED
    BY <2>1, <2>2
<1>6. SummariesOK'
  BY <1>1, <1>2, <1>5, PlanRetires DEF TypeOK, SummariesOK
<1>7. FactsOK'
  BY <1>1, <1>2 DEF TypeOK, FactsOK
<1>8. items \subseteq Item
  BY <1>2, <1>4, PlannedItem
<1>9. DaemonOK'
  <2>1. Outdated \in SUBSET Nat
    BY <1>1, PlanRetires
  <2>2. daemon' \in [pc : {"idle", "reconcile", "closing", "recheck", "scan", "plan",
                           "mark_retired", "fold", "sync", "close", "settled"},
                     scan : SUBSET (Facts \X Sections), todo : SUBSET (Nat \cup Item),
                     skip : SUBSET Nat, cur : Nat \cup {None}, again : SUBSET Facts]
    BY <1>1, <1>2, <1>8, <2>1 DEF TypeOK, DaemonOK
  <2> QED
    BY <1>1, <1>3, <1>8, <2>2 DEF TypeOK, DaemonOK, InSweep, Folding
<1>10. OneEnd'
  BY PlanRetires DEF FoldInv, OneEnd
<1>11. MembersQualify'
  BY <1>2, PlanRetires DEF FoldInv, MembersQualify, Members
<1>12. OlderIsElsewhere'
  BY <1>5, PlanRetires DEF OlderIsElsewhere
<1>13. PlanStands'
  <2>1. ASSUME NEW w \in daemon'.todo
        PROVE  /\ w.old = ActiveOf(w.sec)' /\ DOMAIN w.src = Group(daemon.scan, w.sec)
               /\ \A f \in DOMAIN w.src : w.sec \in SectionsOf[f] /\ node'[f].grounded /\ node'[f].rem
               /\ w.lost \subseteq UNION {Members(sums'[id]) : id \in w.old}
               /\ \A id \in w.old : Members(sums'[id]) \subseteq DOMAIN w.src \cup w.lost
    <3>1. PICK sec \in gating : w = WorkItem(daemon.scan, sec)
      BY <1>3
    <3>2. /\ w.sec = sec /\ w.old = ActiveOf(sec) /\ ActiveOf(sec)' = ActiveOf(sec)
          /\ DOMAIN w.src = Group(daemon.scan, sec)
          /\ \A f \in DOMAIN w.src : sec \in SectionsOf[f] /\ node[f].grounded /\ node[f].rem
          /\ w.lost \subseteq UNION {Members(sums[id]) : id \in w.old}
          /\ \A id \in w.old : Members(sums[id]) \subseteq DOMAIN w.src \cup w.lost
      BY <1>2, <1>4, <3>1, PlannedItem, PlanRetires
    <3>3. \A id \in w.old : Members(sums'[id]) = Members(sums[id])
      BY <1>1, <3>2, PlanRetires DEF Members, ActiveOf
    <3> QED
      BY <1>2, <3>2, <3>3
  <2>2. ASSUME NEW w \in daemon'.todo, NEW x \in daemon'.todo, w.sec = x.sec PROVE w = x
    BY <1>2, <1>3, <1>4, <2>2, PlannedItem
  <2> QED
    BY <1>3, <2>1, <2>2 DEF PlanStands, Group
<1>14. GroupsAreCovered'
  <2> SUFFICES ASSUME NEW sec \in gating
               PROVE  \/ \E w \in daemon'.todo : w.sec = sec
                      \/ \E id \in ActiveOf(sec)' : Members(sums'[id]) = Group(daemon.scan, sec)
    BY <1>3 DEF GroupsAreCovered, Gating, Group
  <2> DEFINE w == WorkItem(daemon.scan, sec)
  <2>1. w \in items /\ w.sec = sec /\ DOMAIN w.src = Group(daemon.scan, sec)
    BY <1>2, <1>4, PlannedItem
  <2> HIDE DEF w
  <2>2. CASE ~Current(w.sec, w.src)
    BY <1>3, <2>1, <2>2
  <2>3. CASE Current(w.sec, w.src)
    <3>1. PICK id \in ActiveOf(sec) : sums[id].src = w.src
      BY <2>1, <2>3 DEF Current
    <3> QED
      BY <1>1, <2>1, <3>1, PlanRetires DEF Members, ActiveOf
  <2> QED
    BY <2>2, <2>3
<1>15. UnmarkedIsOwed'
  <2> SUFFICES ASSUME NEW id \in Active', sums'[id].owed, OwnedAlone(id)', Missing(id)'
               PROVE  \E r \in outbox' : r.fact \in Members(sums'[id]) /\ r.status = "consolidated"
    BY DEF UnmarkedIsOwed, RowsOf
  <2>1. id \in Active /\ sums[id].owed /\ Members(sums'[id]) = Members(sums[id])
        /\ sums'[id].sec = sums[id].sec
    BY <1>1, PlanRetires DEF Members
  <2>2. OwnedAlone(id) /\ Missing(id)
    BY <1>2, <2>1 DEF OwnedAlone, Missing
  <2> QED
    BY <1>2, <2>1, <2>2 DEF FoldInv, UnmarkedIsOwed, RowsOf
<1>16. ScanIsTrue' /\ CurIsMarked' /\ NoZombieRow'
  BY <1>3 DEF ScanIsTrue, CurIsMarked, NoZombieRow
<1> QED
  BY <1>6, <1>7, <1>9, <1>10, <1>11, <1>12, <1>13, <1>14, <1>15, <1>16 DEF FoldInv, TypeOK

-----------------------------------------------------------------------------
(* The summary's transaction. *)

Kept(S, id) == S[id].sec = sums[id].sec /\ S[id].src = sums[id].src /\ S[id].owed = sums[id].owed

\* A planned item is of its group's only summary.
LEMMA OldIsOne ==
    ASSUME FoldInv, daemon.pc = "fold", NEW w \in daemon.todo
    PROVE  /\ w \in Item /\ w.sec \in Sections /\ w.old = ActiveOf(w.sec) /\ w.old \subseteq Active
           /\ \A x, y \in Ends(w.sec) : x = y
           /\ w.old # {} => \E id \in Active : w.old = {id} /\ Ends(w.sec) = {id}
           /\ w.old = {} => w.lost = {}
           /\ Predecessor(w) \subseteq {id \in Ids : sums[id].sec = w.sec}
           /\ Inserted(w) => Predecessor(w) = Ends(w.sec)
<1>1. w \in Item /\ w.sec \in Sections
  BY ItemsAre DEF FoldInv, TypeOK, DaemonOK, Folding
<1>2. w.old = ActiveOf(w.sec) /\ w.lost \subseteq UNION {Members(sums[id]) : id \in w.old}
  BY DEF FoldInv, PlanStands, Folding
<1>3. \A x, y \in Ends(w.sec) : x = y
  BY <1>1 DEF FoldInv, OneEnd
<1>4. w.old \subseteq Ends(w.sec) /\ w.old \subseteq Active /\ Active \subseteq Ids
  BY <1>2 DEF Ends, ActiveOf, Active
<1>5. Loose(w.sec) # {} => Max(Loose(w.sec)) \in Loose(w.sec)
  <2> SUFFICES ASSUME NEW x \in Loose(w.sec) PROVE Max(Loose(w.sec)) \in Loose(w.sec)
    OBVIOUS
  <2>1. \A y \in Loose(w.sec) : y = x
    BY <1>3 DEF Ends
  <2>2. x \in Nat
    BY SummariesAre DEF Loose, FoldInv, TypeOK
  <2>3. x >= x
    BY <2>2
  <2>4. \A y \in Loose(w.sec) : x >= y
    BY <2>1, <2>3
  <2> QED
    BY <2>4 DEF Max
<1>6. Predecessor(w) \subseteq {id \in Ids : sums[id].sec = w.sec}
  <2>1. \A id \in ActiveOf(w.sec) : sums[id].sec = w.sec
    BY DEF ActiveOf
  <2>2. \A id \in Loose(w.sec) : id \in Ids /\ sums[id].sec = w.sec
    BY DEF Loose
  <2>3. Predecessor(w) \subseteq ActiveOf(w.sec) \cup Loose(w.sec)
    BY <1>2, <1>5 DEF Predecessor
  <2> QED
    BY <1>2, <1>4, <2>1, <2>2, <2>3
<1>7. w.old # {} => \E id \in Active : w.old = {id} /\ Ends(w.sec) = {id}
  BY <1>3, <1>4
<1>8. w.old = {} => w.lost = {}
  BY <1>2
<1>9. Inserted(w) => Predecessor(w) = Ends(w.sec)
  <2>1. CASE w.old # {} /\ w.lost # {}
    <3>1. Ends(w.sec) = w.old
      BY <1>7, <2>1
    <3> QED
      BY <2>1, <3>1 DEF Predecessor
  <2>2. CASE w.old = {} /\ Loose(w.sec) # {}
    <3>1. Max(Loose(w.sec)) \in Ends(w.sec)
      BY <1>5, <2>2 DEF Ends
    <3>2. Ends(w.sec) = {Max(Loose(w.sec))}
      BY <1>3, <3>1
    <3> QED
      BY <1>8, <2>2, <3>2 DEF Predecessor
  <2>3. CASE w.old = {} /\ Loose(w.sec) = {}
    <3>1. Ends(w.sec) = {}
      BY <1>2, <2>3 DEF Ends
    <3> QED
      BY <1>8, <2>3, <3>1 DEF Predecessor
  <2> QED
    BY <2>1, <2>2, <2>3 DEF Inserted
<1> QED
  BY <1>1, <1>2, <1>3, <1>4, <1>6, <1>7, <1>8, <1>9

\* A changed summary takes its row's place.
LEMMA Replaces ==
    ASSUME FoldInv, daemon.pc = "fold", NEW w \in daemon.todo, Write(w), ~Inserted(w)
    PROVE  LET t == Target(w)
           IN  /\ Predecessor(w) = {} /\ w.lost = {} /\ w.old = {t} /\ Ends(w.sec) = {t} /\ t \in Active
               /\ sums' = [sums EXCEPT ![t] = [sec |-> w.sec, src |-> w.src, state |-> "active",
                                               by |-> None, owed |-> RowsOf(DOMAIN w.src) # {}]]
<1>1. w.old # {} /\ w.lost = {}
  BY DEF Inserted
<1>2. PICK id \in Active : w.old = {id} /\ Ends(w.sec) = {id}
  BY <1>1, OldIsOne
<1>3. Target(w) = id
  BY <1>2 DEF Target
<1>4. Predecessor(w) = {}
  BY <1>1 DEF Predecessor
<1>5. sums \in [Ids -> Summary]
  BY SummariesAre DEF FoldInv, TypeOK
<1>6. /\ [x \in Ids |-> IF w.lost # {} /\ x \in w.old
                          THEN [sums[x] EXCEPT !.state = "lineage"] ELSE sums[x]] = sums
      /\ [x \in Ids |-> IF x \in Predecessor(w) THEN [sums[x] EXCEPT !.by = Target(w)] ELSE sums[x]] = sums
  BY <1>1, <1>4, <1>5
<1>7. sums' = [sums EXCEPT ![Target(w)] = [sec |-> w.sec, src |-> w.src, state |-> "active",
                                           by |-> None, owed |-> RowsOf(DOMAIN w.src) # {}]]
  BY <1>6 DEF Write, Written
<1> QED
  BY <1>1, <1>2, <1>3, <1>4, <1>7

\* A summary that lost a member, or whose group has none, gets a successor.
LEMMA Succeeds ==
    ASSUME FoldInv, daemon.pc = "fold", NEW w \in daemon.todo, Write(w), Inserted(w)
    PROVE  LET t == Target(w)
           IN  /\ t = Len(sums) + 1 /\ Len(sums') = t /\ sums' \in Seq(Summary)
               /\ sums'[t] = [sec |-> w.sec, src |-> w.src, state |-> "active",
                              by |-> None, owed |-> RowsOf(DOMAIN w.src) # {}]
               /\ \A id \in Ids :
                    /\ Kept(sums', id)
                    /\ sums'[id].state = IF id \in w.old THEN "lineage" ELSE sums[id].state
                    /\ sums'[id].by = IF id \in Predecessor(w) THEN t ELSE sums[id].by
<1> DEFINE t == Target(w)
           first == [id \in Ids |-> IF w.lost # {} /\ id \in w.old
                                      THEN [sums[id] EXCEPT !.state = "lineage"] ELSE sums[id]]
           linked == [id \in Ids |-> IF id \in Predecessor(w)
                                       THEN [first[id] EXCEPT !.by = t] ELSE first[id]]
           new == [sec |-> w.sec, src |-> w.src, state |-> "active",
                   by |-> None, owed |-> RowsOf(DOMAIN w.src) # {}]
<1>1. sums \in [Ids -> Summary] /\ Len(sums) \in Nat /\ Ids = 1 .. Len(sums)
  BY SummariesAre DEF FoldInv, TypeOK
<1>2. t = Len(sums) + 1 /\ t \in Nat
  BY <1>1 DEF Target
<1>3. sums' = Append(linked, new)
  BY DEF Write, Written
<1>4. new \in Summary
  BY OldIsOne, ItemsAre DEF Summary
<1>5. first \in [Ids -> Summary]
  <2>1. ASSUME NEW id \in Ids PROVE [sums[id] EXCEPT !.state = "lineage"] \in Summary
    BY <1>1 DEF Summary
  <2> QED
    BY <1>1, <2>1
<1>6. linked \in [Ids -> Summary]
  <2> HIDE DEF first
  <2>1. ASSUME NEW id \in Ids PROVE [first[id] EXCEPT !.by = t] \in Summary
    BY <1>2, <1>5 DEF Summary
  <2> QED
    BY <1>5, <2>1
<1>7. ASSUME NEW id \in Ids
      PROVE  /\ linked[id].sec = sums[id].sec /\ linked[id].src = sums[id].src
             /\ linked[id].owed = sums[id].owed
             /\ linked[id].state = IF id \in w.old THEN "lineage" ELSE sums[id].state
             /\ linked[id].by = IF id \in Predecessor(w) THEN t ELSE sums[id].by
  <2>1. /\ first[id].sec = sums[id].sec /\ first[id].src = sums[id].src
        /\ first[id].owed = sums[id].owed /\ first[id].by = sums[id].by
        /\ first[id].state = IF w.lost # {} /\ id \in w.old THEN "lineage" ELSE sums[id].state
    BY <1>1 DEF Summary
  <2>2. first[id] \in Summary
    BY <1>5
  <2> HIDE DEF first
  <2>3. /\ linked[id].sec = first[id].sec /\ linked[id].src = first[id].src
        /\ linked[id].owed = first[id].owed /\ linked[id].state = first[id].state
        /\ linked[id].by = IF id \in Predecessor(w) THEN t ELSE first[id].by
    BY <2>2 DEF Summary
  <2>4. w.lost # {} \/ w.old = {}
    BY DEF Inserted
  <2> QED
    BY <2>1, <2>3, <2>4
<1> HIDE DEF linked, new
<1>8. linked \in Seq(Summary) /\ Len(linked) = Len(sums)
  BY <1>1, <1>6
<1>9. /\ sums' \in Seq(Summary) /\ Len(sums') = t /\ sums'[t] = new
      /\ \A id \in Ids : sums'[id] = linked[id]
  BY <1>1, <1>2, <1>3, <1>4, <1>8
<1> QED
  BY <1>2, <1>7, <1>9 DEF Kept, new

\* Either way: the group's only summary is the one that was written, and the
\* other groups have theirs.
LEMMA WritesOne ==
    ASSUME FoldInv, daemon.pc = "fold", NEW w \in daemon.todo, Write(w)
    PROVE  LET t == Target(w)
           IN  /\ sums' \in Seq(Summary) /\ t \in Nat /\ Ids' = Ids \cup {t}
               /\ sums'[t].sec = w.sec /\ sums'[t].src = w.src
               /\ sums'[t].owed = (RowsOf(DOMAIN w.src) # {})
               /\ \A id \in Ids \ {t} : Kept(sums', id)
               /\ t \in Ids => /\ sums[t].sec = w.sec /\ Members(sums[t]) \subseteq DOMAIN w.src
                               /\ Predecessor(w) = {}
               /\ t \in Active' /\ Active' \subseteq (Active \ w.old) \cup {t}
               /\ \A sec \in Sections \ {w.sec} :
                    ActiveOf(sec)' = ActiveOf(sec) /\ Ends(sec)' \subseteq Ends(sec)
               /\ Ends(w.sec)' \subseteq {t}
<1> DEFINE t == Target(w)
<1>1. sums \in [Ids -> Summary] /\ Len(sums) \in Nat /\ Ids = 1 .. Len(sums) /\ Ids \subseteq Nat
      /\ Active \subseteq Ids /\ w.old = ActiveOf(w.sec) /\ w.sec \in Sections
      /\ \A id \in w.old : sums[id].sec = w.sec
  BY SummariesAre, OldIsOne DEF FoldInv, TypeOK, ActiveOf
<1>2. CASE ~Inserted(w)
  <2>1. /\ Predecessor(w) = {} /\ w.lost = {} /\ w.old = {t} /\ Ends(w.sec) = {t} /\ t \in Active
        /\ sums' = [sums EXCEPT ![t] = [sec |-> w.sec, src |-> w.src, state |-> "active",
                                        by |-> None, owed |-> RowsOf(DOMAIN w.src) # {}]]
    BY <1>2, Replaces
  <2>2. [sec |-> w.sec, src |-> w.src, state |-> "active", by |-> None,
         owed |-> RowsOf(DOMAIN w.src) # {}] \in Summary
    BY OldIsOne, ItemsAre DEF Summary
  <2>3. t \in Ids /\ sums' \in [Ids -> Summary]
    BY <1>1, <2>1, <2>2
  <2>4. sums' \in Seq(Summary) /\ Len(sums') = Len(sums)
    BY <1>1, <2>3
  <2>5. Ids' = Ids
    BY <2>4 DEF Ids
  <2>6. /\ sums'[t].sec = w.sec /\ sums'[t].src = w.src /\ sums'[t].state = "active"
        /\ sums'[t].owed = (RowsOf(DOMAIN w.src) # {})
        /\ \A id \in Ids \ {t} : sums'[id] = sums[id]
    BY <1>1, <2>1, <2>3
  <2>7. Active' = Active
    BY <2>1, <2>5, <2>6 DEF Active
  <2>8. Members(sums[t]) \subseteq DOMAIN w.src
    BY <2>1 DEF FoldInv, PlanStands, Folding
  <2>9. \A sec \in Sections : ActiveOf(sec)' = ActiveOf(sec) /\ Loose(sec)' = Loose(sec)
    <3>1. sums[t].sec = w.sec /\ sums[t].state = "active"
      BY <1>1, <2>1 DEF Active
    <3>2. \A id \in Ids : /\ sums'[id].sec = sums[id].sec /\ sums'[id].state = sums[id].state
                          /\ sums[id].state = "lineage" => sums'[id] = sums[id]
      BY <2>6, <3>1
    <3>3. \A sec \in Sections : ActiveOf(sec)' = ActiveOf(sec)
      <4>1. \A id \in Active : sums'[id].sec = sums[id].sec
        BY <1>1, <3>2
      <4> QED
        BY <2>7, <4>1 DEF ActiveOf
    <3>4. \A sec \in Sections : Loose(sec)' = Loose(sec)
      BY <2>5, <3>2 DEF Loose
    <3> QED
      BY <3>3, <3>4
  <2>10. /\ sums[t].sec = w.sec
         /\ Active' \subseteq (Active \ w.old) \cup {t} /\ t \in Active'
    BY <1>1, <2>1, <2>7
  <2>11. \A sec \in Sections : Ends(sec)' = Ends(sec)
    BY <2>9 DEF Ends
  <2>12. \A id \in Ids \ {t} : Kept(sums', id)
    BY <2>6 DEF Kept
  <2>13. t \in Nat /\ Ids' = Ids \cup {t}
    BY <1>1, <2>3, <2>5
  <2> HIDE DEF t
  <2> QED
    BY <1>1, <2>1, <2>4, <2>6, <2>8, <2>9, <2>10, <2>11, <2>12, <2>13 DEF t
<1>3. CASE Inserted(w)
  <2>1. /\ t = Len(sums) + 1 /\ Len(sums') = t /\ sums' \in Seq(Summary)
        /\ sums'[t] = [sec |-> w.sec, src |-> w.src, state |-> "active",
                       by |-> None, owed |-> RowsOf(DOMAIN w.src) # {}]
        /\ \A id \in Ids :
             /\ Kept(sums', id)
             /\ sums'[id].state = IF id \in w.old THEN "lineage" ELSE sums[id].state
             /\ sums'[id].by = IF id \in Predecessor(w) THEN t ELSE sums[id].by
    BY <1>3, Succeeds
  <2>2. t \in Nat /\ t \notin Ids /\ Ids' = Ids \cup {t}
    BY <1>1, <2>1 DEF Ids
  <2>3. t # None
    BY <2>2, FoldAssumption
  <2>4. Active' = (Active \ w.old) \cup {t}
    BY <1>1, <2>1, <2>2 DEF Active
  <2>5. Predecessor(w) \subseteq {id \in Ids : sums[id].sec = w.sec}
    BY OldIsOne
  <2>6. /\ sums'[t].sec = w.sec /\ sums'[t].state = "active" /\ w.old \subseteq Active
        /\ \A id \in Ids : sums'[id].sec = sums[id].sec
    BY <1>1, <2>1 DEF Kept, ActiveOf
  <2> HIDE DEF t
  <2>7. ASSUME NEW sec \in Sections \ {w.sec}
        PROVE  ActiveOf(sec)' = ActiveOf(sec) /\ Ends(sec)' \subseteq Ends(sec)
    <3>1. ActiveOf(sec)' = ActiveOf(sec)
      BY <1>1, <2>2, <2>4, <2>6, <2>7 DEF ActiveOf
    <3>2. ASSUME NEW x \in Loose(sec)' PROVE x \in Loose(sec)
      <4>1. /\ x \in Ids \cup {t} /\ sums'[x].sec = sec /\ sums'[x].state = "lineage"
            /\ sums'[x].by = None
        BY <2>2, <3>2 DEF Loose
      <4>2. x \in Ids /\ sums[x].sec = sec
        BY <2>6, <4>1
      <4>3. x \notin w.old /\ x \notin Predecessor(w)
        BY <1>1, <2>5, <4>2
      <4>4. sums[x].state = "lineage" /\ sums[x].by = None
        BY <2>1, <4>1, <4>2, <4>3
      <4> QED
        BY <4>2, <4>4 DEF Loose
    <3> QED
      BY <3>1, <3>2 DEF Ends
  <2>8. ASSUME NEW x \in Ends(w.sec)', x # t PROVE FALSE
    <3>1. x \in Ids /\ x \in Ends(w.sec) /\ x \notin w.old /\ x \notin Predecessor(w)
      <4>1. CASE x \in ActiveOf(w.sec)'
        <5>1. x \in Active /\ x \notin w.old
          BY <2>4, <2>8, <4>1 DEF ActiveOf
        <5>2. x \in Ids /\ sums[x].sec = w.sec
          BY <1>1, <2>6, <4>1, <5>1 DEF ActiveOf
        <5> QED
          BY <1>1, <5>1, <5>2 DEF ActiveOf
      <4>2. CASE x \in Loose(w.sec)'
        <5>1. /\ x \in Ids /\ sums'[x].sec = w.sec /\ sums'[x].state = "lineage"
              /\ sums'[x].by = None
          BY <2>2, <2>8, <4>2 DEF Loose
        <5>2. x \notin Predecessor(w)
          BY <2>1, <2>3, <5>1
        <5>3. sums[x].by = None /\ sums[x].sec = w.sec
          BY <2>1, <2>6, <5>1, <5>2
        <5>4. CASE x \in w.old
          <6>1. w.lost # {}
            BY <1>3, <5>4 DEF Inserted
          <6> QED
            BY <5>2, <5>4, <6>1 DEF Predecessor
        <5>5. CASE x \notin w.old
          <6>1. x \in Loose(w.sec)
            BY <2>1, <5>1, <5>3, <5>5 DEF Loose
          <6> QED
            BY <5>1, <5>2, <5>5, <6>1 DEF Ends
        <5> QED
          BY <5>4, <5>5
      <4> QED
        BY <2>8, <4>1, <4>2 DEF Ends
    <3>2. w.old = {}
      BY <3>1, OldIsOne
    <3>3. x \in Loose(w.sec)
      BY <1>1, <3>1, <3>2 DEF Ends
    <3>4. Loose(w.sec) = {x}
      BY <3>1, <3>3, OldIsOne DEF Ends
    <3>5. Max({x}) = x
      <4>1. x >= x
        BY <1>1, <3>1
      <4> QED
        BY <4>1 DEF Max
    <3>6. Predecessor(w) = {x}
      BY <3>2, <3>4, <3>5, OldIsOne DEF Predecessor
    <3> QED
      BY <3>1, <3>6
  <2>9. t \in Active' /\ Active' \subseteq (Active \ w.old) \cup {t}
    BY <2>4
  <2>10. sums'[t].src = w.src /\ sums'[t].owed = (RowsOf(DOMAIN w.src) # {})
    BY <2>1
  <2>11. \A id \in Ids \ {t} : Kept(sums', id)
    BY <2>1
  <2> QED
    BY <2>1, <2>2, <2>6, <2>7, <2>8, <2>9, <2>10, <2>11 DEF t
<1> QED
  BY <1>2, <1>3

LEMMA WriteStep == ASSUME FoldInv, FoldOne PROVE FoldInv'
<1>1. daemon.pc = "fold" /\ Folding /\ TypeOK /\ Ids \subseteq Nat /\ Active \subseteq Ids
  BY SummariesAre DEF FoldOne, Folding, FoldInv, TypeOK
<1>2. PICK w \in daemon.todo : Write(w)
  BY DEF FoldOne
<1> DEFINE t == Target(w)
<1>3. /\ sums' \in Seq(Summary) /\ t \in Nat /\ Ids' = Ids \cup {t}
      /\ sums'[t].sec = w.sec /\ sums'[t].src = w.src
      /\ sums'[t].owed = (RowsOf(DOMAIN w.src) # {})
      /\ \A id \in Ids \ {t} : Kept(sums', id)
      /\ t \in Ids => /\ sums[t].sec = w.sec /\ Members(sums[t]) \subseteq DOMAIN w.src
                      /\ Predecessor(w) = {}
      /\ t \in Active' /\ Active' \subseteq (Active \ w.old) \cup {t}
      /\ \A sec \in Sections \ {w.sec} :
           ActiveOf(sec)' = ActiveOf(sec) /\ Ends(sec)' \subseteq Ends(sec)
      /\ Ends(w.sec)' \subseteq {t}
  BY <1>1, <1>2, WritesOne
<1>4. /\ w \in Item /\ w.sec \in Sections /\ w.old = ActiveOf(w.sec) /\ w.old \subseteq Active
      /\ Predecessor(w) \subseteq Ids
  BY <1>1, OldIsOne
<1>5. /\ UNCHANGED <<doc, node, graph>>
      /\ refold' = {[r EXCEPT !.older = @ \ {t}] : r \in refold} \cup
                     UNION {RefoldRows(id, w.lost, {t}) : id \in w.old}
      /\ cites' = cites \/ cites' = LinkedCites(Written(w), Max(Predecessor(w)), t)
      /\ outbox' = {IF r.fact \in DOMAIN w.src /\ r.status \in InLedger
                      THEN [r EXCEPT !.status = "consolidated"] ELSE r : r \in outbox}
      /\ daemon' = [daemon EXCEPT !.pc = "sync", !.todo = @ \ {w}, !.cur = t,
                                  !.skip = Predecessor(w)]
  BY <1>2 DEF Write, facts
<1> HIDE DEF t
<1>6. /\ daemon'.pc = "sync" /\ daemon'.todo = daemon.todo \ {w} /\ daemon'.cur = t
      /\ daemon'.scan = daemon.scan /\ daemon'.again = daemon.again
  BY <1>1, <1>5 DEF TypeOK, DaemonOK
<1>7. /\ DOMAIN w.src = Group(daemon.scan, w.sec)
      /\ \A f \in DOMAIN w.src : w.sec \in SectionsOf[f] /\ node[f].grounded /\ node[f].rem
  BY <1>1 DEF FoldInv, PlanStands
<1>8. /\ \A id \in Ids : sums'[id].sec = sums[id].sec
      /\ \A id \in Ids \ {t} : Members(sums'[id]) = Members(sums[id]) /\ sums'[id].owed = sums[id].owed
      /\ Members(sums'[t]) = DOMAIN w.src
  BY <1>3 DEF Kept, Members
<1>9. ASSUME NEW q \in refold'
      PROVE  /\ q \in RefoldRow /\ q.sum \in Ids /\ q.older \subseteq Ids
             /\ \A id \in q.older : sums[id].sec # sums[q.sum].sec
  <2>1. CASE \E r \in refold : q = [r EXCEPT !.older = @ \ {t}]
    <3>1. PICK r \in refold : q = [r EXCEPT !.older = @ \ {t}]
      BY <2>1
    <3>2. r \in RefoldRow
      BY <1>1 DEF TypeOK, SummariesOK
    <3>3. q \in RefoldRow /\ q.sum = r.sum /\ q.older \subseteq r.older
      BY <3>1, <3>2 DEF RefoldRow
    <3> QED
      BY <3>3 DEF FoldInv, OlderIsElsewhere
  <2>2. CASE \E id \in w.old : q \in RefoldRows(id, w.lost, {t})
    <3>1. PICK id \in w.old : q \in RefoldRows(id, w.lost, {t})
      BY <2>2
    <3> DEFINE T == w.lost
               written == {t}
    <3>2. /\ id \in Active /\ T \in SUBSET Facts /\ written \in SUBSET Nat
          /\ q \in RefoldRows(id, T, written)
      BY <1>3, <1>4, <3>1 DEF Item
    <3> HIDE DEF T, written
    <3>3. q \in RefoldRow /\ q.sum = id /\ q.older \subseteq Elsewhere(id)
      BY <3>2, OpenedRows
    <3> QED
      BY <1>1, <3>2, <3>3 DEF Elsewhere
  <2> QED
    BY <1>5, <2>1, <2>2
<1>10. outbox' \subseteq LedgerRow /\ \A r \in outbox : r.status = "consolidated" => r \in outbox'
  <2>1. outbox \subseteq LedgerRow
    BY <1>1 DEF TypeOK, SummariesOK
  <2>2. \A r \in outbox : [r EXCEPT !.status = "consolidated"] \in LedgerRow
    BY <2>1 DEF LedgerRow
  <2> QED
    BY <1>5, <2>1, <2>2 DEF InLedger
<1>11. cites' \in [Insights -> SUBSET Ids']
  <2>1. cites \in [Insights -> SUBSET Ids]
    BY <1>1 DEF TypeOK, SummariesOK
  <2>2. CASE cites' = cites
    BY <1>3, <2>1, <2>2
  <2>3. CASE cites' = LinkedCites(Written(w), Max(Predecessor(w)), t)
    <3>1. \A i \in Insights :
            Repointed(Written(w), i, cites[i], Max(Predecessor(w)), t) \subseteq cites[i] \cup {t}
      BY RepointedKeeps
    <3> QED
      BY <1>3, <2>1, <2>3, <3>1 DEF LinkedCites
  <2> QED
    BY <1>5, <2>2, <2>3
<1>12. SummariesOK' /\ FactsOK'
  BY <1>1, <1>3, <1>5, <1>9, <1>10, <1>11 DEF TypeOK, SummariesOK, FactsOK
<1>13. DaemonOK'
  <2>1. Predecessor(w) \in SUBSET Nat
    BY <1>1, <1>4
  <2>2. daemon' \in [pc : {"idle", "reconcile", "closing", "recheck", "scan", "plan",
                           "mark_retired", "fold", "sync", "close", "settled"},
                     scan : SUBSET (Facts \X Sections), todo : SUBSET (Nat \cup Item),
                     skip : SUBSET Nat, cur : Nat \cup {None}, again : SUBSET Facts]
    BY <1>1, <1>3, <1>5, <2>1 DEF TypeOK, DaemonOK
  <2> QED
    BY <1>1, <1>3, <1>6, <2>2 DEF TypeOK, DaemonOK, InSweep, Folding
<1>14. OneEnd'
  BY <1>3 DEF FoldInv, OneEnd
<1>15. MembersQualify'
  <2> SUFFICES ASSUME NEW id \in Ids', NEW f \in Members(sums'[id])
               PROVE  sums'[id].sec \in SectionsOf[f] /\ node[f].grounded /\ node[f].rem
    BY <1>5 DEF MembersQualify
  <2>1. CASE id = t
    BY <1>3, <1>7, <1>8, <2>1
  <2>2. CASE id # t
    BY <1>3, <1>8, <2>2 DEF FoldInv, MembersQualify
  <2> QED
    BY <2>1, <2>2
<1>16. OlderIsElsewhere'
  BY <1>3, <1>8, <1>9 DEF OlderIsElsewhere
<1>17. ASSUME NEW sec \in Sections \ {w.sec}
       PROVE  /\ ActiveOf(sec)' = ActiveOf(sec)
              /\ \A id \in ActiveOf(sec) : Members(sums'[id]) = Members(sums[id])
  <2>1. \A id \in ActiveOf(sec) : id \in Ids /\ sums[id].sec = sec
    BY <1>1 DEF ActiveOf
  <2> QED
    BY <1>3, <1>8, <2>1
<1>18. PlanStands'
  <2>1. ASSUME NEW x \in daemon.todo \ {w}
        PROVE  /\ x.old = ActiveOf(x.sec)' /\ DOMAIN x.src = Group(daemon.scan, x.sec)
               /\ \A f \in DOMAIN x.src : x.sec \in SectionsOf[f] /\ node[f].grounded /\ node[f].rem
               /\ x.lost \subseteq UNION {Members(sums'[id]) : id \in x.old}
               /\ \A id \in x.old : Members(sums'[id]) \subseteq DOMAIN x.src \cup x.lost
    <3>1. /\ x.old = ActiveOf(x.sec) /\ DOMAIN x.src = Group(daemon.scan, x.sec)
          /\ \A f \in DOMAIN x.src : x.sec \in SectionsOf[f] /\ node[f].grounded /\ node[f].rem
          /\ x.lost \subseteq UNION {Members(sums[id]) : id \in x.old}
          /\ \A id \in x.old : Members(sums[id]) \subseteq DOMAIN x.src \cup x.lost
          /\ x.sec # w.sec
      BY <1>1 DEF FoldInv, PlanStands
    <3>2. x.sec \in Sections
      BY <1>1, ItemsAre DEF TypeOK, DaemonOK
    <3>3. ActiveOf(x.sec)' = ActiveOf(x.sec) /\ \A id \in x.old : Members(sums'[id]) = Members(sums[id])
      BY <1>17, <3>1, <3>2
    <3> QED
      BY <3>1, <3>3
  <2>2. \A x, y \in daemon.todo : x.sec = y.sec => x = y
    BY <1>1 DEF FoldInv, PlanStands
  <2> QED
    BY <1>5, <1>6, <2>1, <2>2 DEF PlanStands, Group
<1>19. GroupsAreCovered'
  <2> SUFFICES ASSUME NEW sec \in Gating(daemon.scan)
               PROVE  \/ \E x \in daemon.todo \ {w} : x.sec = sec
                      \/ Group(daemon.scan, sec) \subseteq daemon.again
                      \/ \E id \in ActiveOf(sec)' : Members(sums'[id]) = Group(daemon.scan, sec)
    BY <1>6 DEF GroupsAreCovered, Gating, Group
  <2>1. CASE sec = w.sec
    <3>1. t \in ActiveOf(w.sec)'
      BY <1>3 DEF ActiveOf
    <3> QED
      BY <1>7, <1>8, <2>1, <3>1
  <2>2. CASE sec # w.sec
    <3>1. sec \in Sections
      BY DEF Gating
    <3>2. \/ \E x \in daemon.todo : x.sec = sec
          \/ Group(daemon.scan, sec) \subseteq daemon.again
          \/ \E id \in ActiveOf(sec) : Members(sums[id]) = Group(daemon.scan, sec)
      BY <1>1 DEF FoldInv, GroupsAreCovered
    <3> QED
      BY <1>17, <2>2, <3>1, <3>2
  <2> QED
    BY <2>1, <2>2
<1>20. UnmarkedIsOwed'
  <2> SUFFICES ASSUME NEW id \in Active', sums'[id].owed, OwnedAlone(id)', Missing(id)'
               PROVE  \E r \in outbox' : r.fact \in Members(sums'[id]) /\ r.status = "consolidated"
    BY DEF UnmarkedIsOwed, RowsOf
  <2>1. CASE id = t
    <3>1. PICK r \in outbox : r.fact \in DOMAIN w.src
      BY <1>3, <2>1 DEF RowsOf
    <3>2. r \in LedgerRow
      BY <1>1 DEF TypeOK, SummariesOK
    <3>3. CASE r.status \in InLedger
      <4>1. [r EXCEPT !.status = "consolidated"] \in outbox'
        BY <1>5, <3>1, <3>3
      <4>2. /\ [r EXCEPT !.status = "consolidated"].fact = r.fact
            /\ [r EXCEPT !.status = "consolidated"].status = "consolidated"
        BY <3>2 DEF LedgerRow
      <4> QED
        BY <1>8, <2>1, <3>1, <4>1, <4>2
    <3>4. CASE r.status \notin InLedger
      <4>1. r.status = "consolidated"
        BY <3>2, <3>4 DEF LedgerRow, InLedger
      <4> QED
        BY <1>8, <1>10, <2>1, <3>1, <4>1
    <3> QED
      BY <3>3, <3>4
  <2>2. CASE id # t
    <3>1. id \in Active /\ sums[id].owed /\ Members(sums'[id]) = Members(sums[id])
          /\ sums'[id].sec = sums[id].sec
      BY <1>1, <1>3, <1>8, <2>2
    <3>2. OwnedAlone(id) /\ Missing(id)
      BY <1>5, <3>1 DEF OwnedAlone, Missing
    <3> QED
      BY <1>10, <3>1, <3>2 DEF FoldInv, UnmarkedIsOwed, RowsOf
  <2> QED
    BY <2>1, <2>2
<1>21. ScanIsTrue' /\ CurIsMarked' /\ NoZombieRow'
  BY <1>6 DEF ScanIsTrue, CurIsMarked, NoZombieRow
<1> QED
  BY <1>12, <1>13, <1>14, <1>15, <1>16, <1>18, <1>19, <1>20, <1>21 DEF FoldInv, TypeOK

-----------------------------------------------------------------------------
(* The rest of a fold. *)

\* What the steps of a fold that write no summary have to keep.
LEMMA FoldGoesOn ==
    ASSUME FoldInv, UNCHANGED <<doc, node, sums, refold, cites>>, Folding, Folding',
           daemon'.scan = daemon.scan, daemon'.todo \subseteq daemon.todo
    PROVE  /\ FactsOK' /\ OneEnd' /\ MembersQualify' /\ OlderIsElsewhere'
           /\ ScanIsTrue' /\ NoZombieRow' /\ PlanStands'
           /\ Ids' = Ids /\ Active' = Active
           /\ outbox' = outbox /\ graph' \in [nodes : SUBSET Nat, edges : SUBSET (Facts \X Nat), retired : SUBSET Nat]
                => SummariesOK'
<1>1. /\ FactsOK' /\ OneEnd' /\ MembersQualify' /\ OlderIsElsewhere'
      /\ Ids' = Ids /\ Active' = Active
      /\ \A sec \in Sections : ActiveOf(sec)' = ActiveOf(sec)
  BY StoresStand
<1>2. ScanIsTrue' /\ NoZombieRow'
  BY DEF ScanIsTrue, NoZombieRow, Folding
<1>3. PlanStands'
  <2>1. \A w \in daemon.todo : w.sec \in Sections
    BY ItemsAre DEF FoldInv, TypeOK, DaemonOK
  <2> QED
    BY <1>1, <2>1 DEF FoldInv, PlanStands, Group
<1>4. outbox' = outbox /\ graph' \in [nodes : SUBSET Nat, edges : SUBSET (Facts \X Nat), retired : SUBSET Nat]
        => SummariesOK'
  BY <1>1 DEF FoldInv, TypeOK, SummariesOK
<1> QED
  BY <1>1, <1>2, <1>3, <1>4

\* Nor does a group lose its cover, when no item of it goes.
LEMMA CoverStays ==
    ASSUME FoldInv, sums' = sums, Folding, daemon'.scan = daemon.scan,
           daemon'.todo = daemon.todo, daemon'.again = daemon.again
    PROVE  GroupsAreCovered'
<1>1. \A sec \in Gating(daemon.scan) : sec \in Sections /\ ActiveOf(sec)' = ActiveOf(sec)
  BY Unwritten DEF Gating
<1> QED
  BY <1>1 DEF FoldInv, GroupsAreCovered, Gating, Group

LEMMA MarkRetiredStep == ASSUME FoldInv, MarkRetired PROVE FoldInv'
<1>1. TypeOK /\ Folding /\ UNCHANGED <<doc, node, outbox, sums, refold, cites>>
      /\ daemon' = [daemon EXCEPT !.pc = "fold", !.skip = {}]
  BY DEF MarkRetired, facts, Folding, FoldInv
<1>2. /\ daemon'.pc = "fold" /\ daemon'.scan = daemon.scan /\ daemon'.todo = daemon.todo
      /\ daemon'.again = daemon.again /\ Folding'
  BY <1>1 DEF TypeOK, DaemonOK, Folding
<1>3. /\ graph' \in [nodes : SUBSET Nat, edges : SUBSET (Facts \X Nat), retired : SUBSET Nat]
      /\ graph'.edges = graph.edges
  <2>1. graph \in [nodes : SUBSET Nat, edges : SUBSET (Facts \X Nat), retired : SUBSET Nat]
    BY <1>1 DEF TypeOK, SummariesOK
  <2>2. \/ graph' = [graph EXCEPT !.retired = @ \cup (daemon.skip \cap graph.nodes)]
        \/ graph' = graph
    BY DEF MarkRetired
  <2> QED
    BY <2>1, <2>2
<1>4. /\ FactsOK' /\ OneEnd' /\ MembersQualify' /\ OlderIsElsewhere'
      /\ ScanIsTrue' /\ NoZombieRow' /\ PlanStands' /\ SummariesOK'
      /\ Active' = Active
  BY <1>1, <1>2, <1>3, FoldGoesOn
<1>5. DaemonOK'
  BY <1>1, <1>2, <1>4 DEF TypeOK, DaemonOK, InSweep, Folding
<1>6. GroupsAreCovered' /\ UnmarkedIsOwed'
  BY <1>1, <1>2, <1>3, CoverStays, StillOwed
<1>7. CurIsMarked'
  BY <1>2 DEF CurIsMarked
<1> QED
  BY <1>4, <1>5, <1>6, <1>7 DEF FoldInv, TypeOK

LEMMA FoldFailsStep == ASSUME FoldInv, FoldFails PROVE FoldInv'
<1>1. TypeOK /\ Folding /\ UNCHANGED <<doc, node, outbox, sums, refold, graph, cites>>
  BY DEF FoldFails, facts, Folding, FoldInv
<1>2. PICK w \in daemon.todo :
        daemon' = [daemon EXCEPT !.todo = @ \ {w}, !.again = @ \cup DOMAIN w.src]
  BY DEF FoldFails
<1>3. w \in Item /\ DOMAIN w.src \subseteq Facts /\ DOMAIN w.src = Group(daemon.scan, w.sec)
  BY <1>1, ItemsAre DEF FoldInv, TypeOK, DaemonOK, PlanStands
<1>4. /\ daemon'.pc = "fold" /\ daemon'.scan = daemon.scan /\ daemon'.todo = daemon.todo \ {w}
      /\ daemon'.again = daemon.again \cup DOMAIN w.src /\ Folding'
  BY <1>1, <1>2 DEF TypeOK, DaemonOK, Folding, FoldFails
<1>5. /\ FactsOK' /\ OneEnd' /\ MembersQualify' /\ OlderIsElsewhere'
      /\ ScanIsTrue' /\ NoZombieRow' /\ PlanStands' /\ SummariesOK'
      /\ Active' = Active
  BY <1>1, <1>4, FoldGoesOn DEF TypeOK, SummariesOK
<1>6. DaemonOK'
  <2>1. daemon' \in [pc : {"idle", "reconcile", "closing", "recheck", "scan", "plan",
                           "mark_retired", "fold", "sync", "close", "settled"},
                     scan : SUBSET (Facts \X Sections), todo : SUBSET (Nat \cup Item),
                     skip : SUBSET Nat, cur : Nat \cup {None}, again : SUBSET Facts]
    BY <1>1, <1>2, <1>3 DEF TypeOK, DaemonOK
  <2> QED
    BY <1>1, <1>4, <2>1 DEF TypeOK, DaemonOK, InSweep, Folding
<1>7. GroupsAreCovered'
  <2> SUFFICES ASSUME NEW sec \in Gating(daemon.scan)
               PROVE  \/ \E x \in daemon.todo \ {w} : x.sec = sec
                      \/ Group(daemon.scan, sec) \subseteq daemon.again \cup DOMAIN w.src
                      \/ \E id \in ActiveOf(sec) : Members(sums[id]) = Group(daemon.scan, sec)
    BY <1>1, <1>4, Unwritten DEF GroupsAreCovered, Gating, Group
  <2>1. \/ \E x \in daemon.todo : x.sec = sec
        \/ Group(daemon.scan, sec) \subseteq daemon.again
        \/ \E id \in ActiveOf(sec) : Members(sums[id]) = Group(daemon.scan, sec)
    BY <1>1 DEF FoldInv, GroupsAreCovered
  <2>2. CASE sec = w.sec
    BY <1>3, <2>2
  <2>3. CASE sec # w.sec
    BY <2>1, <2>3
  <2> QED
    BY <2>2, <2>3
<1>8. UnmarkedIsOwed'
  BY <1>1, StillOwed
<1>9. CurIsMarked'
  BY <1>4 DEF CurIsMarked
<1> QED
  BY <1>5, <1>6, <1>7, <1>8, <1>9 DEF FoldInv, TypeOK

\* The graph is marked, or it fails, or the rows of the marked summary are closed.
LEMMA SyncStep == ASSUME FoldInv, Sync \/ SyncFails \/ CloseFolded PROVE FoldInv'
<1>1. TypeOK /\ Folding /\ UNCHANGED <<doc, node, sums, refold, cites>>
  BY DEF Sync, SyncFails, CloseFolded, facts, Folding, FoldInv
<1>2. /\ daemon'.pc \in {"fold", "close"} /\ daemon'.scan = daemon.scan /\ daemon'.todo = daemon.todo
      /\ daemon'.again = daemon.again /\ Folding'
  BY <1>1 DEF Sync, SyncFails, CloseFolded, TypeOK, DaemonOK, Folding
<1>3. /\ FactsOK' /\ OneEnd' /\ MembersQualify' /\ OlderIsElsewhere'
      /\ ScanIsTrue' /\ NoZombieRow' /\ PlanStands' /\ Ids' = Ids /\ Active' = Active
  BY <1>1, <1>2, FoldGoesOn
<1>4. GroupsAreCovered'
  BY <1>1, <1>2, CoverStays
<1>5. /\ sums' \in Seq(Summary) /\ refold' \subseteq RefoldRow /\ cites' \in [Insights -> SUBSET Ids']
      /\ graph \in [nodes : SUBSET Nat, edges : SUBSET (Facts \X Nat), retired : SUBSET Nat]
      /\ outbox \subseteq LedgerRow
  BY <1>1, <1>3 DEF TypeOK, SummariesOK
<1>6. CASE Sync
  <2>1. /\ graph' = Marked(daemon.cur, daemon.skip) /\ outbox' = outbox
        /\ daemon' = [daemon EXCEPT !.pc = "close", !.skip = {}]
        /\ daemon.cur \in Active /\ daemon.skip \in SUBSET Nat
    BY <1>1, <1>6 DEF Sync, TypeOK, DaemonOK
  <2>2. /\ graph' \in [nodes : SUBSET Nat, edges : SUBSET (Facts \X Nat), retired : SUBSET Nat]
        /\ graph.edges \subseteq graph'.edges /\ ~Missing(daemon.cur)'
    BY <1>1, <2>1, MarkedIsMarked DEF TypeOK
  <2>3. daemon'.cur = daemon.cur
    BY <1>1, <2>1 DEF TypeOK, DaemonOK
  <2>4. CurIsMarked'
    BY <1>1, <2>2, <2>3 DEF CurIsMarked, Missing
  <2>5. DaemonOK'
    BY <1>1, <1>2, <1>3, <2>1, <2>3 DEF TypeOK, DaemonOK, InSweep, Folding
  <2>6. UnmarkedIsOwed'
    BY <1>1, <2>1, <2>2, StillOwed
  <2> QED
    BY <1>3, <1>4, <1>5, <2>1, <2>2, <2>4, <2>5, <2>6 DEF FoldInv, TypeOK, SummariesOK
<1>7. CASE SyncFails
  <2>1. /\ UNCHANGED <<outbox, graph>>
        /\ daemon' = [daemon EXCEPT !.pc = "fold", !.cur = None, !.skip = {}]
    BY <1>7 DEF SyncFails
  <2>2. daemon'.pc = "fold"
    BY <1>1, <2>1 DEF TypeOK, DaemonOK
  <2>3. DaemonOK'
    BY <1>1, <1>2, <2>1, <2>2 DEF TypeOK, DaemonOK, InSweep, Folding
  <2>4. UnmarkedIsOwed' /\ CurIsMarked'
    BY <1>1, <2>1, <2>2, StillOwed DEF CurIsMarked
  <2> QED
    BY <1>3, <1>4, <1>5, <2>1, <2>3, <2>4 DEF FoldInv, TypeOK, SummariesOK
<1>8. CASE CloseFolded
  <2>1. /\ daemon.pc = "close" /\ graph' = graph /\ outbox' = Closed(Members(sums[daemon.cur]))
        /\ daemon' = [daemon EXCEPT !.pc = "fold", !.cur = None]
    BY <1>8 DEF CloseFolded
  <2>2. daemon'.pc = "fold"
    BY <1>1, <2>1 DEF TypeOK, DaemonOK
  <2>3. DaemonOK'
    BY <1>1, <1>2, <2>1, <2>2 DEF TypeOK, DaemonOK, InSweep, Folding
  <2>4. UnmarkedIsOwed' /\ outbox' \subseteq LedgerRow
    BY <1>1, <2>1, ClosingKeeps
  <2>5. CurIsMarked'
    BY <2>2 DEF CurIsMarked
  <2> QED
    BY <1>3, <1>4, <1>5, <2>1, <2>3, <2>4, <2>5 DEF FoldInv, TypeOK, SummariesOK
<1> QED
  BY <1>6, <1>7, <1>8

\* A row of a dense group's fact that is in no other group has a summary written
\* since, unless the group was given up.
LEMMA SettleStep == ASSUME FoldInv, Settle PROVE FoldInv'
<1>1. /\ TypeOK /\ Folding /\ UNCHANGED <<doc, node, outbox, sums, graph, cites>>
      /\ daemon.todo = {} /\ refold' = {Settled(r) : r \in refold}
      /\ daemon' = [Idle EXCEPT !.pc = "settled", !.again = daemon.again]
  BY DEF Settle, facts, Folding, FoldInv
<1>2. daemon' = [pc |-> "settled", scan |-> {}, todo |-> {}, skip |-> {}, cur |-> None,
                 again |-> daemon.again]
  BY <1>1 DEF Idle
<1>3. /\ FactsOK' /\ OneEnd' /\ MembersQualify' /\ UnmarkedIsOwed'
      /\ Ids' = Ids /\ Active' = Active
  BY <1>1, StoresStand, StillOwed
<1>4. DaemonOK'
  <2>1. daemon.again \in SUBSET Facts
    BY <1>1 DEF TypeOK, DaemonOK
  <2>2. daemon' \in [pc : {"idle", "reconcile", "closing", "recheck", "scan", "plan",
                           "mark_retired", "fold", "sync", "close", "settled"},
                     scan : SUBSET (Facts \X Sections), todo : SUBSET (Nat \cup Item),
                     skip : SUBSET Nat, cur : Nat \cup {None}, again : SUBSET Facts]
    BY <1>2, <2>1
  <2> QED
    BY <1>2, <2>2 DEF DaemonOK, InSweep, Folding
<1>5. ASSUME NEW r \in refold
      PROVE  /\ Settled(r) \in RefoldRow /\ Settled(r).sum = r.sum /\ Settled(r).fact = r.fact
             /\ Settled(r).older \subseteq r.older
             /\ Settled(r).status = "open" => Settled(r) = r
  <2>1. r \in RefoldRow
    BY <1>1 DEF TypeOK, SummariesOK
  <2>2. \/ Settled(r) = r
        \/ \E st \in {"refolded", "dropped"} : Settled(r) = [r EXCEPT !.status = st, !.older = {}]
    BY DEF Settled
  <2> QED
    BY <2>1, <2>2 DEF RefoldRow
<1>6. SummariesOK'
  <2>1. refold' \subseteq RefoldRow
    BY <1>1, <1>5
  <2> QED
    BY <1>1, <1>3, <2>1 DEF TypeOK, SummariesOK
<1>7. OlderIsElsewhere'
  <2> SUFFICES ASSUME NEW r \in refold
               PROVE  /\ Settled(r).sum \in Ids /\ Settled(r).older \subseteq Ids
                      /\ \A id \in Settled(r).older : sums[id].sec # sums[Settled(r).sum].sec
    BY <1>1, <1>3 DEF OlderIsElsewhere
  <2> QED
    BY <1>5 DEF FoldInv, OlderIsElsewhere
<1>8. NoZombieRow'
  <2> SUFFICES ASSUME NEW q \in refold', q.status = "open", SectionsOf[q.fact] = {sums[q.sum].sec}
               PROVE  q.fact \in daemon.again
    BY <1>1, <1>2 DEF NoZombieRow, Open
  <2>1. PICK r \in refold : q = Settled(r)
    BY <1>1
  <2>2. q = r /\ r \in RefoldRow /\ r.fact \in Facts
    BY <1>1, <1>5, <2>1 DEF TypeOK, SummariesOK, RefoldRow
  <2>3. /\ r.fact \notin BelowDensity(daemon.scan) /\ r.fact \notin OutOfScan(daemon.scan)
        /\ ~Refolded(r)
    <3>1. \A st \in {"refolded", "dropped"} : [r EXCEPT !.status = st, !.older = {}] # r
      BY <2>2 DEF RefoldRow
    <3> QED
      BY <2>1, <2>2, <3>1 DEF Settled
  <2>4. PICK sec \in Gating(daemon.scan) : r.fact \in Group(daemon.scan, sec)
    BY <2>2, <2>3 DEF BelowDensity, OutOfScan
  <2>5. sec = sums[r.sum].sec
    BY <1>1, <2>2, <2>4 DEF Group, TypeOK, DaemonOK
  <2>6. CASE Group(daemon.scan, sec) \subseteq daemon.again
    BY <2>2, <2>4, <2>6
  <2>7. CASE \E id \in ActiveOf(sec) : Members(sums[id]) = Group(daemon.scan, sec)
    <3>1. PICK id \in ActiveOf(sec) : Members(sums[id]) = Group(daemon.scan, sec)
      BY <2>7
    <3>2. id \in Holding(r.fact) /\ sums[id].sec = sec
      BY <2>4, <3>1 DEF Holding, ActiveOf
    <3>3. id \notin r.older
      BY <2>5, <3>2 DEF FoldInv, OlderIsElsewhere
    <3> QED
      BY <2>3, <3>2, <3>3 DEF Refolded
  <2> QED
    BY <1>1, <2>6, <2>7 DEF FoldInv, GroupsAreCovered
<1>9. ScanIsTrue' /\ PlanStands' /\ CurIsMarked' /\ GroupsAreCovered'
  BY <1>2 DEF ScanIsTrue, PlanStands, CurIsMarked, GroupsAreCovered, Folding
<1> QED
  BY <1>3, <1>4, <1>6, <1>7, <1>8, <1>9 DEF FoldInv, TypeOK

\* The daemon may stop anywhere: it holds nothing the stores depend on.
LEMMA StopStep == ASSUME FoldInv, Rest \/ Abort PROVE FoldInv'
<1>1. /\ TypeOK /\ UNCHANGED <<doc, node, outbox, sums, refold, graph, cites>>
      /\ daemon' = Idle
  BY DEF Rest, Abort, facts, FoldInv
<1>2. /\ FactsOK' /\ OneEnd' /\ MembersQualify' /\ OlderIsElsewhere' /\ UnmarkedIsOwed'
      /\ Ids' = Ids
  BY <1>1, StoresStand, StillOwed
<1>3. SummariesOK'
  BY <1>1, <1>2 DEF TypeOK, SummariesOK
<1>4. DaemonOK'
  BY <1>1 DEF Idle, DaemonOK, InSweep, Folding
<1>5. ScanIsTrue' /\ PlanStands' /\ CurIsMarked' /\ GroupsAreCovered' /\ NoZombieRow'
  BY <1>1 DEF Idle, ScanIsTrue, PlanStands, CurIsMarked, GroupsAreCovered, NoZombieRow, Folding
<1> QED
  BY <1>2, <1>3, <1>4, <1>5 DEF FoldInv, TypeOK

LEMMA FoldInit == Init => FoldInv
<1> SUFFICES ASSUME Init PROVE FoldInv
  OBVIOUS
<1> USE DEF Init
<1>1. FactsOK
  BY DEF FactsOK
<1>2. Ids = {} /\ Active = {} /\ \A sec \in Sections : Ends(sec) = {}
  BY DEF Ids, Active, Ends, ActiveOf, Loose
<1>3. SummariesOK
  <2>1. outbox \subseteq LedgerRow
    BY DEF LedgerRow
  <2>2. sums \in Seq(Summary)
    OBVIOUS
  <2> QED
    BY <1>2, <2>1, <2>2 DEF SummariesOK
<1>4. daemon.pc = "idle" /\ DaemonOK
  BY DEF Idle, DaemonOK, InSweep, Folding
<1>5. OneEnd /\ MembersQualify /\ OlderIsElsewhere /\ UnmarkedIsOwed
  BY <1>2 DEF OneEnd, MembersQualify, OlderIsElsewhere, UnmarkedIsOwed
<1>6. ScanIsTrue /\ PlanStands /\ CurIsMarked /\ GroupsAreCovered /\ NoZombieRow
  BY <1>4 DEF ScanIsTrue, PlanStands, CurIsMarked, GroupsAreCovered, NoZombieRow, Folding
<1> QED
  BY <1>1, <1>3, <1>4, <1>5, <1>6 DEF FoldInv, TypeOK

LEMMA FoldStep == FoldInv /\ [Next]_vars => FoldInv'
<1> SUFFICES ASSUME FoldInv, [Next]_vars PROVE FoldInv'
  OBVIOUS
<1>1. CASE UNCHANGED vars
  <2>1. UNCHANGED <<doc, node, outbox, sums, refold, graph, cites, daemon>>
    BY <1>1 DEF vars
  <2>2. Active' = Active /\ Ids' = Ids /\ \A sec \in Sections : ActiveOf(sec)' = ActiveOf(sec)
    BY <2>1, Unwritten
  <2>3. /\ FactsOK' /\ OneEnd' /\ MembersQualify' /\ OlderIsElsewhere' /\ UnmarkedIsOwed'
    BY <2>1, StoresStand, StillOwed
  <2>4. TypeOK'
    BY <2>1, <2>2, <2>3 DEF FoldInv, TypeOK, SummariesOK, DaemonOK, InSweep, Folding
  <2>5. ScanIsTrue' /\ CurIsMarked' /\ NoZombieRow'
    BY <2>1, <2>2 DEF FoldInv, ScanIsTrue, CurIsMarked, Missing, NoZombieRow, Open
  <2>6. PlanStands'
    <3>1. Folding => \A w \in daemon.todo : w.sec \in Sections
      BY ItemsAre DEF FoldInv, TypeOK, DaemonOK
    <3> QED
      BY <2>1, <2>2, <3>1 DEF FoldInv, PlanStands, Folding, Group
  <2>7. GroupsAreCovered'
    BY <2>1, <2>2 DEF FoldInv, GroupsAreCovered, Folding, Gating, Group
  <2> QED
    BY <2>3, <2>4, <2>5, <2>6, <2>7 DEF FoldInv
<1>2. CASE Meanwhile
  BY <1>2, MeanwhileStep
<1>3. CASE Backfill \/ Reconcile \/ CloseReconciled \/ ReconcileRetired \/ Recheck
  BY <1>3, SweepStep
<1>4. CASE Scan \/ Plan \/ FoldOne
  BY <1>4, ScanStep, PlanStep, WriteStep
<1>5. CASE MarkRetired \/ FoldFails \/ Sync \/ SyncFails \/ CloseFolded
  BY <1>5, MarkRetiredStep, FoldFailsStep, SyncStep
<1>6. CASE Settle \/ Rest \/ Abort
  BY <1>6, SettleStep, StopStep
<1> QED
  BY <1>1, <1>2, <1>3, <1>4, <1>5, <1>6 DEF Next, Meanwhile

-----------------------------------------------------------------------------
(* What follows. *)

\* Whatever the daemon was in the middle of, and whatever was saved, reviewed,
\* superseded or cited meanwhile, a group has one line of summaries, what was
\* planned for it still fits, and the rows tell what the graph and the refolds
\* still owe (consolidation_loop.py, run_fact_consolidation).
THEOREM FoldInductive == Spec => []FoldInv
<1> QED
  BY FoldInit, FoldStep, PTL DEF Spec

\* Every summary a group lost was linked to the one that replaced it: at most
\* one row of a group is without a successor (_write_summary's predecessor link).
THEOREM ChainHolds == Spec => []ChainIsUnbroken
<1>1. FoldInv => ChainIsUnbroken
  <2> SUFFICES ASSUME FoldInv, NEW sec \in Sections PROVE Cardinality(Ends(sec)) <= 1
    BY DEF ChainIsUnbroken, Ends
  <2>1. \A x, y \in Ends(sec) : x = y
    BY DEF FoldInv, OneEnd
  <2>2. CASE Ends(sec) = {}
    BY <2>2, FS_EmptySet
  <2>3. CASE Ends(sec) # {}
    <3>1. PICK x : Ends(sec) = {x}
      BY <2>1, <2>3
    <3>2. Cardinality({x}) = 1
      BY FS_Singleton
    <3> QED
      BY <3>1, <3>2
  <2> QED
    BY <2>2, <2>3
<1> QED
  BY <1>1, FoldInductive, PTL

\* The ledger rows of a summary's members stay until the graph shows it, though
\* the daemon may die between the two, and a fold that ran to its end leaves no
\* refold row behind that a later fold would not close.
THEOREM LedgerIsTrue == Spec => []LedgerTellsTheDebt
<1>1. FoldInv => LedgerTellsTheDebt
  BY DEF FoldInv, LedgerTellsTheDebt
<1> QED
  BY <1>1, FoldInductive, PTL

LEMMA SupportGrows ==
    ASSUME NEW S, NEW T, NEW i, NEW ids, \A id \in ids : Members(S[id]) \subseteq Members(T[id])
    PROVE  Support(S, i, ids) \subseteq Support(T, i, ids)
  BY DEF Support

\* An insight's citation moves to a summary's successor only when no thread of
\* the insight is left without a cited fact, and a summary that is written over
\* keeps its members (_link_successor, _recheck_orphaned_citations).
THEOREM SupportStays == Spec => SupportNeverShrinks
<1> DEFINE Stays == \A i \in Insights : Support(sums, i, cites[i]) \subseteq Support(sums', i, cites'[i])
<1>1. FoldInv /\ [Next]_vars => [Stays]_vars
  <2> SUFFICES ASSUME FoldInv, Next PROVE Stays
    BY DEF vars
  <2>1. SummariesOK /\ cites \in [Insights -> SUBSET Ids]
    BY DEF FoldInv, TypeOK, SummariesOK
  <2>2. CASE UNCHANGED <<sums, cites>>
    BY <2>2
  <2>3. ASSUME NEW j \in Insights, WriteInsight(j) PROVE Stays
    <3>1. Support(sums, j, cites[j]) = {}
      BY <2>3 DEF WriteInsight, Support
    <3>2. sums' = sums /\ \A i \in Insights \ {j} : cites'[i] = cites[i]
      BY <2>1, <2>3 DEF WriteInsight
    <3> QED
      BY <3>1, <3>2
  <2>4. CASE Recheck
    BY <2>1, <2>4, RecheckedAre DEF Recheck, RecheckedCites
  <2>5. CASE Plan
    <3>1. cites' = cites /\ \A id \in Ids : Members(sums'[id]) = Members(sums[id])
      BY <2>5, PlanRetires DEF Plan, Members
    <3> QED
      BY <2>1, <3>1, SupportGrows
  <2>6. CASE FoldOne
    <3>1. daemon.pc = "fold"
      BY <2>6 DEF FoldOne
    <3>2. PICK w \in daemon.todo : Write(w)
      BY <2>6 DEF FoldOne
    <3>3. \A id \in Ids : Members(sums[id]) \subseteq Members(sums'[id])
      BY <3>1, <3>2, WritesOne DEF Kept, Members
    <3>4. \A i \in Insights : Support(sums, i, cites[i]) \subseteq Support(sums', i, cites[i])
      BY <2>1, <3>3, SupportGrows
    <3>5. CASE cites' = cites
      BY <3>4, <3>5
    <3>6. CASE cites' = LinkedCites(sums', Max(Predecessor(w)), Target(w))
      <4>1. \A i \in Insights : Support(sums', i, cites[i]) \subseteq Support(sums', i, cites'[i])
        BY <3>6, RepointedKeeps DEF LinkedCites
      <4> QED
        BY <3>4, <4>1
    <3> QED
      BY <3>2, <3>5, <3>6 DEF Write
  <2>7. \/ UNCHANGED <<sums, cites>> \/ \E j \in Insights : WriteInsight(j)
        \/ Recheck \/ Plan \/ FoldOne
    BY DEF Next, facts, Resave, Review, Ground, SupersedeNode, SupersedeDoc, Backfill, Reconcile,
           CloseReconciled, ReconcileRetired, Scan, MarkRetired, FoldFails, Sync, SyncFails,
           CloseFolded, Settle, Rest, Abort
  <2> QED
    BY <2>2, <2>3, <2>4, <2>5, <2>6, <2>7
<1>2. FoldInv /\ [Next]_vars =>
        [\A i \in Insights : Support(sums, i, cites[i]) \subseteq Support(sums', i, cites'[i])]_vars
  BY <1>1
<1> HIDE DEF Stays
<1> QED
  BY <1>2, FoldInductive, PTL DEF Spec, SupportNeverShrinks

-----------------------------------------------------------------------------
(* The fold implements Chronicle. *)

\* The active summary of a group is its last, and what a planned summary leaves
\* out was superseded.
LineInv ==
    /\ \A id \in Active : sums[id].by = None
    /\ Folding => \A w \in daemon.todo : \A f \in w.lost : doc[f].superseded /\ f \notin DOMAIN w.src

LEMMA LineInit == Init => LineInv
  BY DEF Init, LineInv, Idle, Folding, Active, Ids

\* What the daemon has planned is what it planned before, but for a new plan.
LEMMA PlanOrLess ==
    ASSUME FoldInv, [Next]_vars, ~Plan, Folding'
    PROVE  Folding /\ daemon'.todo \subseteq daemon.todo
<1>0. DaemonOK
  BY DEF FoldInv, TypeOK
<1>1. CASE UNCHANGED daemon
  BY <1>1 DEF Folding
<1>2. CASE Meanwhile
  BY <1>1, <1>2, MeanwhileKeeps DEF FoldInv
<1>3. CASE Backfill \/ Reconcile \/ CloseReconciled \/ ReconcileRetired \/ Recheck \/ Scan
  <2>1. CASE Backfill
    BY <1>0, <2>1 DEF DaemonOK, Backfill, Folding
  <2>2. CASE Reconcile \/ CloseReconciled
    BY <1>0, <2>2 DEF DaemonOK, Reconcile, CloseReconciled, Folding
  <2>3. CASE ReconcileRetired \/ Recheck
    BY <1>0, <2>3 DEF DaemonOK, ReconcileRetired, Recheck, Go, Folding
  <2>4. CASE Scan
    BY <1>0, <2>4 DEF Scan, Idle, Folding
  <2> QED
    BY <1>3, <2>1, <2>2, <2>3, <2>4
<1>4. CASE MarkRetired \/ FoldFails \/ Sync \/ SyncFails \/ CloseFolded
  BY <1>0, <1>4 DEF DaemonOK, MarkRetired, FoldFails, Sync, SyncFails, CloseFolded, Folding
<1>5. CASE FoldOne
  BY <1>0, <1>5 DEF DaemonOK, FoldOne, Write, Folding
<1>6. CASE Settle \/ Rest \/ Abort
  <2>1. CASE Settle
    BY <1>0, <2>1 DEF Settle, Idle, Folding
  <2>2. CASE Rest \/ Abort
    BY <1>0, <2>2 DEF Rest, Abort, Idle, Folding
  <2> QED
    BY <1>6, <2>1, <2>2
<1> QED
  BY <1>1, <1>2, <1>3, <1>4, <1>5, <1>6 DEF Next, Meanwhile, vars

\* Superseded facts stay superseded.
LEMMA GoneGrows == ASSUME FoldInv, [Next]_vars PROVE Gone \subseteq Gone'
<1>1. CASE Meanwhile
  BY <1>1, MeanwhileKeeps DEF FoldInv, Gone
<1>2. CASE doc' = doc
  BY <1>2 DEF Gone
<1>3. Meanwhile \/ doc' = doc
  BY DEF Next, Meanwhile, vars, facts, Backfill, Reconcile, CloseReconciled, ReconcileRetired, Recheck,
         Scan, Plan, MarkRetired, FoldOne, Write, FoldFails, Sync, SyncFails, CloseFolded, Settle, Rest, Abort
<1> QED
  BY <1>1, <1>2, <1>3

\* Only a plan and a fold write summaries.
LEMMA SummaryWriters == ASSUME [Next]_vars PROVE sums' = sums \/ Plan \/ FoldOne
  BY DEF Next, vars, facts, Resave, Review, Ground, SupersedeNode, SupersedeDoc, WriteInsight,
         Backfill, Reconcile, CloseReconciled, ReconcileRetired, Recheck, Scan, MarkRetired, FoldFails,
         Sync, SyncFails, CloseFolded, Settle, Rest, Abort

LEMMA LineStep == ASSUME FoldInv, LineInv, [Next]_vars PROVE LineInv'
<1>0. /\ Active \subseteq Ids /\ Ids \subseteq Nat /\ Len(sums) \in Nat /\ Ids = 1 .. Len(sums)
      /\ \A id \in Ids : sums[id] \in Summary
  BY SummariesAre DEF FoldInv, TypeOK
<1>1. ASSUME NEW id \in Active' PROVE sums'[id].by = None
  <2>1. CASE sums' = sums
    BY <2>1, Unwritten DEF LineInv
  <2>2. CASE Plan
    BY <1>0, <2>2, PlanRetires DEF LineInv
  <2>3. CASE FoldOne
    <3>1. PICK w \in daemon.todo : daemon.pc = "fold" /\ Write(w)
      BY <2>3 DEF FoldOne
    <3>2. CASE Inserted(w)
      <4>1. id \in Ids \/ id = Len(sums) + 1
        <5>1. id \in 1 .. Len(sums')
          BY <1>1 DEF Active, Ids
        <5>2. Target(w) = Len(sums) + 1 /\ Len(sums') = Target(w)
          BY <3>1, <3>2, Succeeds
        <5> QED
          BY <1>0, <5>1, <5>2
      <4>2. CASE id = Len(sums) + 1
        <5>1. sums'[id] = [sec |-> w.sec, src |-> w.src, state |-> "active",
                           by |-> None, owed |-> RowsOf(DOMAIN w.src) # {}]
          BY <3>1, <3>2, <4>2, Succeeds
        <5> QED
          BY <5>1
      <4>3. CASE id \in Ids
        <5>1. id \in Active /\ id \notin w.old
          BY <3>1, <3>2, <4>3, Succeeds DEF Active
        <5>2. id \notin Predecessor(w)
          <6>1. w.old = ActiveOf(w.sec) /\ Predecessor(w) = Ends(w.sec)
            BY <3>1, <3>2, OldIsOne
          <6> QED
            BY <5>1, <6>1 DEF Ends, Loose, ActiveOf, Active
        <5> QED
          BY <3>1, <3>2, <4>3, <5>1, <5>2, Succeeds DEF LineInv
      <4> QED
        BY <4>1, <4>2, <4>3
    <3>3. CASE ~Inserted(w)
      <4>1. /\ Target(w) \in Active
            /\ sums' = [sums EXCEPT ![Target(w)] = [sec |-> w.sec, src |-> w.src, state |-> "active",
                                                    by |-> None, owed |-> RowsOf(DOMAIN w.src) # {}]]
        BY <3>1, <3>3, Replaces
      <4>2. Active' \subseteq Active
        BY <3>1, <3>3, <4>1, WritesOne, Replaces
      <4>3. DOMAIN sums = Ids
        BY <1>0 DEF FoldInv, TypeOK, SummariesOK
      <4>4. CASE id = Target(w)
        BY <1>0, <4>1, <4>3, <4>4
      <4>5. CASE id # Target(w)
        BY <1>0, <4>1, <4>2, <4>3, <4>5 DEF LineInv
      <4> QED
        BY <4>4, <4>5
    <3> QED
      BY <3>2, <3>3
  <2> QED
    BY <2>1, <2>2, <2>3, SummaryWriters
<1>2. ASSUME Folding', NEW w \in daemon'.todo, NEW f \in w.lost
      PROVE  doc'[f].superseded /\ f \notin DOMAIN w.src
  <2>1. CASE Plan
    <3>1. PICK sec \in Gating(daemon.scan) : w = WorkItem(daemon.scan, sec)
      BY <2>1 DEF Plan, FoldInv, TypeOK, DaemonOK
    <3>2. sec \in Sections /\ daemon.pc = "plan" /\ doc' = doc
      BY <2>1, <3>1 DEF Gating, Plan, facts
    <3>3. DOMAIN w.src = Group(daemon.scan, sec)
      BY <3>1, <3>2, PlannedItem
    <3>4. f \notin Group(daemon.scan, sec) /\ doc[f].superseded
      BY <3>1 DEF WorkItem
    <3> QED
      BY <3>2, <3>3, <3>4
  <2>2. CASE ~Plan
    <3>1. Folding /\ w \in daemon.todo
      BY <1>2, <2>2, PlanOrLess
    <3>2. doc[f].superseded /\ f \notin DOMAIN w.src
      BY <3>1 DEF LineInv
    <3>3. f \in Facts
      BY <3>1 DEF FoldInv, TypeOK, DaemonOK, Item
    <3> QED
      BY <3>2, <3>3, GoneGrows DEF Gone
  <2> QED
    BY <2>1, <2>2
<1> QED
  BY <1>1, <1>2 DEF LineInv

Entry == [group : Sections, members : SUBSET Facts, state : {"active", "lineage"},
          next : Nat \cup {None}]

\* What is told of a summary: its group, its members, its state, its successor.
ToldOK ==
    /\ Told \in Seq(Entry) /\ Len(Told) = Len(sums) /\ DOMAIN Told = Ids
    /\ \A id \in Ids :
         /\ Told[id] \in Entry
         /\ Told[id].group = sums[id].sec /\ Told[id].members = Members(sums[id])
         /\ Told[id].state = sums[id].state /\ Told[id].next = sums[id].by

LEMMA ToldIs == SummariesOK => ToldOK
<1> SUFFICES ASSUME SummariesOK PROVE ToldOK
  OBVIOUS
<1>1. Len(sums) \in Nat /\ Ids = 1 .. Len(sums)
      /\ \A id \in Ids : sums[id] \in Summary /\ Members(sums[id]) \subseteq Facts
  BY SummariesAre
<1>2. ASSUME NEW id \in Ids
      PROVE  [group |-> sums[id].sec, members |-> Members(sums[id]),
              state |-> sums[id].state, next |-> sums[id].by] \in Entry
  BY <1>1 DEF Summary, Entry
<1>3. Told \in [1 .. Len(sums) -> Entry]
  BY <1>1, <1>2 DEF Told
<1>4. Told \in Seq(Entry) /\ Len(Told) = Len(sums)
  BY <1>1, <1>3
<1> QED
  BY <1>1, <1>3, <1>4 DEF Told, ToldOK

LEMMA ToldIsNext == SummariesOK' => ToldOK'
  BY ToldIs, PTL

\* Entries are told by their parts.
LEMMA SameEntry ==
    ASSUME NEW x \in Entry, NEW y \in Entry,
           x.group = y.group, x.members = y.members, x.state = y.state, x.next = y.next
    PROVE  x = y
  BY DEF Entry

\* An entry that gets a successor.
LEMMA Relinked ==
    ASSUME NEW x \in Entry, NEW n \in Nat
    PROVE  LET e == [x EXCEPT !.state = "lineage", !.next = n]
           IN  e \in Entry /\ e.group = x.group /\ e.members = x.members /\ e.state = "lineage" /\ e.next = n
  BY DEF Entry

LEMMA SameTold == ASSUME sums' = sums PROVE Told' = Told
  BY DEF Told, Ids, Members

\* The last summaries of a group are those without a successor.
LEMMA LastsAre ==
    ASSUME FoldInv, LineInv, NEW sec \in Sections
    PROVE  C!Lasts(sec) = Ends(sec)
<1>1. SummariesOK
  BY DEF FoldInv, TypeOK
<1>2. \A id \in Ids : sums[id].state \in {"active", "lineage"}
  BY <1>1, SummariesAre DEF Summary
<1>3. C!Lasts(sec) = {id \in Ids : sums[id].sec = sec /\ sums[id].by = None}
  BY <1>1, ToldIs DEF C!Lasts, ToldOK
<1> QED
  BY <1>2, <1>3 DEF Ends, ActiveOf, Loose, Active, LineInv

\* Groups that are no longer dense lose their summary over a superseded member.
LEMMA PlanIsRetire == ASSUME FoldInv, LineInv, Plan PROVE C!Next
<1>1. SummariesOK /\ doc' = doc /\ Active \subseteq Ids
  BY SummariesAre DEF FoldInv, TypeOK, Plan, facts
<1>2. /\ sums' \in Seq(Summary) /\ Ids' = Ids /\ Outdated \subseteq Active
      /\ \A id \in Ids : /\ sums'[id].sec = sums[id].sec /\ sums'[id].src = sums[id].src
                         /\ sums'[id].by = sums[id].by
                         /\ sums'[id].state = IF id \in Outdated THEN "lineage" ELSE sums[id].state
  BY PlanRetires
<1>3. SummariesOK'
  BY PlanStep DEF FoldInv, TypeOK
<1>4. Told' = [id \in DOMAIN Told |-> IF id \in Outdated THEN [Told[id] EXCEPT !.state = "lineage"] ELSE Told[id]]
  <2>1. DOMAIN Told' = Ids /\ DOMAIN Told = Ids /\ \A id \in Ids : Told'[id] \in Entry /\ Told[id] \in Entry
    BY <1>1, <1>2, <1>3, ToldIs, ToldIsNext DEF ToldOK
  <2>2. ASSUME NEW id \in Ids
        PROVE  Told'[id] = IF id \in Outdated THEN [Told[id] EXCEPT !.state = "lineage"] ELSE Told[id]
    <3>1. /\ Told'[id].group = Told[id].group /\ Told'[id].members = Told[id].members
          /\ Told'[id].next = Told[id].next
          /\ Told'[id].state = IF id \in Outdated THEN "lineage" ELSE Told[id].state
      BY <1>1, <1>2, <1>3, ToldIs, ToldIsNext DEF Members, ToldOK
    <3>2. [Told[id] EXCEPT !.state = "lineage"] \in Entry
      BY <2>1 DEF Entry
    <3>3. /\ [Told[id] EXCEPT !.state = "lineage"].group = Told[id].group
          /\ [Told[id] EXCEPT !.state = "lineage"].members = Told[id].members
          /\ [Told[id] EXCEPT !.state = "lineage"].next = Told[id].next
          /\ [Told[id] EXCEPT !.state = "lineage"].state = "lineage"
      BY <2>1 DEF Entry
    <3> QED
      BY <2>1, <3>1, <3>2, <3>3, SameEntry
  <2>3. Told' = [id \in Ids |-> Told'[id]]
    BY <1>2 DEF Told
  <2> QED
    BY <2>1, <2>2, <2>3
<1>5. ASSUME NEW id \in Outdated PROVE C!Outdated(id) # {}
  <2>1. PICK f \in Members(sums[id]) : doc[f].superseded
    BY DEF Outdated, Invalidated
  <2>2. id \in Ids /\ f \in Facts /\ f \in Told[id].members
    BY <1>1, <1>2, <2>1, SummariesAre, ToldIs DEF ToldOK
  <2> QED
    BY <2>1, <2>2 DEF C!Outdated, Gone
<1>6. Gone' = Gone
  BY <1>1 DEF Gone
<1>7. C!Retire(Outdated)
  BY <1>4, <1>5, <1>6 DEF C!Retire
<1>8. Outdated \in SUBSET DOMAIN Told
  BY <1>1, <1>2, ToldIs DEF ToldOK
<1> QED
  BY <1>7, <1>8 DEF C!Next

\* A fold writes over the group's active summary, which loses nothing, or writes
\* the successor of its last.
LEMMA FoldTells == ASSUME FoldInv, LineInv, FoldOne PROVE C!Next
<1>1. PICK w \in daemon.todo : daemon.pc = "fold" /\ Write(w)
  BY DEF FoldOne
<1> DEFINE t == Target(w)
<1>2. SummariesOK /\ SummariesOK' /\ Gone' = Gone
  BY <1>1, WriteStep DEF FoldInv, TypeOK, Write, facts, Gone
<1>3. w.sec \in Sections /\ DOMAIN w.src \in SUBSET Facts /\ w.lost \subseteq Facts
  BY <1>1, OldIsOne, ItemsAre DEF Item
<1>4. Len(sums) \in Nat /\ Ids = 1 .. Len(sums)
  BY <1>2, SummariesAre
<1>5. CASE ~Inserted(w)
  <2>1. /\ t \in Active /\ Ids' = Ids /\ t \in Ids
        /\ sums' = [sums EXCEPT ![t] = [sec |-> w.sec, src |-> w.src, state |-> "active",
                                        by |-> None, owed |-> RowsOf(DOMAIN w.src) # {}]]
    <3>1. /\ t \in Active
          /\ sums' = [sums EXCEPT ![t] = [sec |-> w.sec, src |-> w.src, state |-> "active",
                                          by |-> None, owed |-> RowsOf(DOMAIN w.src) # {}]]
      BY <1>1, <1>5, Replaces
    <3>2. Ids' = Ids \cup {t}
      BY <1>1, WritesOne
    <3>3. t \in Ids
      BY <3>1 DEF Active
    <3> QED
      BY <3>1, <3>2, <3>3
  <2>2. sums[t].sec = w.sec /\ Members(sums[t]) \subseteq DOMAIN w.src /\ sums[t].by = None
        /\ sums[t].state = "active"
    BY <1>1, <2>1, WritesOne DEF Active, LineInv
  <2>3. DOMAIN sums = Ids
    BY <1>4 DEF SummariesOK
  <2>4. /\ sums'[t].sec = w.sec /\ sums'[t].src = w.src /\ sums'[t].state = "active" /\ sums'[t].by = None
        /\ \A id \in Ids : id # t => sums'[id] = sums[id]
    BY <2>1, <2>3
  <2>5. Told' = [Told EXCEPT ![t].members = DOMAIN w.src]
    <3>1. DOMAIN Told' = Ids /\ DOMAIN Told = Ids /\ \A id \in Ids : Told'[id] \in Entry /\ Told[id] \in Entry
      BY <1>2, <2>1, ToldIs, ToldIsNext DEF ToldOK
    <3>2. Told'[t] = [Told[t] EXCEPT !.members = DOMAIN w.src]
      <4>1. /\ Told'[t].group = Told[t].group /\ Told'[t].state = Told[t].state /\ Told'[t].next = Told[t].next
            /\ Told'[t].members = DOMAIN w.src
        BY <1>2, <2>1, <2>2, <2>4, ToldIs, ToldIsNext DEF Members, ToldOK
      <4>2. [Told[t] EXCEPT !.members = DOMAIN w.src] \in Entry
        BY <1>3, <2>1, <3>1 DEF Entry
      <4>3. /\ [Told[t] EXCEPT !.members = DOMAIN w.src].group = Told[t].group
            /\ [Told[t] EXCEPT !.members = DOMAIN w.src].state = Told[t].state
            /\ [Told[t] EXCEPT !.members = DOMAIN w.src].next = Told[t].next
            /\ [Told[t] EXCEPT !.members = DOMAIN w.src].members = DOMAIN w.src
        BY <2>1, <3>1 DEF Entry
      <4> QED
        BY <2>1, <3>1, <4>1, <4>2, <4>3, SameEntry
    <3>3. ASSUME NEW id \in Ids, id # t PROVE Told'[id] = Told[id]
      BY <2>1, <2>4, <3>3 DEF Told
    <3>4. Told' = [id \in Ids |-> Told'[id]]
      BY <2>1 DEF Told
    <3> HIDE DEF t
    <3> QED
      BY <3>1, <3>2, <3>3, <3>4
  <2>6. C!Rewrite(t, DOMAIN w.src)
    BY <1>2, <2>1, <2>2, <2>5, ToldIs DEF C!Rewrite, ToldOK
  <2>7. t \in DOMAIN Told
    BY <1>2, <2>1, ToldIs DEF ToldOK
  <2> HIDE DEF t
  <2> QED
    BY <1>3, <2>6, <2>7 DEF C!Next
<1>6. CASE Inserted(w)
  <2> DEFINE last == C!Lasts(w.sec)
             Linked == [id \in DOMAIN Told |->
                          IF id \in last THEN [Told[id] EXCEPT !.state = "lineage", !.next = Len(Told) + 1]
                          ELSE Told[id]]
             new == [group |-> w.sec, members |-> DOMAIN w.src, state |-> "active", next |-> None]
  <2>1. /\ t = Len(sums) + 1 /\ Len(sums') = t
        /\ sums'[t] = [sec |-> w.sec, src |-> w.src, state |-> "active",
                       by |-> None, owed |-> RowsOf(DOMAIN w.src) # {}]
        /\ \A id \in Ids :
             /\ sums'[id].sec = sums[id].sec /\ sums'[id].src = sums[id].src
             /\ sums'[id].state = IF id \in w.old THEN "lineage" ELSE sums[id].state
             /\ sums'[id].by = IF id \in Predecessor(w) THEN t ELSE sums[id].by
    BY <1>1, <1>6, Succeeds DEF Kept
  <2>2. last = Predecessor(w) /\ last = Ends(w.sec) /\ w.old = ActiveOf(w.sec)
    BY <1>1, <1>3, <1>6, OldIsOne, LastsAre
  <2>3. ASSUME NEW id \in Ids
        PROVE  /\ sums'[id].state = IF id \in last THEN "lineage" ELSE sums[id].state
               /\ sums'[id].by = IF id \in last THEN Len(Told) + 1 ELSE sums[id].by
    <3>1. id \in last /\ id \notin w.old => sums[id].state = "lineage"
      BY <2>2 DEF Ends, Loose
    <3>2. w.old \subseteq last
      BY <2>2 DEF Ends
    <3>3. t = Len(Told) + 1
      BY <1>2, <2>1, ToldIs DEF ToldOK
    <3> HIDE DEF last
    <3> QED
      BY <2>1, <2>2, <3>1, <3>2, <3>3
  <2> HIDE DEF last
  <2>4. /\ Told \in Seq(Entry) /\ Len(Told) = Len(sums) /\ DOMAIN Told = Ids
        /\ \A id \in Ids : Told[id] \in Entry
    BY <1>2, ToldIs DEF ToldOK
  <2>5. /\ Told' \in Seq(Entry) /\ Len(Told') = Len(sums) + 1 /\ DOMAIN Told' = Ids'
        /\ \A id \in Ids' : Told'[id] \in Entry
    BY <1>2, <2>1, ToldIs, ToldIsNext DEF ToldOK
  <2>6. new \in Entry
    BY <1>3 DEF Entry
  <2>7. Ids' = 1 .. Len(sums) + 1 /\ Len(sums) + 1 \in Ids'
    BY <1>4, <2>1 DEF Ids
  <2>8. Told'[Len(sums) + 1] = new
    <3>1. /\ Told'[Len(sums) + 1].group = w.sec /\ Told'[Len(sums) + 1].members = DOMAIN w.src
          /\ Told'[Len(sums) + 1].state = "active" /\ Told'[Len(sums) + 1].next = None
      BY <1>2, <2>1, <2>7, ToldIs, ToldIsNext DEF Members, ToldOK
    <3> QED
      BY <2>5, <2>6, <2>7, <3>1, SameEntry
  <2>9. ASSUME NEW id \in Ids PROVE Told'[id] = Linked[id] /\ Linked[id] \in Entry
    <3> DEFINE e == [Told[id] EXCEPT !.state = "lineage", !.next = Len(Told) + 1]
    <3>0. id \in Ids'
      BY <1>4, <2>7
    <3>1. /\ Told'[id].group = Told[id].group /\ Told'[id].members = Told[id].members
          /\ Told'[id].state = IF id \in last THEN "lineage" ELSE Told[id].state
          /\ Told'[id].next = IF id \in last THEN Len(Told) + 1 ELSE Told[id].next
      BY <1>2, <2>1, <2>3, <3>0, ToldIs, ToldIsNext DEF Members, ToldOK
    <3>2. /\ e \in Entry /\ e.group = Told[id].group /\ e.members = Told[id].members
          /\ e.state = "lineage" /\ e.next = Len(Told) + 1
      <4>1. Told[id] \in Entry /\ Len(Told) + 1 \in Nat
        BY <1>4, <2>4
      <4> QED
        BY <4>1, Relinked
    <3>3. Linked[id] = IF id \in last THEN e ELSE Told[id]
      BY <2>4
    <3> HIDE DEF e, Linked
    <3> QED
      BY <2>4, <2>5, <3>0, <3>1, <3>2, <3>3, SameEntry
  <2>10. DOMAIN Linked = 1 .. Len(sums)
    BY <1>4, <2>4
  <2> HIDE DEF Linked, new
  <2>11. Linked \in [1 .. Len(sums) -> Entry]
    <3>1. Linked = [id \in DOMAIN Linked |-> Linked[id]]
      BY DEF Linked
    <3> QED
      BY <1>4, <2>9, <2>10, <3>1
  <2>12. Linked \in Seq(Entry) /\ Len(Linked) = Len(sums)
    BY <1>4, <2>11
  <2>13. Told' = Append(Linked, new)
    <3>1. Append(Linked, new) \in Seq(Entry) /\ Len(Append(Linked, new)) = Len(sums) + 1
      BY <2>6, <2>12
    <3>2. ASSUME NEW id \in 1 .. Len(sums) + 1 PROVE Told'[id] = Append(Linked, new)[id]
      BY <1>4, <2>6, <2>8, <2>9, <2>12
    <3> QED
      BY <2>5, <3>1, <3>2
  <2>14. ASSUME NEW id \in last, Told[id].state = "active" PROVE ~(C!Outdated(id) \subseteq DOMAIN w.src)
    <3>1. id \in Ids /\ id \in w.old
      BY <1>2, <2>2, <2>14, ToldIs DEF Ends, ActiveOf, Loose, Active, ToldOK
    <3>2. w.lost # {} /\ w.old = {id}
      BY <1>1, <1>6, <3>1, OldIsOne DEF Inserted
    <3>3. PICK f \in w.lost : f \in Members(sums[id])
      BY <1>1, <3>2 DEF FoldInv, PlanStands, Folding
    <3>4. f \in Gone /\ f \notin DOMAIN w.src
      BY <1>1, <1>3 DEF LineInv, Folding, Gone
    <3> QED
      BY <1>2, <3>1, <3>3, <3>4, ToldIs DEF C!Outdated, ToldOK
  <2>15. C!Begin(w.sec, DOMAIN w.src)
    BY <1>2, <2>13, <2>14 DEF C!Begin, Linked, new, last
  <2> QED
    BY <1>3, <2>15 DEF C!Next
<1> QED
  BY <1>5, <1>6

LEMMA ChronicleStep == FoldInv /\ LineInv /\ [Next]_vars => C!Next \/ UNCHANGED C!vars
<1> SUFFICES ASSUME FoldInv, LineInv, [Next]_vars PROVE C!Next \/ UNCHANGED C!vars
  OBVIOUS
<1>1. CASE Plan \/ FoldOne
  BY <1>1, PlanIsRetire, FoldTells
<1>2. ASSUME sums' = sums, NEW f \in Facts, NEW by \in Facts \cup {None}, SupersedeDoc(f, by) PROVE C!Next
  <2>1. doc \in [Facts -> [superseded : BOOLEAN, by : Facts \cup {None}, version : Nat]]
    BY DEF FoldInv, TypeOK, FactsOK
  <2>2. Gone' = Gone \cup {f}
    <3>1. doc' = [doc EXCEPT ![f].superseded = TRUE, ![f].by = by]
      BY <1>2 DEF SupersedeDoc
    <3>2. doc'[f].superseded /\ \A g \in Facts : g # f => doc'[g] = doc[g]
      BY <2>1, <3>1
    <3> QED
      BY <3>2 DEF Gone
  <2>3. C!Supersede(f)
    BY <1>2, <2>2, SameTold DEF C!Supersede
  <2> QED
    BY <2>3 DEF C!Next
<1>3. ASSUME sums' = sums, ~\E f \in Facts, by \in Facts \cup {None} : SupersedeDoc(f, by), ~Plan, ~FoldOne
      PROVE  UNCHANGED C!vars
  <2>1. doc \in [Facts -> [superseded : BOOLEAN, by : Facts \cup {None}, version : Nat]]
    BY DEF FoldInv, TypeOK, FactsOK
  <2>2. (\E f \in Facts : Resave(f)) \/ doc' = doc
    BY <1>3 DEF Next, vars, facts, Review, Ground, SupersedeNode, WriteInsight,
           Backfill, Reconcile, CloseReconciled, ReconcileRetired, Recheck, Scan, MarkRetired, FoldFails,
           Sync, SyncFails, CloseFolded, Settle, Rest, Abort
  <2>3. ASSUME NEW f \in Facts, Resave(f) PROVE \A g \in Facts : doc'[g].superseded = doc[g].superseded
    BY <2>1, <2>3 DEF Resave
  <2>4. Gone' = Gone
    BY <2>2, <2>3 DEF Gone
  <2> QED
    BY <1>3, <2>4, SameTold DEF C!vars
<1> QED
  BY <1>1, <1>2, <1>3, SummaryWriters

LEMMA ChronicleInit == Init => C!Init
<1> SUFFICES ASSUME Init PROVE Gone = {} /\ Told = <<>>
  BY DEF C!Init
<1>1. Gone = {}
  BY DEF Init, Gone
<1>2. SummariesOK /\ Len(sums) = 0
  BY FoldInit DEF Init, FoldInv, TypeOK
<1>3. Told \in Seq(Entry) /\ Len(Told) = 0
  BY <1>2, ToldIs DEF ToldOK
<1> QED
  BY <1>1, <1>3

\* Scans, plans, transactions, failures and deaths are steps of Chronicle
\* (run_fact_consolidation, _write_summary): what was retired is never written
\* again, and each summary of a group has the one before it as predecessor.
THEOREM FoldImplementsChronicle == Spec => ImplementsChronicle
<1>1. Init => LineInv
  BY LineInit
<1>2. FoldInv /\ LineInv /\ [Next]_vars => LineInv'
  BY LineStep
<1> QED
  BY <1>1, <1>2, ChronicleInit, ChronicleStep, FoldInductive, PTL DEF Spec, ImplementsChronicle, C!Spec

=============================================================================
