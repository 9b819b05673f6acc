-------------------------- MODULE OutboxMirrorProofs --------------------------
(***************************************************************************)
(* Proofs about the outbox and the graph.  OutboxInv is about the rows and *)
(* the worker's copies of them, GraphInv about what their statements have  *)
(* left in the graph.                                                      *)
(***************************************************************************)
EXTENDS OutboxMirror, Integers, FiniteSetTheorems, WellFoundedInduction, TLAPS

\* A successor is a fact; what corrects a fact is never itself retired; verdicts
\* reverse decisions only.
FactsSucceed == Successors \subseteq Facts
FreshCorrections == Corrections \cap Targets = {}
DecisionsReversed == \A r \in Reversals : Judges[r] \in Decisions

-----------------------------------------------------------------------------
(***************************************************************************)
(* The rows and the worker's copies.                                       *)
(***************************************************************************)
LEMMA KindsOfRecords ==
    /\ Facts \subseteq Records /\ Decisions \subseteq Records /\ Retros \subseteq Records
    /\ \A d \in Decisions : d \notin Facts /\ Label(d) = "Decision"
    /\ \A r \in Retros : r \notin Facts /\ r \notin Decisions /\ Label(r) = "Retrospective"
    /\ \A f \in Facts : Label(f) = "Fact"
    /\ \A x \in Records : Label(x) \in Labels
  BY RecordsAssumption DEF Records, Judgements, Label, Labels

\* The row in hand is the first of the batch; the rest is still to come.
LEMMA BatchInHand ==
    ASSUME batch \in Seq(Copies), batch # <<>>
    PROVE  /\ Len(batch) \in Nat /\ Len(batch) >= 1 /\ DOMAIN batch = 1..Len(batch)
           /\ Row = batch[1] /\ Row \in Copies
           /\ Tail(batch) \in Seq(Copies) /\ DOMAIN Tail(batch) = 1..(Len(batch) - 1)
           /\ \A n \in 1..(Len(batch) - 1) : Tail(batch)[n] = batch[n + 1] /\ n + 1 \in DOMAIN batch
<1>1. Len(batch) \in Nat /\ Len(batch) >= 1 /\ DOMAIN batch = 1..Len(batch)
  OBVIOUS
<1>2. Row = batch[1] /\ Row \in Copies
  BY <1>1 DEF Row
<1>3. Tail(batch) \in Seq(Copies) /\ Len(Tail(batch)) = Len(batch) - 1
  OBVIOUS
<1>4. \A n \in 1..(Len(batch) - 1) : Tail(batch)[n] = batch[n + 1] /\ n + 1 \in DOMAIN batch
  BY <1>1
<1>5. DOMAIN Tail(batch) = 1..(Len(batch) - 1)
  BY <1>1, <1>3
<1> QED
  BY <1>1, <1>2, <1>3, <1>4, <1>5

LEMMA NewRowIsPending ==
    ASSUME NEW x \in Records, NEW kind \in Kinds,
           NEW old \in Records \cup {None}, NEW new \in Records \cup {None}
    PROVE  LET r == NewRow(x, kind, old, new)
           IN  /\ r \in Rows /\ r.status = "pending" /\ r.retries = 0
               /\ r.pg = x /\ r.kind = kind /\ r.old = old /\ r.new = new
<1>1. 0 \in 0..MaxRetries
  BY BoundsAssumption
<1> QED
  BY <1>1 DEF NewRow, Rows, Statuses, Open

\* A request brings one row and may take others away.
LEMMA EnqueueStep ==
    ASSUME OutboxInv, NEW r \in Rows, NEW drop, Enqueue(r, drop),
           WellFormed(r), r.status = "pending", r.retries = 0,
           superseded' \subseteq docs', docs' \subseteq Records,
           supersededBy' \in [Facts -> Records \cup {None}],
           \A f \in Facts : supersededBy'[f] # None => f \in Targets /\ f \in superseded'
    PROVE  OutboxInv'
<1> USE DEF OutboxInv, TypeOK
<1>1. /\ nextId' = nextId + 1 /\ UNCHANGED <<batch, stage, nodes, marked, restarts, strands>>
      /\ DOMAIN outbox' = (DOMAIN outbox \ drop) \cup {nextId}
      /\ \A i \in DOMAIN outbox' : outbox'[i] = IF i = nextId THEN r ELSE outbox[i]
  BY DEF Enqueue, workerVars, graphVars
<1>2. nextId \in Nat \ {0} /\ nextId \notin DOMAIN outbox
  OBVIOUS
<1>3. \A i \in DOMAIN outbox' : i # nextId => i \in DOMAIN outbox /\ outbox'[i] = outbox[i]
  BY <1>1
<1>4. outbox'[nextId] = r
  BY <1>1
<1>5. TypeOK'
  <2>1. DOMAIN outbox' \subseteq 1..(nextId' - 1)
    <3> SUFFICES ASSUME NEW i \in DOMAIN outbox' PROVE i \in 1..(nextId' - 1)
      OBVIOUS
    <3>1. nextId >= 1
      BY <1>2
    <3>2. CASE i = nextId
      BY <1>1, <1>2, <3>1, <3>2
    <3>3. CASE i # nextId
      BY <1>1, <1>2, <1>3, <3>3
    <3> QED
      BY <3>2, <3>3
  <2>2. \A i \in DOMAIN outbox' : outbox'[i] \in Rows
    BY <1>3, <1>4
  <2>3. \A n \in DOMAIN batch' : batch'[n].id < nextId'
    <3> SUFFICES ASSUME NEW n \in DOMAIN batch PROVE batch[n].id < nextId + 1
      BY <1>1
    <3>1. batch[n] \in Copies /\ batch[n].id < nextId
      OBVIOUS
    <3>2. batch[n].id \in Nat
      BY <3>1 DEF Copies
    <3> QED
      BY <1>2, <3>1, <3>2
  <2> QED
    BY <1>1, <1>2, <2>1, <2>2, <2>3
<1>6. RowsAreWellFormed'
  BY <1>3, <1>4 DEF RowsAreWellFormed
<1>7. CopiesAreClaimed'
  <2> SUFFICES ASSUME NEW n \in DOMAIN batch, batch[n].id \in DOMAIN outbox'
               PROVE  batch[n].id \in DOMAIN outbox /\ outbox'[batch[n].id] = outbox[batch[n].id]
    BY <1>1 DEF CopiesAreClaimed
  <2>1. batch[n].id # nextId
    <3>1. batch[n].id < nextId
      OBVIOUS
    <3> QED
      BY <1>2, <3>1
  <2> QED
    BY <1>3, <2>1
<1>8. OpenRowsHaveTries'
  BY <1>3, <1>4, BoundsAssumption DEF OpenRowsHaveTries
<1>9. ClaimsAreKnown'
  <2> SUFFICES ASSUME strands = 0, NEW i \in DOMAIN outbox', outbox'[i].status = "in_progress"
               PROVE  \E n \in DOMAIN batch : batch[n].id = i
    BY <1>1 DEF ClaimsAreKnown
  <2>1. i # nextId
    BY <1>4
  <2> QED
    BY <1>3, <2>1 DEF ClaimsAreKnown
<1>10. StagesFit'
  BY <1>1 DEF StagesFit, Row
<1> QED
  BY <1>1, <1>5, <1>6, <1>7, <1>8, <1>9, <1>10

\* The record and the mark of a request, as OutboxInv knows them.
RecordsAreKept ==
    /\ superseded' \subseteq docs' /\ docs' \subseteq Records
    /\ supersededBy' \in [Facts -> Records \cup {None}]
    /\ \A f \in Facts : supersededBy'[f] # None => f \in Targets /\ f \in superseded'

LEMMA NewRowStep ==
    ASSUME OutboxInv, RecordsAreKept,
           NEW x \in Records, NEW kind \in Kinds,
           NEW old \in Records \cup {None}, NEW new \in Records \cup {None}, NEW drop,
           WellFormed(NewRow(x, kind, old, new)), Enqueue(NewRow(x, kind, old, new), drop)
    PROVE  OutboxInv'
<1>1. /\ NewRow(x, kind, old, new) \in Rows /\ NewRow(x, kind, old, new).status = "pending"
      /\ NewRow(x, kind, old, new).retries = 0
  BY NewRowIsPending
<1> QED
  BY <1>1, EnqueueStep DEF RecordsAreKept

LEMMA RequestStep == ASSUME OutboxInv, Request PROVE OutboxInv'
<1>1. /\ superseded \subseteq docs /\ docs \subseteq Records
      /\ supersededBy \in [Facts -> Records \cup {None}]
      /\ \A f \in Facts : supersededBy[f] # None => f \in Targets /\ f \in superseded
  BY DEF OutboxInv, TypeOK, RowsAreWellFormed
<1>2. {"fact", "decision", "retrospective", "supersede"} \subseteq Kinds
  BY DEF Kinds
<1>3. ASSUME NEW f \in Facts, SaveFact(f) PROVE OutboxInv'
  <2>1. WellFormed(NewRow(f, "fact", None, None))
    BY DEF WellFormed, NewRow
  <2>2. RecordsAreKept /\ Enqueue(NewRow(f, "fact", None, None), {})
    BY <1>1, <1>3, KindsOfRecords DEF SaveFact, RecordsAreKept
  <2> QED
    BY <1>2, <2>1, <2>2, NewRowStep, KindsOfRecords
<1>4. ASSUME NEW f \in Facts, NEW old \in Facts, SaveCorrection(f, old) PROVE OutboxInv'
  <2>1. WellFormed(NewRow(f, "fact", old, None))
    BY <1>4 DEF WellFormed, NewRow, SaveCorrection
  <2>2. RecordsAreKept /\ Enqueue(NewRow(f, "fact", old, None), {})
    BY <1>1, <1>4, KindsOfRecords DEF SaveCorrection, Standing, RecordsAreKept
  <2> QED
    BY <1>2, <2>1, <2>2, NewRowStep, KindsOfRecords
<1>5. ASSUME NEW d \in Decisions, SaveDecision(d) PROVE OutboxInv'
  <2>1. WellFormed(NewRow(d, "decision", None, None))
    BY DEF WellFormed, NewRow
  <2>2. RecordsAreKept /\ Enqueue(NewRow(d, "decision", None, None), {})
    BY <1>1, <1>5, KindsOfRecords DEF SaveDecision, RecordsAreKept
  <2> QED
    BY <1>2, <2>1, <2>2, NewRowStep, KindsOfRecords
<1>6. ASSUME NEW r \in Retros, SaveRetro(r) PROVE OutboxInv'
  <2>1. WellFormed(NewRow(r, "retrospective", None, None))
    BY DEF WellFormed, NewRow
  <2>2. RecordsAreKept /\ Enqueue(NewRow(r, "retrospective", None, None), {})
    BY <1>1, <1>6, KindsOfRecords DEF SaveRetro, RecordsAreKept
  <2> QED
    BY <1>2, <2>1, <2>2, NewRowStep, KindsOfRecords
<1>7. ASSUME NEW f \in Facts, NEW by \in Records \cup {None}, Supersede(f, by) PROVE OutboxInv'
  <2>1. WellFormed(NewRow(f, "supersede", f, by))
    BY <1>7 DEF WellFormed, NewRow, Supersede
  <2>2. RecordsAreKept
    BY <1>1, <1>7 DEF Supersede, Standing, RecordsAreKept
  <2>3. Enqueue(NewRow(f, "supersede", f, by),
                IF by # None /\ RowsOf(by, {"fact"}) # {} THEN {} ELSE RowsOf(f, {"fact"}))
    BY <1>7 DEF Supersede
  <2> QED
    BY <1>2, <2>1, <2>2, <2>3, NewRowStep, KindsOfRecords
<1> QED
  BY <1>3, <1>4, <1>5, <1>6, <1>7 DEF Request

\* What the worker is through with.
Done == {"applied", "rem_reviewed", "consolidated"}

\* What the daemons and the clock do to rows: some leave, and none becomes open or
\* is claimed or let go.
RowsStayClosed ==
    \A i \in DOMAIN outbox' :
        /\ i \in DOMAIN outbox /\ outbox'[i] \in Rows /\ SameBody(outbox[i], outbox'[i])
        /\ outbox'[i].status = outbox[i].status \/ {outbox[i].status, outbox'[i].status} \subseteq Done
        /\ outbox'[i].retries = outbox[i].retries

LEMMA ClosedRowsStep ==
    ASSUME OutboxInv, RowsStayClosed, UNCHANGED <<pgVars, nextId, workerVars, graphVars, restarts, strands>>
    PROVE  OutboxInv'
<1> USE DEF OutboxInv, TypeOK, RowsStayClosed, pgVars, workerVars, graphVars
<1>1. ASSUME NEW i \in DOMAIN outbox'
      PROVE  /\ outbox'[i].status \in Open => outbox'[i].status = outbox[i].status
             /\ outbox[i].status \in Open => outbox'[i].status = outbox[i].status
             /\ WellFormed(outbox[i]) => WellFormed(outbox'[i])
  BY DEF SameBody, WellFormed, Open, Done
<1>2. TypeOK'
  <2>1. DOMAIN outbox' \subseteq DOMAIN outbox
    OBVIOUS
  <2> QED
    BY <2>1
<1>3. RowsAreWellFormed'
  BY <1>1 DEF RowsAreWellFormed
<1>4. CopiesAreClaimed'
  <2> SUFFICES ASSUME NEW n \in DOMAIN batch, batch[n].id \in DOMAIN outbox'
               PROVE  /\ SameBody(batch[n], outbox'[batch[n].id])
                      /\ outbox'[batch[n].id].status = "in_progress"
    BY DEF CopiesAreClaimed
  <2>1. /\ SameBody(batch[n], outbox[batch[n].id])
        /\ outbox[batch[n].id].status = "in_progress"
    BY DEF CopiesAreClaimed
  <2> QED
    BY <1>1, <2>1 DEF SameBody, Open
<1>5. OpenRowsHaveTries'
  BY <1>1 DEF OpenRowsHaveTries
<1>6. ClaimsAreKnown'
  BY <1>1 DEF ClaimsAreKnown, Open
<1>7. StagesFit'
  BY DEF StagesFit, Row
<1> QED
  BY <1>2, <1>3, <1>4, <1>5, <1>6, <1>7

LEMMA NewStatus ==
    ASSUME NEW r \in Rows, NEW s \in Statuses
    PROVE  /\ [r EXCEPT !.status = s] \in Rows /\ SameBody(r, [r EXCEPT !.status = s])
           /\ [r EXCEPT !.status = s].status = s /\ [r EXCEPT !.status = s].retries = r.retries
  BY DEF Rows, SameBody

LEMMA DaemonRows == ASSUME OutboxInv, DaemonStep PROVE RowsStayClosed
<1>1. PICK x \in Records : RemReview(x) \/ Fold(x) \/ CloseLedgerRows(x)
  BY DEF DaemonStep
<1>2. \A i \in DOMAIN outbox : outbox[i] \in Rows /\ SameBody(outbox[i], outbox[i])
  BY DEF OutboxInv, TypeOK, SameBody
<1>3. {"rem_reviewed", "consolidated"} \subseteq Statuses
      /\ {"applied", "rem_reviewed", "consolidated"} \cap Open = {}
  BY DEF Statuses, Open
<1>4. CASE RemReview(x)
  <2>1. PICK i \in DOMAIN outbox : outbox[i].status = "applied" /\ WithStatus(i, "rem_reviewed")
    BY <1>4 DEF RemReview, RowsOf
  <2>2. /\ DOMAIN outbox' = DOMAIN outbox
        /\ \A j \in DOMAIN outbox : outbox'[j] = IF j = i THEN [outbox[i] EXCEPT !.status = "rem_reviewed"]
                                                 ELSE outbox[j]
    BY <2>1 DEF WithStatus, Updated
  <2>3. [outbox[i] EXCEPT !.status = "rem_reviewed"] \in Rows
        /\ SameBody(outbox[i], [outbox[i] EXCEPT !.status = "rem_reviewed"])
        /\ [outbox[i] EXCEPT !.status = "rem_reviewed"].status = "rem_reviewed"
        /\ [outbox[i] EXCEPT !.status = "rem_reviewed"].retries = outbox[i].retries
    BY <1>2, <1>3, NewStatus
  <2> SUFFICES ASSUME NEW j \in DOMAIN outbox
               PROVE  /\ outbox'[j] \in Rows /\ SameBody(outbox[j], outbox'[j])
                      /\ outbox'[j].status = outbox[j].status \/ {outbox[j].status, outbox'[j].status} \subseteq Done
                      /\ outbox'[j].retries = outbox[j].retries
    BY <2>2 DEF RowsStayClosed
  <2>4. CASE j = i
    <3>1. outbox'[j].status = "rem_reviewed" /\ outbox[j].status = "applied"
      BY <2>1, <2>2, <2>3, <2>4
    <3> QED
      BY <2>2, <2>3, <2>4, <3>1 DEF Done
  <2>5. CASE j # i
    BY <1>2, <2>2, <2>5
  <2> QED
    BY <2>4, <2>5
<1>5. CASE Fold(x)
  <2> DEFINE rows == {i \in RowsOf(x, Kinds) : outbox[i].status \in {"applied", "rem_reviewed"}}
  <2>1. /\ DOMAIN outbox' = DOMAIN outbox
        /\ \A j \in DOMAIN outbox : outbox'[j] = IF j \in rows THEN [outbox[j] EXCEPT !.status = "consolidated"]
                                                 ELSE outbox[j]
    BY <1>5 DEF Fold
  <2> SUFFICES ASSUME NEW j \in DOMAIN outbox
               PROVE  /\ outbox'[j] \in Rows /\ SameBody(outbox[j], outbox'[j])
                      /\ outbox'[j].status = outbox[j].status \/ {outbox[j].status, outbox'[j].status} \subseteq Done
                      /\ outbox'[j].retries = outbox[j].retries
    BY <2>1 DEF RowsStayClosed
  <2>2. [outbox[j] EXCEPT !.status = "consolidated"] \in Rows
        /\ SameBody(outbox[j], [outbox[j] EXCEPT !.status = "consolidated"])
        /\ [outbox[j] EXCEPT !.status = "consolidated"].status = "consolidated"
        /\ [outbox[j] EXCEPT !.status = "consolidated"].retries = outbox[j].retries
    BY <1>2, <1>3, NewStatus
  <2>3. CASE j \in rows
    <3>1. outbox'[j].status = "consolidated" /\ outbox[j].status \in {"applied", "rem_reviewed"}
      BY <2>1, <2>2, <2>3
    <3>2. {outbox[j].status, outbox'[j].status} \subseteq Done
      BY <3>1 DEF Done
    <3> QED
      BY <2>1, <2>2, <2>3, <3>2
  <2>4. CASE j \notin rows
    BY <1>2, <2>1, <2>4
  <2> QED
    BY <2>3, <2>4
<1>6. CASE CloseLedgerRows(x)
  <2>1. PICK drop : outbox' = [i \in DOMAIN outbox \ drop |-> outbox[i]]
    BY <1>6 DEF CloseLedgerRows
  <2>2. \A i \in DOMAIN outbox' : i \in DOMAIN outbox /\ outbox'[i] = outbox[i]
    BY <2>1
  <2> QED
    BY <1>2, <2>2 DEF RowsStayClosed
<1> QED
  BY <1>1, <1>4, <1>5, <1>6

LEMMA BackoffRows == ASSUME OutboxInv, NEW i \in 1..MaxRows, BackoffEnds(i) PROVE RowsStayClosed
<1>1. \A j \in DOMAIN outbox : outbox[j] \in Rows
  BY DEF OutboxInv, TypeOK
<1>2. /\ i \in DOMAIN outbox /\ DOMAIN outbox' = DOMAIN outbox
      /\ \A j \in DOMAIN outbox : outbox'[j] = IF j = i THEN [outbox[i] EXCEPT !.due = TRUE] ELSE outbox[j]
  BY DEF BackoffEnds, Updated
<1>3. [outbox[i] EXCEPT !.due = TRUE] \in Rows /\ SameBody(outbox[i], [outbox[i] EXCEPT !.due = TRUE])
      /\ [outbox[i] EXCEPT !.due = TRUE].status = outbox[i].status
      /\ [outbox[i] EXCEPT !.due = TRUE].retries = outbox[i].retries
  BY <1>1, <1>2 DEF Rows, SameBody
<1> QED
  BY <1>1, <1>2, <1>3 DEF RowsStayClosed, SameBody

LEMMA QuietStep == ASSUME OutboxInv, DaemonStep \/ \E i \in 1..MaxRows : BackoffEnds(i) PROVE OutboxInv'
<1>1. RowsStayClosed
  BY DaemonRows, BackoffRows
<1>2. UNCHANGED <<pgVars, nextId, workerVars, graphVars, restarts, strands>>
  BY DEF DaemonStep, RemReview, Fold, CloseLedgerRows, BackoffEnds
<1> QED
  BY <1>1, <1>2, ClosedRowsStep

-----------------------------------------------------------------------------
(***************************************************************************)
(* The worker.                                                             *)
(***************************************************************************)

\* Rows that can be claimed have an oldest one.
LEMMA OldestRow ==
    ASSUME NEW S \in SUBSET Nat, S # {}
    PROVE  \E i \in S : \A j \in S : i <= j
<1> DEFINE below == {0..i : i \in S}
<1>1. below \subseteq FiniteSubsetsOf(Nat) /\ below # {}
  <2>1. \A i \in S : 0..i \subseteq Nat /\ IsFiniteSet(0..i)
    BY FS_Interval
  <2> QED
    BY <2>1 DEF FiniteSubsetsOf
<1>2. PICK x \in below : \A y \in below : ~(<<y, x>> \in StrictSubsetOrdering(Nat))
  BY <1>1, WFMin, FS_StrictSubsetOrderingWellFounded
<1>3. PICK i \in S : x = 0..i
  BY <1>2
<1>4. ASSUME NEW j \in S, j < i PROVE FALSE
  <2>1. 0..j \subseteq 0..i /\ i \in 0..i /\ i \notin 0..j
    BY <1>4
  <2>2. 0..j \subseteq Nat /\ 0..i \subseteq Nat /\ 0..j # 0..i
    BY <2>1
  <2>3. <<0..j, 0..i>> \in StrictSubsetOrdering(Nat)
    BY <2>1, <2>2 DEF StrictSubsetOrdering
  <2> QED
    BY <1>2, <1>3, <2>3
<1> QED
  BY <1>4

\* A cycle claims some rows, and as many as it counts.
LEMMA ClaimIsCounted ==
    ASSUME OutboxInv, Claimable # {}
    PROVE  Claimed \subseteq Claimable /\ Cardinality(Claimed) \in Nat \ {0}
<1>1. Claimed \subseteq Claimable /\ Claimable \subseteq DOMAIN outbox
  BY DEF Claimed, Claimable
<1>2. nextId \in Nat /\ DOMAIN outbox \subseteq 1..(nextId - 1)
  BY DEF OutboxInv, TypeOK
<1>3. IsFiniteSet(Claimed)
  <2>1. IsFiniteSet(1..(nextId - 1))
    BY <1>2, FS_Interval
  <2> QED
    BY <1>1, <1>2, <2>1, FS_Subset
<1>4. Claimed # {}
  <2>1. Claimable \subseteq Nat
    BY <1>1, <1>2
  <2>2. PICK i \in Claimable : \A j \in Claimable : i <= j
    BY <2>1, OldestRow
  <2>3. {j \in Claimable : j < i} = {}
    <3>1. \A j \in Claimable : ~(j < i)
      BY <2>1, <2>2
    <3> QED
      BY <3>1
  <2>4. Cardinality({j \in Claimable : j < i}) = 0
    BY <2>3, FS_EmptySet
  <2> QED
    BY <2>4, BoundsAssumption DEF Claimed
<1> QED
  BY <1>1, <1>3, <1>4, FS_CardinalityType, FS_EmptySet

\* The copies of a claim: each of the claimed rows once.
LEMMA ClaimedCopies ==
    ASSUME OutboxInv, Claim
    PROVE  \E N \in Nat \ {0} : \E ids \in [1..N -> Claimed] :
              /\ \A m, n \in 1..N : ids[m] = ids[n] => m = n
              /\ \A i \in Claimed : \E n \in 1..N : ids[n] = i
              /\ DOMAIN batch' = 1..N /\ batch' \in Seq(Copies) /\ batch' # <<>>
              /\ \A n \in 1..N : batch'[n].id = ids[n] /\ SameBody(batch'[n], outbox[ids[n]])
<1> DEFINE N == Cardinality(Claimed)
<1>1. Claimed \subseteq Claimable /\ N \in Nat \ {0}
  BY ClaimIsCounted DEF Claim
<1> HIDE DEF N
<1>2. PICK ids \in Bijection(1..N, Claimed) :
        batch' = [n \in DOMAIN ids |->
                    [id |-> ids[n], pg |-> outbox[ids[n]].pg, kind |-> outbox[ids[n]].kind,
                     old |-> outbox[ids[n]].old, new |-> outbox[ids[n]].new,
                     retries |-> outbox[ids[n]].retries]]
  BY DEF Claim, N
<1>3. /\ ids \in [1..N -> Claimed]
      /\ \A m, n \in 1..N : ids[m] = ids[n] => m = n
      /\ \A i \in Claimed : \E n \in 1..N : ids[n] = i
  BY DEF Bijection, Injection, Surjection, IsInjective
<1>4. /\ DOMAIN batch' = 1..N
      /\ \A n \in 1..N : batch'[n] =
            [id |-> ids[n], pg |-> outbox[ids[n]].pg, kind |-> outbox[ids[n]].kind,
             old |-> outbox[ids[n]].old, new |-> outbox[ids[n]].new,
             retries |-> outbox[ids[n]].retries]
      /\ batch' = [n \in 1..N |-> batch'[n]]
  BY <1>2, <1>3
<1>5. \A i \in Claimed : i \in Nat /\ outbox[i] \in Rows
  <2>1. \A i \in Claimed : i \in DOMAIN outbox
    BY <1>1 DEF Claimable
  <2> QED
    BY <2>1 DEF OutboxInv, TypeOK
<1>6. \A n \in 1..N : batch'[n] \in Copies
  <2> SUFFICES ASSUME NEW n \in 1..N PROVE batch'[n] \in Copies
    OBVIOUS
  <2>1. ids[n] \in Nat /\ outbox[ids[n]] \in Rows
    BY <1>3, <1>5
  <2> QED
    BY <1>4, <2>1 DEF Rows, Copies
<1>7. batch' \in Seq(Copies) /\ batch' # <<>>
  <2>1. batch' \in [1..N -> Copies]
    BY <1>4, <1>6
  <2>2. batch' \in Seq(Copies)
    BY <1>1, <2>1
  <2>3. 1 \in DOMAIN batch' /\ DOMAIN <<>> = {}
    BY <1>1, <1>4
  <2> QED
    BY <2>2, <2>3
<1>8. \A n \in 1..N : batch'[n].id = ids[n] /\ SameBody(batch'[n], outbox[ids[n]])
  BY <1>4 DEF SameBody
<1> QED
  BY <1>1, <1>3, <1>4, <1>7, <1>8

LEMMA ClaimStep == ASSUME OutboxInv, Claim PROVE OutboxInv'
<1>0. PICK N \in Nat \ {0} : \E ids \in [1..N -> Claimed] :
              /\ \A m, n \in 1..N : ids[m] = ids[n] => m = n
              /\ \A i \in Claimed : \E n \in 1..N : ids[n] = i
              /\ DOMAIN batch' = 1..N /\ batch' \in Seq(Copies) /\ batch' # <<>>
              /\ \A n \in 1..N : batch'[n].id = ids[n] /\ SameBody(batch'[n], outbox[ids[n]])
  BY ClaimedCopies
<1>1. PICK ids \in [1..N -> Claimed] :
              /\ \A m, n \in 1..N : ids[m] = ids[n] => m = n
              /\ \A i \in Claimed : \E n \in 1..N : ids[n] = i
              /\ DOMAIN batch' = 1..N /\ batch' \in Seq(Copies) /\ batch' # <<>>
              /\ \A n \in 1..N : batch'[n].id = ids[n] /\ SameBody(batch'[n], outbox[ids[n]])
  BY <1>0
<1>2. /\ stage = "idle" /\ stage' = "claimed" /\ Claimable # {}
      /\ UNCHANGED <<docs, superseded, supersededBy, nextId, nodes, marked, restarts, strands>>
      /\ DOMAIN outbox' = DOMAIN outbox
      /\ \A i \in DOMAIN outbox : outbox'[i] = IF i \in Claimed THEN [outbox[i] EXCEPT !.status = "in_progress"]
                                               ELSE outbox[i]
  BY DEF Claim, pgVars, graphVars
<1>3. \A i \in Claimed : /\ i \in DOMAIN outbox /\ outbox[i].status = "pending" /\ outbox[i].retries < MaxRetries
  BY <1>2, ClaimIsCounted DEF Claimable
<1>4. \A i \in DOMAIN outbox : outbox[i] \in Rows
  BY DEF OutboxInv, TypeOK
<1>5. ASSUME NEW i \in DOMAIN outbox
      PROVE  /\ outbox'[i] \in Rows /\ SameBody(outbox[i], outbox'[i]) /\ outbox'[i].retries = outbox[i].retries
             /\ i \in Claimed => outbox'[i].status = "in_progress"
             /\ i \notin Claimed => outbox'[i] = outbox[i]
  <2>1. "in_progress" \in Statuses
    BY DEF Statuses, Open
  <2>2. /\ [outbox[i] EXCEPT !.status = "in_progress"] \in Rows
        /\ SameBody(outbox[i], [outbox[i] EXCEPT !.status = "in_progress"])
        /\ [outbox[i] EXCEPT !.status = "in_progress"].status = "in_progress"
        /\ [outbox[i] EXCEPT !.status = "in_progress"].retries = outbox[i].retries
    BY <1>4, <2>1, NewStatus
  <2>3. SameBody(outbox[i], outbox[i])
    BY DEF SameBody
  <2> QED
    BY <1>2, <1>4, <2>2, <2>3
<1>6. TypeOK'
  <2>1. stage' \in Stages /\ (stage' = "idle" <=> batch' = <<>>)
    BY <1>1, <1>2 DEF Stages
  <2>2. \A n \in DOMAIN batch' : batch'[n].id < nextId'
    <3> SUFFICES ASSUME NEW n \in 1..N PROVE ids[n] < nextId
      BY <1>1, <1>2
    <3>1. ids[n] \in 1..(nextId - 1) /\ nextId \in Nat
      BY <1>3 DEF OutboxInv, TypeOK
    <3> QED
      BY <3>1
  <2> QED
    BY <1>2, <1>5, <2>1, <2>2 DEF OutboxInv, TypeOK
<1>7. RowsAreWellFormed'
  BY <1>2, <1>5 DEF OutboxInv, RowsAreWellFormed, WellFormed, SameBody
<1>8. CopiesAreClaimed'
  <2> SUFFICES ASSUME NEW n \in 1..N
               PROVE  /\ WellFormed(batch'[n])
                      /\ \A m \in 1..N : batch'[m].id = batch'[n].id => m = n
                      /\ SameBody(batch'[n], outbox'[batch'[n].id])
                      /\ outbox'[batch'[n].id].status = "in_progress"
    BY <1>1 DEF CopiesAreClaimed
  <2>1. ids[n] \in Claimed /\ ids[n] \in DOMAIN outbox /\ batch'[n].id = ids[n]
        /\ SameBody(batch'[n], outbox[ids[n]])
    BY <1>1, <1>3
  <2>2. WellFormed(batch'[n])
    BY <2>1 DEF OutboxInv, RowsAreWellFormed, WellFormed, SameBody
  <2>3. SameBody(outbox[ids[n]], outbox'[ids[n]]) /\ outbox'[ids[n]].status = "in_progress"
    BY <1>5, <2>1
  <2> QED
    BY <1>1, <2>1, <2>2, <2>3 DEF SameBody
<1>9. OpenRowsHaveTries'
  BY <1>2, <1>3, <1>5 DEF OutboxInv, OpenRowsHaveTries
<1>10. ClaimsAreKnown'
  <2> SUFFICES ASSUME strands = 0, NEW i \in DOMAIN outbox, outbox'[i].status = "in_progress"
               PROVE  \E n \in DOMAIN batch' : batch'[n].id = i
    BY <1>2 DEF ClaimsAreKnown
  <2>1. i \in Claimed
    <3>1. DOMAIN batch = {}
      BY <1>2 DEF OutboxInv, TypeOK
    <3> QED
      BY <1>5, <3>1 DEF OutboxInv, ClaimsAreKnown
  <2> QED
    BY <1>1, <2>1
<1>11. StagesFit'
  BY <1>2 DEF StagesFit
<1> QED
  BY <1>1, <1>6, <1>7, <1>8, <1>9, <1>10, <1>11 DEF OutboxInv

\* The row in hand is done with: it leaves, or is closed, or may be claimed again,
\* unless the change was lost, which is counted.
RowIsLetGo ==
    /\ DOMAIN outbox' \subseteq DOMAIN outbox
    /\ \A i \in DOMAIN outbox' :
          /\ i # Row.id => outbox'[i] = outbox[i]
          /\ i = Row.id =>
                /\ outbox'[i] \in Rows /\ SameBody(outbox[i], outbox'[i])
                /\ outbox'[i].status \in Open => outbox'[i].retries < MaxRetries
                /\ strands' = 0 => outbox'[i].status # "in_progress"

LEMMA RowDoneStep ==
    ASSUME OutboxInv, stage # "idle", RowDone, RowIsLetGo,
           UNCHANGED <<pgVars, nextId, graphVars, restarts>>,
           strands' \in Nat, strands' = strands \/ strands' # 0
    PROVE  OutboxInv'
<1>1. batch \in Seq(Copies) /\ batch # <<>> /\ nextId \in Nat
  BY DEF OutboxInv, TypeOK
<1>2. PICK L \in Nat : L = Len(batch)
  BY <1>1
<1>3. /\ DOMAIN batch = 1..L /\ Row = batch[1] /\ 1 \in DOMAIN batch
      /\ Tail(batch) \in Seq(Copies) /\ DOMAIN Tail(batch) = 1..(L - 1)
      /\ \A n \in 1..(L - 1) : Tail(batch)[n] = batch[n + 1] /\ n + 1 \in DOMAIN batch
  BY <1>1, <1>2, BatchInHand
<1>4. /\ batch' = Tail(batch) /\ stage' = IF Tail(batch) = <<>> THEN "idle" ELSE "merge"
      /\ UNCHANGED <<docs, superseded, supersededBy, nextId, nodes, marked, restarts>>
  BY DEF RowDone, pgVars, graphVars
<1>5. ASSUME NEW n \in DOMAIN batch'
      PROVE  n + 1 \in DOMAIN batch /\ batch'[n] = batch[n + 1] /\ batch[n + 1].id # Row.id
  <2>1. n \in 1..(L - 1)
    BY <1>3, <1>4
  <2>2. n + 1 \in DOMAIN batch /\ batch'[n] = batch[n + 1]
    BY <1>3, <1>4, <2>1
  <2>3. n + 1 # 1
    BY <2>1
  <2> QED
    BY <1>3, <2>2, <2>3 DEF OutboxInv, CopiesAreClaimed
<1>6. ASSUME NEW i \in DOMAIN outbox' PROVE i \in DOMAIN outbox /\ (i # Row.id => outbox'[i] = outbox[i])
  BY DEF RowIsLetGo
<1>7. TypeOK'
  <2>1. \A i \in DOMAIN outbox' : outbox'[i] \in Rows
    BY <1>6 DEF RowIsLetGo, OutboxInv, TypeOK
  <2>2. DOMAIN outbox' \subseteq 1..(nextId - 1)
    BY DEF RowIsLetGo, OutboxInv, TypeOK
  <2>3. stage' \in Stages /\ (stage' = "idle" <=> batch' = <<>>)
    BY <1>4 DEF Stages
  <2>4. \A n \in DOMAIN batch' : batch'[n].id < nextId
    BY <1>5 DEF OutboxInv, TypeOK
  <2> QED
    BY <1>4, <2>1, <2>2, <2>3, <2>4 DEF OutboxInv, TypeOK
<1>8. RowsAreWellFormed'
  <2>1. ASSUME NEW i \in DOMAIN outbox' PROVE SameBody(outbox[i], outbox'[i])
    BY <1>6 DEF RowIsLetGo, SameBody
  <2>2. \A i \in DOMAIN outbox' : WellFormed(outbox[i])
    BY <1>6 DEF OutboxInv, RowsAreWellFormed
  <2> QED
    BY <1>4, <2>1, <2>2 DEF OutboxInv, RowsAreWellFormed, WellFormed, SameBody
<1>9. CopiesAreClaimed'
  <2> SUFFICES ASSUME NEW n \in DOMAIN batch'
               PROVE  /\ WellFormed(batch'[n])
                      /\ \A m \in DOMAIN batch' : batch'[m].id = batch'[n].id => m = n
                      /\ batch'[n].id \in DOMAIN outbox' =>
                            /\ SameBody(batch'[n], outbox'[batch'[n].id])
                            /\ outbox'[batch'[n].id].status = "in_progress"
    BY DEF CopiesAreClaimed
  <2>1. WellFormed(batch'[n])
    BY <1>5 DEF OutboxInv, CopiesAreClaimed
  <2>2. ASSUME NEW m \in DOMAIN batch', batch'[m].id = batch'[n].id PROVE m = n
    <3>1. m + 1 \in DOMAIN batch /\ n + 1 \in DOMAIN batch /\ batch[m + 1].id = batch[n + 1].id
      BY <1>5, <2>2
    <3>2. m + 1 = n + 1
      BY <3>1 DEF OutboxInv, CopiesAreClaimed
    <3>3. m \in Int /\ n \in Int
      BY <1>3, <1>4
    <3> QED
      BY <3>2, <3>3
  <2>3. ASSUME batch'[n].id \in DOMAIN outbox'
        PROVE  /\ SameBody(batch'[n], outbox'[batch'[n].id])
               /\ outbox'[batch'[n].id].status = "in_progress"
    <3>1. batch'[n] = batch[n + 1] /\ n + 1 \in DOMAIN batch
      BY <1>5
    <3>2. batch'[n].id \in DOMAIN outbox /\ outbox'[batch'[n].id] = outbox[batch'[n].id]
      BY <1>5, <1>6, <2>3
    <3> QED
      BY <3>1, <3>2 DEF OutboxInv, CopiesAreClaimed
  <2> QED
    BY <2>1, <2>2, <2>3
<1>10. OpenRowsHaveTries'
  BY <1>6 DEF RowIsLetGo, OutboxInv, OpenRowsHaveTries
<1>11. ClaimsAreKnown'
  <2> SUFFICES ASSUME strands' = 0, NEW i \in DOMAIN outbox', outbox'[i].status = "in_progress"
               PROVE  \E n \in DOMAIN batch' : batch'[n].id = i
    BY DEF ClaimsAreKnown
  <2>1. strands = 0 /\ i # Row.id /\ i \in DOMAIN outbox /\ outbox[i].status = "in_progress"
    BY <1>6 DEF RowIsLetGo
  <2>2. PICK n \in DOMAIN batch : batch[n].id = i
    BY <2>1 DEF OutboxInv, ClaimsAreKnown
  <2>3. n # 1
    BY <1>3, <2>1, <2>2
  <2>4. n - 1 \in 1..(L - 1) /\ (n - 1) + 1 = n
    BY <1>3, <2>3
  <2>5. batch'[n - 1].id = i /\ n - 1 \in DOMAIN batch'
    BY <1>3, <1>4, <2>2, <2>4
  <2> QED
    BY <2>5
<1>12. batch' \in Seq(Copies)
  BY <1>3, <1>4
<1>13. StagesFit'
  BY <1>4 DEF StagesFit
<1> QED
  BY <1>7, <1>8, <1>9, <1>10, <1>11, <1>12, <1>13 DEF OutboxInv

\* The worker goes on with the row in hand.
LEMMA RowGoesOn ==
    ASSUME OutboxInv, stage # "idle", stage' \in Stages \ {"idle"},
           UNCHANGED <<pgVars, outbox, nextId, batch, restarts, strands>>,
           StagesFit', marked' \subseteq nodes', nodes' \subseteq Records \X Labels
    PROVE  OutboxInv'
<1> USE DEF pgVars
<1>1. TypeOK'
  BY DEF OutboxInv, TypeOK
<1>2. RowsAreWellFormed' /\ CopiesAreClaimed' /\ OpenRowsHaveTries' /\ ClaimsAreKnown'
  BY DEF OutboxInv, RowsAreWellFormed, CopiesAreClaimed, OpenRowsHaveTries, ClaimsAreKnown, WellFormed, SameBody
<1> QED
  BY <1>1, <1>2 DEF OutboxInv

\* A cycle ends before its time: its rows are counted as stranded, or start() made
\* them pending again.
LEMMA CycleCutShort ==
    ASSUME OutboxInv, UNCHANGED <<pgVars, nextId, graphVars>>,
           batch' = <<>>, stage' = "idle", restarts' \in Nat, strands' \in Nat,
           DOMAIN outbox' = DOMAIN outbox,
           strands' = 0 => \A i \in DOMAIN outbox : outbox'[i].status # "in_progress",
           \A i \in DOMAIN outbox :
              /\ outbox'[i] \in Rows /\ SameBody(outbox[i], outbox'[i])
              /\ outbox'[i].retries = outbox[i].retries
              /\ outbox'[i].status \in Open => outbox[i].status \in Open
    PROVE  OutboxInv'
<1>1. TypeOK'
  BY DEF OutboxInv, TypeOK, Stages, pgVars, graphVars
<1>2. RowsAreWellFormed'
  BY DEF OutboxInv, RowsAreWellFormed, WellFormed, SameBody, pgVars
<1>3. CopiesAreClaimed' /\ OpenRowsHaveTries' /\ ClaimsAreKnown'
  BY DEF OutboxInv, CopiesAreClaimed, OpenRowsHaveTries, ClaimsAreKnown
<1>4. batch' \in Seq(Copies)
  OBVIOUS
<1>5. StagesFit'
  BY DEF StagesFit
<1> QED
  BY <1>1, <1>2, <1>3, <1>4, <1>5 DEF OutboxInv

LEMMA RowInHand ==
    ASSUME OutboxInv, stage # "idle"
    PROVE  /\ Row \in Copies /\ WellFormed(Row)
           /\ Row.id \in DOMAIN outbox =>
                 /\ outbox[Row.id] \in Rows /\ SameBody(Row, outbox[Row.id])
                 /\ outbox[Row.id].status = "in_progress" /\ outbox[Row.id].retries < MaxRetries
<1>1. batch \in Seq(Copies) /\ batch # <<>>
  BY DEF OutboxInv, TypeOK
<1>2. Row = batch[1] /\ Row \in Copies /\ 1 \in DOMAIN batch
  BY <1>1, BatchInHand
<1>3. /\ WellFormed(Row)
      /\ Row.id \in DOMAIN outbox => SameBody(Row, outbox[Row.id]) /\ outbox[Row.id].status = "in_progress"
  BY <1>2 DEF OutboxInv, CopiesAreClaimed
<1>4. Row.id \in DOMAIN outbox => outbox[Row.id] \in Rows /\ outbox[Row.id].retries < MaxRetries
  BY <1>3 DEF OutboxInv, TypeOK, OpenRowsHaveTries, Open
<1> QED
  BY <1>2, <1>3, <1>4

\* A final status is written into the row in hand, if it is still there.
LEMMA FinalStatus ==
    ASSUME OutboxInv, stage # "idle", NEW s \in Statuses \ Open, WithStatus(Row.id, s)
    PROVE  /\ RowIsLetGo /\ DOMAIN outbox' = DOMAIN outbox
           /\ Row.id \in DOMAIN outbox => outbox'[Row.id].status = s /\ SameBody(outbox[Row.id], outbox'[Row.id])
           /\ \A i \in DOMAIN outbox : i # Row.id => outbox'[i] = outbox[i]
<1>1. /\ DOMAIN outbox' = DOMAIN outbox
      /\ \A i \in DOMAIN outbox : i # Row.id => outbox'[i] = outbox[i]
      /\ Row.id \in DOMAIN outbox => outbox'[Row.id] = [outbox[Row.id] EXCEPT !.status = s]
  BY DEF WithStatus, Updated
<1>2. ASSUME Row.id \in DOMAIN outbox
      PROVE  /\ outbox'[Row.id] \in Rows /\ SameBody(outbox[Row.id], outbox'[Row.id])
             /\ outbox'[Row.id].status = s
  <2>1. outbox[Row.id] \in Rows /\ s \in Statuses
    BY <1>2, RowInHand
  <2>2. /\ [outbox[Row.id] EXCEPT !.status = s] \in Rows
        /\ SameBody(outbox[Row.id], [outbox[Row.id] EXCEPT !.status = s])
        /\ [outbox[Row.id] EXCEPT !.status = s].status = s
    BY <2>1, NewStatus
  <2> QED
    BY <1>1, <1>2, <2>2
<1> QED
  BY <1>1, <1>2 DEF RowIsLetGo, Open

LEMMA MergeNodeStep == ASSUME OutboxInv, MergeNode PROVE OutboxInv'
<1>1. stage = "merge" /\ UNCHANGED <<pgVars, nextId, restarts, strands>>
      /\ strands \in Nat /\ marked \subseteq nodes /\ nodes \subseteq Records \X Labels
  BY DEF MergeNode, OutboxInv, TypeOK
<1>2. CASE Conflicts(Row) /\ WithStatus(Row.id, "failed") /\ RowDone /\ UNCHANGED graphVars
  <2>1. "failed" \in Statuses \ Open
    BY DEF Statuses, Open
  <2>2. RowIsLetGo
    BY <1>1, <1>2, <2>1, FinalStatus
  <2> QED
    BY <1>1, <1>2, <2>2, RowDoneStep
<1>3. CASE /\ ~Conflicts(Row)
           /\ nodes' = IF Row.kind = "supersede" THEN Ensured(Row.old)
                       ELSE nodes \cup {<<Row.pg, Label(Row.pg)>>}
           /\ stage' = AfterMerge(Row)
           /\ UNCHANGED <<marked, outbox, batch>>
  <2>1. Row \in Copies /\ WellFormed(Row)
    BY <1>1, RowInHand
  <2>2. stage' \in Stages \ {"idle"} /\ StagesFit'
    BY <1>3 DEF AfterMerge, Stages, StagesFit, Row
  <2>3. nodes \subseteq nodes' /\ nodes' \subseteq Records \X Labels
    <3>1. CASE Row.kind = "supersede"
      <4>1. Row.old \in Records
        BY <2>1, <3>1, RecordsAssumption DEF WellFormed, Records
      <4> QED
        BY <1>1, <1>3, <3>1, <4>1 DEF Ensured, Labels
    <3>2. CASE Row.kind # "supersede"
      <4>1. Row.pg \in Records /\ Label(Row.pg) \in Labels
        BY <2>1, KindsOfRecords DEF Copies
      <4> QED
        BY <1>1, <1>3, <3>2, <4>1
    <3> QED
      BY <3>1, <3>2
  <2>4. marked' \subseteq nodes'
    BY <1>1, <1>3, <2>3
  <2> QED
    BY <1>1, <1>3, <2>2, <2>3, <2>4, RowGoesOn
<1> QED
  BY <1>2, <1>3 DEF MergeNode

\* The second statement marks nodes it finds or makes.
LEMMA MarksAreNodes ==
    ASSUME OutboxInv, stage = "link"
    PROVE  Marks(Row) \subseteq Records \X Labels
<1>1. Row \in Copies /\ WellFormed(Row) /\ Row.kind # "decision" /\ nodes \subseteq Records \X Labels
  BY RowInHand DEF OutboxInv, StagesFit, TypeOK
<1>2. Row.kind \in {"fact", "retrospective", "supersede"} /\ Row.old \in Records \cup {None}
  BY <1>1 DEF Copies, Kinds
<1>3. CASE Row.kind = "fact"
  BY <1>2, <1>3 DEF Marks, Labels
<1>4. CASE Row.kind = "retrospective"
  BY <1>1, <1>4 DEF Marks
<1>5. CASE Row.kind = "supersede"
  BY <1>1, <1>5 DEF Marks
<1> QED
  BY <1>2, <1>3, <1>4, <1>5

LEMMA LinkNodesStep == ASSUME OutboxInv, LinkNodes PROVE OutboxInv'
<1>1. stage = "link" /\ UNCHANGED <<pgVars, outbox, nextId, batch, restarts, strands>>
      /\ marked \subseteq nodes /\ nodes \subseteq Records \X Labels
  BY DEF LinkNodes, OutboxInv, TypeOK
<1>2. marked' = marked \cup Marks(Row) /\ nodes' = nodes \cup Marks(Row)
      /\ Marks(Row) \subseteq Records \X Labels
  BY <1>1, MarksAreNodes DEF LinkNodes
<1>3. stage' \in Stages \ {"idle"} /\ StagesFit'
  BY <1>1 DEF LinkNodes, Stages, StagesFit, Row
<1> QED
  BY <1>1, <1>2, <1>3, RowGoesOn

LEMMA GroundNodesStep == ASSUME OutboxInv, GroundNodes PROVE OutboxInv'
<1>1. stage = "ground" /\ stage' = "finish" /\ UNCHANGED <<pgVars, outbox, nextId, batch, restarts, strands>>
      /\ marked' = marked /\ marked \subseteq nodes /\ nodes \subseteq Records \X Labels
  BY DEF GroundNodes, OutboxInv, TypeOK
<1>2. Row \in Copies /\ WellFormed(Row) /\ Row.kind # "fact"
  BY <1>1, RowInHand DEF OutboxInv, StagesFit
<1>3. stage' \in Stages \ {"idle"} /\ StagesFit'
  BY <1>1 DEF Stages, StagesFit
<1>4. nodes \subseteq nodes' /\ nodes' \subseteq Records \X Labels
  <2>1. CASE Row.kind # "supersede"
    <3>1. Row.kind \in {"decision", "retrospective"}
      BY <1>2, <2>1 DEF Copies, Kinds
    <3>2. Row.pg \in Judgements
      BY <1>2, <3>1 DEF WellFormed, Judgements
    <3>3. Cites[Row.pg] \subseteq Records
      BY <3>2, RecordsAssumption
    <3>4. Grounding(Row) \subseteq Records \X Labels
      BY <3>3, KindsOfRecords DEF Grounding
    <3> QED
      BY <1>1, <2>1, <3>4 DEF GroundNodes
  <2>2. CASE Row.kind = "supersede" /\ Row.new # None
    <3>1. Row.new \in Records
      BY <1>2, <2>2 DEF Copies
    <3>2. nodes' = Ensured(Row.new)
      BY <2>2 DEF GroundNodes
    <3> QED
      BY <1>1, <3>1, <3>2 DEF Ensured, Labels
  <2>3. CASE Row.kind = "supersede" /\ Row.new = None
    BY <1>1, <2>3 DEF GroundNodes
  <2> QED
    BY <2>1, <2>2, <2>3
<1>5. marked' \subseteq nodes'
  BY <1>1, <1>4
<1> QED
  BY <1>1, <1>3, <1>4, <1>5, RowGoesOn

LEMMA FinishRowStep == ASSUME OutboxInv, FinishRow PROVE OutboxInv'
<1>1. stage = "finish" /\ RowDone /\ UNCHANGED <<pgVars, nextId, graphVars, restarts, strands>> /\ strands \in Nat
  BY DEF FinishRow, OutboxInv, TypeOK
<1>2. RowIsLetGo
  <2>1. CASE Row.kind = "supersede"
    BY <2>1 DEF FinishRow, RowIsLetGo
  <2>2. CASE Row.kind # "supersede"
    <3>1. "applied" \in Statuses \ Open /\ WithStatus(Row.id, "applied")
      BY <2>2 DEF FinishRow, Statuses, Open
    <3> QED
      BY <1>1, <3>1, FinalStatus
  <2> QED
    BY <2>1, <2>2
<1> QED
  BY <1>1, <1>2, RowDoneStep

\* A recorded retry counts; at the limit the row is closed.
LEMMA RetriedRow ==
    ASSUME NEW r \in Rows, r.retries < MaxRetries
    PROVE  /\ Retried(r) \in Rows /\ SameBody(r, Retried(r)) /\ Retried(r).status \in {"pending", "failed"}
           /\ Retried(r).status = "pending" => Retried(r).retries < MaxRetries
<1>1. PICK n \in Nat : r.retries = n /\ n + 1 \in 0..MaxRetries /\ MaxRetries \in Nat
  BY BoundsAssumption DEF Rows
<1>2. CASE n + 1 >= MaxRetries
  <2> DEFINE s == [r EXCEPT !.status = "failed"]
  <2>1. s \in Rows /\ SameBody(r, s) /\ s.status = "failed" /\ s.retries = n
    BY <1>1, NewStatus DEF Statuses
  <2>2. Retried(r) = [s EXCEPT !.retries = n + 1]
    BY <1>1, <1>2 DEF Retried
  <2> HIDE DEF s
  <2>3. /\ [s EXCEPT !.retries = n + 1] \in Rows /\ [s EXCEPT !.retries = n + 1].status = "failed"
        /\ SameBody(s, [s EXCEPT !.retries = n + 1])
    BY <1>1, <2>1 DEF Rows, SameBody
  <2> QED
    BY <2>1, <2>2, <2>3 DEF SameBody
<1>3. CASE ~(n + 1 >= MaxRetries)
  <2> DEFINE s == [r EXCEPT !.status = "pending"]
             t == [s EXCEPT !.retries = n + 1]
  <2>1. s \in Rows /\ SameBody(r, s) /\ s.status = "pending"
    BY NewStatus DEF Statuses, Open
  <2>2. Retried(r) = [t EXCEPT !.due = FALSE]
    BY <1>1, <1>3 DEF Retried
  <2> HIDE DEF s
  <2>3. t \in Rows /\ t.status = "pending" /\ t.retries = n + 1 /\ SameBody(s, t)
    BY <1>1, <2>1 DEF Rows, SameBody
  <2> HIDE DEF t
  <2>4. /\ [t EXCEPT !.due = FALSE] \in Rows /\ [t EXCEPT !.due = FALSE].status = "pending"
        /\ [t EXCEPT !.due = FALSE].retries = n + 1 /\ SameBody(t, [t EXCEPT !.due = FALSE])
    BY <2>3 DEF Rows, SameBody
  <2> QED
    BY <1>1, <1>3, <2>1, <2>2, <2>3, <2>4 DEF SameBody
<1> QED
  BY <1>2, <1>3

\* What a failure leaves of the row in hand.
LEMMA FailedRow ==
    ASSUME OutboxInv, ApplyFails
    PROVE  /\ stage # "idle" /\ RowDone /\ UNCHANGED <<pgVars, nextId, graphVars, restarts>> /\ RowIsLetGo
           /\ strands' \in Nat /\ (strands' = strands \/ strands' # 0)
           /\ DOMAIN outbox' = DOMAIN outbox
           /\ \A i \in DOMAIN outbox : outbox'[i] # outbox[i] =>
                 i = Row.id /\ SameBody(outbox[i], outbox'[i]) /\ outbox'[i].status \in {"pending", "failed"}
<1>1. stage # "idle" /\ RowDone /\ UNCHANGED <<pgVars, nextId, graphVars, restarts>> /\ strands \in Nat
  BY DEF ApplyFails, OutboxInv, TypeOK
<1>2. CASE /\ Updated(Row.id, IF Row.id \in DOMAIN outbox THEN Retried(outbox[Row.id]) ELSE None)
           /\ UNCHANGED strands
  <2>1. /\ DOMAIN outbox' = DOMAIN outbox
        /\ \A i \in DOMAIN outbox : i # Row.id => outbox'[i] = outbox[i]
        /\ Row.id \in DOMAIN outbox => outbox'[Row.id] = Retried(outbox[Row.id])
    BY <1>2 DEF Updated
  <2>2. Row.id \in DOMAIN outbox =>
          /\ outbox'[Row.id] \in Rows /\ SameBody(outbox[Row.id], outbox'[Row.id])
          /\ outbox'[Row.id].status \in {"pending", "failed"}
          /\ outbox'[Row.id].status = "pending" => outbox'[Row.id].retries < MaxRetries
    BY <1>1, <2>1, RowInHand, RetriedRow
  <2>3. RowIsLetGo
    BY <2>1, <2>2 DEF RowIsLetGo, Open
  <2> QED
    BY <1>1, <1>2, <2>1, <2>2, <2>3
<1>3. CASE strands' = strands + 1 /\ UNCHANGED outbox
  <2>1. \A i \in DOMAIN outbox : outbox[i] \in Rows /\ (outbox[i].status \in Open => outbox[i].retries < MaxRetries)
    BY DEF OutboxInv, TypeOK, OpenRowsHaveTries
  <2>2. strands' \in Nat /\ strands' # 0
    BY <1>1, <1>3
  <2>3. RowIsLetGo
    BY <1>3, <2>1, <2>2 DEF RowIsLetGo, SameBody
  <2> QED
    BY <1>1, <1>3, <2>2, <2>3
<1> QED
  BY <1>2, <1>3 DEF ApplyFails

LEMMA PoolTimeoutStep == ASSUME OutboxInv, PoolTimeout PROVE OutboxInv'
<1>1. /\ UNCHANGED <<pgVars, nextId, graphVars>> /\ batch' = <<>> /\ stage' = "idle"
      /\ restarts' \in Nat /\ outbox' = outbox /\ strands' = strands + 1 /\ strands \in Nat
      /\ \A i \in DOMAIN outbox : outbox[i] \in Rows
  BY DEF PoolTimeout, OutboxInv, TypeOK
<1>2. strands' \in Nat /\ strands' # 0
  BY <1>1
<1> QED
  BY <1>1, <1>2, CycleCutShort DEF SameBody

LEMMA RestartStep ==
    ASSUME OutboxInv, Restart
    PROVE  /\ OutboxInv'
           /\ DOMAIN outbox' = DOMAIN outbox /\ UNCHANGED <<pgVars, nextId, graphVars>> /\ stage' = "idle"
           /\ \A i \in DOMAIN outbox : outbox'[i] # outbox[i] =>
                 outbox[i].status = "in_progress" /\ SameBody(outbox[i], outbox'[i]) /\ outbox'[i].status = "pending"
<1>1. /\ UNCHANGED <<pgVars, nextId, graphVars>> /\ batch' = <<>> /\ stage' = "idle"
      /\ restarts' \in Nat /\ strands' \in Nat
      /\ \A i \in DOMAIN outbox : outbox[i] \in Rows
  BY DEF Restart, OutboxInv, TypeOK
<1>2. /\ DOMAIN outbox' = DOMAIN outbox
      /\ \A i \in DOMAIN outbox :
            outbox'[i] = IF outbox[i].status = "in_progress" THEN [outbox[i] EXCEPT !.status = "pending"]
                         ELSE outbox[i]
  BY DEF Restart
<1>3. ASSUME NEW i \in DOMAIN outbox
      PROVE  /\ outbox'[i] \in Rows /\ SameBody(outbox[i], outbox'[i])
             /\ outbox'[i].retries = outbox[i].retries /\ outbox'[i].status # "in_progress"
             /\ outbox'[i] # outbox[i] => outbox[i].status = "in_progress" /\ outbox'[i].status = "pending"
  <2>1. CASE outbox[i].status = "in_progress"
    <3>1. outbox[i] \in Rows /\ "pending" \in Statuses
      BY <1>1 DEF Statuses, Open
    <3> DEFINE r == [outbox[i] EXCEPT !.status = "pending"]
    <3>2. r \in Rows /\ SameBody(outbox[i], r) /\ r.status = "pending" /\ r.retries = outbox[i].retries
      BY <3>1, NewStatus
    <3>3. outbox'[i] = r
      BY <1>2, <2>1
    <3> HIDE DEF r
    <3> QED
      BY <2>1, <3>2, <3>3
  <2>2. CASE outbox[i].status # "in_progress"
    BY <1>1, <1>2, <2>2 DEF SameBody
  <2> QED
    BY <2>1, <2>2
<1>4. \A i \in DOMAIN outbox : outbox'[i].status \in Open => outbox[i].status \in Open
  BY <1>3 DEF Open
<1>5. OutboxInv'
  BY <1>1, <1>2, <1>3, <1>4, CycleCutShort
<1> QED
  BY <1>1, <1>2, <1>3, <1>5

LEMMA WorkerKeepsOutbox == ASSUME OutboxInv, WorkerStep PROVE OutboxInv'
<1>1. CASE ConnectionAcquired
  <2>1. stage # "idle" /\ stage' \in Stages \ {"idle"} /\ StagesFit'
    BY <1>1 DEF ConnectionAcquired, Stages, StagesFit
  <2>2. UNCHANGED <<pgVars, outbox, nextId, batch, restarts, strands>>
        /\ marked' \subseteq nodes' /\ nodes' \subseteq Records \X Labels
    BY <1>1 DEF ConnectionAcquired, OutboxInv, TypeOK, graphVars
  <2> QED
    BY <2>1, <2>2, RowGoesOn
<1>2. CASE ApplyFails
  <2>1. /\ stage # "idle" /\ RowDone /\ UNCHANGED <<pgVars, nextId, graphVars, restarts>> /\ RowIsLetGo
        /\ strands' \in Nat /\ (strands' = strands \/ strands' # 0)
    BY <1>2, FailedRow
  <2> QED
    BY <2>1, RowDoneStep
<1> QED
  BY <1>1, <1>2, ClaimStep, PoolTimeoutStep, MergeNodeStep, LinkNodesStep, GroundNodesStep, FinishRowStep
     DEF WorkerStep

LEMMA InitOutbox == Init => OutboxInv
<1> SUFFICES ASSUME Init PROVE OutboxInv
  OBVIOUS
<1>1. DOMAIN outbox = {} /\ DOMAIN batch = {} /\ batch = <<>>
  BY DEF Init
<1>2. TypeOK
  BY <1>1 DEF Init, TypeOK, Stages, Records
<1>3. batch \in Seq(Copies)
  BY <1>1
<1>4. RowsAreWellFormed /\ StagesFit
  BY <1>1 DEF Init, RowsAreWellFormed, StagesFit
<1>5. CopiesAreClaimed /\ OpenRowsHaveTries /\ ClaimsAreKnown
  BY <1>1 DEF CopiesAreClaimed, OpenRowsHaveTries, ClaimsAreKnown
<1> QED
  BY <1>2, <1>3, <1>4, <1>5 DEF OutboxInv

LEMMA OutboxStep == OutboxInv /\ [Next]_vars => OutboxInv'
<1> SUFFICES ASSUME OutboxInv, [Next]_vars PROVE OutboxInv'
  OBVIOUS
<1>1. CASE UNCHANGED vars
  <2> USE <1>1 DEF vars, pgVars, workerVars, graphVars
  <2>1. TypeOK' /\ StagesFit'
    BY DEF OutboxInv, TypeOK, StagesFit, Row
  <2>2. RowsAreWellFormed' /\ CopiesAreClaimed' /\ OpenRowsHaveTries' /\ ClaimsAreKnown'
    BY DEF OutboxInv, RowsAreWellFormed, CopiesAreClaimed, OpenRowsHaveTries, ClaimsAreKnown, WellFormed, SameBody
  <2> QED
    BY <2>1, <2>2 DEF OutboxInv
<1> QED
  BY <1>1, RequestStep, WorkerKeepsOutbox, RestartStep, QuietStep DEF Next

\* The outbox is as OutboxInv says, in every behaviour.
THEOREM OutboxIsSound == Spec => []OutboxInv
<1> QED
  BY InitOutbox, OutboxStep, PTL DEF Spec

\* The fields are of their types: rows in the table, copies in the worker's hands,
\* records, marks and nodes.
THEOREM OutboxTypes == Spec => []TypeOK
<1>1. OutboxInv => TypeOK
  BY DEF OutboxInv
<1> QED
  BY <1>1, OutboxIsSound, PTL

\* No open row escapes the worker (_drain_outbox, _record_retry, start), for any
\* requests, batch size, retry limit, restarts and order of claims.
THEOREM RowsAreServed == Spec => []OpenRowIsServed
<1>1. OutboxInv => OpenRowIsServed
  BY DEF OutboxInv, OpenRowIsServed, ClaimsAreKnown, OpenRowsHaveTries, Open
<1> QED
  BY <1>1, OutboxIsSound, PTL

-----------------------------------------------------------------------------
(***************************************************************************)
(* The graph.                                                              *)
(***************************************************************************)

\* Only the statements of a row write to the graph.
LEMMA GraphWriters == ASSUME [Next]_vars PROVE UNCHANGED graphVars \/ MergeNode \/ LinkNodes \/ GroundNodes
<1>1. ASSUME Request PROVE UNCHANGED graphVars
  BY <1>1 DEF Request, SaveFact, SaveCorrection, SaveDecision, SaveRetro, Supersede, Enqueue
<1>2. ASSUME Claim \/ ConnectionAcquired \/ PoolTimeout \/ FinishRow \/ ApplyFails \/ Restart
      PROVE UNCHANGED graphVars
  BY <1>2 DEF Claim, ConnectionAcquired, PoolTimeout, FinishRow, ApplyFails, Restart
<1>3. ASSUME DaemonStep \/ \E i \in 1..MaxRows : BackoffEnds(i) PROVE UNCHANGED graphVars
  BY <1>3 DEF DaemonStep, RemReview, Fold, CloseLedgerRows, BackoffEnds
<1>4. UNCHANGED vars => UNCHANGED graphVars
  BY DEF vars
<1> QED
  BY <1>1, <1>2, <1>3, <1>4 DEF Next, WorkerStep

\* Nothing ever leaves the graph.
LEMMA GraphGrows == ASSUME OutboxInv, [Next]_vars PROVE nodes \subseteq nodes' /\ marked \subseteq marked'
<1>1. CASE UNCHANGED graphVars
  BY <1>1 DEF graphVars
<1>2. CASE MergeNode
  BY <1>2 DEF MergeNode, graphVars, Ensured
<1>3. CASE LinkNodes
  BY <1>3 DEF LinkNodes
<1>4. CASE GroundNodes
  BY <1>4 DEF GroundNodes, Ensured
<1> QED
  BY <1>1, <1>2, <1>3, <1>4, GraphWriters

\* The nodes of a step: each has its label, or that of a placeholder, which is not
\* the label of a successor that is no fact.
LEMMA NewNodes ==
    ASSUME OutboxInv, [Next]_vars, NEW n \in nodes', n \notin nodes
    PROVE  n[2] = Label(n[1]) \/ (n[1] \in Successors /\ n[1] \notin Facts)
<1> DEFINE Good == n[2] = Label(n[1]) \/ (n[1] \in Successors /\ n[1] \notin Facts)
<1>1. ASSUME NEW x \in Targets \cup Successors, n \in Ensured(x) PROVE Good
  <2>1. n = <<x, "Fact">>
    BY <1>1 DEF Ensured
  <2> QED
    BY <2>1, KindsOfRecords, RecordsAssumption
<1>2. CASE MergeNode
  <2>1. stage = "merge" /\ WellFormed(Row)
    BY <1>2, RowInHand DEF MergeNode
  <2>2. \/ Row.kind = "supersede" /\ n \in Ensured(Row.old)
        \/ n = <<Row.pg, Label(Row.pg)>>
    BY <1>2 DEF MergeNode, graphVars
  <2> QED
    BY <1>1, <2>1, <2>2 DEF WellFormed
<1>3. CASE LinkNodes
  <2>1. stage = "link" /\ WellFormed(Row) /\ Row \in Copies /\ Row.kind # "decision" /\ n \in Marks(Row)
    BY <1>3, RowInHand DEF LinkNodes, OutboxInv, StagesFit
  <2>2. Row.kind \in {"fact", "retrospective", "supersede"}
    BY <2>1 DEF Copies, Kinds
  <2>3. CASE Row.kind = "fact"
    <3>1. Row.old # None /\ n = <<Row.old, "Fact">>
      BY <2>1, <2>3 DEF Marks
    <3>2. Row.old \in Facts
      BY <2>1, <2>3, <3>1, RecordsAssumption DEF WellFormed
    <3> QED
      BY <3>1, <3>2, KindsOfRecords
  <2>4. CASE Row.kind = "retrospective"
    BY <2>1, <2>4 DEF Marks
  <2>5. CASE Row.kind = "supersede"
    BY <2>1, <2>5 DEF Marks
  <2> QED
    BY <2>2, <2>3, <2>4, <2>5
<1>4. CASE GroundNodes
  <2>1. stage = "ground" /\ WellFormed(Row)
    BY <1>4, RowInHand DEF GroundNodes
  <2>2. CASE Row.kind # "supersede"
    BY <1>4, <2>2 DEF GroundNodes, Grounding
  <2>3. CASE Row.kind = "supersede"
    <3>1. Row.new # None /\ n \in Ensured(Row.new)
      BY <1>4, <2>3 DEF GroundNodes
    <3> QED
      BY <1>1, <2>1, <3>1 DEF WellFormed
  <2> QED
    BY <2>2, <2>3
<1>5. ~UNCHANGED graphVars
  BY DEF graphVars
<1> QED
  BY <1>2, <1>3, <1>4, <1>5, GraphWriters

\* Every spine node has the label of its record (_ensure_spine_node, the MERGE per
\* type), for any interleaving, if only facts succeed records.
THEOREM NoClones == ASSUME FactsSucceed PROVE Spec => []NoClone
<1>1. Init => NoClone
  BY DEF Init, NoClone
<1>2. OutboxInv /\ NoClone /\ [Next]_vars => NoClone'
  <2> SUFFICES ASSUME OutboxInv, NoClone, [Next]_vars, NEW n \in nodes' PROVE n[2] = Label(n[1])
    BY DEF NoClone
  <2> QED
    BY NewNodes DEF NoClone, FactsSucceed
<1> QED
  BY <1>1, <1>2, OutboxIsSound, PTL DEF Spec

-----------------------------------------------------------------------------
(***************************************************************************)
(* What the rows promise the graph.                                        *)
(***************************************************************************)
Owing == Open \cup {"failed"}

\* How a row may move, and which rows may go.
RowsMove ==
    /\ \A i \in DOMAIN outbox' :
          \/ i \notin DOMAIN outbox /\ outbox'[i].status = "pending"
          \/ /\ i \in DOMAIN outbox /\ SameBody(outbox[i], outbox'[i])
             /\ \/ {outbox[i].status, outbox'[i].status} \subseteq Owing
                \/ {outbox[i].status, outbox'[i].status} \subseteq Done
                \/ stage = "finish" /\ i = Row.id /\ Row.kind # "supersede" /\ outbox'[i].status = "applied"
    /\ \A i \in DOMAIN outbox \ DOMAIN outbox' :
          \/ outbox[i].status \in Done
          \/ outbox[i].kind = "fact" /\ outbox[i].pg \in Targets
          \/ stage = "finish" /\ i = Row.id /\ outbox[i].kind = "supersede"

LEMMA StatusesSplit == Statuses = Owing \cup Done
  BY DEF Statuses, Owing, Done, Open

\* A replaced record is one that a request may supersede.
LEMMA AncestorsAreTargets ==
    ASSUME OutboxInv, NEW x \in Records, NEW y \in Ancestry(x)
    PROVE  y \in Targets /\ y \in superseded
<1>1. y \in Facts
  BY DEF Ancestry
<1>2. Cardinality(Facts) \in Nat
  BY RecordsAssumption, FS_CardinalityType
<1>3. PICK n \in 1..Cardinality(Facts) : \E p \in [1..n -> Facts] :
        /\ p[1] = y /\ supersededBy[p[n]] = x
        /\ \A k \in 1..(n - 1) : supersededBy[p[k]] = p[k + 1]
  BY DEF Ancestry
<1>4. PICK p \in [1..n -> Facts] :
        /\ p[1] = y /\ supersededBy[p[n]] = x
        /\ \A k \in 1..(n - 1) : supersededBy[p[k]] = p[k + 1]
  BY <1>3
<1>5. supersededBy[y] \in Records
  <2>1. CASE n = 1
    BY <1>4, <2>1
  <2>2. CASE n # 1
    <3>1. n \in Nat /\ 1 \in 1..(n - 1) /\ 1 + 1 \in 1..n
      BY <1>2, <2>2
    <3>2. supersededBy[p[1]] = p[1 + 1] /\ p[1 + 1] \in Facts
      BY <1>4, <3>1
    <3> QED
      BY <1>4, <3>2, KindsOfRecords
  <2> QED
    BY <2>1, <2>2
<1>6. supersededBy[y] # None
  BY <1>5, RecordsAssumption
<1> QED
  BY <1>1, <1>6 DEF OutboxInv, RowsAreWellFormed

LEMMA EnqueueMoves ==
    ASSUME OutboxInv, NEW r, NEW drop, Enqueue(r, drop), r.status = "pending",
           \A i \in drop \cap DOMAIN outbox : outbox[i].kind = "fact" /\ outbox[i].pg \in Targets
    PROVE  RowsMove
<1>1. /\ DOMAIN outbox' = (DOMAIN outbox \ drop) \cup {nextId}
      /\ \A i \in DOMAIN outbox' : outbox'[i] = IF i = nextId THEN r ELSE outbox[i]
  BY DEF Enqueue
<1>2. nextId \notin DOMAIN outbox
  BY DEF OutboxInv, TypeOK
<1>3. \A i \in DOMAIN outbox : outbox[i].status \in Owing \cup Done
  BY StatusesSplit DEF OutboxInv, TypeOK, Rows
<1>4. ASSUME NEW i \in DOMAIN outbox', i # nextId
      PROVE  i \in DOMAIN outbox /\ outbox'[i] = outbox[i]
  BY <1>1, <1>4
<1> QED
  BY <1>1, <1>2, <1>3, <1>4 DEF RowsMove, SameBody

LEMMA RequestMoves == ASSUME OutboxInv, Request PROVE RowsMove
<1>1. ASSUME NEW x, NEW kind, NEW old, NEW new PROVE NewRow(x, kind, old, new).status = "pending"
  BY DEF NewRow
<1>2. ASSUME NEW f \in Facts, NEW by \in Records \cup {None}, Supersede(f, by) PROVE RowsMove
  <2> DEFINE drop == IF by # None /\ RowsOf(by, {"fact"}) # {} THEN {} ELSE RowsOf(f, {"fact"})
  <2>1. Enqueue(NewRow(f, "supersede", f, by), drop) /\ f \in Targets
    BY <1>2 DEF Supersede
  <2>2. \A i \in drop : outbox[i].kind = "fact" /\ outbox[i].pg \in Targets
    BY <2>1 DEF RowsOf
  <2> HIDE DEF drop
  <2> QED
    BY <1>1, <2>1, <2>2, EnqueueMoves
<1>3. ASSUME NEW r, Enqueue(r, {}), r.status = "pending" PROVE RowsMove
  BY <1>3, EnqueueMoves
<1> QED
  BY <1>1, <1>2, <1>3 DEF Request, SaveFact, SaveCorrection, SaveDecision, SaveRetro

LEMMA DaemonMoves == ASSUME OutboxInv, DaemonStep \/ \E i \in 1..MaxRows : BackoffEnds(i) PROVE RowsMove
<1>1. RowsStayClosed
  BY DaemonRows, BackoffRows
<1>2. \A i \in DOMAIN outbox : outbox[i].status \in Owing \cup Done
  BY StatusesSplit DEF OutboxInv, TypeOK, Rows
<1>3. ASSUME NEW i \in DOMAIN outbox'
      PROVE  /\ i \in DOMAIN outbox /\ SameBody(outbox[i], outbox'[i])
             /\ \/ {outbox[i].status, outbox'[i].status} \subseteq Owing
                \/ {outbox[i].status, outbox'[i].status} \subseteq Done
  BY <1>1, <1>2 DEF RowsStayClosed
<1>4. ASSUME NEW i \in DOMAIN outbox, i \notin DOMAIN outbox'
      PROVE  outbox[i].status \in Done \/ (outbox[i].kind = "fact" /\ outbox[i].pg \in Targets)
  <2>1. ~(\E j \in 1..MaxRows : BackoffEnds(j))
    BY <1>4 DEF BackoffEnds, Updated
  <2>2. PICK x \in Records : RemReview(x) \/ Fold(x) \/ CloseLedgerRows(x)
    BY <2>1 DEF DaemonStep
  <2>3. CloseLedgerRows(x)
    BY <1>4, <2>2 DEF RemReview, Fold, WithStatus, Updated
  <2>4. \/ i \in RowsOf(x, Kinds) /\ outbox[i].status = "consolidated"
        \/ i \in AncestryRows(x)
    BY <1>4, <2>3 DEF CloseLedgerRows, ConsolidatedRows
  <2>5. CASE i \in AncestryRows(x)
    <3>1. PICK y \in Ancestry(x) : i \in RowsOf(y, {"fact"})
      BY <2>5 DEF AncestryRows
    <3> QED
      BY <3>1, AncestorsAreTargets DEF RowsOf
  <2> QED
    BY <2>4, <2>5 DEF Done
<1> QED
  BY <1>3, <1>4 DEF RowsMove

LEMMA WorkerMoves == ASSUME OutboxInv, WorkerStep PROVE RowsMove
<1>1. \A i \in DOMAIN outbox : outbox[i].status \in Owing \cup Done /\ outbox[i] \in Rows
  BY StatusesSplit DEF OutboxInv, TypeOK, Rows
<1>2. {"pending", "in_progress", "failed"} \subseteq Owing /\ {"failed"} \subseteq Statuses \ Open
      /\ {"applied"} \subseteq Statuses \ Open
  BY DEF Owing, Open, Statuses
<1>3. ASSUME UNCHANGED outbox PROVE RowsMove
  BY <1>1, <1>3 DEF RowsMove, SameBody
<1>4. CASE Claim
  <2>1. /\ DOMAIN outbox' = DOMAIN outbox
        /\ \A i \in DOMAIN outbox :
              outbox'[i] = IF i \in Claimed THEN [outbox[i] EXCEPT !.status = "in_progress"] ELSE outbox[i]
    BY <1>4 DEF Claim
  <2>2. ASSUME NEW i \in DOMAIN outbox
        PROVE  /\ SameBody(outbox[i], outbox'[i])
               /\ \/ {outbox[i].status, outbox'[i].status} \subseteq Owing
                  \/ {outbox[i].status, outbox'[i].status} \subseteq Done
    <3>1. CASE i \in Claimed
      <4>1. outbox[i].status = "pending"
        BY <3>1 DEF Claimed, Claimable
      <4>2. /\ SameBody(outbox[i], [outbox[i] EXCEPT !.status = "in_progress"])
            /\ [outbox[i] EXCEPT !.status = "in_progress"].status = "in_progress"
        BY <1>1, NewStatus DEF Statuses, Open
      <4> QED
        BY <1>2, <2>1, <3>1, <4>1, <4>2
    <3>2. CASE i \notin Claimed
      BY <1>1, <2>1, <3>2 DEF SameBody
    <3> QED
      BY <3>1, <3>2
  <2> QED
    BY <2>1, <2>2 DEF RowsMove
<1>5. ASSUME stage # "idle", NEW s \in {"failed", "applied"}, WithStatus(Row.id, s),
             s = "applied" => stage = "finish" /\ Row.kind # "supersede"
      PROVE  RowsMove
  <2>1. s \in Statuses \ Open
    BY <1>2
  <2>2. /\ DOMAIN outbox' = DOMAIN outbox
        /\ Row.id \in DOMAIN outbox => outbox'[Row.id].status = s /\ SameBody(outbox[Row.id], outbox'[Row.id])
        /\ \A i \in DOMAIN outbox : i # Row.id => outbox'[i] = outbox[i]
    BY <1>5, <2>1, FinalStatus
  <2>3. Row.id \in DOMAIN outbox => outbox[Row.id].status = "in_progress"
    BY <1>5, RowInHand
  <2>4. ASSUME NEW i \in DOMAIN outbox
        PROVE  /\ SameBody(outbox[i], outbox'[i])
               /\ \/ {outbox[i].status, outbox'[i].status} \subseteq Owing
                  \/ {outbox[i].status, outbox'[i].status} \subseteq Done
                  \/ stage = "finish" /\ i = Row.id /\ Row.kind # "supersede" /\ outbox'[i].status = "applied"
    <3>1. CASE i = Row.id
      BY <1>2, <1>5, <2>2, <2>3, <3>1
    <3>2. CASE i # Row.id
      BY <1>1, <2>2, <3>2 DEF SameBody
    <3> QED
      BY <3>1, <3>2
  <2> QED
    BY <2>2, <2>4 DEF RowsMove
<1>6. CASE MergeNode
  BY <1>3, <1>5, <1>6 DEF MergeNode
<1>7. CASE FinishRow
  <2>1. stage = "finish"
    BY <1>7 DEF FinishRow
  <2>2. CASE Row.kind = "supersede"
    <3>1. outbox' = [i \in DOMAIN outbox \ {Row.id} |-> outbox[i]]
      BY <1>7, <2>2 DEF FinishRow
    <3>2. Row.id \in DOMAIN outbox => outbox[Row.id].kind = "supersede"
      BY <2>1, <2>2, RowInHand DEF SameBody
    <3> QED
      BY <1>1, <2>1, <3>1, <3>2 DEF RowsMove, SameBody
  <2>3. CASE Row.kind # "supersede"
    BY <1>5, <1>7, <2>1, <2>3 DEF FinishRow
  <2> QED
    BY <2>2, <2>3
<1>8. CASE ApplyFails
  <2>1. /\ DOMAIN outbox' = DOMAIN outbox /\ stage # "idle"
        /\ \A i \in DOMAIN outbox : outbox'[i] # outbox[i] =>
              i = Row.id /\ SameBody(outbox[i], outbox'[i]) /\ outbox'[i].status \in {"pending", "failed"}
    BY <1>8, FailedRow
  <2>2. Row.id \in DOMAIN outbox => outbox[Row.id].status = "in_progress"
    BY <2>1, RowInHand
  <2> QED
    BY <1>1, <1>2, <2>1, <2>2 DEF RowsMove, SameBody
<1>9. ConnectionAcquired \/ PoolTimeout \/ LinkNodes \/ GroundNodes => UNCHANGED outbox
  BY DEF ConnectionAcquired, PoolTimeout, LinkNodes, GroundNodes
<1> QED
  BY <1>3, <1>4, <1>6, <1>7, <1>8, <1>9 DEF WorkerStep

LEMMA RowsMoveOn == ASSUME OutboxInv, [Next]_vars PROVE RowsMove
<1>1. \A i \in DOMAIN outbox : outbox[i].status \in Owing \cup Done
  BY StatusesSplit DEF OutboxInv, TypeOK, Rows
<1>2. CASE UNCHANGED vars
  BY <1>1, <1>2 DEF vars, RowsMove, SameBody
<1>3. CASE Restart
  BY <1>1, <1>3, RestartStep DEF RowsMove, SameBody, Owing, Open
<1> QED
  BY <1>2, <1>3, RequestMoves, DaemonMoves, WorkerMoves DEF Next

LEMMA HandStep ==
    ASSUME [Next]_vars
    PROVE  \/ UNCHANGED workerVars \/ stage' \in {"idle", "claimed", "merge"}
           \/ (MergeNode /\ stage' = AfterMerge(Row)) \/ LinkNodes \/ GroundNodes
<1>1. ASSUME Request PROVE UNCHANGED workerVars
  BY <1>1 DEF Request, SaveFact, SaveCorrection, SaveDecision, SaveRetro, Supersede, Enqueue
<1>2. ASSUME Claim \/ ConnectionAcquired \/ PoolTimeout \/ FinishRow \/ ApplyFails \/ Restart
      PROVE  stage' \in {"idle", "claimed", "merge"}
  BY <1>2 DEF Claim, ConnectionAcquired, PoolTimeout, FinishRow, ApplyFails, Restart, RowDone
<1>3. ASSUME DaemonStep \/ \E i \in 1..MaxRows : BackoffEnds(i) PROVE UNCHANGED workerVars
  BY <1>3 DEF DaemonStep, RemReview, Fold, CloseLedgerRows, BackoffEnds
<1>4. MergeNode => stage' = AfterMerge(Row) \/ stage' \in {"idle", "merge"}
  BY DEF MergeNode, RowDone
<1>5. UNCHANGED vars => UNCHANGED workerVars
  BY DEF vars
<1> QED
  BY <1>1, <1>2, <1>3, <1>4, <1>5 DEF Next, WorkerStep

\* A placeholder is made only where the record has no node.
LEMMA EnsuredFact ==
    ASSUME OutboxInv, FactsAreFacts, NEW f \in Facts
    PROVE  <<f, "Fact">> \in Ensured(f)
<1>1. CASE LabelsOf(f) = {}
  BY <1>1 DEF Ensured
<1>2. CASE LabelsOf(f) # {}
  <2>1. PICK l \in Labels : <<f, l>> \in nodes
    BY <1>2 DEF LabelsOf
  <2>2. l = "Fact"
    BY <2>1 DEF FactsAreFacts
  <2> QED
    BY <2>1, <2>2 DEF Ensured
<1> QED
  BY <1>1, <1>2

LEMMA HandKeepsGraph ==
    ASSUME OutboxInv, GraphInv, [Next]_vars
    PROVE  Merged' /\ Linked'
<1>1. nodes \subseteq nodes' /\ marked \subseteq marked'
  BY GraphGrows
<1>2. CASE UNCHANGED workerVars
  <2>1. Merged'
    BY <1>1, <1>2 DEF GraphInv, Merged, workerVars, Row
  <2>2. Linked'
    BY <1>1, <1>2 DEF GraphInv, Linked, workerVars, Row
  <2> QED
    BY <2>1, <2>2
<1>3. CASE stage' \in {"idle", "claimed", "merge"}
  BY <1>3 DEF Merged, Linked
<1>4. CASE MergeNode /\ stage' = AfterMerge(Row)
  <2>1. stage = "merge" /\ WellFormed(Row)
    BY <1>4, RowInHand DEF MergeNode
  <2>2. stage' \in {"link", "ground"} /\ (stage' = "ground" => Row.kind = "decision")
    BY <1>4 DEF AfterMerge
  <2>3. /\ Row' = Row
        /\ nodes' = IF Row.kind = "supersede" THEN Ensured(Row.old) ELSE nodes \cup {<<Row.pg, Label(Row.pg)>>}
    BY <1>4, <2>2 DEF MergeNode, RowDone, Row
  <2>4. Row.kind = "supersede" => <<Row.old, "Fact">> \in Ensured(Row.old)
    BY <2>1, EnsuredFact, RecordsAssumption DEF WellFormed, GraphInv
  <2>5. Merged'
    BY <2>2, <2>3, <2>4 DEF Merged
  <2>6. Linked'
    BY <2>2, <2>3 DEF Linked
  <2> QED
    BY <2>5, <2>6
<1>5. CASE LinkNodes
  <2>1. stage = "link" /\ Row' = Row /\ marked' = marked \cup Marks(Row)
    BY <1>5 DEF LinkNodes, Row
  <2>2. Merged
    BY DEF GraphInv
  <2>3. Merged'
    BY <1>1, <2>1, <2>2 DEF Merged
  <2>4. Row.kind = "fact" /\ Row.old # None => <<Row.old, "Fact">> \in Marks(Row)
    BY DEF Marks
  <2>5. Row.kind = "supersede" => <<Row.old, "Fact">> \in Marks(Row)
    BY <2>1, <2>2 DEF Marks, Merged
  <2>6. Linked'
    BY <2>1, <2>4, <2>5 DEF Linked
  <2> QED
    BY <2>3, <2>6
<1>6. CASE GroundNodes
  <2>1. stage = "ground" /\ Row' = Row
    BY <1>6 DEF GroundNodes, Row
  <2>2. Merged'
    BY <1>1, <2>1 DEF GraphInv, Merged
  <2>3. Linked'
    BY <1>1, <2>1 DEF GraphInv, Linked
  <2> QED
    BY <2>2, <2>3
<1> QED
  BY <1>2, <1>3, <1>4, <1>5, <1>6, HandStep

\* The row in hand at its end has what it stands for in the graph.
LEMMA FinishedRow ==
    ASSUME OutboxInv, GraphInv, stage = "finish", Row.id \in DOMAIN outbox
    PROVE  LET r == outbox[Row.id]
           IN  /\ r.kind = Row.kind /\ r.old = Row.old
               /\ r.kind # "supersede" => <<r.pg, Label(r.pg)>> \in nodes
               /\ r.kind \in {"fact", "supersede"} /\ r.old # None => <<r.old, "Fact">> \in marked
<1>1. SameBody(Row, outbox[Row.id])
  BY RowInHand
<1> QED
  BY <1>1 DEF GraphInv, Merged, Linked, SameBody

LEMMA GraphStep == OutboxInv /\ GraphInv /\ [Next]_vars => GraphInv'
<1> SUFFICES ASSUME OutboxInv, GraphInv, [Next]_vars PROVE GraphInv'
  OBVIOUS
<1>1. nodes \subseteq nodes' /\ marked \subseteq marked' /\ RowsMove
  BY GraphGrows, RowsMoveOn
<1>2. FactsAreFacts'
  <2> SUFFICES ASSUME NEW n \in nodes', n[1] \in Facts PROVE n[2] = "Fact"
    BY DEF FactsAreFacts
  <2> QED
    BY NewNodes, KindsOfRecords DEF GraphInv, FactsAreFacts
<1>3. SupersedeLeaves'
  <2> SUFFICES ASSUME NEW i \in DOMAIN outbox', outbox'[i].kind = "supersede"
               PROVE  outbox'[i].status \in Owing
    BY DEF SupersedeLeaves, Owing
  <2>1. CASE i \notin DOMAIN outbox
    BY <1>1, <2>1 DEF RowsMove, Owing, Open
  <2>2. CASE i \in DOMAIN outbox
    <3>1. SameBody(outbox[i], outbox'[i])
      BY <1>1, <2>2 DEF RowsMove
    <3>2. outbox[i].kind = "supersede" /\ outbox[i].status \notin Done
      BY <2>2, <3>1 DEF SameBody, GraphInv, SupersedeLeaves, Done, Open
    <3>3. stage = "finish" /\ i = Row.id => Row.kind = "supersede"
      BY <2>2, <3>2, FinishedRow
    <3> QED
      BY <1>1, <2>2, <3>2, <3>3 DEF RowsMove
  <2> QED
    BY <2>1, <2>2
<1>4. AppliedIsMirrored'
  <2> SUFFICES ASSUME NEW i \in DOMAIN outbox', outbox'[i].status \in Done
               PROVE  /\ <<outbox'[i].pg, Label(outbox'[i].pg)>> \in nodes'
                      /\ outbox'[i].kind = "fact" /\ outbox'[i].old # None =>
                            <<outbox'[i].old, "Fact">> \in marked'
    BY DEF AppliedIsMirrored, Done
  <2>1. i \in DOMAIN outbox /\ SameBody(outbox[i], outbox'[i])
    BY <1>1 DEF RowsMove, Done
  <2>2. \/ outbox[i].status \in Done
        \/ stage = "finish" /\ i = Row.id /\ Row.kind # "supersede"
    BY <1>1, <2>1 DEF RowsMove, Done, Owing, Open
  <2>3. /\ <<outbox[i].pg, Label(outbox[i].pg)>> \in nodes
        /\ outbox[i].kind = "fact" /\ outbox[i].old # None => <<outbox[i].old, "Fact">> \in marked
    <3>1. CASE outbox[i].status \in Done
      BY <2>1, <3>1 DEF GraphInv, AppliedIsMirrored, Done
    <3>2. CASE stage = "finish" /\ i = Row.id /\ Row.kind # "supersede"
      BY <2>1, <3>2, FinishedRow
    <3> QED
      BY <2>2, <3>1, <3>2
  <2> QED
    BY <1>1, <2>1, <2>3 DEF SameBody
<1> QED
  BY <1>2, <1>3, <1>4, HandKeepsGraph DEF GraphInv

LEMMA InitGraph == Init => GraphInv
  BY DEF Init, GraphInv, Merged, Linked, FactsAreFacts, SupersedeLeaves, AppliedIsMirrored

\* A fact that becomes superseded leaves a row that says so.
LEMMA NewlySuperseded ==
    ASSUME DecisionsReversed, OutboxInv, [Next]_vars, NEW f \in Facts, f \in superseded', f \notin superseded
    PROVE  \E i \in DOMAIN outbox' : outbox'[i].old = f /\ outbox'[i].status = "pending"
<1>1. ASSUME NEW x, NEW kind, NEW new, NEW drop, Enqueue(NewRow(x, kind, f, new), drop)
      PROVE  \E i \in DOMAIN outbox' : outbox'[i].old = f /\ outbox'[i].status = "pending"
  <2>1. nextId \in DOMAIN outbox' /\ outbox'[nextId] = NewRow(x, kind, f, new)
    BY <1>1 DEF Enqueue
  <2> QED
    BY <2>1 DEF NewRow
<1>2. Request
  <2>1. DaemonStep \/ (\E i \in 1..MaxRows : BackoffEnds(i)) => superseded' = superseded
    BY DEF DaemonStep, RemReview, Fold, CloseLedgerRows, BackoffEnds, pgVars
  <2>2. WorkerStep => superseded' = superseded
    BY DEF WorkerStep, Claim, ConnectionAcquired, PoolTimeout, MergeNode, LinkNodes, GroundNodes,
           FinishRow, ApplyFails, pgVars
  <2>3. Restart \/ UNCHANGED vars => superseded' = superseded
    BY DEF Restart, vars, pgVars
  <2> QED
    BY <2>1, <2>2, <2>3 DEF Next
<1>3. ASSUME NEW g \in Facts, NEW old \in Facts, SaveCorrection(g, old)
      PROVE  f = old /\ Enqueue(NewRow(g, "fact", f, None), {})
  BY <1>3 DEF SaveCorrection
<1>4. ASSUME NEW g \in Facts, NEW by \in Records \cup {None}, Supersede(g, by)
      PROVE  f = g /\ \E drop : Enqueue(NewRow(g, "supersede", f, by), drop)
  BY <1>4 DEF Supersede
<1>5. ASSUME NEW r \in Retros, SaveRetro(r) PROVE FALSE
  <2>1. f = Judges[r] /\ r \in Reversals
    BY <1>5 DEF SaveRetro
  <2> QED
    BY <2>1, KindsOfRecords DEF DecisionsReversed
<1>6. \A g \in Facts : ~SaveFact(g)
  BY DEF SaveFact
<1>7. \A d \in Decisions : ~SaveDecision(d)
  BY DEF SaveDecision
<1> QED
  BY <1>1, <1>2, <1>3, <1>4, <1>5, <1>6, <1>7 DEF Request

LEMMA OwedStep ==
    ASSUME FreshCorrections, DecisionsReversed
    PROVE  OutboxInv /\ GraphInv /\ SupersededIsOwed /\ [Next]_vars => SupersededIsOwed'
<1> SUFFICES ASSUME OutboxInv, GraphInv, SupersededIsOwed, [Next]_vars,
                    NEW f \in Facts, f \in superseded', <<f, "Fact">> \notin marked'
             PROVE  \E i \in DOMAIN outbox' : outbox'[i].old = f /\ outbox'[i].status \in Owing
  BY DEF SupersededIsOwed, Owing
<1>1. marked \subseteq marked' /\ RowsMove /\ f # None /\ f \in Records
  BY GraphGrows, RowsMoveOn, KindsOfRecords, RecordsAssumption
<1>2. CASE f \notin superseded
  BY <1>2, NewlySuperseded DEF Owing, Open
<1>3. CASE f \in superseded
  <2>1. PICK i \in DOMAIN outbox : outbox[i].old = f /\ outbox[i].status \in Owing
    BY <1>1, <1>3 DEF SupersededIsOwed, Owing
  <2>2. WellFormed(outbox[i]) /\ outbox[i].kind \in Kinds
    BY DEF OutboxInv, TypeOK, RowsAreWellFormed, Rows
  <2>3. outbox[i].kind \in {"fact", "supersede"}
    BY <1>1, <2>1, <2>2 DEF WellFormed, Kinds
  <2>4. ~(outbox[i].kind = "fact" /\ outbox[i].pg \in Targets)
    BY <1>1, <2>1, <2>2 DEF WellFormed, FreshCorrections
  <2>5. ~(stage = "finish" /\ i = Row.id)
    BY <1>1, <2>1, <2>3, FinishedRow
  <2>6. outbox[i].status \notin Done
    BY <2>1 DEF Owing, Done, Open
  <2>7. i \in DOMAIN outbox'
    BY <1>1, <2>4, <2>5, <2>6 DEF RowsMove
  <2>8. SameBody(outbox[i], outbox'[i]) /\ outbox'[i].status \in Owing
    BY <1>1, <2>5, <2>6, <2>7 DEF RowsMove
  <2> QED
    BY <2>1, <2>7, <2>8 DEF SameBody
<1> QED
  BY <1>2, <1>3

\* The graph has what an applied row stands for, whatever was retried or cut short.
THEOREM AppliedRowsAreMirrored == Spec => []GraphInv
<1> QED
  BY InitGraph, GraphStep, OutboxIsSound, PTL DEF Spec

-----------------------------------------------------------------------------
(***************************************************************************)
(* The outbox implements Mirror.                                           *)
(***************************************************************************)
Promised == [pg : Records, old : Records \cup {None}, state : {"owed", "kept", "failed"}]

LEMMA PromisesAre ==
    ASSUME OutboxInv
    PROVE  /\ Promises \in [DOMAIN outbox -> Promised]
           /\ \A i \in DOMAIN outbox : /\ Promises[i].pg = outbox[i].pg
                                      /\ Promises[i].old = outbox[i].old
                                      /\ Promises[i].state = State(outbox[i])
           /\ docs \subseteq Records
<1>1. \A i \in DOMAIN outbox : outbox[i] \in Rows
  BY DEF OutboxInv, TypeOK
<1>2. \A i \in DOMAIN outbox : /\ outbox[i].pg \in Records /\ outbox[i].old \in Records \cup {None}
                               /\ State(outbox[i]) \in {"owed", "kept", "failed"}
  BY <1>1 DEF Rows, State
<1> QED
  BY <1>2 DEF Promises, Promised, OutboxInv, TypeOK

\* Rows that keep their body and what they count as are no step of Mirror's.
LEMMA SameRows ==
    ASSUME DOMAIN outbox' = DOMAIN outbox,
           \A i \in DOMAIN outbox : SameBody(outbox[i], outbox'[i]) /\ State(outbox'[i]) = State(outbox[i])
    PROVE  Promises' = Promises
  BY DEF Promises, SameBody

LEMMA SameGraph == ASSUME UNCHANGED graphVars PROVE Mirrored' = Mirrored /\ Struck' = Struck
  BY DEF graphVars, Mirrored, Struck

LEMMA Stutters ==
    ASSUME UNCHANGED <<docs, superseded, nextId>>, UNCHANGED graphVars, Promises' = Promises
    PROVE  UNCHANGED M!vars
  BY SameGraph DEF M!vars

\* One row comes, those in drop go.
LEMMA AskStep ==
    ASSUME OutboxInv, NEW x \in Records, NEW old \in Records \cup {None}, NEW kind, NEW new,
           NEW drop \in SUBSET DOMAIN outbox, Enqueue(NewRow(x, kind, old, new), drop),
           docs' = docs \cup {x}, superseded \subseteq superseded', superseded' \subseteq docs',
           old # None => old \in superseded',
           \A i \in drop : outbox[i].pg \in superseded'
    PROVE  M!Next
<1> DEFINE row == NewRow(x, kind, old, new)
<1>1. /\ nextId' = nextId + 1 /\ UNCHANGED graphVars
      /\ outbox' = [i \in (DOMAIN outbox \ drop) \cup {nextId} |-> IF i = nextId THEN row ELSE outbox[i]]
  BY DEF Enqueue
<1>2. row.pg = x /\ row.old = old /\ State(row) = "owed"
  BY DEF NewRow, State, Open
<1> HIDE DEF row
<1>3. DOMAIN Promises = DOMAIN outbox
  BY DEF Promises
<1>4. Promises' = [i \in (DOMAIN Promises \ drop) \cup {nextId} |->
                     IF i = nextId THEN [pg |-> x, old |-> old, state |-> "owed"] ELSE Promises[i]]
  <2>1. DOMAIN outbox' = (DOMAIN outbox \ drop) \cup {nextId}
    BY <1>1
  <2>2. ASSUME NEW i \in DOMAIN outbox'
        PROVE  [pg |-> outbox'[i].pg, old |-> outbox'[i].old, state |-> State(outbox'[i])]
                 = IF i = nextId THEN [pg |-> x, old |-> old, state |-> "owed"] ELSE Promises[i]
    <3>1. CASE i = nextId
      BY <1>1, <1>2, <3>1
    <3>2. CASE i # nextId
      <4>1. i \in DOMAIN outbox /\ outbox'[i] = outbox[i]
        BY <1>1, <3>2
      <4> QED
        BY <3>2, <4>1 DEF Promises
    <3> QED
      BY <3>1, <3>2
  <2>3. Promises' = [i \in DOMAIN outbox' |->
            [pg |-> outbox'[i].pg, old |-> outbox'[i].old, state |-> State(outbox'[i])]]
    BY DEF Promises
  <2> QED
    BY <1>3, <2>1, <2>2, <2>3
<1>5. \A i \in drop : Promises[i].pg \in superseded'
  BY PromisesAre
<1>6. M!Promise(x, old, drop)
  BY <1>1, <1>4, <1>5, SameGraph DEF M!Promise
<1> QED
  BY <1>1, <1>3, <1>6 DEF M!Next, M!Ask

\* An open row is closed: what it stands for is in the graph, or it has failed.
LEMMA SettleStep ==
    ASSUME OutboxInv, DOMAIN outbox' = DOMAIN outbox, NEW i \in DOMAIN outbox, NEW s \in {"kept", "failed"},
           \A j \in DOMAIN outbox : j # i => outbox'[j] = outbox[j],
           SameBody(outbox[i], outbox'[i]), State(outbox[i]) = "owed", State(outbox'[i]) = s,
           s = "kept" => /\ <<outbox[i].pg, Label(outbox[i].pg)>> \in nodes
                         /\ outbox[i].old # None => <<outbox[i].old, "Fact">> \in marked,
           UNCHANGED <<docs, superseded, nextId>>, UNCHANGED graphVars
    PROVE  M!Next
<1>1. /\ Promises \in [DOMAIN outbox -> Promised] /\ Promises[i].state = "owed"
      /\ Promises[i].pg = outbox[i].pg /\ Promises[i].old = outbox[i].old
  BY PromisesAre
<1>2. Promises' = [Promises EXCEPT ![i].state = s]
  <2>1. Promises' = [j \in DOMAIN outbox |->
            [pg |-> outbox'[j].pg, old |-> outbox'[j].old, state |-> State(outbox'[j])]]
    BY DEF Promises
  <2>2. ASSUME NEW j \in DOMAIN outbox
        PROVE  [pg |-> outbox'[j].pg, old |-> outbox'[j].old, state |-> State(outbox'[j])]
                 = IF j = i THEN [Promises[i] EXCEPT !.state = s] ELSE Promises[j]
    <3>1. CASE j = i
      BY <1>1, <3>1 DEF SameBody, Promised
    <3>2. CASE j # i
      BY <3>2 DEF Promises
    <3> QED
      BY <3>1, <3>2
  <2> QED
    BY <1>1, <2>1, <2>2
<1>3. s = "kept" => M!Kept(Promises[i])
  <2>1. outbox[i].pg \in Records /\ outbox[i].old \in Records \cup {None}
    BY <1>1 DEF Promised
  <2> QED
    BY <1>1, <2>1 DEF M!Kept, Mirrored, Struck
<1>4. M!Settle(i, s)
  BY <1>1, <1>2, <1>3, SameGraph DEF M!Settle
<1> QED
  BY <1>1, <1>4 DEF M!Next

\* Rows leave that are kept or whose record is superseded.
LEMMA ForgetStep ==
    ASSUME OutboxInv, NEW drop \in SUBSET DOMAIN outbox,
           outbox' = [i \in DOMAIN outbox \ drop |-> outbox[i]],
           \A i \in drop :
              \/ outbox[i].pg \in superseded
              \/ /\ <<outbox[i].pg, Label(outbox[i].pg)>> \in nodes
                 /\ outbox[i].old # None => <<outbox[i].old, "Fact">> \in marked,
           UNCHANGED <<docs, superseded, nextId>>, UNCHANGED graphVars
    PROVE  M!Next
<1>1. Promises \in [DOMAIN outbox -> Promised] /\ DOMAIN Promises = DOMAIN outbox
  BY PromisesAre
<1>2. Promises' = [i \in DOMAIN Promises \ drop |-> Promises[i]]
  BY <1>1 DEF Promises
<1>3. ASSUME NEW i \in drop PROVE M!Kept(Promises[i]) \/ Promises[i].pg \in superseded
  <2>1. /\ Promises[i].pg = outbox[i].pg /\ Promises[i].old = outbox[i].old
        /\ Promises[i].pg \in Records /\ Promises[i].old \in Records \cup {None}
    BY <1>1, PromisesAre DEF Promised
  <2> QED
    BY <2>1 DEF M!Kept, Mirrored, Struck
<1>4. M!Forget(drop)
  BY <1>2, <1>3, SameGraph DEF M!Forget
<1> QED
  BY <1>1, <1>4 DEF M!Next

\* A request asks for what its row says (handle_save, handle_retrospective,
\* handle_supersede).
LEMMA RequestAsks == ASSUME OutboxInv, Request PROVE M!Next
<1>1. superseded \subseteq docs /\ docs \subseteq Records /\ None \in Records \cup {None}
  BY DEF OutboxInv, TypeOK
<1>2. ASSUME NEW f \in Facts, SaveFact(f) PROVE M!Next
  <2>1. Enqueue(NewRow(f, "fact", None, None), {}) /\ docs' = docs \cup {f} /\ superseded' = superseded
    BY <1>2 DEF SaveFact
  <2> QED
    BY <1>1, <2>1, AskStep, KindsOfRecords
<1>3. ASSUME NEW f \in Facts, NEW old \in Facts, SaveCorrection(f, old) PROVE M!Next
  <2>1. /\ Enqueue(NewRow(f, "fact", old, None), {}) /\ docs' = docs \cup {f}
        /\ superseded' = superseded \cup {old} /\ old \in docs
    BY <1>3 DEF SaveCorrection, Standing
  <2> QED
    BY <1>1, <2>1, AskStep, KindsOfRecords
<1>4. ASSUME NEW d \in Decisions, SaveDecision(d) PROVE M!Next
  <2>1. Enqueue(NewRow(d, "decision", None, None), {}) /\ docs' = docs \cup {d} /\ superseded' = superseded
    BY <1>4 DEF SaveDecision
  <2> QED
    BY <1>1, <2>1, AskStep, KindsOfRecords
<1>5. ASSUME NEW r \in Retros, SaveRetro(r) PROVE M!Next
  <2>1. /\ Enqueue(NewRow(r, "retrospective", None, None), {}) /\ docs' = docs \cup {r}
        /\ superseded \subseteq superseded' /\ superseded' \subseteq docs'
    BY <1>1, <1>5 DEF SaveRetro
  <2> QED
    BY <1>1, <2>1, AskStep, KindsOfRecords
<1>6. ASSUME NEW f \in Facts, NEW by \in Records \cup {None}, Supersede(f, by) PROVE M!Next
  <2> DEFINE drop == IF by # None /\ RowsOf(by, {"fact"}) # {} THEN {} ELSE RowsOf(f, {"fact"})
  <2>1. /\ Enqueue(NewRow(f, "supersede", f, by), drop) /\ docs' = docs /\ f \in docs
        /\ superseded' = superseded \cup {f}
    BY <1>6 DEF Supersede, Standing
  <2>2. drop \in SUBSET DOMAIN outbox /\ \A i \in drop : outbox[i].pg = f
    BY DEF RowsOf
  <2> HIDE DEF drop
  <2>3. docs' = docs \cup {f} /\ superseded \subseteq superseded' /\ superseded' \subseteq docs'
        /\ f \in superseded' /\ f \in Records
    BY <1>1, <2>1, KindsOfRecords
  <2> QED
    BY <2>1, <2>2, <2>3, AskStep
<1> QED
  BY <1>2, <1>3, <1>4, <1>5, <1>6 DEF Request

\* The statements of a row write, and its end settles it.
LEMMA WorkerServes ==
    ASSUME OutboxInv, GraphInv, [Next]_vars, WorkerStep
    PROVE  M!Next \/ UNCHANGED M!vars
<1>0. \A i \in DOMAIN outbox : outbox[i] \in Rows /\ SameBody(outbox[i], outbox[i])
  BY DEF OutboxInv, TypeOK, SameBody
<1>1. UNCHANGED <<docs, superseded, nextId>>
  BY DEF WorkerStep, Claim, ConnectionAcquired, PoolTimeout, MergeNode, LinkNodes, GroundNodes,
         FinishRow, ApplyFails, pgVars
<1>2. ASSUME outbox' = outbox PROVE M!Next \/ UNCHANGED M!vars
  <2>1. nodes \subseteq nodes' /\ marked \subseteq marked'
    BY GraphGrows
  <2>2. Mirrored \subseteq Mirrored' /\ Struck \subseteq Struck' /\ Promises' = Promises
    BY <1>2, <2>1 DEF Mirrored, Struck, Promises
  <2>3. M!Write
    BY <1>1, <2>2 DEF M!Write
  <2> QED
    BY <2>3 DEF M!Next
<1>3. ASSUME stage # "idle", NEW s \in {"failed", "applied"}, WithStatus(Row.id, s), UNCHANGED graphVars,
             s = "applied" => stage = "finish" /\ Row.kind # "supersede"
      PROVE  M!Next \/ UNCHANGED M!vars
  <2>1. /\ DOMAIN outbox' = DOMAIN outbox
        /\ Row.id \in DOMAIN outbox => outbox'[Row.id].status = s /\ SameBody(outbox[Row.id], outbox'[Row.id])
        /\ \A i \in DOMAIN outbox : i # Row.id => outbox'[i] = outbox[i]
    BY <1>3, FinalStatus DEF Statuses, Open
  <2>2. CASE Row.id \notin DOMAIN outbox
    BY <1>0, <1>1, <1>3, <2>1, <2>2, SameRows, Stutters
  <2>3. CASE Row.id \in DOMAIN outbox
    <3>1. State(outbox[Row.id]) = "owed"
      BY <1>3, <2>3, RowInHand DEF State, Open
    <3>2. PICK t \in {"kept", "failed"} : State(outbox'[Row.id]) = t /\ (t = "kept" => s = "applied")
      BY <2>1, <2>3 DEF State, Open
    <3>3. t = "kept" => /\ <<outbox[Row.id].pg, Label(outbox[Row.id].pg)>> \in nodes
                        /\ outbox[Row.id].old # None => <<outbox[Row.id].old, "Fact">> \in marked
      <4>1. SUFFICES ASSUME s = "applied", stage = "finish", Row.kind # "supersede"
                     PROVE  /\ <<outbox[Row.id].pg, Label(outbox[Row.id].pg)>> \in nodes
                            /\ outbox[Row.id].old # None => <<outbox[Row.id].old, "Fact">> \in marked
        BY <1>3, <3>2
      <4>2. outbox[Row.id].kind \in Kinds \ {"supersede"} /\ WellFormed(outbox[Row.id])
        BY <1>0, <2>3, <4>1, FinishedRow DEF Rows, OutboxInv, RowsAreWellFormed
      <4>3. outbox[Row.id].old # None => outbox[Row.id].kind = "fact"
        BY <4>2 DEF WellFormed, Kinds
      <4> QED
        BY <2>3, <4>1, <4>3, FinishedRow
    <3> QED
      BY <1>1, <1>3, <2>1, <2>3, <3>1, <3>2, <3>3, SettleStep
  <2> QED
    BY <2>2, <2>3
<1>4. CASE Claim
  <2>1. /\ DOMAIN outbox' = DOMAIN outbox /\ UNCHANGED graphVars
        /\ \A i \in DOMAIN outbox :
              outbox'[i] = IF i \in Claimed THEN [outbox[i] EXCEPT !.status = "in_progress"] ELSE outbox[i]
    BY <1>4 DEF Claim
  <2>2. ASSUME NEW i \in DOMAIN outbox
        PROVE  SameBody(outbox[i], outbox'[i]) /\ State(outbox'[i]) = State(outbox[i])
    <3>1. CASE i \in Claimed
      <4>1. outbox[i].status = "pending"
        BY <3>1 DEF Claimed, Claimable
      <4>2. /\ SameBody(outbox[i], [outbox[i] EXCEPT !.status = "in_progress"])
            /\ [outbox[i] EXCEPT !.status = "in_progress"].status = "in_progress"
        BY <1>0, NewStatus DEF Statuses, Open
      <4>3. outbox'[i] = [outbox[i] EXCEPT !.status = "in_progress"]
        BY <2>1, <3>1
      <4> QED
        BY <4>1, <4>2, <4>3 DEF State, Open
    <3>2. CASE i \notin Claimed
      BY <1>0, <2>1, <3>2
    <3> QED
      BY <3>1, <3>2
  <2> QED
    BY <1>1, <2>1, <2>2, SameRows, Stutters
<1>5. CASE MergeNode
  BY <1>2, <1>3, <1>5 DEF MergeNode
<1>6. CASE FinishRow
  <2>1. stage = "finish" /\ UNCHANGED graphVars
    BY <1>6 DEF FinishRow
  <2>2. CASE Row.kind # "supersede"
    BY <1>3, <1>6, <2>1, <2>2 DEF FinishRow
  <2>3. CASE Row.kind = "supersede"
    <3> DEFINE drop == DOMAIN outbox \cap {Row.id}
    <3>1. outbox' = [i \in DOMAIN outbox \ drop |-> outbox[i]]
      <4>1. DOMAIN outbox \ drop = DOMAIN outbox \ {Row.id}
        OBVIOUS
      <4>2. outbox' = [i \in DOMAIN outbox \ {Row.id} |-> outbox[i]]
        BY <1>6, <2>3 DEF FinishRow
      <4> QED
        BY <4>1, <4>2
    <3>2. ASSUME NEW i \in drop
          PROVE  /\ <<outbox[i].pg, Label(outbox[i].pg)>> \in nodes
                 /\ outbox[i].old # None => <<outbox[i].old, "Fact">> \in marked
      <4>1. i = Row.id /\ outbox[i].kind = "supersede" /\ outbox[i].old = Row.old
        BY <2>1, <2>3, FinishedRow
      <4>2. outbox[i].old \in Targets /\ outbox[i].pg = outbox[i].old /\ outbox[i].old \in Facts
        BY <4>1, RecordsAssumption DEF OutboxInv, RowsAreWellFormed, WellFormed
      <4>3. <<outbox[i].old, "Fact">> \in nodes
        BY <2>1, <2>3, <4>1 DEF GraphInv, Merged
      <4>4. <<outbox[i].old, "Fact">> \in marked
        BY <2>1, <4>1, <4>2, FinishedRow, KindsOfRecords, RecordsAssumption
      <4> QED
        BY <4>2, <4>3, <4>4, KindsOfRecords
    <3> HIDE DEF drop
    <3>3. drop \in SUBSET DOMAIN outbox
      BY DEF drop
    <3> QED
      BY <1>1, <2>1, <3>1, <3>2, <3>3, ForgetStep
  <2> QED
    BY <2>2, <2>3
<1>7. CASE ApplyFails
  <2>1. /\ DOMAIN outbox' = DOMAIN outbox /\ stage # "idle" /\ UNCHANGED graphVars
        /\ \A i \in DOMAIN outbox : outbox'[i] # outbox[i] =>
              i = Row.id /\ SameBody(outbox[i], outbox'[i]) /\ outbox'[i].status \in {"pending", "failed"}
    BY <1>7, FailedRow
  <2>2. Row.id \in DOMAIN outbox => State(outbox[Row.id]) = "owed"
    BY <2>1, RowInHand DEF State, Open
  <2>3. CASE \E i \in DOMAIN outbox : outbox'[i] # outbox[i] /\ outbox'[i].status = "failed"
    <3>1. PICK i \in DOMAIN outbox : outbox'[i] # outbox[i] /\ outbox'[i].status = "failed"
      BY <2>3
    <3>2. i = Row.id /\ SameBody(outbox[i], outbox'[i]) /\ State(outbox[i]) = "owed"
          /\ State(outbox'[i]) = "failed"
      BY <2>1, <2>2, <3>1 DEF State, Open
    <3>3. \A j \in DOMAIN outbox : j # i => outbox'[j] = outbox[j]
      BY <2>1, <3>2
    <3> QED
      BY <1>1, <2>1, <3>2, <3>3, SettleStep
  <2>4. CASE ~\E i \in DOMAIN outbox : outbox'[i] # outbox[i] /\ outbox'[i].status = "failed"
    <3>1. ASSUME NEW i \in DOMAIN outbox
          PROVE  SameBody(outbox[i], outbox'[i]) /\ State(outbox'[i]) = State(outbox[i])
      BY <1>0, <2>1, <2>2, <2>4 DEF State, Open
    <3> QED
      BY <1>1, <2>1, <3>1, SameRows, Stutters
  <2> QED
    BY <2>3, <2>4
<1>8. ConnectionAcquired \/ PoolTimeout \/ LinkNodes \/ GroundNodes => outbox' = outbox
  BY DEF ConnectionAcquired, PoolTimeout, LinkNodes, GroundNodes
<1> QED
  BY <1>2, <1>4, <1>5, <1>6, <1>7, <1>8 DEF WorkerStep

\* A row the worker is through with is kept: the graph has what it stands for.
LEMMA DoneIsKept ==
    ASSUME OutboxInv, GraphInv, NEW i \in DOMAIN outbox, outbox[i].status \in Done
    PROVE  /\ <<outbox[i].pg, Label(outbox[i].pg)>> \in nodes
           /\ outbox[i].old # None => <<outbox[i].old, "Fact">> \in marked
<1>1. /\ <<outbox[i].pg, Label(outbox[i].pg)>> \in nodes
      /\ outbox[i].kind = "fact" /\ outbox[i].old # None => <<outbox[i].old, "Fact">> \in marked
  BY DEF GraphInv, AppliedIsMirrored, Done
<1>2. outbox[i].kind # "supersede"
  BY DEF GraphInv, SupersedeLeaves, Done, Open
<1>3. WellFormed(outbox[i]) /\ outbox[i].kind \in Kinds
  BY DEF OutboxInv, TypeOK, RowsAreWellFormed, Rows
<1>4. outbox[i].old # None => outbox[i].kind = "fact"
  BY <1>2, <1>3 DEF WellFormed, Kinds
<1> QED
  BY <1>1, <1>4

\* What the daemons delete is kept or belongs to a superseded fact
\* (close_ledger_rows); the rest of what they and the clock do changes no promise.
LEMMA DaemonForgets ==
    ASSUME OutboxInv, GraphInv, DaemonStep \/ \E i \in 1..MaxRows : BackoffEnds(i)
    PROVE  M!Next \/ UNCHANGED M!vars
<1>1. RowsStayClosed
  BY DaemonRows, BackoffRows
<1>2. UNCHANGED <<docs, superseded, nextId>> /\ UNCHANGED graphVars
  BY DEF DaemonStep, RemReview, Fold, CloseLedgerRows, BackoffEnds, pgVars
<1>3. ASSUME DOMAIN outbox' = DOMAIN outbox PROVE UNCHANGED M!vars
  <2>1. ASSUME NEW i \in DOMAIN outbox
        PROVE  SameBody(outbox[i], outbox'[i]) /\ State(outbox'[i]) = State(outbox[i])
    <3>1. /\ SameBody(outbox[i], outbox'[i])
          /\ outbox'[i].status = outbox[i].status \/ {outbox[i].status, outbox'[i].status} \subseteq Done
      BY <1>1, <1>3 DEF RowsStayClosed
    <3> QED
      BY <3>1 DEF State, Done, Open
  <2> QED
    BY <1>2, <1>3, <2>1, SameRows, Stutters
<1>4. ASSUME NEW x \in Records, CloseLedgerRows(x) PROVE M!Next
  <2> DEFINE all == ConsolidatedRows(x) \cup IF x \in Facts THEN AncestryRows(x) ELSE {}
             drop == DOMAIN outbox \cap all
  <2>1. outbox' = [i \in DOMAIN outbox \ drop |-> outbox[i]]
    <3>1. outbox' = [i \in DOMAIN outbox \ all |-> outbox[i]]
      BY <1>4 DEF CloseLedgerRows
    <3>2. DOMAIN outbox \ all = DOMAIN outbox \ drop
      OBVIOUS
    <3> QED
      BY <3>1, <3>2
  <2>2. ASSUME NEW i \in drop
        PROVE  \/ outbox[i].pg \in superseded
               \/ /\ <<outbox[i].pg, Label(outbox[i].pg)>> \in nodes
                  /\ outbox[i].old # None => <<outbox[i].old, "Fact">> \in marked
    <3>1. CASE i \in ConsolidatedRows(x)
      <4>1. i \in DOMAIN outbox /\ outbox[i].status \in Done
        BY <3>1 DEF ConsolidatedRows, RowsOf, Done
      <4> QED
        BY <4>1, DoneIsKept
    <3>2. CASE i \in AncestryRows(x)
      <4>1. PICK y \in Ancestry(x) : i \in RowsOf(y, {"fact"})
        BY <3>2 DEF AncestryRows
      <4> QED
        BY <4>1, AncestorsAreTargets DEF RowsOf
    <3> QED
      BY <3>1, <3>2
  <2> HIDE DEF drop
  <2>3. drop \in SUBSET DOMAIN outbox
    BY DEF drop
  <2> QED
    BY <1>2, <2>1, <2>2, <2>3, ForgetStep
<1>5. (\E x \in Records : RemReview(x) \/ Fold(x)) \/ (\E i \in 1..MaxRows : BackoffEnds(i))
         => DOMAIN outbox' = DOMAIN outbox
  BY DEF RemReview, Fold, BackoffEnds, WithStatus, Updated
<1> QED
  BY <1>3, <1>4, <1>5 DEF DaemonStep

\* A restart opens what was claimed, which is owed before and after.
LEMMA RestartOwes == ASSUME OutboxInv, Restart PROVE UNCHANGED M!vars
<1>1. /\ DOMAIN outbox' = DOMAIN outbox /\ UNCHANGED <<pgVars, nextId, graphVars>>
      /\ \A i \in DOMAIN outbox : outbox'[i] # outbox[i] =>
            outbox[i].status = "in_progress" /\ SameBody(outbox[i], outbox'[i]) /\ outbox'[i].status = "pending"
  BY RestartStep
<1>2. ASSUME NEW i \in DOMAIN outbox
      PROVE  SameBody(outbox[i], outbox'[i]) /\ State(outbox'[i]) = State(outbox[i])
  <2>1. CASE outbox'[i] = outbox[i]
    BY <2>1 DEF SameBody
  <2>2. CASE outbox'[i] # outbox[i]
    BY <1>1, <2>2 DEF State, Open
  <2> QED
    BY <2>1, <2>2
<1>3. UNCHANGED <<docs, superseded, nextId>> /\ UNCHANGED graphVars
  BY <1>1 DEF pgVars
<1> QED
  BY <1>1, <1>2, <1>3, SameRows, Stutters

LEMMA MirrorStep == OutboxInv /\ GraphInv /\ [Next]_vars => M!Next \/ UNCHANGED M!vars
<1> SUFFICES ASSUME OutboxInv, GraphInv, [Next]_vars PROVE M!Next \/ UNCHANGED M!vars
  OBVIOUS
<1>1. CASE UNCHANGED vars
  <2>1. UNCHANGED <<docs, superseded, nextId>> /\ UNCHANGED graphVars /\ Promises' = Promises
    BY <1>1 DEF vars, pgVars, Promises
  <2> QED
    BY <2>1, Stutters
<1>2. CASE Next
  BY <1>2, RequestAsks, WorkerServes, RestartOwes, DaemonForgets DEF Next
<1> QED
  BY <1>1, <1>2

LEMMA InitMirror == Init => M!Init
<1> SUFFICES ASSUME Init PROVE M!Init
  OBVIOUS
<1>1. docs = {} /\ superseded = {} /\ nextId = 1 /\ nodes = {} /\ marked = {} /\ outbox = [i \in {} |-> None]
  BY DEF Init
<1>2. Mirrored = {} /\ Struck = {}
  BY <1>1 DEF Mirrored, Struck
<1>3. Promises = [i \in {} |-> None]
  BY <1>1 DEF Promises
<1> QED
  BY <1>1, <1>2, <1>3 DEF M!Init

\* Batches, claims, statements, retries, restarts and daemons are steps of Mirror
\* (handle_save, handle_supersede, _drain_outbox, close_ledger_rows).
THEOREM OutboxImplementsMirror == Spec => ImplementsMirror
<1> QED
  BY InitMirror, MirrorStep, OutboxIsSound, AppliedRowsAreMirrored, PTL DEF Spec, ImplementsMirror, M!Spec

\* Mirror owes every record that stands, so the outbox does.
LEMMA OwedIsStanding == OutboxInv => (M!Owed <=> StandingIsOwed)
<1> SUFFICES ASSUME OutboxInv, NEW x \in docs \ superseded
             PROVE  /\ x \in Mirrored <=> <<x, Label(x)>> \in nodes
                    /\ \A i \in DOMAIN outbox :
                          Promises[i].pg = x /\ Promises[i].state # "kept" <=>
                          outbox[i].pg = x /\ outbox[i].status \in Open \cup {"failed"}
                    /\ DOMAIN Promises = DOMAIN outbox
  BY DEF M!Owed, StandingIsOwed
<1>1. x \in Records
  BY DEF OutboxInv, TypeOK
<1>2. \A i \in DOMAIN outbox : State(outbox[i]) # "kept" <=> outbox[i].status \in Open \cup {"failed"}
  BY DEF State
<1> QED
  BY <1>1, <1>2, PromisesAre DEF Mirrored

LEMMA MirrorOwes ==
    ASSUME OutboxInv, M!Owed, M!Next \/ UNCHANGED M!vars
    PROVE  M!Owed'
<1> SUFFICES ASSUME NEW x \in docs' \ superseded', x \notin Mirrored'
             PROVE  \E i \in DOMAIN Promises' : Promises'[i].pg = x /\ Promises'[i].state # "kept"
  BY DEF M!Owed
<1>1. nextId \notin DOMAIN Promises
  BY DEF OutboxInv, TypeOK, Promises
<1>2. Promises \in [DOMAIN Promises -> Promised]
  BY PromisesAre
<1>3. ASSUME M!Ask
      PROVE  \E i \in DOMAIN Promises' : Promises'[i].pg = x /\ Promises'[i].state # "kept"
  <2>1. PICK y \in Records, old \in Records \cup {None}, drop \in SUBSET DOMAIN Promises :
           M!Promise(y, old, drop)
    BY <1>3 DEF M!Ask
  <2>2. CASE x = y
    BY <2>1, <2>2 DEF M!Promise
  <2>3. CASE x # y
    <3>1. x \in docs \ superseded /\ x \notin Mirrored
      BY <2>1, <2>3 DEF M!Promise
    <3>2. PICK i \in DOMAIN Promises : Promises[i].pg = x /\ Promises[i].state # "kept"
      BY <3>1 DEF M!Owed
    <3>3. i \notin drop /\ i # nextId
      BY <1>1, <2>1, <3>2 DEF M!Promise
    <3> QED
      BY <2>1, <3>2, <3>3 DEF M!Promise
  <2> QED
    BY <2>2, <2>3
<1>4. ASSUME M!Write \/ UNCHANGED M!vars
      PROVE  \E i \in DOMAIN Promises' : Promises'[i].pg = x /\ Promises'[i].state # "kept"
  BY <1>4 DEF M!Write, M!vars, M!Owed
<1>5. ASSUME NEW i \in DOMAIN Promises, NEW s \in {"kept", "failed"}, M!Settle(i, s)
      PROVE  \E j \in DOMAIN Promises' : Promises'[j].pg = x /\ Promises'[j].state # "kept"
  <2>1. x \in docs \ superseded /\ x \notin Mirrored
        /\ Promises' = [Promises EXCEPT ![i].state = s] /\ (s = "kept" => Promises[i].pg \in Mirrored)
    BY <1>5 DEF M!Settle, M!Kept
  <2>2. PICK j \in DOMAIN Promises : Promises[j].pg = x /\ Promises[j].state # "kept"
    BY <2>1 DEF M!Owed
  <2>3. CASE j = i
    <3>1. s # "kept" /\ Promises'[j] = [Promises[j] EXCEPT !.state = s] /\ Promises[j] \in Promised
      BY <1>2, <2>1, <2>2, <2>3
    <3>2. Promises'[j].pg = x /\ Promises'[j].state = s
      BY <2>2, <3>1 DEF Promised
    <3> QED
      BY <2>1, <3>1, <3>2
  <2>4. CASE j # i
    BY <2>1, <2>2, <2>4
  <2> QED
    BY <2>3, <2>4
<1>6. ASSUME NEW drop \in SUBSET DOMAIN Promises, M!Forget(drop)
      PROVE  \E i \in DOMAIN Promises' : Promises'[i].pg = x /\ Promises'[i].state # "kept"
  <2>1. x \in docs \ superseded /\ x \notin Mirrored
    BY <1>6 DEF M!Forget
  <2>2. PICK i \in DOMAIN Promises : Promises[i].pg = x /\ Promises[i].state # "kept"
    BY <2>1 DEF M!Owed
  <2>3. i \notin drop
    BY <1>6, <2>1, <2>2 DEF M!Forget, M!Kept
  <2> QED
    BY <1>6, <2>2, <2>3 DEF M!Forget
<1> QED
  BY <1>3, <1>4, <1>5, <1>6 DEF M!Next

\* No deletion of a request, of a fold or of a closed successor takes the last row
\* that owes the graph a standing record (handle_supersede, close_ledger_rows).
THEOREM StandingRecordsAreOwed == Spec => []StandingIsOwed
<1>1. Init => StandingIsOwed
  BY DEF Init, StandingIsOwed
<1>2. OutboxInv /\ OutboxInv' /\ GraphInv /\ StandingIsOwed /\ [Next]_vars => StandingIsOwed'
  <2> SUFFICES ASSUME OutboxInv, OutboxInv', GraphInv, StandingIsOwed, [Next]_vars PROVE StandingIsOwed'
    OBVIOUS
  <2>1. M!Owed'
    BY MirrorStep, OwedIsStanding, MirrorOwes
  <2>2. (OutboxInv => (M!Owed <=> StandingIsOwed))'
    BY OwedIsStanding, PTL
  <2> QED
    BY <2>1, <2>2
<1> QED
  BY <1>1, <1>2, OutboxIsSound, AppliedRowsAreMirrored, PTL DEF Spec

-----------------------------------------------------------------------------
\* What Postgres has, the graph has or a row still owes it (handle_save,
\* handle_supersede, _apply_outbox_row, close_ledger_rows), if what corrects a fact
\* is not itself retired and verdicts reverse decisions only.
THEOREM MirrorKept ==
    ASSUME FreshCorrections, DecisionsReversed
    PROVE  Spec => []MirrorIsOwed
<1>1. Init => SupersededIsOwed
  BY DEF Init, SupersededIsOwed
<1>2. GraphInv /\ SupersededIsOwed /\ StandingIsOwed => MirrorIsOwed
  BY DEF GraphInv, MirrorIsOwed
<1> QED
  BY <1>1, <1>2, OwedStep, OutboxIsSound, AppliedRowsAreMirrored, StandingRecordsAreOwed, PTL DEF Spec

\* The graph has what Postgres has or is owed it, and has it once.
THEOREM MirrorIsFaithful ==
    ASSUME FactsSucceed, FreshCorrections, DecisionsReversed
    PROVE  Spec => []MirrorIsTrue
<1>1. NoClone /\ MirrorIsOwed => MirrorIsTrue
  BY DEF MirrorIsTrue
<1> QED
  BY <1>1, NoClones, MirrorKept, PTL

=============================================================================
