---------------------------- MODULE Supersession ----------------------------
(***************************************************************************)
(* Retiring a fact: POST /memory/supersede and POST /memory/save with      *)
(* "supersedes", beside the saves of decisions and retrospectives.  A fact *)
(* that is the last standing based_on ground of a decision's thread is     *)
(* retired only if the operator answered for that decision.  The check is  *)
(* made twice, before the transaction and again under an advisory lock.    *)
(* Statements run under READ COMMITTED: a transaction of another request   *)
(* may commit between two of them.                                         *)
(***************************************************************************)
EXTENDS Naturals, FiniteSets

CONSTANTS
    Facts, Decisions, Retros,   \* rows of technical_docs, each known by its content
    Clients,                    \* requests that retire a fact
    None,
    Stored,                     \* records at the start
    Grounds0,                   \* what the stored decisions are based_on
    Targets,                    \* facts the requests retire
    Successors,                 \* records "by" names
    Corrections,                \* contents of the saves that supersede
    NewDecisions,               \* decisions saved, or saved again
    Citable,                    \* facts the new judgements cite
    Judges, Reversals,          \* target and "reversed" are part of a retro's content
    Readable,                   \* decisions the callers may read
    JudgementsRace,             \* judgements commit between check and UPDATE
    MaxRequests, MaxCrashes     \* bounds on one behaviour

Judgements == Decisions \cup Retros
Records == Facts \cup Judgements

ASSUME SetsAssumption ==
    /\ Facts \cap Judgements = {} /\ Decisions \cap Retros = {} /\ None \notin Records \cup Clients
    /\ Stored \subseteq Facts \cup Decisions
    /\ Targets \subseteq Facts /\ Successors \subseteq Records
    /\ Corrections \subseteq Facts \cup Decisions
    /\ NewDecisions \subseteq Decisions /\ Citable \subseteq Facts
    /\ Judges \in [Retros -> Facts \cup Decisions] /\ Reversals \subseteq Retros
    /\ Readable \subseteq Decisions
ASSUME Grounds0Assumption ==
    /\ Grounds0 \in [Decisions -> SUBSET Facts]
    /\ \A d \in Decisions \ Stored : Grounds0[d] = {}
ASSUME BoundsAssumption ==
    JudgementsRace \in BOOLEAN /\ MaxRequests \in Nat /\ MaxCrashes \in Nat

VARIABLES
    docs,           \* the rows of technical_docs
    superseded,     \* the rows flagged superseded
    supersededBy,   \* superseded_by
    acks,           \* metadata.supersession_ack.decisions
    basedOn, informed,  \* grounded_in of each judgement, by role
    lock,           \* pg_advisory_xact_lock(SUPERSEDE_LOCK_KEY)
    pc, req, lost,  \* each request: where it is, its body, threads it would strand
    requests, crashes

docVars == <<docs, superseded, supersededBy, acks, basedOn, informed>>
reqVars == <<lock, pc, req, lost>>
vars    == <<docVars, reqVars, requests, crashes>>

Requests ==
    [op : {"supersede", "save"}, old : Facts, new : Records \cup {None},
     ack : SUBSET Decisions]

TypeOK ==
    /\ docs \subseteq Records /\ superseded \subseteq docs
    /\ supersededBy \in [Facts -> Records \cup {None}]
    /\ acks \in [Facts -> SUBSET Decisions]
    /\ basedOn \in [Judgements -> SUBSET Facts] /\ informed \in [Judgements -> SUBSET Facts]
    /\ lock \in Clients \cup {None}
    /\ pc \in [Clients -> {"idle", "check", "ready", "locked", "checked"}]
    /\ req \in [Clients -> Requests \cup {None}]
    /\ \A c \in Clients : IF pc[c] = "idle" THEN req[c] = None ELSE req[c] \in Requests
    /\ lost \in [Clients -> SUBSET Decisions]
    /\ \A c \in Clients : lost[c] # {} => pc[c] = "checked"
    /\ requests \in Nat /\ crashes \in Nat

Init ==
    /\ docs = Stored /\ superseded = {}
    /\ supersededBy = [f \in Facts |-> None] /\ acks = [f \in Facts |-> {}]
    /\ basedOn = [j \in Judgements |-> IF j \in Decisions THEN Grounds0[j] ELSE {}]
    /\ informed = [j \in Judgements |-> {}]
    /\ lock = None /\ pc = [c \in Clients |-> "idle"] /\ req = [c \in Clients |-> None]
    /\ lost = [c \in Clients |-> {}] /\ requests = 0 /\ crashes = 0

-----------------------------------------------------------------------------
(***************************************************************************)
(* _thread_grounds and threads_left_ungrounded.                            *)
(***************************************************************************)
Standing(f) == f \in docs /\ f \notin superseded

\* A decision and the retrospectives on it that are not superseded.
Thread(d) == {d} \cup {r \in Retros \cap docs : Judges[r] = d /\ r \notin superseded}

Grounds(d) == UNION {basedOn[j] : j \in Thread(d)}
Cited(d)   == Grounds(d) \cup UNION {informed[j] : j \in Thread(d)}

HasGround(d) == \E g \in Grounds(d) : Standing(g)

Ungrounded(f) ==
    {d \in Decisions :
        Standing(d) /\ f \in Cited(d) /\ ~\E g \in Grounds(d) \ {f} : Standing(g)}

\* Every acknowledged decision exists and is readable, and none is missing.
Answered(c) ==
    /\ req[c].ack \subseteq Readable \cap docs
    /\ Ungrounded(req[c].old) \subseteq req[c].ack

\* Asks only that the successor exists.
SuccessorExists(c) ==
    req[c].op = "supersede" /\ req[c].new # None => req[c].new \in docs

SuccessorOk(c) ==
    req[c].op = "supersede" /\ req[c].new # None => Standing(req[c].new)

-----------------------------------------------------------------------------
\* A request with its body; what has the wrong shape is refused without effect.
Arrive(c) ==
    /\ pc[c] = "idle" /\ requests < MaxRequests /\ requests' = requests + 1
    /\ \E op \in {"supersede", "save"}, f \in Targets, a \in SUBSET Decisions :
        \E n \in IF op = "save" THEN Corrections ELSE Successors \cup {None} :
            /\ op = "supersede" => n # f
            /\ req' = [req EXCEPT ![c] = [op |-> op, old |-> f, new |-> n, ack |-> a]]
    /\ pc' = [pc EXCEPT ![c] = "check"]
    /\ UNCHANGED <<docVars, lock, lost, crashes>>

\* The answer, refused or not; the end of the transaction frees the lock.
Answer(c) ==
    /\ pc' = [pc EXCEPT ![c] = "idle"] /\ req' = [req EXCEPT ![c] = None]
    /\ lost' = [lost EXCEPT ![c] = {}]
    /\ lock' = IF lock = c THEN None ELSE lock

Refuse(c) == Answer(c) /\ UNCHANGED <<docVars, requests, crashes>>

\* The checks before the transaction (for a save, before the embedding).
PreCheck(c) ==
    /\ pc[c] = "check"
    /\ \/ /\ Standing(req[c].old) /\ SuccessorOk(c) /\ Answered(c)
          /\ pc' = [pc EXCEPT ![c] = "ready"]
          /\ UNCHANGED <<docVars, lock, req, lost, requests, crashes>>
       \/ ~(Standing(req[c].old) /\ SuccessorOk(c) /\ Answered(c)) /\ Refuse(c)

\* Trusts what was read before the transaction.
TxLockUnchecked(c) ==
    /\ pc[c] = "ready" /\ lock = None
    /\ lock' = c /\ pc' = [pc EXCEPT ![c] = "locked"]
    /\ UNCHANGED <<docVars, req, lost, requests, crashes>>

\* The advisory lock is granted; the target is read FOR UPDATE, the successor read.
TxLock(c) ==
    /\ pc[c] = "ready" /\ lock = None
    /\ \/ /\ Standing(req[c].old) /\ SuccessorOk(c)
          /\ lock' = c /\ pc' = [pc EXCEPT ![c] = "locked"]
          /\ UNCHANGED <<docVars, req, lost, requests, crashes>>
       \/ ~(Standing(req[c].old) /\ SuccessorOk(c)) /\ Refuse(c)

\* Skips the second check.
TxCheckSkipped(c) ==
    /\ pc[c] = "locked"
    /\ lost' = [lost EXCEPT ![c] = req[c].ack]
    /\ pc' = [pc EXCEPT ![c] = "checked"]
    /\ UNCHANGED <<docVars, lock, req, requests, crashes>>

\* The thread check again, under the lock.
TxCheck(c) ==
    /\ pc[c] = "locked"
    /\ \/ /\ Answered(c)
          /\ lost' = [lost EXCEPT ![c] = Ungrounded(req[c].old)]
          /\ pc' = [pc EXCEPT ![c] = "checked"]
          /\ UNCHANGED <<docVars, lock, req, requests, crashes>>
       \/ ~Answered(c) /\ Refuse(c)

\* The row is flagged, with its successor and the answers that were needed.
Retire(c) ==
    LET f == req[c].old  vouched == lost[c] \cap req[c].ack
    IN  /\ superseded' = superseded \cup {f}
        /\ supersededBy' = [supersededBy EXCEPT ![f] = req[c].new]
        /\ acks' = IF vouched = {} THEN acks ELSE [acks EXCEPT ![f] = vouched]

Cite(j, based, other) ==
    /\ basedOn' = [basedOn EXCEPT ![j] = based]
    /\ informed' = [informed EXCEPT ![j] = other]

\* A save writes its own row (a decision's, with what it cites) and retires the
\* other, unless both are one row; the row it finds may conflict with its axes.
TxCommit(c) ==
    /\ pc[c] = "checked"
    /\ \/ /\ req[c].op = "save" /\ req[c].new \in docs /\ Refuse(c)
       \/ /\ IF req[c].op = "save" /\ req[c].new \in Decisions
             THEN \E based, other \in SUBSET Citable :
                     based \cap other = {} /\ Cite(req[c].new, based, other)
             ELSE UNCHANGED <<basedOn, informed>>
          /\ docs' = docs \cup (IF req[c].op = "save" THEN {req[c].new} ELSE {})
          /\ IF req[c].new # req[c].old THEN Retire(c)
             ELSE UNCHANGED <<superseded, supersededBy, acks>>
          /\ Answer(c)
          /\ UNCHANGED <<requests, crashes>>

\* The gateway dies: Postgres rolls the open transaction back.
Crash ==
    /\ crashes < MaxCrashes /\ crashes' = crashes + 1
    /\ lock' = None /\ pc' = [c \in Clients |-> "idle"]
    /\ req' = [c \in Clients |-> None] /\ lost' = [c \in Clients |-> {}]
    /\ UNCHANGED <<docVars, requests>>

-----------------------------------------------------------------------------
(***************************************************************************)
(* The saves that take no supersede lock.                                  *)
(***************************************************************************)
\* No transaction is between its thread check and its UPDATE.
NoCheckPending == JudgementsRace \/ \A c \in Clients : pc[c] # "checked"

\* A row read FOR UPDATE keeps others from writing it, or reading it FOR SHARE.
RowFree(x) == \A c \in Clients : pc[c] \in {"locked", "checked"} => req[c].old # x

\* ON CONFLICT DO UPDATE replaces the metadata but keeps supersession_ack.
SaveFact(f) ==
    /\ RowFree(f) /\ docs' = docs \cup {f}
    /\ UNCHANGED <<superseded, supersededBy, acks, basedOn, informed, reqVars,
                   requests, crashes>>

SaveDecision(d) ==
    /\ d \in NewDecisions /\ NoCheckPending
    /\ docs' = docs \cup {d}
    /\ \E based, other \in SUBSET Citable : based \cap other = {} /\ Cite(d, based, other)
    /\ UNCHANGED <<superseded, supersededBy, acks, reqVars, requests, crashes>>

\* handle_retrospective: it must cite something; "reversed" flags its target,
\* whatever kind of record that is.
SaveRetro(r) ==
    /\ Judges[r] \in docs /\ RowFree(Judges[r]) /\ NoCheckPending
    /\ docs' = docs \cup {r}
    /\ \E based, other \in SUBSET Citable :
        based \cap other = {} /\ based \cup other # {} /\ Cite(r, based, other)
    /\ superseded' = superseded \cup (IF r \in Reversals THEN {Judges[r]} ELSE {})
    /\ UNCHANGED <<supersededBy, acks, reqVars, requests, crashes>>

Handle(c) == PreCheck(c) \/ TxLock(c) \/ TxCheck(c) \/ TxCommit(c)

Next ==
    \/ \E c \in Clients : Arrive(c) \/ Handle(c)
    \/ Crash
    \/ \E f \in Facts : SaveFact(f)
    \/ \E d \in Decisions : SaveDecision(d)
    \/ \E r \in Retros : SaveRetro(r)

Spec == Init /\ [][Next]_vars

-----------------------------------------------------------------------------
\* Retiring a fact never silently takes a standing decision's last ground: a
\* decision that loses it is named in the answers stored with the fact.
LastGroundNeedsAnswer ==
    [][\A d \in Decisions :
          superseded' # superseded /\ HasGround(d) /\ ~HasGround(d)' /\ d \notin superseded'
              => \E f \in superseded' \ superseded : f \in Facts /\ d \in acks'[f]]_vars

\* A fact is pointed at a successor that stands, and only once.
SuccessorStood ==
    [][\A f \in Facts :
          supersededBy'[f] # supersededBy[f] =>
              /\ f \notin superseded /\ supersededBy'[f] \in docs'
              /\ supersededBy'[f] \notin superseded']_vars

\* What the operator answered stays with the fact, whoever saves it again.
AnswersKept == [][\A f \in Facts : acks[f] # {} => acks'[f] = acks[f]]_vars

\* What was settled when a fact was retired stays so, whatever is saved later.
RetirementIsFinal == SuccessorStood /\ AnswersKept

\* Following superseded_by ends: no fact is its own successor at a distance.
Acyclic ==
    \A S \in SUBSET Facts : S # {} => \E f \in S : supersededBy[f] \notin S

-----------------------------------------------------------------------------
(***************************************************************************)
(* Why they hold: the invariants of the proofs.                            *)
(***************************************************************************)
\* What the routes accept.
Bodies ==
    \A c \in Clients : pc[c] # "idle" =>
        /\ req[c].old \in Targets
        /\ \/ req[c].op = "save" /\ req[c].new \in Corrections
           \/ req[c].op = "supersede" /\ req[c].new \in (Successors \cup {None}) \ {req[c].old}

\* A request past the lock has it alone: its fact stands, its successor points nowhere.
Retiring(c) == pc[c] \in {"locked", "checked"}

Exclusive ==
    \A c \in Clients : Retiring(c) =>
        /\ lock = c /\ Standing(req[c].old)
        /\ req[c].op = "supersede" =>
              /\ req[c].new \in docs \cup {None}
              /\ req[c].new \in Facts => supersededBy[req[c].new] = None

\* Only a retired fact has a successor or answers.
Marks ==
    \A f \in Facts :
        supersededBy[f] # None \/ acks[f] # {} => f \in superseded \cap Targets

\* A judgement that is not stored cites nothing; a verdict's target is stored.
Filed ==
    /\ \A j \in Judgements \ docs : basedOn[j] = {}
    /\ \A r \in Retros \cap docs : Judges[r] \in docs

RetireInv == TypeOK /\ Bodies /\ Exclusive /\ Marks /\ Filed

\* What the second check found lost covers what is lost when the row is flagged.
StillLost ==
    \A c \in Clients : pc[c] = "checked" => Ungrounded(req[c].old) \subseteq lost[c] \cap req[c].ack

\* Where no successor is reversed: it stands until the row is flagged.
StillStands ==
    /\ \A c \in Clients : Retiring(c) => SuccessorOk(c)
    /\ superseded \cap Corrections = {}

=============================================================================
