----------------------------- MODULE Chronicle -----------------------------
(***************************************************************************)
(* What the readers of thematic summaries rely on.  The summaries of a     *)
(* group come one after the other: a new one is the successor of the one   *)
(* that had none, a link once set stays, and a summary that was retired    *)
(* is never written again.  One is retired only over a superseded member,  *)
(* which its successor does not have; while it is active it only gains     *)
(* members.  Nothing is said of scans, plans, transactions, the ledger or  *)
(* the graph: NremFold implements this.                                    *)
(***************************************************************************)
EXTENDS Naturals, Sequences

CONSTANTS Groups, Facts, None

VARIABLES
    gone,       \* the superseded facts
    told        \* the summaries in the order of their ids

vars == <<gone, told>>

Lasts(g) == {id \in DOMAIN told : told[id].group = g /\ told[id].next = None}
Outdated(id) == told[id].members \cap gone

Init == gone = {} /\ told = <<>>

Supersede(f) == gone' = gone \cup {f} /\ told' = told

Retire(S) ==
    /\ \A id \in S : Outdated(id) # {}
    /\ told' = [id \in DOMAIN told |-> IF id \in S THEN [told[id] EXCEPT !.state = "lineage"] ELSE told[id]]
    /\ gone' = gone

Rewrite(id, F) ==
    /\ told[id].state = "active" /\ told[id].members \subseteq F
    /\ told' = [told EXCEPT ![id].members = F]
    /\ gone' = gone

Begin(g, F) ==
    /\ \A id \in Lasts(g) : told[id].state = "active" => ~(Outdated(id) \subseteq F)
    /\ told' = Append([id \in DOMAIN told |->
                         IF id \in Lasts(g)
                           THEN [told[id] EXCEPT !.state = "lineage", !.next = Len(told) + 1]
                           ELSE told[id]],
                      [group |-> g, members |-> F, state |-> "active", next |-> None])
    /\ gone' = gone

Next ==
    \/ \E f \in Facts : Supersede(f)
    \/ \E S \in SUBSET DOMAIN told : Retire(S)
    \/ \E F \in SUBSET Facts :
          \/ \E id \in DOMAIN told : Rewrite(id, F)
          \/ \E g \in Groups : Begin(g, F)

Spec == Init /\ [][Next]_vars

=============================================================================
