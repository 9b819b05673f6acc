------------------------------- MODULE Mirror -------------------------------
(***************************************************************************)
(* What the readers of the graph are promised by neo4j_outbox: a record    *)
(* enters Postgres together with the promise that the graph will have it.  *)
(* A promise counts as kept only when the graph has the record and, of a   *)
(* correction, the mark on the fact it replaces; kept or given up it is    *)
(* never open again; and it leaves only when it is kept or when its record *)
(* was superseded.  Nothing is said of batches, claims, statements,        *)
(* retries, restarts or daemons: OutboxMirror implements this.             *)
(***************************************************************************)
EXTENDS Naturals

CONSTANTS Records, None

VARIABLES
    docs, superseded,       \* Postgres: the records, and those superseded
    next, promises,         \* what is promised, by number
    mirrored, struck        \* the graph: the records, and those marked superseded

vars == <<docs, superseded, next, promises, mirrored, struck>>

Kept(p) == p.pg \in mirrored /\ (p.old # None => p.old \in struck)

Init ==
    /\ docs = {} /\ superseded = {} /\ mirrored = {} /\ struck = {}
    /\ next = 1 /\ promises = [i \in {} |-> None]

\* A request: records, marks and promise in one step.  What the request retires
\* may take its promises along.
Promise(x, old, drop) ==
    /\ docs' = docs \cup {x} /\ superseded \subseteq superseded' /\ superseded' \subseteq docs'
    /\ old # None => old \in superseded'
    /\ \A i \in drop : promises[i].pg \in superseded'
    /\ promises' = [i \in (DOMAIN promises \ drop) \cup {next} |->
                      IF i = next THEN [pg |-> x, old |-> old, state |-> "owed"]
                      ELSE promises[i]]
    /\ UNCHANGED <<mirrored, struck>>

\* The graph only grows.
Write ==
    /\ mirrored \subseteq mirrored' /\ struck \subseteq struck'
    /\ UNCHANGED <<docs, superseded, next, promises>>

Settle(i, state) ==
    /\ promises[i].state = "owed"
    /\ state = "kept" => Kept(promises[i])
    /\ promises' = [promises EXCEPT ![i].state = state]
    /\ UNCHANGED <<docs, superseded, next, mirrored, struck>>

Forget(drop) ==
    /\ \A i \in drop : Kept(promises[i]) \/ promises[i].pg \in superseded
    /\ promises' = [i \in DOMAIN promises \ drop |-> promises[i]]
    /\ UNCHANGED <<docs, superseded, next, mirrored, struck>>

Ask ==
    /\ next' = next + 1
    /\ \E x \in Records, old \in Records \cup {None}, drop \in SUBSET DOMAIN promises :
          Promise(x, old, drop)

Next ==
    \/ Ask \/ Write
    \/ \E i \in DOMAIN promises, state \in {"kept", "failed"} : Settle(i, state)
    \/ \E drop \in SUBSET DOMAIN promises : Forget(drop)

Spec == Init /\ [][Next]_vars

\* A record that stands is in the graph, or its promise is still open or says
\* that it failed.
Owed == \A x \in docs \ superseded :
            x \in mirrored \/ \E i \in DOMAIN promises : promises[i].pg = x /\ promises[i].state # "kept"

=============================================================================
