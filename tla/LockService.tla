---------------------------- MODULE LockService -----------------------------
(***************************************************************************)
(* What handle_save is promised by the entity locks: a name is held by one *)
(* save at a time; a save collects names one by one and gives up all it    *)
(* holds at once.  Nothing is said of lock objects, registries, waiters or *)
(* evictions: KeyedLocks implements this.                                  *)
(***************************************************************************)
CONSTANTS Saves, Keys

VARIABLE holds      \* each save: the names it holds

Init == holds = [s \in Saves |-> {}]

HeldByOther(s, k) == \E t \in Saves \ {s} : k \in holds[t]

Take(s, k) == ~HeldByOther(s, k) /\ holds' = [holds EXCEPT ![s] = @ \cup {k}]
GiveUp(s) == holds' = [holds EXCEPT ![s] = {}]

Next == \E s \in Saves : GiveUp(s) \/ \E k \in Keys : Take(s, k)

Spec == Init /\ [][Next]_holds

=============================================================================
