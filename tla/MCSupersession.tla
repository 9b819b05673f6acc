--------------------------- MODULE MCSupersession ---------------------------
(* Decision d1 rests on f1 and f2; r1 judges d1, r2 judges and reverses it.  *)
EXTENDS Supersession, TLC

CONSTANTS f1, f2, f3, d1, r1, r2

OneDecision == [d \in Decisions |-> {f1, f2}]
Verdicts    == [r \in Retros |-> d1]
Symmetric   == Permutations(Clients)

=============================================================================
