--------------------------- MODULE MCOutboxMirror ---------------------------
(* Verdict r1 judges d1; r1 is grounded in f1 and d1, d1 in f1.               *)
EXTENDS OutboxMirror

CONSTANTS f1, f2, d1, r1

Evidence == [j \in Judgements |-> IF j = d1 THEN {f1} ELSE {f1, d1}]
Verdicts == [r \in Retros |-> d1]

=============================================================================
