------------------------------ MODULE MCNremFold ------------------------------
EXTENDS NremFold, TLC

CONSTANTS f1, f2, f3, a

OneSection == [f \in Facts |-> {a}]
Symmetric == Permutations({f1, f2})
OneThread == [i \in Insights |-> {{f1}, {f2}}]
===============================================================================
