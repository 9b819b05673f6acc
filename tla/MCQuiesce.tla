----------------------------- MODULE MCQuiesce -----------------------------
(* Model values for the gateway's backup quiesce. *)
EXTENDS Quiesce, TLC

ConnSymmetry == Permutations(Conns)
=============================================================================
