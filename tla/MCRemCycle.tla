----------------------------- MODULE MCRemCycle -----------------------------
(* Two pools: the second has the larger context and the smaller reply.       *)
EXTENDS RemCycle

CONSTANTS poolA, poolB

MCCtx   == [p \in Pools |-> IF p = poolA THEN 1 ELSE 2]
MCReply == [p \in Pools |-> IF p = poolA THEN 2 ELSE 1]

=============================================================================
