---------------------------- MODULE MCLlmRouter -----------------------------
(* Two small self-hosted backends, a larger paid one, and one with no key.   *)
EXTENDS LlmRouter

CONSTANTS local, peer, paid, unkeyed

MCIndex     == [b \in Backends |-> CASE b = local -> 1 [] b = peer -> 2 [] b = paid -> 3 [] OTHER -> 4]
MCPriority  == [b \in Backends |-> IF b \in {local, peer} THEN 1 ELSE 2]
MCNCtx      == [b \in Backends |-> IF b \in {local, peer} THEN 100 ELSE 300]
MCMaxOutput == [b \in Backends |-> IF b \in {local, peer} THEN 60 ELSE 80]
MCCap       == [b \in {local, peer} |-> 1]

=============================================================================
