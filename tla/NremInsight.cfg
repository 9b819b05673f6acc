\* Two decisions on one ground, a verdict on each; one may reverse its decision.
SPECIFICATION Spec
CONSTANTS
    d1 = d1
    d2 = d2
    r1 = r1
    r2 = r2
    g1 = g1
    g2 = g2
    Decisions = {d1, d2}
    Retros = {r1, r2}
    Target <- Judged
    Near <- SharedGround
    Groups = {g1, g2}
    Seeds <- Reached
    MaxSaves = 3
    MaxBoot = 1
    None = None
CHECK_DEADLOCK FALSE
INVARIANTS  PaidFoldOnce
PROPERTIES UnreadRowStays ReversalIsTold
