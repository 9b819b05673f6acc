\* Two requests retire the grounds of a decision that verdicts judge meanwhile.
SPECIFICATION Spec
CONSTANTS
    f1 = f1
    f2 = f2
    f3 = f3
    d1 = d1
    r1 = r1
    r2 = r2
    Facts = {f1, f2, f3}
    Decisions = {d1}
    Retros = {r1, r2}
    Clients = {c1, c2}
    None = None
    Stored = {f1, f2, d1}
    Grounds0 <- OneDecision
    Targets = {f1, f2}
    Successors = {f1, f2}
    Corrections = {f3}
    NewDecisions = {d1}
    Citable = {f2}
    Judges <- Verdicts
    Reversals = {r2}
    Readable = {d1}
    JudgementsRace = FALSE
    MaxRequests = 3
    MaxCrashes = 1
SYMMETRY Symmetric
INVARIANTS Acyclic
PROPERTIES  RetirementIsFinal
