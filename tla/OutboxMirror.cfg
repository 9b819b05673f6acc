\* A fact corrected and retracted while its rows are retried and recovered.
SPECIFICATION Spec
CONSTANTS
    f1 = f1
    f2 = f2
    d1 = d1
    r1 = r1
    Facts = {f1, f2}
    Decisions = {d1}
    Retros = {r1}
    None = None
    Judges <- Verdicts
    Reversals = {r1}
    Cites <- Evidence
    Corrections = {f2}
    Targets = {f1}
    Successors = {f2}
    MaxRetries = 2
    BatchSize = 2
    MaxRows = 3
    MaxRestarts = 1
    MaxStrands = 1
CHECK_DEADLOCK FALSE
INVARIANTS MirrorIsTrue OpenRowIsServed
PROPERTY ImplementsMirror
