\* Three facts of one group, two of them enough for a summary.
SPECIFICATION Spec
CONSTANTS
    f1 = f1
    f2 = f2
    f3 = f3
    a = a
    Facts = {f1, f2, f3}
    Sections = {a}
    SectionsOf <- OneSection
    Insights = {i1}
    Threads <- OneThread
    DENSITY_THRESHOLD = 2
    Ready = {f1, f2}
    Superseders = {f3}
    MaxSaves = 4
    MaxSuperseded = 2
    None = None
SYMMETRY Symmetric
INVARIANTS LedgerTellsTheDebt
  
