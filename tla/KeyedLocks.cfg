\* Two saves of up to two entities out of five: locks are dropped and made
\* again, and at most three others are in use when a save asks for one.
SPECIFICATION FairSpec
CONSTANTS
    Saves = {s1, s2}
    Keys = {1, 2, 3, 4, 5}
    Versions = {0, 1}
    NoSave = NoSave
    MaxSize = 4
    MaxNames = 2
PROPERTIES ImplementsService EverySaveFinishes
