\* Two admin callers, a client write, a batch, a daemon that may lose its session.
SPECIFICATION Spec
CONSTANTS
    Callers = {a, b}
    Writers = {w1}
    Workers = {"alt"}
    Daemons = {rem}
    Conns = {k1, k2}
    NoConn = NoConn
    NoCaller = NoCaller
    MaxCalls = 3
    MaxRestarts = 0
    MaxDaemonLosses = 1
    MaxRows = 0
SYMMETRY ConnSymmetry
INVARIANTS FenceHolds  DeadManArmed NoOrphanSession
PROPERTIES OnlyTheOwnerEnds
