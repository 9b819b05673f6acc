\* The script alone; a client write with its outbox row, both workers, a restart.
SPECIFICATION FenceSpec
CONSTANTS
    Callers = {sh}
    Sh = sh
    Required = TRUE
    Writers = {w1}
    Workers = {"outbox", "alt"}
    Daemons = {}
    Conns = {k1, k2}
    NoConn = NoConn
    NoCaller = NoCaller
    MaxCalls = 2
    MaxRestarts = 1
    MaxDaemonLosses = 0
    MaxRows = 1
SYMMETRY ConnSymmetry
CHECK_DEADLOCK FALSE
INVARIANTS FullMeansSettled
PROPERTIES FenceIdentityIsMonotone
