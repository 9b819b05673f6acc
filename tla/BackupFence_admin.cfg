\* The script, one other administrator, a daemon.
SPECIFICATION FenceSpec
CONSTANTS
    Callers = {sh, adm}
    Sh = sh
    Required = FALSE
    Writers = {}
    Workers = {}
    Daemons = {rem}
    Conns = {k1, k2}
    NoConn = NoConn
    NoCaller = NoCaller
    MaxCalls = 3
    MaxRestarts = 0
    MaxDaemonLosses = 0
    MaxRows = 0
SYMMETRY ConnSymmetry
CHECK_DEADLOCK FALSE
INVARIANTS FullMeansQuiet
