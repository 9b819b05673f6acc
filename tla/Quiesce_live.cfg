\* One admin caller, two requests, a restart; the worker that runs during a quiesce.
SPECIFICATION FairSpec
CONSTANTS
    Callers = {a}
    Writers = {w1}
    Workers = {"outbox"}
    Daemons = {rem}
    Conns = {k1, k2}
    NoConn = NoConn
    NoCaller = NoCaller
    MaxCalls = 2
    MaxRestarts = 1
    MaxDaemonLosses = 0
    MaxRows = 1
PROPERTIES QuiesceEnds NobodyIsStuck
