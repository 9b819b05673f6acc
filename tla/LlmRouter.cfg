\* Two calls on a pool of three backends, two of them with one slot.
SPECIFICATION FairSpec
CONSTANTS
    local = local
    peer = peer
    paid = paid
    unkeyed = unkeyed
    Backends = {local, peer, paid, unkeyed}
    NoBackend = NoBackend
    Calls = {c1, c2}
    Index <- MCIndex
    Priority <- MCPriority
    NCtx <- MCNCtx
    MaxOutput <- MCMaxOutput
    SelfHosted = {local, peer}
    Keyed = {paid, unkeyed}
    KeyFilled = {paid}
    TransportOk = {paid, unkeyed}
    Cap <- MCCap
    MaxWait = {local, peer, paid}
    Framework = {c1, c2}
    Prefixes = {p1}
    Sizes = {20, 200}
    FitMargin = 10
    MoveOnDown = TRUE
    LLM_FAIL_THRESHOLD = 1
    LLM_HTTP_FAIL_THRESHOLD = 2
CHECK_DEADLOCK FALSE
INVARIANTS SlotsAccounted PaidIsNotRepeated NeverSmaller
PROPERTIES EveryWalkEnds
