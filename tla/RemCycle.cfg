\* Two long facts, a decision and a node without a Postgres row.
SPECIFICATION Spec
CONSTANTS
    Records = {1, 2}
    Facts = {1, 2}
    Long = {1, 2}
    Bad = {}
    BATCH_SIZE = 3
    REM_STARVED_THRESHOLD = 1
    poolA = poolA
    poolB = poolB
    Pools = {poolA, poolB}
    Ctx <- MCCtx
    Reply <- MCReply
    LlmReasons = {"no_context", "unparseable"}
    NoRow = NoRow
    MaxBoot = 1
CHECK_DEADLOCK FALSE
INVARIANTS PaidOnceUnlessDropped BacklogIsHeeded
