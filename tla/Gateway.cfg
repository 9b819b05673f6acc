\* The gateway's parts and its daemons' scheduling, one scene each.
SPECIFICATION Spec
CONSTANTS
    Daemons = {"nrem", "rem"}
    DAEMON_MAX_RESTARTS = 1
    MaxMints = 4
    Requests = {q1, q2}
    Encoders = {"embedder", "reranker"}
    MaxRuns = 1
    MaxTroubles = 2
    MaxLead = 1
    Calls = {c1, c2}
    Tokens = {"t1", "t2", "t3", "t4"}
    Entries <- Ents
    RoleEntries <- RoleEnts
    ReservedNames = {"rem_daemon", "consolidation"}
    ReadOnlyAgents = {"monitor"}
    MAINTENANCE_ADMIN_AGENT = "maintenance-admin"
    INFLIGHT_MAX = 2
    LOG_RATE = 1
    QUEUE_MAX = 2
    REQUIRE_PRINCIPAL = TRUE
    MaxFailures = 3
    MaxBoots = 1
    Hardware = {h1, h2}
    Configs = {e1, e2}
    Rates = {1, 2, 3}
    Payloads = {0, 1}
    MAX_RECORDS = 1
    Ordinals = {1, 2}
    Texts = {1, 3, 6}
    EMBED_MAX_CHARS = 5
    ReservedClamp = 3
    EMBED_RETRIES = 3
    OVERFLOW_ATTEMPTS = 3
    ALT_VECTOR_BATCH_SIZE = 2
    EMBED_MAX_CONTEXT_TOKENS = 2
    Advertised <- Adv
    MaxSaves = 2
    Contents = {"f", "g", "d"}
    Savers = {s1, s2}
    Saves <- Reqs
    Spelling <- Names1
    SENTINEL = "parked"
    Aliases <- Al
    Confusable <- Conf
    Registered = {"Q"}
    KnownEntities = {"known"}
    Reviews = {v1, v2}
    MaxArrivals = 3
INVARIANTS DaemonsAreSupervised AnswerIsKept RunRowIsOwed GateIsExact CapacityIsCurrent VectorsStandForTexts FiledInBothStores
PROPERTIES  AxesStay
CHECK_DEADLOCK FALSE
