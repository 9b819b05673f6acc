------------------------------- MODULE Health -------------------------------
(***************************************************************************)
(* GET /health of hive_mind_proxy.py: one probe of the system serves every *)
(* request of the next seconds, a background task measures what the        *)
(* encoders can do, and the states of the dependencies roll up into one.   *)
(*                                                                         *)
(* The probe suspends while it asks the encoders; the rest is read in one  *)
(* step at its end.  Numbers (ages, rates, thresholds) are the answers of  *)
(* their comparisons.                                                      *)
(***************************************************************************)
EXTENDS Naturals, FiniteSets

CONSTANTS
    Requests,           \* requests of /health
    Encoders            \* "embedder", "reranker"

ASSUME HealthAssumption == "free" \notin Requests

VARIABLES
    capability, \* _capability: of each encoder its status, its projection and that one's age
    cached,     \* _health_cache["checks"]
    fresh,      \* its timestamp is younger than HEALTH_CACHE_TTL_S
    lock,       \* the holder of _health_probe_lock
    young,      \* the probe under way began less than the TTL ago
    asks,       \* each request: idle, wait, probe
    shed,       \* _rate_marks["shed"]: unset, or whether requests were shed since
    measured    \* encoders whose projection was ever measured (history)

healthVars == <<capability, cached, fresh, lock, young, asks, shed, measured>>

NoAnswer == [status |-> "none"]
Free == "free"
CapStatuses == {"ok", "too_slow", "failing", "auth_failed"}
Unmeasured == [status |-> "none", proj |-> "none", slow |-> FALSE]

-----------------------------------------------------------------------------
\* _encoder_dependency: a refused key before an outage, an outage before a short
\* window, the window before the speed.
Encoder(e, probe, window, status) ==
    IF "auth_failed" \in {probe, status} THEN IF e = "reranker" THEN "degraded" ELSE "down"
    ELSE IF probe # "ok" THEN "down"
    ELSE IF window = "short" \/ (window = "overrun" /\ e # "reranker") THEN "degraded"
    ELSE IF status \in {"too_slow", "failing"} THEN "degraded" ELSE "ok"

\* _llm_pool_dependency, of the probe states of the declared backends.
LlmPool(states, excluded) ==
    LET probed == states \ {"unknown"}
    IN  IF states = {} THEN "degraded"
        ELSE IF probed = {} THEN IF excluded THEN "degraded" ELSE "unknown"
        ELSE IF "ok" \notin probed THEN "down"
        ELSE IF probed # {"ok"} \/ excluded THEN "degraded" ELSE "ok"

\* _outbox_dependency, _rem_dependency, _nrem_dependency, _registry_dependency:
\* what was read of each one, "none" when nothing was.
Outbox(read) ==
    CASE read = "none" -> "unknown" [] read \in {"failed", "old"} -> "degraded" [] OTHER -> "ok"
Rem(running, read) ==
    IF read = "unreadable" \/ ~running THEN "down"
    ELSE IF read \in {"dead_letters", "invalid_nodes"} THEN "degraded" ELSE "ok"
Nrem(running, read) ==
    CASE ~running -> "down" [] read = "none" -> "unknown" [] read = "stalled" -> "stalled" [] OTHER -> "ok"
Registry(read) ==
    CASE read = "none" -> "unknown" [] read = "failures" -> "degraded" [] OTHER -> "ok"

\* overall_status: a stall of NREM degrades NREM and not the top status.
Overall(deps, warned) ==
    IF "down" \in deps THEN "down" ELSE IF "degraded" \in deps \/ warned THEN "degraded" ELSE "ok"

\* _gateway_shed_rate: requests shed since the previous probe.
ShedSince == shed = "some"

\* _build_health_checks after its last await: the readings of the stores, the
\* outbox, the daemons' flags, the registry and the pool, the probes and windows
\* of the encoders; then the thresholds that were passed.
EncoderStates(r) ==
    {IF e = r.encoder THEN Encoder(e, r.probe, r.window, capability[e].status)
     ELSE Encoder(e, "ok", "ok", capability[e].status) : e \in Encoders}
Dependencies(r) ==
    EncoderStates(r)
    \cup {r.postgres, r.neo4j, LlmPool(r.llm, FALSE), Outbox(r.outbox), Registry(r.registry)}
    \cup {Rem("rem" \in r.running, r.rem), Nrem("nrem" \in r.running, r.nrem)}
Warned(r) ==
    \/ \E e \in Encoders : capability[e].proj # "none" /\ capability[e].slow
    \/ r.outbox = "old" \/ r.rem = "dead_letters" \/ ShedSince \/ r.tokens
Checks(r) ==
    [status |-> Overall(Dependencies(r), Warned(r)),
     code   |-> IF "down" \in EncoderStates(r) THEN 503 ELSE 200]

Fine == [postgres |-> "ok", neo4j |-> "ok", llm |-> {"ok"}, outbox |-> "ok", rem |-> "ok",
         nrem |-> "ok", running |-> {"rem", "nrem"}, registry |-> "ok", tokens |-> FALSE,
         encoder |-> "none", probe |-> "ok", window |-> "ok"]
\* Readings in which at most one thing is wrong.
Readings ==
    {Fine, [Fine EXCEPT !.tokens = TRUE]}
    \cup {[Fine EXCEPT !.postgres = s] : s \in {"down", "unknown"}}
    \cup {[Fine EXCEPT !.neo4j = s] : s \in {"down", "unknown"}}
    \cup {[Fine EXCEPT !.llm = s] : s \in {{}, {"unknown"}, {"ok", "timeout"}, {"timeout", "unknown"}}}
    \cup {[Fine EXCEPT !.outbox = s] : s \in {"none", "failed", "old"}}
    \cup {[Fine EXCEPT !.rem = s] : s \in {"unreadable", "dead_letters", "invalid_nodes"}}
    \cup {[Fine EXCEPT !.nrem = s] : s \in {"none", "stalled"}}
    \cup {[Fine EXCEPT !.running = s] : s \in {{"rem"}, {"nrem"}}}
    \cup {[Fine EXCEPT !.registry = s] : s \in {"none", "failures"}}
    \cup {[Fine EXCEPT !.encoder = e, !.probe = s] : e \in Encoders, s \in {"auth_failed", "timeout"}}
    \cup {[Fine EXCEPT !.encoder = e, !.window = s] : e \in Encoders, s \in {"short", "overrun"}}

HealthInit ==
    /\ capability = [e \in Encoders |-> Unmeasured]
    /\ cached = NoAnswer /\ fresh = FALSE /\ lock = Free /\ young = FALSE
    /\ asks = [q \in Requests |-> "idle"]
    /\ shed = "unset" /\ measured = {}

-----------------------------------------------------------------------------
\* handle_health answers from the probe it is given; what a caller without a token
\* is shown of it is left out.
Reply(q) == asks' = [asks EXCEPT ![q] = "idle"]

\* _health_probe_cached: the cache, then the lock.
Ask(q) ==
    /\ asks[q] = "idle" /\ ~(cached # NoAnswer /\ fresh)
    /\ asks' = [asks EXCEPT ![q] = "wait"]
    /\ UNCHANGED <<capability, cached, fresh, lock, young, shed, measured>>

\* With the lock, the cache is looked at again.
SecondLook == cached # NoAnswer /\ fresh
TakeLock(q) ==
    /\ asks[q] = "wait" /\ lock = Free
    /\ IF SecondLook THEN Reply(q) /\ UNCHANGED <<lock, young>>
       ELSE asks' = [asks EXCEPT ![q] = "probe"] /\ lock' = q /\ young' = TRUE
    /\ UNCHANGED <<capability, cached, fresh, shed, measured>>

\* The probe ends; its age counts from its beginning.
ProbeEnds(q, r) ==
    /\ asks[q] = "probe"
    /\ cached' = Checks(r) /\ fresh' = young /\ Reply(q)
    /\ shed' = "none" /\ lock' = Free
    /\ UNCHANGED <<capability, young, measured>>

\* The client leaves while the encoders are asked.
ClientGone(q) ==
    /\ asks[q] \in {"wait", "probe"} /\ asks' = [asks EXCEPT ![q] = "idle"]
    /\ lock' = IF lock = q THEN Free ELSE lock
    /\ UNCHANGED <<capability, cached, fresh, young, shed, measured>>

\* HEALTH_CACHE_TTL_S passes.
Expires ==
    /\ (fresh \/ young) /\ fresh' = FALSE /\ young' = FALSE
    /\ UNCHANGED <<capability, cached, lock, asks, shed, measured>>

\* auth_middleware refuses a request at its limit.
Sheds ==
    /\ shed = "none" /\ shed' = "some"
    /\ UNCHANGED <<capability, cached, fresh, lock, young, asks, measured>>

\* _probe_capability: an encoder that answered has a status and a projection, one
\* that failed or refused the key has only a status.
Probed(status, slow) ==
    [status |-> status, proj |-> IF status \in {"ok", "too_slow"} THEN "fresh" ELSE "none", slow |-> slow]

\* _merge_capability_projection.
MergedIfFresh(old, new) ==
    IF new.proj = "none" /\ old.proj = "fresh"
    THEN [new EXCEPT !.proj = "stale", !.slow = old.slow] ELSE new
Merged(old, new) ==
    IF new.proj = "none" /\ old.proj # "none"
    THEN [new EXCEPT !.proj = "stale", !.slow = old.slow] ELSE new

\* One round of _capability_probe_daemon; a round that raises changes nothing.
ProbeCapability(status, slow) ==
    /\ \A e \in Encoders : slow[e] => status[e] = "too_slow"
    /\ capability' = [e \in Encoders |-> Merged(capability[e], Probed(status[e], slow[e]))]
    /\ measured' = measured \cup {e \in Encoders : status[e] \in {"ok", "too_slow"}}
    /\ UNCHANGED <<cached, fresh, lock, young, asks, shed>>

HealthNext ==
    \/ \E q \in Requests : Ask(q) \/ TakeLock(q) \/ ClientGone(q)
    \/ \E q \in Requests, r \in Readings : ProbeEnds(q, r)
    \/ \E status \in [Encoders -> CapStatuses], slow \in [Encoders -> BOOLEAN] : ProbeCapability(status, slow)
    \/ Expires \/ Sheds

HealthSpec == HealthInit /\ [][HealthNext]_healthVars

-----------------------------------------------------------------------------
\* "Retain last measured projection metrics across probe failures": once an
\* encoder was measured, however many probes then fail, a projection is there for
\* the client's search timeout, and it is marked stale unless the last probe
\* measured it.
ProjectionKept ==
    \A e \in measured :
        capability[e].proj = IF capability[e].status \in {"ok", "too_slow"} THEN "fresh" ELSE "stale"

\* However many requests arrive together, the encoders are asked by one of them
\* at a time and by none while an answer is fresh.
NoProbeWhileFresh ==
    /\ Cardinality({q \in Requests : asks[q] = "probe"}) <= 1
    /\ \A q \in Requests : asks[q] = "probe" => lock = q /\ ~fresh

\* What /health keeps between its probes: one probe at a time and the last
\* measured projection, however requests, expiry and failing encoders interleave.
AnswerIsKept == ProjectionKept /\ NoProbeWhileFresh

-----------------------------------------------------------------------------
(***************************************************************************)
(* The inductive invariant.                                                *)
(***************************************************************************)
HealthTypeOK ==
    /\ capability \in [Encoders -> [status : CapStatuses \cup {"none"},
                                    proj : {"none", "fresh", "stale"}, slow : BOOLEAN]]
    /\ fresh \in BOOLEAN /\ young \in BOOLEAN
    /\ lock \in Requests \cup {Free}
    /\ asks \in [Requests -> {"idle", "wait", "probe"}]
    /\ measured \subseteq Encoders

\* Whoever probes holds the lock, and probes for want of an answer.
ProberHolds == \A q \in Requests : asks[q] = "probe" => lock = q /\ ~fresh

HealthInv ==
    /\ HealthTypeOK /\ ProjectionKept /\ ProberHolds
    /\ fresh => cached # NoAnswer

=============================================================================
