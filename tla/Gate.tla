-------------------------------- MODULE Gate --------------------------------
(***************************************************************************)
(* auth_middleware of coordinator.py, which every request passes: the      *)
(* in-flight bound, the identity behind the bearer token, the role's       *)
(* routes, the count of writes, and the audit of refused tokens through a  *)
(* rate limit and a bounded queue (AsyncLineWriter, log_hygiene.py).       *)
(*                                                                         *)
(* A step runs from one await to the next: the handler, or the reading of  *)
(* a write's body and then the handler.  The backup's refusal of writes is *)
(* Quiesce's subject.  The version counters, the labels of upstream faults *)
(* and the contents of an audit line are left out.                         *)
(***************************************************************************)
EXTENDS Naturals, FiniteSets, Sequences

CONSTANTS
    Calls,                      \* requests
    Tokens,                     \* bearer tokens that clients present
    Entries,                    \* AGENT_TOKENS, in order: [name, token, form]
    RoleEntries,                \* AGENT_ROLES, in order: [name, role]
    ReservedNames,              \* _RESERVED_DAEMON_NAMES
    ReadOnlyAgents,             \* read_only_agents()
    MAINTENANCE_ADMIN_AGENT,
    INFLIGHT_MAX, LOG_RATE,     \* GATEWAY_INFLIGHT_MAX, TOKEN_VERIFY_FAILED_LOG_RATE
    QUEUE_MAX,                  \* maxsize of the audit queue
    REQUIRE_PRINCIPAL,          \* GATEWAY_REQUIRE_PRINCIPAL
    MaxFailures, MaxBoots       \* bounds: refused tokens, daemon tokens issued

\* A bound of 0 would switch the shedding off; "unknown" is the name of no agent.
ASSUME GateAssumption ==
    /\ IsFiniteSet(Calls) /\ INFLIGHT_MAX \in Nat \ {0} /\ LOG_RATE \in Nat
    /\ QUEUE_MAX \in Nat \ {0} /\ MaxFailures \in Nat /\ MaxBoots \in Nat
    /\ "unknown" \notin ReadOnlyAgents \cup {MAINTENANCE_ADMIN_AGENT}

VARIABLES
    calls,      \* each request: where it is and what it may do
    inflight,   \* _inflight
    writing,    \* _writes_in_flight
    bucket,     \* _tvf_bucket_tokens, and _tvf_unprotected_bucket_tokens of the open routes
    suppressed, \* _tvf_suppressed_count, _tvf_unprotected_suppressed_count
    failures,   \* _credential_counters["token_verify_failed"], of presented tokens
    told,       \* refused tokens that a line, or the count in a line, was written about (history)
    queue,      \* AsyncLineWriter._q: flood and genuine lines
    writer,     \* its drain: the line being appended, or none
    pending,    \* the queue's unfinished tasks, which flush waits for
    dropped,    \* lines lost: by a flood line for itself, by a genuine line for the oldest
    evicted,    \* genuine lines put out of the queue by a flood line (history)
    boots,      \* daemon tokens issued
    closing     \* the writer: open, flushing, closed

gateVars == <<calls, inflight, writing, bucket, suppressed, failures, told, queue, writer,
              pending, dropped, evicted, boots, closing>>
auditVars == <<bucket, suppressed, failures, told, queue, writer, pending, dropped, evicted,
               boots, closing>>

Roles == {"read", "full", "admin"}
RouteKinds == {"open", "read", "write", "admin", "other"}   \* by the sets of routes of the source
IsWrite(kind) == kind = "write"
Doors == {"open", "guarded"}
NoCall == [at |-> "none"]

\* _load_agent_tokens: malformed entries are dropped, and of two with one digest the
\* first names the agent.  Plaintext tokens and the daemons' names are refused at the
\* start.
WellFormed == {i \in DOMAIN Entries : Entries[i].form # "malformed"}
Names == {Entries[i].name : i \in WellFormed}
Holder == [token \in Tokens |->
    LET claims == {i \in WellFormed : Entries[i].token = token}
    IN  {Entries[i].name : i \in {j \in claims : \A k \in claims : j <= k}}]
MayStart == \A i \in WellFormed : Entries[i].form # "plain" /\ Entries[i].name \notin ReservedNames
AuthConfigured == WellFormed # {}

\* resolve_identity: the scheme is spelled exactly, and the token is an agent's.
Identity(token, exact) ==
    IF exact /\ Holder[token] # {} THEN CHOOSE name \in Holder[token] : TRUE ELSE "unknown"

\* _load_agent_roles: the last valid role of a name.
Declared == [name \in Names |->
    LET valid == {i \in DOMAIN RoleEntries : RoleEntries[i].name = name /\ RoleEntries[i].role \in Roles}
    IN  IF valid = {} THEN "none"
        ELSE RoleEntries[CHOOSE i \in valid : \A j \in valid : j <= i].role]

\* agent_roles.effective_role: the roster and the maintenance identity come before
\* what was declared.
EffectiveRole(name, declared) ==
    IF name \in ReadOnlyAgents THEN "read"
    ELSE IF name = MAINTENANCE_ADMIN_AGENT THEN IF declared = "read" THEN "read" ELSE "admin"
    ELSE IF declared \in Roles THEN declared ELSE "full"

\* role_for_mint: the role written to AGENT_ROLES for a new token of a name that had
\* declared, on an explicit request for a role or on none.
MintedRole(name, explicit, declared) ==
    IF name \in ReadOnlyAgents THEN IF explicit \in {"none", "read"} THEN "read" ELSE "refused"
    ELSE IF name = MAINTENANCE_ADMIN_AGENT
    THEN IF explicit = "read" \/ (explicit = "none" /\ declared = "read") THEN "read"
         ELSE IF explicit = "full" \/ (explicit = "admin" /\ declared = "read") THEN "refused" ELSE "admin"
    ELSE IF explicit # "none"
    THEN IF declared = "read" /\ explicit # "read" THEN "refused" ELSE explicit
    ELSE IF declared = "read" THEN "read" ELSE "none"

\* enforce_roster, on what the file then declares.
Enforced(name, declared) ==
    IF declared = "none" THEN declared
    ELSE IF name \in ReadOnlyAgents THEN "read"
    ELSE IF name = MAINTENANCE_ADMIN_AGENT /\ declared # "read" THEN "admin" ELSE declared

\* The role's routes, in the order of auth_middleware.
Permitted(name, kind, attested) ==
    LET role == EffectiveRole(name, Declared[name])
    IN  /\ role = "read" => kind = "read"
        /\ IF kind = "admin" THEN role = "admin"
           ELSE role # "admin" /\ (REQUIRE_PRINCIPAL /\ IsWrite(kind) => attested)
Passes(name, kind, attested) ==
    \/ ~AuthConfigured \/ kind = "open"
    \/ name # "unknown" /\ Permitted(name, kind, attested)

GateInit ==
    /\ calls = [q \in Calls |-> NoCall] /\ inflight = 0 /\ writing = 0
    /\ bucket = [k \in Doors |-> LOG_RATE] /\ suppressed = [k \in Doors |-> 0] /\ failures = 0 /\ told = 0
    /\ queue = <<>> /\ writer = "none" /\ pending = 0 /\ dropped = 0 /\ evicted = 0
    /\ boots = 0 /\ closing = IF MayStart THEN "open" ELSE "closed"

-----------------------------------------------------------------------------
\* AsyncLineWriter.write of the lines, on the queue it has: at the limit a flood line
\* is dropped, any other puts the oldest out, whose task is never done.
Evicts(line) == line = "genuine"
Put(q, line) ==
    IF Len(q) < QUEUE_MAX THEN [q |-> Append(q, line), new |-> 1, lost |-> 0, out |-> 0]
    ELSE IF Evicts(line)
         THEN [q |-> Append(Tail(q), line), new |-> 1, lost |-> 1,
               out |-> IF line = "flood" /\ Head(q) = "genuine" THEN 1 ELSE 0]
         ELSE [q |-> q, new |-> 0, lost |-> 1, out |-> 0]
Written(q1, q2) ==
    /\ queue' = q2.q /\ pending' = pending + q1.new + q2.new
    /\ dropped' = dropped + q1.lost + q2.lost /\ evicted' = evicted + q1.out + q2.out
NoLine == [q |-> queue, new |-> 0, lost |-> 0, out |-> 0]

\* _record_token_verify_failed, _record_unprotected_path_token_verify_failed: over the rate the failure is counted, under it a line
\* with the count and a line of its own are written.
VerifyFailed(door) ==
    /\ failures' = failures + 1
    /\ IF bucket[door] = 0
       THEN /\ suppressed' = [suppressed EXCEPT ![door] = @ + 1]
            /\ UNCHANGED <<bucket, told, queue, pending, dropped, evicted>>
       ELSE LET summary == IF suppressed[door] > 0 THEN Put(queue, "flood") ELSE NoLine
            IN  /\ bucket' = [bucket EXCEPT ![door] = @ - 1]
                /\ suppressed' = [suppressed EXCEPT ![door] = 0]
                /\ told' = told + suppressed[door] + 1
                /\ Written(summary, Put(summary.q, "flood"))
    /\ UNCHANGED <<writer, boots, closing>>

\* At the bound the request is refused before it is counted.  A guarded route sees
\* no token behind a scheme it does not know; an open one reads any spelling of it.
Counted == inflight + 1
Fails(token, exact, kind) ==
    AuthConfigured /\ (exact \/ kind = "open") /\ Holder[token] = {}
Arrive(q, token, exact, kind, attested) ==
    LET name == IF kind = "open" THEN "unknown" ELSE Identity(token, exact) IN
    /\ calls[q] = NoCall /\ inflight < INFLIGHT_MAX
    /\ IF Passes(name, kind, attested)
       THEN /\ calls' = [calls EXCEPT ![q] = [at |-> IF IsWrite(kind) THEN "body" ELSE "handler",
                                              name |-> name, kind |-> kind]]
            /\ inflight' = Counted
       ELSE UNCHANGED <<calls, inflight>>
    /\ IF Fails(token, exact, kind)
       THEN failures < MaxFailures /\ VerifyFailed(IF kind = "open" THEN kind ELSE "guarded")
       ELSE UNCHANGED auditVars
    /\ UNCHANGED writing

\* The body is read; the count goes up and the handler begins.
Admit(q) ==
    /\ calls[q] # NoCall /\ calls[q].at = "body"
    /\ calls' = [calls EXCEPT ![q].at = "handler"] /\ writing' = writing + 1
    /\ UNCHANGED <<inflight, auditVars>>

\* The handler returns or raises, or the client leaves while the body is read or in
\* the handler: each way out counts down what it had counted up.
WritingByKind(q) == IF IsWrite(calls[q].kind) THEN writing - 1 ELSE writing
WritingAfter(q) == IF calls[q].at = "handler" /\ IsWrite(calls[q].kind) THEN writing - 1 ELSE writing
Leave(q) ==
    /\ calls[q] # NoCall
    /\ calls' = [calls EXCEPT ![q] = NoCall] /\ inflight' = inflight - 1
    /\ writing' = WritingAfter(q)
    /\ UNCHANGED auditVars

\* record_daemon_token_issued, and the other lines no outsider can cause.
DaemonTokenIssued ==
    /\ closing = "open" /\ boots < MaxBoots /\ boots' = boots + 1
    /\ Written(NoLine, Put(queue, "genuine"))
    /\ UNCHANGED <<calls, inflight, writing, bucket, suppressed, failures, told, writer, closing>>

Refill(door) ==
    /\ bucket[door] < LOG_RATE /\ bucket' = [bucket EXCEPT ![door] = @ + 1]
    /\ UNCHANGED <<calls, inflight, writing, suppressed, failures, told, queue, writer, pending,
                   dropped, evicted, boots, closing>>

\* _drain: a line is taken, and appended or lost to an error of the disk.
Take ==
    /\ writer = "none" /\ queue # <<>> /\ closing # "closed"
    /\ writer' = Head(queue) /\ queue' = Tail(queue)
    /\ UNCHANGED <<calls, inflight, writing, bucket, suppressed, failures, told, pending, dropped,
                   evicted, boots, closing>>
Appended ==
    /\ writer # "none" /\ writer' = "none" /\ pending' = pending - 1
    /\ UNCHANGED <<calls, inflight, writing, bucket, suppressed, failures, told, queue, dropped,
                   evicted, boots, closing>>

\* aclose at the shutdown waits for the queue's unfinished tasks, then stops the drain.
Close ==
    /\ closing = "open" /\ inflight = 0 /\ closing' = "flushing"
    /\ UNCHANGED <<calls, inflight, writing, bucket, suppressed, failures, told, queue, writer,
                   pending, dropped, evicted, boots>>
Flushed ==
    /\ closing = "flushing" /\ pending = 0 /\ closing' = "closed"
    /\ UNCHANGED <<calls, inflight, writing, bucket, suppressed, failures, told, queue, writer,
                   pending, dropped, evicted, boots>>

GateNext ==
    \/ \E q \in Calls, token \in Tokens, exact, attested \in BOOLEAN, kind \in RouteKinds :
          closing = "open" /\ Arrive(q, token, exact, kind, attested)
    \/ \E q \in Calls : Admit(q) \/ Leave(q)
    \/ \E door \in Doors : Refill(door)
    \/ DaemonTokenIssued \/ Take \/ Appended \/ Close \/ Flushed

GateSpec == GateInit /\ [][GateNext]_gateVars

-----------------------------------------------------------------------------
\* The two counters that shed load and gate a backup are exact, however a request
\* ends: a client that leaves while its body is read was never counted as a write.
CountersAreExact ==
    /\ inflight = Cardinality({q \in Calls : calls[q] # NoCall}) /\ inflight <= INFLIGHT_MAX
    /\ writing = Cardinality({q \in Calls : calls[q] # NoCall /\ calls[q].kind = "write"
                                                             /\ calls[q].at = "handler"})

\* "A flood can only ever evict itself" (AsyncLineWriter): no line about a refused
\* token puts out a line of another kind.  Every refused token has its line or is in
\* a count that a line will carry.  What the flush of a shutdown waits for is what is
\* queued or being appended, plus the lines put out by genuine ones: their tasks are
\* never done, and the flush never ends.
FloodEvictsItself ==
    /\ evicted = 0 /\ failures = told + suppressed["open"] + suppressed["guarded"]
    /\ (pending > Len(queue) + (IF writer = "none" THEN 0 ELSE 1)) => boots > 0 /\ dropped > 0
    /\ closing = "closed" => queue = <<>>

\* A read-only identity never reaches a handler that writes and an admin one no
\* handler but an admin's, whatever was declared for a name of the roster and
\* whatever token is minted for a name: "Roles only ever NARROW access".
MintNeverWidens ==
    \A name \in Names, explicit, declared \in Roles \cup {"none"} :
        LET minted == MintedRole(name, explicit, declared)
        IN  minted # "refused" /\ EffectiveRole(name, declared) = "read"
            => EffectiveRole(name, Enforced(name, minted)) = "read"
RoleIsConfined ==
    /\ MintNeverWidens
    /\ \A q \in Calls : calls[q] # NoCall /\ calls[q].kind # "open" =>
          /\ calls[q].name \in ReadOnlyAgents => calls[q].kind = "read"
          /\ calls[q].name = MAINTENANCE_ADMIN_AGENT => calls[q].kind \in {"read", "admin"}

\* What auth_middleware keeps exact while requests arrive, leave and are refused.
GateIsExact == CountersAreExact /\ FloodEvictsItself /\ RoleIsConfined

-----------------------------------------------------------------------------
(***************************************************************************)
(* Why they hold: the invariants of the proofs.                            *)
(***************************************************************************)
Admitted == [at : {"body", "handler"}, name : Names \cup {"unknown"}, kind : RouteKinds]
AuditLines == {"flood", "genuine"}

GateTypeOK ==
    /\ calls \in [Calls -> Admitted \cup {NoCall}] /\ inflight \in Nat /\ writing \in Nat
    /\ bucket \in [Doors -> Nat] /\ suppressed \in [Doors -> Nat]
    /\ failures \in Nat /\ told \in Nat /\ pending \in Nat /\ dropped \in Nat
    /\ evicted \in Nat /\ boots \in Nat
    /\ queue \in Seq(AuditLines) /\ writer \in AuditLines \cup {"none"}
    /\ closing \in {"open", "flushing", "closed"}

\* Only the body of a write is awaited before its handler.
BodiesAreWrites == \A q \in Calls : calls[q].at = "body" => IsWrite(calls[q].kind)

\* What the flush waits for beyond the lines under way is at most one task for each
\* line that a daemon token's line put out.
Waited == Len(queue) + (IF writer = "none" THEN 0 ELSE 1)
TasksAreLines ==
    /\ Waited <= pending /\ pending <= Waited + boots /\ pending <= Waited + dropped

GateInv == GateTypeOK /\ BodiesAreWrites /\ TasksAreLines /\ GateIsExact

=============================================================================
