----------------------------- MODULE LlmRouter ------------------------------
(***************************************************************************)
(* The chat route of hive_mind_proxy.py: a daemon's request walks the pool *)
(* of LLM backends, forward only, until one answers.  A backend has slots  *)
(* and a cooldown.  A reply that was paid for must not be asked for again: *)
(* a walk that ends badly after one is a 422 "backlog", which the daemon   *)
(* parks, and not a fault, which the daemon retries in its next cycle.     *)
(*                                                                         *)
(* The gateway is one asyncio process: a step runs from one await to the   *)
(* next, so leaving a backend, choosing another and taking its slot is one *)
(* step.                                                                   *)
(***************************************************************************)
EXTENDS Integers, FiniteSets, Sequences

CONSTANTS
    Calls,          \* chat requests
    Backends,       \* entries of LLM_BACKENDS_JSON
    NoBackend,
    Index,          \* position in the declaration
    Priority, NCtx, MaxOutput,
    SelfHosted,     \* backends on a private path
    Keyed,          \* backends that name a token
    KeyFilled,      \* those whose token file has a value
    TransportOk,    \* those whose URL may carry a bearer token
    Cap,            \* max_inflight of the backends in DOMAIN Cap
    MaxWait,        \* backends that declare max_wait_s
    Framework,      \* the calls of a framework daemon
    Prefixes,       \* prompt prefixes (affinity keys)
    Sizes,          \* prompt estimates, in tokens
    FitMargin,      \* FIT_MARGIN, in percent
    MoveOnDown,     \* LLM_MOVE_ON_DOWN
    LLM_FAIL_THRESHOLD, LLM_HTTP_FAIL_THRESHOLD

ASSUME BackendAssumption ==
    /\ IsFiniteSet(Calls) /\ IsFiniteSet(Backends) /\ NoBackend \notin Backends /\ Index \in [Backends -> Nat]
    /\ \A a, b \in Backends : Index[a] = Index[b] => a = b
    /\ {Priority, NCtx, MaxOutput} \subseteq [Backends -> Nat]
    /\ Cap \in [DOMAIN Cap -> Nat \ {0}]
    /\ Sizes \subseteq Nat /\ FitMargin \in 0..99 /\ MoveOnDown \in BOOLEAN
    /\ {LLM_FAIL_THRESHOLD, LLM_HTTP_FAIL_THRESHOLD} \subseteq Nat \ {0}

VARIABLES
    inflight,   \* _llm_inflight
    fails,      \* _llm_fail_times: failures still in the window
    cooled,     \* backends whose _llm_unhealthy_until has not passed
    affinity,   \* _llm_affinity: the backend that served a prefix, while warm
    pc,         \* each call: idle, wait (for a slot), try, done
    size, prefix,
    order,      \* each call: the qualifying backends in the order of the walk
    at,         \* each call: index in order
    floor,      \* each call: floor_n, floor_room, and which one is strict
    sawReply,   \* each call: saw_reply
    reply,      \* each call: what the client was answered
    tried       \* each call: the backends it was sent to and how that ended (history)

poolVars == <<inflight, fails, cooled, affinity>>
walkVars == <<pc, size, prefix, order, at, floor, sawReply, reply, tried>>
vars     == <<poolVars, walkVars>>

Reasons == {"no_context", "connection_lost", "loop", "cut_off", "unparseable"}
\* complete: a stored answer.  queued, fault: the daemon asks again.
Replies == Reasons \cup {"none", "complete", "queued", "fault", "no_backend", "refused", "gone"}
NoFloor == [n |-> 0, room |-> 0, strict |-> "none"]

-----------------------------------------------------------------------------
\* _load_llm_backends: a backend without its key, or whose URL may not carry
\* one, is left out of the pool.
Pool == {b \in Backends : b \in Keyed => b \in KeyFilled /\ b \in TransportOk}

\* request_sizing: what the window leaves for the prompt, and what a try may spend.
ContextRoom(b, est) == (NCtx[b] * (100 - FitMargin)) \div 100 - est
Qualifies(b, est) == NCtx[b] > 0 /\ (NCtx[b] * (100 - FitMargin)) \div 100 >= 2 * est
ReplyRoom(b, est) == IF MaxOutput[b] < ContextRoom(b, est) THEN MaxOutput[b] ELSE ContextRoom(b, est)

\* _at_cap, for the slots s.
FullOffByOne(b, s) == b \in DOMAIN Cap /\ s[b] > Cap[b]
Full(b, s) == b \in DOMAIN Cap /\ s[b] >= Cap[b]

\* The sort key of _order_backends, and what the stable sort by it returns.
SortKey(b, p) ==
    <<Priority[b], NCtx[b], IF b \in SelfHosted THEN 0 ELSE 1, inflight[b],
      IF affinity[p] = b THEN 0 ELSE 1, Index[b]>>
Before(k, l) == \E i \in DOMAIN k : k[i] < l[i] /\ \A j \in 1..(i - 1) : k[j] = l[j]
OrderBackends(est, p) ==
    LET S == {b \in Pool : Qualifies(b, est)}
    IN  {q \in [1..Cardinality(S) -> S] :
            \A i, j \in DOMAIN q : i < j => Before(SortKey(q[i], p), SortKey(q[j], p))}

\* _meets_floors: not smaller than the try that failed, and larger in the
\* dimension that failed.
MeetsFloorsWeakly(b, est, f) == NCtx[b] >= f.n /\ ReplyRoom(b, est) >= f.room
MeetsFloors(b, est, f) ==
    /\ IF f.strict = "n" THEN NCtx[b] > f.n ELSE NCtx[b] >= f.n
    /\ IF f.strict = "room" THEN ReplyRoom(b, est) > f.room ELSE ReplyRoom(b, est) >= f.room

First(S) == CHOOSE i \in S : \A j \in S : i <= j

\* _next_index and _free_self_hosted_peer; 0 is None.
NextIndex(q, i, est, f) ==
    LET S == {j \in DOMAIN q : j > i /\ MeetsFloors(q[j], est, f)}
    IN  IF S = {} THEN 0 ELSE First(S)
FreePeer(q, i, est, f, cool, s) ==
    LET S == {j \in DOMAIN q :
                /\ j > i /\ Priority[q[j]] = Priority[q[i]] /\ q[j] \in SelfHosted
                /\ ~Full(q[j], s) /\ q[j] \notin cool
                /\ MeetsFloors(q[j], est, f)}
    IN  IF S = {} THEN 0 ELSE First(S)

\* The loop of _walk_llm up to its next await: past cooled backends, past busy
\* ones if a peer is free, to a wait, a try or the end of the walk.  The
\* cooldowns are those of cool, the slots those of s.
Land(q, from, est, f, cool, s) ==
    LET ahead == {j \in DOMAIN q : j > from /\ MoveOnDown /\ MeetsFloors(q[j], est, f)}
        up    == {j \in {from} \cup ahead : q[j] \notin cool}
        i     == First(up)
        spare == FreePeer(q, i, est, f, cool, s)
    IN  IF up = {} THEN [step |-> "end", at |-> from]
        ELSE IF ~Full(q[i], s) THEN [step |-> "try", at |-> i]
        ELSE IF spare # 0 THEN [step |-> "try", at |-> spare]
        ELSE [step |-> "wait", at |-> i]

-----------------------------------------------------------------------------
\* What one try can end in: a transport failure (or a body that
\* cannot be decompressed), or a status with a body.  A 2xx
\* body is not JSON (html or not), JSON without a usable choice, a whole answer,
\* a cut-off one or a loop, and is paid for unless it is html; the body of an
\* error may carry usage.
Transport == {"connect_timeout", "refused", "reset", "lost", "max_wait", "error", "compressed"}
Statuses  == {"context", "auth", "502", "503", "500", "429", "4xx"}
Bodies    == {"html", "garbled", "no_choice", "stop", "length", "loop"}
Outcomes  ==
    [what : Transport, usage : {FALSE}] \cup [what : Statuses, usage : BOOLEAN]
    \cup [what : Bodies, usage : {FALSE}]

\* How a try that was sent ends, as the walk sees it.
Ends == {"open", "down", "rate", "lost", "proxy_error", "server", "queued", "context", "auth",
         "loop", "cut_off", "unparseable", "complete"}

\* _interpret_llm_reply and the except clauses of _one_llm_try.
Kind(b, o) ==
    CASE o.what \in {"connect_timeout", "refused", "502"} -> "down"
      [] o.what = "503" -> IF b \in SelfHosted THEN "server" ELSE "down"
      [] o.what = "429" -> "rate"
      [] o.what \in {"reset", "lost", "max_wait"} -> "lost"
      [] o.what = "error" -> "proxy_error"
      [] o.what = "500" -> "server"
      [] o.what \in {"4xx", "html"} -> "queued"
      [] o.what \in {"garbled", "compressed", "no_choice"} -> "unparseable"
      [] o.what = "stop" -> "complete"
      [] o.what = "length" -> "cut_off"
      [] OTHER -> o.what

\* "accepted": the backend may have charged for this try.
Paid(o) ==
    \/ o.usage
    \/ o.what \in {"lost", "max_wait", "compressed", "garbled", "no_choice", "stop", "length", "loop"}

\* _llm_mark_fail and _llm_mark_ok.
FailLimit(o) ==
    IF o.what = "429" THEN LLM_HTTP_FAIL_THRESHOLD ELSE LLM_FAIL_THRESHOLD
MarksFail(o) == o.what \in {"connect_timeout", "refused", "429"}
MarksOk(o)   == o.what \in {"context", "auth", "4xx"} \cup Bodies
Trips(b, o)  == MarksFail(o) /\ fails[b] + 1 >= FailLimit(o)
FailsAfter(b, o) ==
    IF MarksOk(o) \/ Trips(b, o) THEN 0 ELSE IF MarksFail(o) THEN fails[b] + 1 ELSE fails[b]

\* A fault that the daemon may ask again after, unless a try was paid for.
AskAgain(saw, r) == r
AfterReplyOrQueue(saw, r) == IF saw THEN "connection_lost" ELSE r

-----------------------------------------------------------------------------
TypeOK ==
    /\ inflight \in [Backends -> Nat] /\ fails \in [Backends -> Nat] /\ cooled \subseteq Backends
    /\ affinity \in [Prefixes -> Backends \cup {NoBackend}]
    /\ pc \in [Calls -> {"idle", "wait", "try", "done"}]
    /\ size \in [Calls -> Sizes] /\ prefix \in [Calls -> Prefixes]
    /\ order \in [Calls -> Seq(Backends)] /\ at \in [Calls -> Nat]
    /\ floor \in [Calls -> [n : Nat, room : Int, strict : {"none", "n", "room"}]]
    /\ sawReply \in [Calls -> BOOLEAN]
    /\ reply \in [Calls -> Replies] /\ tried \in [Calls -> Seq([b : Backends, end : Ends])]

Init ==
    /\ inflight = [b \in Backends |-> 0] /\ fails = [b \in Backends |-> 0] /\ cooled = {}
    /\ affinity = [p \in Prefixes |-> NoBackend]
    /\ pc = [c \in Calls |-> "idle"]
    /\ size \in [Calls -> Sizes] /\ prefix \in [Calls -> Prefixes]
    /\ order = [c \in Calls |-> <<>>] /\ at = [c \in Calls |-> 0]
    /\ floor = [c \in Calls |-> NoFloor]
    /\ sawReply = [c \in Calls |-> FALSE]
    /\ reply = [c \in Calls |-> "none"] /\ tried = [c \in Calls |-> <<>>]

\* The handler returns; its locals are gone.
Answered(c, r) ==
    /\ pc' = [pc EXCEPT ![c] = "done"] /\ reply' = [reply EXCEPT ![c] = r]
    /\ order' = [order EXCEPT ![c] = <<>>] /\ at' = [at EXCEPT ![c] = 0]
    /\ floor' = [floor EXCEPT ![c] = NoFloor] /\ tried' = [tried EXCEPT ![c] = <<>>]

\* Go on with the walk at index i under floor f; s are the slots that are taken.
GoOn(c, q, i, f, saw, cool, s, h) ==
    \E l \in {Land(q, i, size[c], f, cool, s)} :
        IF l.step = "end"
        THEN /\ Answered(c, AfterReplyOrQueue(saw, "queued"))
             /\ inflight' = s
        ELSE /\ order' = [order EXCEPT ![c] = q] /\ pc' = [pc EXCEPT ![c] = l.step] /\ at' = [at EXCEPT ![c] = l.at]
             /\ floor' = [floor EXCEPT ![c] = f]
             /\ IF l.step = "try"
                THEN /\ inflight' = [s EXCEPT ![q[l.at]] = @ + 1]
                     /\ tried' = [h EXCEPT ![c] = Append(@, [b |-> q[l.at], end |-> "open"])]
                ELSE inflight' = s /\ tried' = h
             /\ UNCHANGED reply

\* handle_proxy and the start of _walk_llm.
Enter(c) ==
    /\ pc[c] = "idle"
    /\ \E q \in OrderBackends(size[c], prefix[c]) :
              IF c \notin Framework THEN Answered(c, "refused") /\ UNCHANGED inflight
              ELSE IF Pool = {} THEN Answered(c, "no_backend") /\ UNCHANGED inflight
              ELSE IF q = <<>> THEN Answered(c, "no_context") /\ UNCHANGED inflight
              ELSE GoOn(c, q, 1, NoFloor, FALSE, cooled, inflight, tried)
    /\ UNCHANGED <<fails, cooled, affinity, size, prefix, sawReply>>

\* _wait_until_under_cap ends: the slot is free and is taken, whatever else has
\* happened to the backend.
SlotFrees(c) ==
    /\ pc[c] = "wait"
    /\ LET b == order[c][at[c]]
       IN  /\ ~Full(b, inflight)
           /\ pc' = [pc EXCEPT ![c] = "try"] /\ inflight' = [inflight EXCEPT ![b] = @ + 1]
           /\ tried' = [tried EXCEPT ![c] = Append(@, [b |-> b, end |-> "open"])]
    /\ UNCHANGED <<order, at, floor, reply, fails, cooled, affinity, size, prefix, sawReply>>

\* _release_llm_slot; the other form keeps the slot of a try that failed.
ReleasedUnlessLost(b, o) == IF o.what = "max_wait" THEN inflight ELSE [inflight EXCEPT ![b] = @ - 1]
Released(b, o) == [inflight EXCEPT ![b] = @ - 1]

\* A try ends.  The slot is released, the backend is marked, and the walk
\* answers or goes on to its next wait or try.
TryEnds(c, o) ==
    /\ pc[c] = "try" /\ (o.what = "max_wait" => order[c][at[c]] \in MaxWait)
    /\ LET b == order[c][at[c]]
           k == Kind(b, o)
           q == order[c]
           s == Released(b, o)
           saw == sawReply[c] \/ Paid(o)
           h == [tried EXCEPT ![c][Len(tried[c])].end = k]
           cool == IF Trips(b, o) THEN cooled \cup {b} ELSE cooled
           f == CASE k = "context" -> [n |-> NCtx[b], room |-> ReplyRoom(b, size[c]), strict |-> "n"]
                  [] k = "cut_off" -> [n |-> NCtx[b], room |-> ReplyRoom(b, size[c]), strict |-> "room"]
                  [] OTHER -> floor[c]
           next == NextIndex(q, at[c], size[c], f)
       IN  /\ fails' = [fails EXCEPT ![b] = FailsAfter(b, o)] /\ cooled' = cool
           /\ sawReply' = [sawReply EXCEPT ![c] = saw]
           /\ affinity' = IF k = "complete" THEN [affinity EXCEPT ![prefix[c]] = b] ELSE affinity
           /\ \/ /\ k \in {"down", "rate", "context", "cut_off"} /\ next # 0
                 /\ k \in {"down", "rate"} => MoveOnDown
                 /\ GoOn(c, q, next, f, saw, cool, s, h)
              \/ /\ \/ k \in {"down", "rate"} /\ (next = 0 \/ ~MoveOnDown)
                       /\ Answered(c, AfterReplyOrQueue(saw, "queued"))
                    \/ k = "context" /\ next = 0 /\ Answered(c, "no_context")
                    \/ k = "cut_off" /\ next = 0 /\ Answered(c, "cut_off")
                    \/ k = "lost" /\ Answered(c, "connection_lost")
                    \/ k \in {"loop", "unparseable", "complete"} /\ Answered(c, k)
                    \/ k = "queued" /\ Answered(c, AfterReplyOrQueue(saw, "queued"))
                    \/ k \in {"auth", "server", "proxy_error"}
                       /\ Answered(c, AfterReplyOrQueue(saw, "fault"))
                 /\ inflight' = s
    /\ UNCHANGED <<size, prefix>>

\* The client has left: a waiting walk sees its transport closing, a try is
\* cancelled.  The slot is released, nothing is answered.
Cancelled(c) ==
    /\ pc[c] \in {"wait", "try"} /\ Answered(c, "gone")
    /\ inflight' = IF pc[c] = "try" THEN [inflight EXCEPT ![order[c][at[c]]] = @ - 1] ELSE inflight
    /\ UNCHANGED <<fails, cooled, affinity, size, prefix, sawReply>>

\* Time passes: LLM_COOLDOWN, LLM_FAIL_WINDOW, AFFINITY_TTL.
CooldownEnds(b) ==
    /\ b \in cooled /\ cooled' = cooled \ {b}
    /\ UNCHANGED <<inflight, fails, affinity, walkVars>>

FailureAges(b) ==
    /\ fails[b] > 0 /\ fails' = [fails EXCEPT ![b] = @ - 1]
    /\ UNCHANGED <<inflight, cooled, affinity, walkVars>>

AffinityAges(p) ==
    /\ affinity[p] # NoBackend /\ affinity' = [affinity EXCEPT ![p] = NoBackend]
    /\ UNCHANGED <<inflight, fails, cooled, walkVars>>

Next ==
    \/ \E c \in Calls :
        Enter(c) \/ SlotFrees(c) \/ Cancelled(c) \/ \E o \in Outcomes : TryEnds(c, o)
    \/ \E b \in Backends : CooldownEnds(b) \/ FailureAges(b)
    \/ \E p \in Prefixes : AffinityAges(p)

Spec == Init /\ [][Next]_vars

\* The event loop polls, and a try with max_wait_s ends.  A backend without it
\* may generate for ever: nothing is assumed of it.
Fairness ==
    \A c \in Calls :
        /\ WF_vars(Enter(c)) /\ WF_vars(SlotFrees(c))
        /\ WF_vars(TryEnds(c, [what |-> "max_wait", usage |-> FALSE]))

FairSpec == Spec /\ Fairness

-----------------------------------------------------------------------------
Trying(b) == {c \in Calls : pc[c] = "try" /\ order[c][at[c]] = b}

\* _llm_inflight counts exactly the requests that are at a backend, however
\* they end, and never exceeds the declared max_inflight: two walks that wait
\* for one slot do not both take it.
SlotsAccounted ==
    \A b \in Backends :
        inflight[b] = Cardinality(Trying(b)) /\ (b \in DOMAIN Cap => inflight[b] <= Cap[b])

\* "A paid ending that would have queued is connection_lost, or the paid try
\* would repeat" (_walk_llm): after a try that may have been charged, on this or
\* on an earlier backend, no answer sends the daemon round again.
PaidIsNotRepeated ==
    \A c \in Calls : sawReply[c] => reply[c] \notin {"queued", "fault", "no_backend"}

\* "Try each qualifying backend once, forward only", and "a later try is never
\* smaller than the failed try": over every chain of failures no backend is
\* asked twice, and after a context refusal (a cut-off reply) each later one
\* has a larger window (more room) and no less of the other.
NotSmaller(a, b, est) ==
    a.end \in {"context", "cut_off"} =>
        /\ NCtx[b] >= NCtx[a.b] /\ ReplyRoom(b, est) >= ReplyRoom(a.b, est)
        /\ a.end = "context" => NCtx[b] > NCtx[a.b]
        /\ a.end = "cut_off" => ReplyRoom(b, est) > ReplyRoom(a.b, est)

NeverSmaller ==
    \A c \in Calls : \A i, j \in DOMAIN tried[c] : i < j =>
        /\ tried[c][i].b # tried[c][j].b
        /\ NotSmaller(tried[c][i], tried[c][j].b, size[c])

\* Where every backend declares max_wait_s, each request is answered: no two
\* walks wait for each other's slots for ever, although the wait for a slot has
\* no deadline.
EveryWalkEnds == \A c \in Calls : pc[c] # "idle" ~> pc[c] = "done"

-----------------------------------------------------------------------------
(***************************************************************************)
(* The invariants behind the three properties.                             *)
(***************************************************************************)
Walking(c) == pc[c] \in {"wait", "try"}

\* A walk is at one of its backends; a try is the last one of the walk and open.
WalkOK ==
    \A c \in Calls :
        /\ Walking(c) => at[c] \in DOMAIN order[c]
        /\ \A i, j \in DOMAIN order[c] : order[c][i] = order[c][j] => i = j
        /\ pc[c] = "idle" => ~sawReply[c] /\ tried[c] = <<>>
        /\ pc[c] # "done" => reply[c] = "none"
        /\ pc[c] = "try" =>
              tried[c] # <<>> /\ tried[c][Len(tried[c])] = [b |-> order[c][at[c]], end |-> "open"]

\* What was tried is behind, and whatever meets the floor is not smaller than it.
PathOK ==
    \A c \in Calls : Walking(c) => \A i \in DOMAIN tried[c] :
        /\ \E m \in 1..at[c] : order[c][m] = tried[c][i].b
        /\ \A b \in Backends : MeetsFloors(b, size[c], floor[c]) => NotSmaller(tried[c][i], b, size[c])

\* The backend waited for is one that may be tried next.
WaitOK ==
    \A c \in Calls : pc[c] = "wait" => \A i \in DOMAIN tried[c] :
        /\ tried[c][i].b # order[c][at[c]]
        /\ NotSmaller(tried[c][i], order[c][at[c]], size[c])

WalkInv ==
    /\ TypeOK /\ WalkOK /\ PathOK /\ WaitOK
    /\ SlotsAccounted /\ PaidIsNotRepeated /\ NeverSmaller

=============================================================================
